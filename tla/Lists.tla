------------------------------- MODULE Lists --------------------------------
(***************************************************************************)
(* Lists and dictionaries as the RAG engine (data_pipeline/rag_engine.py)  *)
(* works on them: what a comprehension keeps, what a stable sort and a     *)
(* loop that extends a list make of them, and an update.                   *)
(***************************************************************************)
EXTENDS Integers, SequencesExt, FiniteSetsExt

\* What a list has at some of its places.
Picked(list, places) ==
    LET upTo[n \in 0 .. Len(list)] ==
          IF n = 0 THEN <<>>
          ELSE IF n \in places THEN Append(upTo[n - 1], list[n]) ELSE upTo[n - 1]
    IN  upTo[Len(list)]

\* What is equal to something before it is left out.
Unique(list) == Picked(list, {i \in DOMAIN list : \A j \in 1 .. i - 1 : list[j] # list[i]})

\* A line with i behind everything that is not after it.
Inserted(line, keys, i) ==
    InsertAt(line, Cardinality({n \in DOMAIN line : keys[line[n]] <= keys[i]}) + 1, i)

\* list.sort, stable; keys[i] is the sort key of list[i].
SortedBy(list, keys) ==
    LET order[n \in 0 .. Len(list)] ==
          IF n = 0 THEN <<>> ELSE Inserted(order[n - 1], keys, n)
        line == order[Len(list)]
    IN  [n \in DOMAIN line |-> list[line[n]]]

\* One list after the other.
Concatenated(lists) ==
    LET upTo[n \in 0 .. Len(lists)] == IF n = 0 THEN <<>> ELSE upTo[n - 1] \o lists[n]
    IN  upTo[Len(lists)]

\* A record with some fields of it set.
With(record, fields) ==
    [f \in DOMAIN record |-> IF f \in DOMAIN fields THEN fields[f] ELSE record[f]]
=============================================================================
