--------------------------- MODULE MCReviewConsole -----------------------------
(***************************************************************************)
(* The review console, part by part in one run: the remediation batches,   *)
(* the retention, the imports and the listings.  The parts are checked on  *)
(* documents of their own: a behaviour picks one part and leaves the       *)
(* others at their initial states.  Retention and imports have the reviews *)
(* of ReviewStore in common; each works on as much of them as its own      *)
(* questions need.                                                         *)
(***************************************************************************)
EXTENDS ReviewBatches, ReviewRetention, ReviewImports, ReviewReads, TLC

VARIABLE part

Change == [move |-> "none", assign |-> "p", res |-> "none", reopen |-> FALSE]

\* A chunk of two rows and the same rows reversed.
Chunk(key, reversing, ver) ==
  [key |-> key, reversing |-> reversing,
   rows |-> [r \in 1 .. 2 |-> [ver |-> ver, patch |-> Change]]]

SentChunks == {Chunk("k1", FALSE, 1), Chunk("k2", TRUE, 2)}

SentPatches == {Change}

SentKeys == {"k1", "k2"} \X (0 .. 2)

ASSUME /\ RetentionAssumption /\ PatchesAssumption /\ AbsentAssumption
       /\ BudgetsAssumption /\ ImportAssumption /\ ChunksAssumption

importVars == <<import, rows, attempt>>

CInit ==
  /\ part \in {"batches", "retention", "imports", "listings"}
  /\ BatchInit /\ ReadInit
  /\ run = [w \in Runs |-> Idle]
  /\ IF part = "imports"
     THEN IInit
     ELSE /\ Init
          /\ import = Absent
          /\ rows = [r \in Reviews |-> Absent]
          /\ attempt = [a \in Attempts |-> Resting]

OtherVars(p) ==
  /\ part = p /\ UNCHANGED part
  /\ p # "batches"   => UNCHANGED bvars
  /\ p # "retention" => UNCHANGED run
  /\ p # "imports"   => UNCHANGED importVars
  /\ p # "listings"  => UNCHANGED wvars
  /\ p \notin {"retention", "imports"} => UNCHANGED vars

\* Retention: one review with one link, edited without idempotency keys and
\* only while it is at its first version.
Retention ==
  /\ UNCHANGED keys
  /\ IF Live(1) => review[1].ver = 1
     THEN RNext
     ELSE \/ Tick /\ UNCHANGED run
          \/ \E w \in Runs : (\E n \in Budgets : Scan(w, n)) \/ RunStep(w) \/ RunEnds(w)
  /\ UNCHANGED review[2]

CNext ==
  \/ OtherVars("batches")   /\ BatchNext
  \/ OtherVars("retention") /\ Retention
  \/ OtherVars("imports")   /\ UNCHANGED now /\ INext
  \/ OtherVars("listings")  /\ ReadNext

CVars == <<part, vars, bvars, wvars, run, importVars>>

\* The fairness of IFairSpec, for the behaviours that are about imports.
CSpec ==
  /\ CInit /\ [][CNext]_CVars
  /\ WF_CVars(OtherVars("imports") /\ CreateImport("admin"))
  /\ \A a \in Attempts : WF_CVars(OtherVars("imports") /\ Proceeds(a))
  /\ \A a \in Attempts, c \in Chunks :
       SF_CVars(OtherVars("imports") /\ StartChunk(a, c, "admin"))
  /\ DeathsEnd

-----------------------------------------------------------------------------
\* In the behaviours that are about imports, a chunk sent again and again is
\* counted, none of its rows shut out by the key of another.
SentChunksGetThrough == part = "imports" => ChunksGetThrough
=============================================================================
