-------------------------- MODULE MCForusBotsClient --------------------------
(* Small instances of the client of the scraping service. *)
EXTENDS ForusBotsClient, TLC

Alike == Permutations(Callers) \cup Permutations(Requests)

=============================================================================
