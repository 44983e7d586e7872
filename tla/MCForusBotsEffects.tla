------------------------- MODULE MCForusBotsEffects -------------------------
(* Small instances of the effect ledger. *)
EXTENDS ForusBotsEffects, TLC

Alike == Permutations(Attempts) \cup Permutations(Mappings)
           \cup Permutations(Ops)

=============================================================================
