--------------------------- MODULE MCTicketWorkers ---------------------------
(* Small instances of the attempts over the store. *)
EXTENDS TicketWorkers, TLC

Interchangeable == Permutations(Attempts)

=============================================================================
