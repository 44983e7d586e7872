-------------------------- MODULE MCTicketDelivery --------------------------
(* Small instances of the whole delivery path. *)
EXTENDS TicketDelivery, TLC

=============================================================================
