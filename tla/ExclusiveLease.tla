--------------------------- MODULE ExclusiveLease ---------------------------
(***************************************************************************)
(* What every lease of this program promises, whatever it is a lease on:   *)
(* a thing has one holder at a time, a holder who keeps within its time is *)
(* never displaced by another, and time runs forward. The holder may give  *)
(* the thing up early; once its time is over anybody may take it. Who      *)
(* renews may judge his own time by a clock that lags: a lease nobody took *)
(* is then prolonged up to Lag after its end. Who takes never gains by it. *)
(***************************************************************************)
EXTENDS Naturals

CONSTANTS Things, Holders, Nobody,
          Lag   \* how old the reading may be by which a renewal is judged

VARIABLES holder,   \* [Things -> Holders \cup {Nobody}]
          until,    \* [Things -> Nat], when the holder's time is over
          clock

vars == <<holder, until, clock>>

Init ==
  /\ holder = [t \in Things |-> Nobody]
  /\ until \in [Things -> Nat]
  /\ clock \in Nat

Held(t) == holder[t] # Nobody /\ clock < until[t]

\* What a step may do to the time of t: nothing to anybody else's.
Retimes(t) == until' = [until EXCEPT ![t] = until'[t]] /\ until'[t] \in Nat

\* A holder is installed only over nobody or over one whose time is over, and
\* is another one then: who comes back after his time does not come back as
\* who he was.
Acquire(t) ==
  /\ ~Held(t)
  /\ holder'[t] \in Holders /\ holder'[t] # holder[t]
  /\ holder' = [holder EXCEPT ![t] = holder'[t]]
  /\ Retimes(t) /\ until'[t] > clock
  /\ UNCHANGED clock

\* A lease is prolonged by who has it, while it runs by a reading at most Lag
\* old, and is running then. It is not cut by more than that either.
Renew(t) ==
  /\ holder[t] # Nobody /\ clock < until[t] + Lag
  /\ Retimes(t) /\ until'[t] > clock /\ until'[t] + Lag >= until[t]
  /\ UNCHANGED <<holder, clock>>

Release(t) ==
  /\ holder[t] # Nobody
  /\ holder' = [holder EXCEPT ![t] = Nobody]
  /\ Retimes(t)
  /\ UNCHANGED clock

Advance == clock' \in Nat /\ clock' > clock /\ UNCHANGED <<holder, until>>

Next == Advance \/ \E t \in Things : Acquire(t) \/ Renew(t) \/ Release(t)

Spec == Init /\ [][Next]_vars
=============================================================================
