----------------------------- MODULE MCForusBots -----------------------------
(***************************************************************************)
(* The effect ledger of one inquiry, and the client of the scraping        *)
(* service, whose tasks the ledger's submissions are.  A behaviour is      *)
(* about one of three: the ledger; a client with requests of every kind    *)
(* and room for two; a crowded client with room for one, whose callers     *)
(* all ask for the same.                                                   *)
(***************************************************************************)
EXTENDS ForusBotsEffects, ForusBotsClient, TLC

VARIABLE part

\* The crowded client's constants are in the configuration.
Client ==
    INSTANCE ForusBotsClient WITH
        Callers <- {"w1", "w2", "w3"}, Requests <- {"q1", "q2"}, Keys <- {"k"},
        Kinds <- {"shared", "observed", "plain", "resume"},
        Replies <- {"accepted", "lost", "unsent", "refused", "conflict", "undecodable"},
        Permits <- 2, Threshold <- 1, HttpTries <- 2

ASSUME Client!ClientParameters /\ ClientParameters

\* Attempts, field mappings and operations are alike.
Alike == Permutations(Attempts) \cup Permutations(Mappings) \cup Permutations(Ops)

\* The third request of the roomy client stays free.
FInit == part \in {"ledger", "client", "crowd"} /\ Init /\ TasksInit

FNext ==
    \/ part = "ledger" /\ Next        /\ UNCHANGED <<part, clientVars>>
    \/ part = "client" /\ Client!TasksNext /\ UNCHANGED <<part, effectVars>>
    \/ part = "crowd"  /\ TasksNext        /\ UNCHANGED <<part, effectVars>>

FSpec == FInit /\ [][FNext]_<<part, effectVars, clientVars>>

=============================================================================
