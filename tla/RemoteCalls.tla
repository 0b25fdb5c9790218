----------------------------- MODULE RemoteCalls -----------------------------
(***************************************************************************)
(* What api-gateway may expect of an operation it asks data-service for    *)
(* over Kafka.  A call ends at most once.  A call that is answered has     *)
(* been executed; one that has failed, or whose gateway is gone, may have  *)
(* been executed, may be later, and may be more than once.                 *)
(***************************************************************************)
EXTENDS Naturals

CONSTANTS
    Requests,   \* calls, each with a correlation id of its own
    Gateways,   \* api-gateway processes
    Home        \* Home[r]: the process that makes call r

VARIABLES
    status,     \* status[r]: how call r has ended, if it has
    executed    \* executed[r]: times data-service has run the operation

Init ==
    /\ status = [r \in Requests |-> "idle"]
    /\ executed = [r \in Requests |-> 0]

Call(r) ==
    /\ status[r] = "idle"
    /\ status' = [status EXCEPT ![r] = "open"]
    /\ UNCHANGED executed

Execute(r) ==
    /\ status[r] # "idle"
    /\ executed' = [executed EXCEPT ![r] = @ + 1]
    /\ UNCHANGED status

Answer(r) ==
    /\ status[r] = "open"
    /\ executed[r] > 0
    /\ status' = [status EXCEPT ![r] = "answered"]
    /\ UNCHANGED executed

Fail(r) ==
    /\ status[r] = "open"
    /\ status' = [status EXCEPT ![r] = "failed"]
    /\ UNCHANGED executed

\* The process ends, and its open calls with it.
Lose(g) ==
    /\ status' = [r \in Requests |->
                     IF Home[r] = g /\ status[r] = "open" THEN "lost"
                     ELSE status[r]]
    /\ UNCHANGED executed

Next ==
    \/ \E r \in Requests : Call(r) \/ Execute(r) \/ Answer(r) \/ Fail(r)
    \/ \E g \in Gateways : Lose(g)

Spec == Init /\ [][Next]_<<status, executed>>
=============================================================================
