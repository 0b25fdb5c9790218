------------------------------- MODULE Mailbox -------------------------------
(***************************************************************************)
(* What an agent may expect of an MTP service: the answers it receives are *)
(* answers to its own requests.  One may come twice, or never.             *)
(***************************************************************************)
CONSTANTS Agents, Requests, None

VARIABLES
    asker,   \* asker[n]: the agent that sent request n
    inbox    \* inbox[a]: requests a has received the answer of

Init ==
    /\ asker = [n \in Requests |-> None]
    /\ inbox = [a \in Agents |-> {}]

Ask(a, n) ==
    /\ asker[n] = None
    /\ asker' = [asker EXCEPT ![n] = a]
    /\ UNCHANGED inbox

Receive(a, n) ==
    /\ asker[n] = a
    /\ inbox' = [inbox EXCEPT ![a] = @ \cup {n}]
    /\ UNCHANGED asker

Next == \E a \in Agents, n \in Requests : Ask(a, n) \/ Receive(a, n)

Spec == Init /\ [][Next]_<<asker, inbox>>
=============================================================================
