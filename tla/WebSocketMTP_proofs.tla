-------------------------- MODULE WebSocketMTP_proofs --------------------------
(***************************************************************************)
(* Proofs about WebSocketMTP: its types, its registry of connections, and, *)
(* for endpoint ids that are told apart, that it implements Mailbox.       *)
(***************************************************************************)
EXTENDS WebSocketMTP, TLAPS

(***************************************************************************)
(* What the properties rest on.                                            *)
(***************************************************************************)
\* A connection not yet accepted has left no trace; an accepted one has an
\* agent.
Accepted ==
    \A c \in Clients :
        /\ pc[c] = "none" => link[c] = "none" /\ owner[c] = None
                             /\ received[c] = {} /\ pipe[c] = <<>>
        /\ pc[c] # "none" => owner[c] \in Agents

\* The registered connections are those between Register and Cleanup.
Registered(c) == pc[c] \in {"read", "map", "publish", "cleanup"}
RegisteredOK == connections = {c \in Clients : Registered(c)}

\* A mapping names a registered connection of an agent with that key.
MappingOK ==
    \A k \in Keys : endpointToClient[k] # None =>
        /\ Registered(endpointToClient[k])
        /\ Key(owner[endpointToClient[k]]) = k

\* Whatever is on its way from a connection was asked by its agent.
RequestsOK ==
    \A c \in Clients :
        /\ \A i \in 1 .. Len(pipe[c]) : asker[pipe[c][i]] = owner[c]
        /\ pc[c] \in {"map", "publish"} =>
              held[c] \in Requests /\ asker[held[c]] = owner[c]

\* A message travels under the key of the agent that asked.
Keyed(m) == asker[m.req] \in Agents /\ m.key = Key(asker[m.req])
MessagesOK ==
    /\ \A m \in inbound \cup outbound : Keyed(m)
    /\ task # None => Keyed(task)

\* The handler writes to an agent with the key of its message.
TargetOK ==
    target # None =>
        /\ task # None
        /\ owner[target] \in Agents
        /\ Key(owner[target]) = task.key

\* An answer reaches no agent but those with the key of the one that asked.
AnswersOK ==
    \A c \in Clients : \A n \in received[c] :
        asker[n] \in Agents /\ Key(asker[n]) = Key(owner[c])

IInv ==
    /\ TypeOK /\ Accepted /\ RegisteredOK /\ MappingOK
    /\ RequestsOK /\ MessagesOK /\ TargetOK /\ AnswersOK

(***************************************************************************)
(* Facts about sequences.                                                  *)
(***************************************************************************)
LEMMA Appended ==
    ASSUME NEW S, NEW s \in Seq(S), NEW e \in S
    PROVE  /\ Append(s, e) \in Seq(S)
           /\ Len(Append(s, e)) = Len(s) + 1
           /\ \A n \in 1 .. Len(s) : Append(s, e)[n] = s[n]
           /\ Append(s, e)[Len(s) + 1] = e
OBVIOUS

LEMMA Removed ==
    ASSUME NEW S, NEW s \in Seq(S), s # <<>>
    PROVE  /\ Head(s) = s[1] /\ 1 \in 1 .. Len(s)
           /\ Tail(s) \in Seq(S)
           /\ \A n \in 1 .. Len(Tail(s)) :
                 n + 1 \in 1 .. Len(s) /\ Tail(s)[n] = s[n + 1]
OBVIOUS

(***************************************************************************)
(* Initial states.                                                         *)
(***************************************************************************)
LEMMA InitInv == Init => IInv
<1> USE RoutingAssumption DEF Keys
<1> SUFFICES ASSUME Init PROVE IInv
    OBVIOUS
<1>1. TypeOK
    BY DEF Init, TypeOK, Keys
<1>2. Accepted /\ RegisteredOK /\ MappingOK /\ RequestsOK
    BY DEF Init, Accepted, RegisteredOK, Registered, MappingOK, RequestsOK
<1>3. MessagesOK /\ TargetOK /\ AnswersOK
    BY DEF Init, MessagesOK, TargetOK, AnswersOK
<1> QED BY <1>1, <1>2, <1>3 DEF IInv

(***************************************************************************)
(* Agents and the network.                                                 *)
(***************************************************************************)

LEMMA UpgradeInv ==
    ASSUME NEW c \in Clients, NEW a \in Agents, IInv, Upgrade(c, a) PROVE IInv'
<1> USE RoutingAssumption DEF Keys, IInv, sockets, reader, registry, topics, handler, history, Step
<1>1. TypeOK'
    BY DEF Upgrade, TypeOK
<1>2. Accepted'
    BY DEF Upgrade, TypeOK, Accepted
<1>3. RegisteredOK' /\ MappingOK'
    BY DEF Upgrade, TypeOK, Accepted, RegisteredOK, MappingOK, Registered
<1>4. RequestsOK'
    BY DEF Upgrade, TypeOK, Accepted, RequestsOK
<1>5. MessagesOK'
    BY DEF Upgrade, MessagesOK, Keyed
<1>6. TargetOK'
    BY DEF Upgrade, TypeOK, Accepted, TargetOK
<1>7. AnswersOK'
    BY DEF Upgrade, TypeOK, Accepted, AnswersOK
<1> QED BY <1>1, <1>2, <1>3, <1>4, <1>5, <1>6, <1>7

LEMMA DropInv ==
    ASSUME NEW c \in Clients, IInv, Drop(c) PROVE IInv'
<1> USE RoutingAssumption DEF Keys, IInv, sockets, reader, registry, topics, handler, history, Step
<1>1. TypeOK'
    <2>1. <<>> \in Seq(Requests)
        OBVIOUS
    <2>2. pipe' \in [Clients -> Seq(Requests)]
        BY <2>1 DEF Drop, TypeOK
    <2> QED BY <2>2 DEF Drop, TypeOK
<1>2. Accepted'
    <2>1. pc[c] # "none"
        BY DEF Drop, Accepted
    <2>2. \A d \in Clients : d # c => link'[d] = link[d] /\ pipe'[d] = pipe[d]
        BY DEF Drop, TypeOK
    <2> QED BY <2>1, <2>2 DEF Drop, Accepted
<1>3. RequestsOK'
    <2>1. \A d \in Clients : pipe'[d] = pipe[d] \/ pipe'[d] = <<>>
        BY DEF Drop, TypeOK
    <2> QED BY <2>1 DEF Drop, RequestsOK
<1>4. RegisteredOK' /\ MappingOK' /\ MessagesOK' /\ TargetOK' /\ AnswersOK'
    BY DEF Drop, RegisteredOK, MappingOK, Registered, MessagesOK, Keyed, TargetOK, AnswersOK
<1> QED BY <1>1, <1>2, <1>3, <1>4

\* What was asked stays asked by the same agent.
LEMMA AskInv ==
    ASSUME NEW c \in Clients, NEW n \in Requests, IInv, Ask(c, n) PROVE IInv'
<1> USE RoutingAssumption DEF Keys, IInv, sockets, reader, registry, topics, handler, history, Step
<1>1. owner[c] \in Agents /\ pc[c] # "none"
    BY DEF Ask, TypeOK, Accepted
<1>2. \A q \in Requests : asker[q] # None => asker'[q] = asker[q]
    BY DEF Ask, TypeOK
<1>3. /\ pipe' = [pipe EXCEPT ![c] = Append(@, n)]
      /\ pipe[c] \in Seq(Requests)
    BY DEF Ask, TypeOK
<1>4. TypeOK'
    BY <1>1, <1>3 DEF Ask, TypeOK
<1>5. Accepted' /\ RegisteredOK' /\ MappingOK'
    BY <1>1, <1>3 DEF Ask, TypeOK, Accepted, RegisteredOK, MappingOK, Registered
<1>6. RequestsOK'
    <2>1. ASSUME NEW d \in Clients, NEW i \in 1 .. Len(pipe'[d])
          PROVE  asker'[pipe'[d][i]] = owner[d]
        <3>1. CASE d = c /\ i = Len(pipe[c]) + 1
            BY <1>3, <3>1, Appended DEF Ask, TypeOK
        <3>2. CASE ~(d = c /\ i = Len(pipe[c]) + 1)
            <4>1. i \in 1 .. Len(pipe[d]) /\ pipe'[d][i] = pipe[d][i]
                BY <1>3, <3>2, <2>1, Appended DEF TypeOK
            <4>2. asker[pipe[d][i]] = owner[d] /\ pipe[d][i] \in Requests
                BY <4>1 DEF RequestsOK, TypeOK
            <4>3. owner[d] # None
                BY <4>1, RoutingAssumption DEF Accepted, TypeOK
            <4> QED BY <1>2, <4>1, <4>2, <4>3
        <3> QED BY <3>1, <3>2
    <2>2. ASSUME NEW d \in Clients, pc[d] \in {"map", "publish"}
          PROVE  held[d] \in Requests /\ asker'[held[d]] = owner[d]
        BY <1>2, <2>2 DEF RequestsOK, Accepted
    <2> QED BY <2>1, <2>2 DEF RequestsOK, Ask
<1>7. MessagesOK'
    BY <1>2 DEF Ask, MessagesOK, Keyed, TypeOK, Message
<1>8. TargetOK'
    BY DEF Ask, TargetOK
<1>9. AnswersOK'
    BY <1>2 DEF Ask, AnswersOK, TypeOK
<1> QED BY <1>4, <1>5, <1>6, <1>7, <1>8, <1>9

(***************************************************************************)
(* handleWebSocket.                                                        *)
(***************************************************************************)
LEMMA RegisterInv ==
    ASSUME NEW c \in Clients, IInv, Register(c) PROVE IInv'
<1> USE RoutingAssumption DEF Keys, IInv, sockets, reader, registry, topics, handler, history, Step
<1>1. TypeOK'
    BY DEF Register, TypeOK
<1>2. Accepted'
    BY DEF Register, TypeOK, Accepted
<1>3. RegisteredOK' /\ MappingOK'
    BY DEF Register, TypeOK, RegisteredOK, MappingOK, Registered
<1>4. RequestsOK'
    BY DEF Register, TypeOK, RequestsOK
<1>5. MessagesOK' /\ TargetOK' /\ AnswersOK'
    BY DEF Register, MessagesOK, Keyed, TargetOK, AnswersOK
<1> QED BY <1>1, <1>2, <1>3, <1>4, <1>5

LEMMA ReadMessageInv ==
    ASSUME NEW c \in Clients, IInv, ReadMessage(c) PROVE IInv'
<1> USE RoutingAssumption DEF Keys, IInv, sockets, reader, registry, topics, handler, history, Step
<1>1. pipe[c] \in Seq(Requests) /\ pipe[c] # <<>>
    BY DEF ReadMessage, TypeOK
<1>2. Head(pipe[c]) \in Requests /\ asker[Head(pipe[c])] = owner[c]
    BY <1>1, Removed DEF RequestsOK
<1>3. TypeOK'
    BY <1>1, <1>2, Removed DEF ReadMessage, TypeOK
<1>4. Accepted'
    BY DEF ReadMessage, TypeOK, Accepted
<1>5. RegisteredOK' /\ MappingOK'
    BY DEF ReadMessage, TypeOK, RegisteredOK, MappingOK, Registered
<1>6. RequestsOK'
    <2>1. ASSUME NEW d \in Clients, NEW i \in 1 .. Len(pipe'[d])
          PROVE  asker[pipe'[d][i]] = owner[d]
        BY <1>1, <2>1, Removed DEF ReadMessage, TypeOK, RequestsOK
    <2>2. ASSUME NEW d \in Clients, pc'[d] \in {"map", "publish"}
          PROVE  held'[d] \in Requests /\ asker[held'[d]] = owner[d]
        BY <1>2, <2>2 DEF ReadMessage, TypeOK, RequestsOK
    <2> QED BY <2>1, <2>2 DEF RequestsOK, ReadMessage
<1>7. MessagesOK' /\ TargetOK' /\ AnswersOK'
    BY DEF ReadMessage, MessagesOK, Keyed, TargetOK, AnswersOK
<1> QED BY <1>3, <1>4, <1>5, <1>6, <1>7

LEMMA ReadErrorInv ==
    ASSUME NEW c \in Clients, IInv, ReadError(c) PROVE IInv'
<1> USE RoutingAssumption DEF Keys, IInv, sockets, reader, registry, topics, handler, history, Step
<1>1. TypeOK'
    BY DEF ReadError, TypeOK
<1>2. Accepted'
    BY DEF ReadError, TypeOK, Accepted
<1>3. RegisteredOK' /\ MappingOK'
    BY DEF ReadError, TypeOK, RegisteredOK, MappingOK, Registered
<1>4. RequestsOK'
    BY DEF ReadError, TypeOK, RequestsOK
<1>5. MessagesOK' /\ TargetOK' /\ AnswersOK'
    BY DEF ReadError, MessagesOK, Keyed, TargetOK, AnswersOK
<1> QED BY <1>1, <1>2, <1>3, <1>4, <1>5

LEMMA MapEndpointInv ==
    ASSUME NEW c \in Clients, IInv, MapEndpoint(c) PROVE IInv'
<1> USE RoutingAssumption DEF Keys, IInv, sockets, reader, registry, topics, handler, history, Step
<1>1. TypeOK'
    BY DEF MapEndpoint, TypeOK, Accepted, Key, Keys
<1>2. Accepted'
    BY DEF MapEndpoint, TypeOK, Accepted
<1>3. RegisteredOK' /\ MappingOK'
    BY DEF MapEndpoint, TypeOK, RegisteredOK, MappingOK, Registered
<1>4. RequestsOK'
    BY DEF MapEndpoint, TypeOK, RequestsOK
<1>5. MessagesOK' /\ TargetOK' /\ AnswersOK'
    BY DEF MapEndpoint, MessagesOK, Keyed, TargetOK, AnswersOK
<1> QED BY <1>1, <1>2, <1>3, <1>4, <1>5

LEMMA PublishInv ==
    ASSUME NEW c \in Clients, IInv, Publish(c) PROVE IInv'
<1> USE RoutingAssumption DEF Keys, IInv, sockets, reader, registry, topics, handler, history, Step
<1>1. TypeOK'
    BY DEF Publish, TypeOK, Accepted, RequestsOK, Key, Keys, Message
<1>2. Accepted'
    BY DEF Publish, TypeOK, Accepted
<1>3. RegisteredOK' /\ MappingOK'
    BY DEF Publish, TypeOK, RegisteredOK, MappingOK, Registered
<1>4. RequestsOK'
    BY DEF Publish, TypeOK, RequestsOK
<1>5. MessagesOK'
    BY DEF Publish, Accepted, RequestsOK, MessagesOK, Keyed
<1>6. TargetOK' /\ AnswersOK'
    BY DEF Publish, TargetOK, AnswersOK
<1> QED BY <1>1, <1>2, <1>3, <1>4, <1>5, <1>6

LEMMA CleanupInv ==
    ASSUME NEW c \in Clients, IInv, Cleanup(c) PROVE IInv'
<1> USE RoutingAssumption DEF Keys, IInv, sockets, reader, registry, topics, handler, history, Step
<1>1. TypeOK'
    BY DEF Cleanup, TypeOK
<1>2. Accepted'
    BY DEF Cleanup, TypeOK, Accepted
<1>3. RegisteredOK' /\ MappingOK'
    BY DEF Cleanup, TypeOK, RegisteredOK, MappingOK, Registered
<1>4. RequestsOK'
    BY DEF Cleanup, TypeOK, RequestsOK
<1>5. MessagesOK' /\ TargetOK' /\ AnswersOK'
    BY DEF Cleanup, MessagesOK, Keyed, TargetOK, AnswersOK
<1> QED BY <1>1, <1>2, <1>3, <1>4, <1>5

LEMMA CloseInv ==
    ASSUME NEW c \in Clients, IInv, Close(c) PROVE IInv'
<1> USE RoutingAssumption DEF Keys, IInv, sockets, reader, registry, topics, handler, history, Step
<1>1. TypeOK'
    BY DEF Close, TypeOK
<1>2. Accepted'
    BY DEF Close, TypeOK, Accepted
<1>3. RegisteredOK' /\ MappingOK'
    BY DEF Close, TypeOK, RegisteredOK, MappingOK, Registered
<1>4. RequestsOK'
    BY DEF Close, TypeOK, RequestsOK
<1>5. MessagesOK' /\ TargetOK' /\ AnswersOK'
    BY DEF Close, MessagesOK, Keyed, TargetOK, AnswersOK
<1> QED BY <1>1, <1>2, <1>3, <1>4, <1>5

(***************************************************************************)
(* usp-service and the outbound handler.                                   *)
(***************************************************************************)
LEMMA AnswerInv ==
    ASSUME NEW m, IInv, Answer(m) PROVE IInv'
<1> USE RoutingAssumption DEF Keys, IInv, sockets, reader, registry, topics, handler, history, Step
<1>1. TypeOK'
    BY DEF Answer, TypeOK, Consumed
<1>2. MessagesOK'
    BY DEF Answer, MessagesOK, Keyed, Consumed
<1>3. Accepted' /\ RegisteredOK' /\ MappingOK' /\ RequestsOK'
    BY DEF Answer, Accepted, RegisteredOK, MappingOK, Registered, RequestsOK
<1>4. TargetOK' /\ AnswersOK'
    BY DEF Answer, TargetOK, AnswersOK
<1> QED BY <1>1, <1>2, <1>3, <1>4

LEMMA FetchInv ==
    ASSUME NEW m, IInv, Fetch(m) PROVE IInv'
<1> USE RoutingAssumption DEF Keys, IInv, sockets, reader, registry, topics, handler, history, Step
<1>1. TypeOK'
    BY DEF Fetch, TypeOK, Consumed
<1>2. MessagesOK'
    BY DEF Fetch, MessagesOK, Keyed, Consumed
<1>3. TargetOK'
    BY DEF Fetch, TargetOK
<1>4. Accepted' /\ RegisteredOK' /\ MappingOK' /\ RequestsOK' /\ AnswersOK'
    BY DEF Fetch, Accepted, RegisteredOK, MappingOK, Registered, RequestsOK, AnswersOK
<1> QED BY <1>1, <1>2, <1>3, <1>4

LEMMA LookupInv ==
    ASSUME IInv, Lookup PROVE IInv'
<1> USE RoutingAssumption DEF Keys, IInv, sockets, reader, registry, topics, handler, history, Step
<1>1. TypeOK'
    BY DEF Lookup, TypeOK
<1>2. MessagesOK'
    BY DEF Lookup, MessagesOK, Keyed
<1>3. TargetOK'
    BY DEF Lookup, TypeOK, Message, TargetOK, RegisteredOK, Registered, MappingOK, Accepted
<1>4. Accepted' /\ RegisteredOK' /\ MappingOK' /\ RequestsOK' /\ AnswersOK'
    BY DEF Lookup, Accepted, RegisteredOK, MappingOK, Registered, RequestsOK, AnswersOK
<1> QED BY <1>1, <1>2, <1>3, <1>4

LEMMA WriteInv ==
    ASSUME IInv, Write PROVE IInv'
<1> USE RoutingAssumption DEF Keys, IInv, sockets, reader, registry, topics, handler, history, Step
<1>1. TypeOK'
    BY DEF Write, TypeOK, TargetOK, Message
<1>2. Accepted'
    BY DEF Write, TypeOK, Accepted, TargetOK
<1>3. AnswersOK'
    BY DEF Write, TypeOK, Message, MessagesOK, Keyed, TargetOK, AnswersOK
<1>4. MessagesOK' /\ TargetOK'
    BY DEF Write, MessagesOK, Keyed, TargetOK
<1>5. RegisteredOK' /\ MappingOK' /\ RequestsOK'
    BY DEF Write, RegisteredOK, MappingOK, Registered, RequestsOK
<1> QED BY <1>1, <1>2, <1>3, <1>4, <1>5

LEMMA RestartInv ==
    ASSUME IInv, Restart PROVE IInv'
<1> USE RoutingAssumption DEF Keys, IInv, sockets, reader, registry, topics, handler, history, Step
<1>1. TypeOK'
    BY DEF Restart, TypeOK
<1>2. Accepted'
    BY DEF Restart, TypeOK, Accepted
<1>3. RegisteredOK' /\ MappingOK'
    BY DEF Restart, TypeOK, RegisteredOK, MappingOK, Registered
<1>4. RequestsOK'
    BY DEF Restart, TypeOK, RequestsOK
<1>5. MessagesOK' /\ TargetOK' /\ AnswersOK'
    BY DEF Restart, MessagesOK, Keyed, TargetOK, AnswersOK
<1> QED BY <1>1, <1>2, <1>3, <1>4, <1>5

(***************************************************************************)
(* The invariant.                                                          *)
(***************************************************************************)
LEMMA NextInv == IInv /\ [Next]_vars => IInv'
<1> SUFFICES ASSUME IInv, [Next]_vars PROVE IInv'
    OBVIOUS
<1>1. ASSUME NEW c \in Clients, Network(c) \/ HandleWebSocket(c) PROVE IInv'
    BY <1>1, AskInv, DropInv, RegisterInv, ReadMessageInv, ReadErrorInv,
       MapEndpointInv, PublishInv, CleanupInv, CloseInv
       DEF Network, HandleWebSocket
<1>2. ASSUME NEW c \in Clients, NEW a \in Agents, Upgrade(c, a) PROVE IInv'
    BY <1>2, UpgradeInv
<1>3. ASSUME NEW m \in inbound, Answer(m) PROVE IInv'
    BY <1>3, AnswerInv
<1>4. CASE Handle \/ Restart
    BY <1>4, FetchInv, LookupInv, WriteInv, RestartInv DEF Handle
<1>5. CASE UNCHANGED vars
    BY <1>5 DEF vars, sockets, reader, registry, topics, handler, history,
       IInv, TypeOK, Accepted, RegisteredOK, MappingOK, Registered, RequestsOK,
       MessagesOK, Keyed, TargetOK, AnswersOK
<1> QED BY <1>1, <1>2, <1>3, <1>4, <1>5 DEF Next

THEOREM Inductive == Spec => []IInv
BY InitInv, NextInv, PTL DEF Spec

-----------------------------------------------------------------------------
(***************************************************************************)
(* Theorems.                                                               *)
(***************************************************************************)
\* Every variable holds a value of its type.
THEOREM TypeCorrect == Spec => []TypeOK
BY Inductive, PTL DEF IInv

\* Whatever number of connections open, fail and are replaced, an endpoint is
\* mapped only to a registered connection.
THEOREM Registry == Spec => []MappedIsConnected
<1>1. IInv => MappedIsConnected
    BY DEF IInv, TypeOK, RegisteredOK, MappingOK, Registered, MappedIsConnected
<1> QED BY <1>1, Inductive, PTL

\* A cleanup leaves the mapping of a newer connection alone.
THEOREM Replacement == Spec => NewerIsKept
<1> DEFINE Kept == \A k \in Keys :
        (endpointToClient[k] # None /\ endpointToClient'[k] = None) =>
            endpointToClient[k] \notin connections'
<1>1. IInv /\ [Next]_vars => Kept \/ UNCHANGED vars
    <2> SUFFICES ASSUME IInv, Next PROVE Kept
        OBVIOUS
    <2> USE RoutingAssumption DEF IInv, sockets, reader, registry, topics,
            handler, history
    <2>1. ASSUME NEW c \in Clients, MapEndpoint(c) PROVE Kept
        BY <2>1 DEF MapEndpoint, TypeOK
    <2>2. ASSUME NEW c \in Clients, Cleanup(c) PROVE Kept
        BY <2>2 DEF Cleanup, TypeOK
    <2>3. CASE Restart
        BY <2>3 DEF Restart
    <2>4. ASSUME NEW c \in Clients,
                 \/ Network(c) \/ (\E a \in Agents : Upgrade(c, a))
                 \/ Register(c) \/ ReadMessage(c) \/ ReadError(c)
                 \/ Publish(c) \/ Close(c)
          PROVE  Kept
        BY <2>4 DEF Network, Drop, Ask, Upgrade, Register, ReadMessage,
           ReadError, Publish, Close
    <2>5. CASE Handle \/ \E m \in inbound : Answer(m)
        BY <2>5 DEF Handle, Answer, Fetch, Lookup, Write
    <2> QED BY <2>1, <2>2, <2>3, <2>4, <2>5 DEF Next, HandleWebSocket
<1> QED BY <1>1, Inductive, PTL DEF Spec, NewerIsKept

\* With endpoint ids that are told apart, an answer is written to no other
\* agent than the one that asked.
THEOREM NoLeakage == DistinctKeys => (Spec => []Isolation)
<1> SUFFICES ASSUME DistinctKeys PROVE Spec => []Isolation
    OBVIOUS
<1>1. IInv => Isolation
    <2> SUFFICES ASSUME IInv, NEW c \in Clients, NEW n \in received[c]
                 PROVE  asker[n] = owner[c]
        BY DEF Isolation
    <2>1. pc[c] # "none"
        BY DEF IInv, Accepted
    <2> QED BY <2>1 DEF IInv, Accepted, AnswersOK, DistinctKeys
<1> QED BY <1>1, Inductive, PTL

(***************************************************************************)
(* The refinement of Mailbox.                                              *)
(***************************************************************************)
Inbox == [a \in Agents |-> {n \in Requests :
             \E c \in Clients : owner[c] = a /\ n \in received[c]}]

\* Steps that touch neither what was asked nor what was received.
LEMMA Invisible ==
    ASSUME UNCHANGED <<owner, asker, received>>
    PROVE  UNCHANGED <<asker, Inbox>>
BY DEF Inbox

LEMMA AskIsAsk ==
    ASSUME NEW c \in Clients, NEW n \in Requests, IInv, Ask(c, n)
    PROVE  Mail!Ask(owner[c], n) /\ owner[c] \in Agents
BY DEF Ask, Mail!Ask, IInv, Accepted, handler

\* A new connection has received nothing.
LEMMA UpgradeIsInvisible ==
    ASSUME NEW c \in Clients, NEW a \in Agents, IInv, Upgrade(c, a)
    PROVE  UNCHANGED <<asker, Inbox>>
<1>1. received[c] = {} /\ \A d \in Clients : d # c => owner'[d] = owner[d]
    BY DEF Upgrade, IInv, TypeOK, Accepted, Step
<1>2. UNCHANGED <<asker, received>>
    BY DEF Upgrade, history
<1> QED BY <1>1, <1>2 DEF Inbox

LEMMA WriteIsReceive ==
    ASSUME DistinctKeys, IInv, Write
    PROVE  \/ \E a \in Agents, n \in Requests : Mail!Receive(a, n)
           \/ UNCHANGED <<asker, Inbox>>
<1>1. CASE link[target] # "up"
    BY <1>1, Invisible DEF Write, sockets
<1>2. CASE link[target] = "up"
    <2> DEFINE n == task.req
               a == owner[target]
    <2>1. target \in Clients /\ n \in Requests /\ a \in Agents
        BY RoutingAssumption DEF Write, IInv, TypeOK, TargetOK, Message
    <2>2. asker[n] = a
        BY DEF Write, IInv, TargetOK, MessagesOK, Keyed, DistinctKeys
    <2>3. received' = [received EXCEPT ![target] = @ \cup {n}]
        BY <1>2 DEF Write
    <2>4. UNCHANGED <<owner, asker>>
        BY DEF Write, sockets
    <2> HIDE DEF n
    <2>5. Inbox' = [Inbox EXCEPT ![a] = @ \cup {n}]
        <3>1. ASSUME NEW b \in Agents
              PROVE  Inbox'[b] = IF b = a THEN Inbox[b] \cup {n} ELSE Inbox[b]
            BY <2>1, <2>3, <2>4 DEF Inbox, IInv, TypeOK
        <3> QED BY <3>1, <2>1 DEF Inbox
    <2> QED BY <2>1, <2>2, <2>4, <2>5 DEF Mail!Receive, Inbox
<1> QED BY <1>1, <1>2

LEMMA StepIsStep ==
    ASSUME DistinctKeys, IInv, [Next]_vars
    PROVE  Mail!Next \/ UNCHANGED <<asker, Inbox>>
<1> USE DEF sockets, history
<1>1. ASSUME NEW c \in Clients, NEW n \in Requests, Ask(c, n)
      PROVE  Mail!Next
    BY <1>1, AskIsAsk DEF Mail!Next
<1>2. ASSUME NEW c \in Clients, NEW a \in Agents, Upgrade(c, a)
      PROVE  UNCHANGED <<asker, Inbox>>
    BY <1>2, UpgradeIsInvisible
<1>3. ASSUME NEW c \in Clients, Drop(c) \/ HandleWebSocket(c)
      PROVE  UNCHANGED <<asker, Inbox>>
    BY <1>3, Invisible DEF Drop, HandleWebSocket, Register, ReadMessage,
       ReadError, MapEndpoint, Publish, Cleanup, Close
<1>4. CASE Write
    BY <1>4, WriteIsReceive DEF Mail!Next
<1>5. CASE \/ \E m \in inbound : Answer(m)
           \/ \E m \in outbound : Fetch(m)
           \/ Lookup \/ Restart \/ UNCHANGED vars
    BY <1>5, Invisible DEF Answer, Fetch, Lookup, Restart, vars
<1> QED BY <1>1, <1>2, <1>3, <1>4, <1>5 DEF Next, Network, Handle

\* With endpoint ids that are told apart, the service is a mailbox: whatever
\* is lost, repeated or replaced, agents receive answers to their own requests.
THEOREM Refinement == DistinctKeys => (Spec => ImplementsMailbox)
<1> SUFFICES ASSUME DistinctKeys PROVE Spec => ImplementsMailbox
    OBVIOUS
<1>1. Init => Mail!Init
    BY DEF Init, Mail!Init
<1>2. IInv /\ [Next]_vars => [Mail!Next]_<<asker, Inbox>>
    BY StepIsStep
<1>3. Inbox = [a \in Agents |-> {n \in Requests :
                  \E c \in Clients : owner[c] = a /\ n \in received[c]}]
    BY DEF Inbox
<1> QED BY <1>1, <1>2, <1>3, Inductive, PTL
        DEF Spec, ImplementsMailbox, Mail!Spec, Inbox
-----------------------------------------------------------------------------
(***************************************************************************)
(* No request is lost but with a connection.                               *)
(*                                                                         *)
(* IInv says where a message may be, not that it is anywhere.  Delivery    *)
(* adds that the handler will find a connection for every message under    *)
(* way: once an agent's record is published the agent stays mapped, until  *)
(* one of its connections is gone.                                         *)
(***************************************************************************)
Lost(a) == \E c \in Clients : owner[c] = a /\ link[c] = "down"
Mapped(a) == endpointToClient[Key(a)] # None \/ Lost(a)

\* An accepted connection has a socket; one that is taken out has it no more.
LinksOK ==
    \A c \in Clients :
        /\ pc[c] # "none" => link[c] # "none"
        /\ pc[c] \in {"cleanup", "close", "done"} => link[c] = "down"

\* The agent of whatever is published or about to be is mapped.
ReachedOK ==
    /\ \A m \in inbound \cup outbound : Mapped(asker[m.req])
    /\ task # None => Mapped(asker[task.req])
    /\ \A c \in Clients : pc[c] = "publish" => Mapped(owner[c])

\* A reader that holds a record is about to map or to publish it.
HeldOK ==
    \A c \in Clients : held[c] # None => pc[c] \in {"map", "publish"}

Carried(n) ==
    [req |-> n, key |-> Key(asker[n])] \in inbound \cup outbound \cup {task}
Kept(n) ==
    \/ Carried(n)
    \/ \E c \in Clients : owner[c] = asker[n] /\ (At(c, n) \/ link[c] = "down")
AllKept == \A n \in Requests : asker[n] # None => Kept(n)

Delivery == LinksOK /\ ReachedOK /\ HeldOK /\ AllKept

\* A step that leaves the agents and the mappings alone, and mends no socket,
\* leaves every agent mapped that was.
LEMMA StaysMapped ==
    ASSUME NEW a \in Agents, Mapped(a), UNCHANGED endpointToClient,
           \A c \in Clients : owner[c] = a => owner'[c] = a,
           \A c \in Clients : owner[c] = a /\ link[c] = "down" => link'[c] = "down"
    PROVE  Mapped(a)'
BY DEF Mapped, Lost

\* The agent of a message or a reader is one.
LEMMA AgentsOfWork ==
    ASSUME IInv
    PROVE  /\ \A m \in inbound \cup outbound : asker[m.req] \in Agents /\ m.req \in Requests
           /\ task # None => asker[task.req] \in Agents /\ task.req \in Requests
           /\ \A c \in Clients : pc[c] # "none" => owner[c] \in Agents
           /\ \A n \in Requests : asker[n] # None => asker[n] \in Agents
BY DEF IInv, TypeOK, MessagesOK, Keyed, Message, Accepted

\* A step that reads nothing, writes nothing and ends nothing.
LEMMA StaysKept ==
    ASSUME NEW n \in Requests, Kept(n), asker'[n] = asker[n],
           Carried(n) => Carried(n)',
           \A c \in Clients : owner[c] = asker[n] =>
               /\ owner'[c] = asker[n]
               /\ At(c, n) => At(c, n)'
               /\ link[c] = "down" => link'[c] = "down"
    PROVE  Kept(n)'
BY DEF Kept

LEMMA UpgradeDelivers ==
    ASSUME NEW c \in Clients, NEW a \in Agents, IInv, Delivery, ~Faulty, DistinctKeys,
           Upgrade(c, a)
    PROVE  Delivery'
<1> USE RoutingAssumption DEF Keys, IInv, Delivery, sockets, reader, registry, topics, handler, history, Step
<1>1. owner[c] = None /\ \A d \in Clients : d # c =>
          owner'[d] = owner[d] /\ link'[d] = link[d] /\ pc'[d] = pc[d]
    BY DEF Upgrade, TypeOK, Accepted
<1>2. \A b \in Agents : Mapped(b) => Mapped(b)'
    BY <1>1, StaysMapped DEF Upgrade
<1>3. LinksOK' /\ HeldOK'
    BY <1>1 DEF Upgrade, TypeOK, LinksOK, HeldOK
<1>4. ReachedOK'
    BY <1>1, <1>2, AgentsOfWork DEF Upgrade, TypeOK, ReachedOK
<1>5. ASSUME NEW n \in Requests, asker'[n] # None PROVE Kept(n)'
    <2>1. Kept(n) /\ asker[n] \in Agents /\ asker'[n] = asker[n]
        BY <1>5, AgentsOfWork DEF Upgrade, AllKept
    <2>2. Carried(n) => Carried(n)'
        BY DEF Upgrade, Carried
    <2>3. \A d \in Clients : At(d, n) => At(d, n)'
        BY DEF Upgrade, At
    <2> QED BY <1>1, <2>1, <2>2, <2>3, StaysKept
<1> QED BY <1>3, <1>4, <1>5 DEF AllKept

LEMMA DropDelivers ==
    ASSUME NEW c \in Clients, IInv, Delivery, ~Faulty, DistinctKeys,
           Drop(c)
    PROVE  Delivery'
<1> USE RoutingAssumption DEF Keys, IInv, Delivery, sockets, reader, registry, topics, handler, history, Step
<1>1. pc[c] # "none" /\ \A d \in Clients : d # c =>
          link'[d] = link[d] /\ pipe'[d] = pipe[d]
    BY DEF Drop, TypeOK, Accepted
<1>2. link'[c] = "down"
    BY DEF Drop, TypeOK
<1>3. \A b \in Agents : Mapped(b) => Mapped(b)'
    BY <1>1, <1>2, StaysMapped DEF Drop
<1>4. LinksOK' /\ HeldOK'
    BY <1>1, <1>2 DEF Drop, LinksOK, HeldOK
<1>5. ReachedOK'
    BY <1>3, AgentsOfWork DEF Drop, ReachedOK
<1>6. ASSUME NEW n \in Requests, asker'[n] # None PROVE Kept(n)'
    <2>1. Kept(n) /\ asker'[n] = asker[n]
        BY <1>6 DEF Drop, AllKept
    <2>2. Carried(n) => Carried(n)'
        BY DEF Drop, Carried
    <2>3. \A d \in Clients : d # c /\ At(d, n) => At(d, n)'
        BY <1>1 DEF Drop, At
    <2> QED BY <1>1, <1>2, <2>1, <2>2, <2>3 DEF Kept, Drop
<1> QED BY <1>4, <1>5, <1>6 DEF AllKept

LEMMA AskDelivers ==
    ASSUME NEW c \in Clients, NEW n \in Requests, IInv, Delivery, ~Faulty, DistinctKeys,
           Ask(c, n)
    PROVE  Delivery'
<1> USE RoutingAssumption DEF Keys, IInv, Delivery, sockets, reader, registry, topics, handler, history, Step
<1>1. pipe' = [pipe EXCEPT ![c] = Append(@, n)] /\ pipe[c] \in Seq(Requests)
    BY DEF Ask, TypeOK
<1>2. \A q \in Requests : asker[q] # None => asker'[q] = asker[q]
    BY DEF Ask, TypeOK
<1>3. \A m \in inbound \cup outbound : asker'[m.req] = asker[m.req]
    BY <1>2, AgentsOfWork
<1>4. task # None => asker'[task.req] = asker[task.req]
    BY <1>2, AgentsOfWork
<1>5. \A b : Mapped(b)' <=> Mapped(b)
    BY DEF Ask, Mapped, Lost
<1>6. LinksOK' /\ HeldOK'
    BY DEF Ask, LinksOK, HeldOK
<1>7. ReachedOK'
    BY <1>3, <1>4, <1>5 DEF Ask, ReachedOK
<1>8. ASSUME NEW q \in Requests, asker'[q] # None PROVE Kept(q)'
    <2>1. CASE q = n
        <3>1. pipe'[c][Len(pipe[c]) + 1] = n /\ Len(pipe[c]) + 1 \in 1 .. Len(pipe'[c])
            BY <1>1, Appended DEF TypeOK
        <3> QED BY <2>1, <3>1 DEF Kept, At, Ask, TypeOK
    <2>2. CASE q # n
        <3>1. asker'[q] = asker[q] /\ Kept(q)
            BY <1>8, <2>2 DEF Ask, TypeOK, AllKept
        <3>2. Carried(q) => Carried(q)'
            BY <3>1 DEF Ask, Carried
        <3>3. ASSUME NEW d \in Clients, At(d, q) PROVE At(d, q)'
            <4>1. ASSUME NEW i \in 1 .. Len(pipe[d])
                  PROVE  i \in 1 .. Len(pipe'[d]) /\ pipe'[d][i] = pipe[d][i]
                BY <1>1, <4>1, Appended DEF TypeOK
            <4> QED BY <3>3, <4>1 DEF At, Ask
        <3> QED BY <3>1, <3>2, <3>3, StaysKept DEF Ask
    <2> QED BY <2>1, <2>2
<1> QED BY <1>6, <1>7, <1>8 DEF AllKept

LEMMA RegisterDelivers ==
    ASSUME NEW c \in Clients, IInv, Delivery, ~Faulty, DistinctKeys,
           Register(c)
    PROVE  Delivery'
<1> USE RoutingAssumption DEF Keys, IInv, Delivery, sockets, reader, registry, topics, handler, history, Step
<1>1. \A b : Mapped(b)' <=> Mapped(b)
    BY DEF Register, Mapped, Lost
<1>2. LinksOK' /\ HeldOK'
    BY DEF Register, TypeOK, LinksOK, HeldOK
<1>3. ReachedOK'
    BY <1>1 DEF Register, TypeOK, ReachedOK
<1>4. AllKept'
    BY DEF Register, AllKept, Kept, Carried, At
<1> QED BY <1>2, <1>3, <1>4

LEMMA ReadMessageDelivers ==
    ASSUME NEW c \in Clients, IInv, Delivery, ~Faulty, DistinctKeys,
           ReadMessage(c)
    PROVE  Delivery'
<1> USE RoutingAssumption DEF Keys, IInv, Delivery, sockets, reader, registry, topics, handler, history, Step
<1>1. pipe[c] \in Seq(Requests) /\ pipe[c] # <<>> /\ held[c] = None
    BY DEF ReadMessage, TypeOK, HeldOK
<1>2. \A b : Mapped(b)' <=> Mapped(b)
    BY DEF ReadMessage, Mapped, Lost
<1>3. LinksOK' /\ HeldOK'
    BY DEF ReadMessage, TypeOK, LinksOK, HeldOK
<1>4. ReachedOK'
    BY <1>2 DEF ReadMessage, TypeOK, ReachedOK
<1>5. ASSUME NEW n \in Requests, asker'[n] # None PROVE Kept(n)'
    <2>1. Kept(n) /\ asker'[n] = asker[n]
        BY <1>5 DEF ReadMessage, AllKept
    <2>2. Carried(n) => Carried(n)'
        BY DEF ReadMessage, Carried
    <2>3. At(c, n) => At(c, n)'
        <3>1. ASSUME NEW i \in 1 .. Len(pipe[c]), pipe[c][i] = n PROVE At(c, n)'
            <4>1. CASE i = 1
                BY <1>1, <3>1, <4>1, Removed DEF ReadMessage, TypeOK, At
            <4>2. CASE i # 1
                <5>1. i - 1 \in 1 .. Len(Tail(pipe[c])) /\ Tail(pipe[c])[i - 1] = pipe[c][i]
                    BY <1>1, <3>1, <4>2
                <5> QED BY <3>1, <5>1 DEF ReadMessage, TypeOK, At
            <4> QED BY <4>1, <4>2
        <3> QED BY <1>1, <3>1 DEF At, ReadMessage
    <2>4. \A d \in Clients : d # c => (At(d, n) => At(d, n)')
        BY DEF ReadMessage, TypeOK, At
    <2> QED BY <2>1, <2>2, <2>3, <2>4, StaysKept DEF ReadMessage
<1> QED BY <1>3, <1>4, <1>5 DEF AllKept

LEMMA ReadErrorDelivers ==
    ASSUME NEW c \in Clients, IInv, Delivery, ~Faulty, DistinctKeys,
           ReadError(c)
    PROVE  Delivery'
<1> USE RoutingAssumption DEF Keys, IInv, Delivery, sockets, reader, registry, topics, handler, history, Step
<1>1. \A b : Mapped(b)' <=> Mapped(b)
    BY DEF ReadError, Mapped, Lost
<1>2. LinksOK' /\ HeldOK'
    BY DEF ReadError, TypeOK, LinksOK, HeldOK
<1>3. ReachedOK'
    BY <1>1 DEF ReadError, TypeOK, ReachedOK
<1>4. AllKept'
    BY DEF ReadError, AllKept, Kept, Carried, At
<1> QED BY <1>2, <1>3, <1>4

LEMMA MapEndpointDelivers ==
    ASSUME NEW c \in Clients, IInv, Delivery, ~Faulty, DistinctKeys,
           MapEndpoint(c)
    PROVE  Delivery'
<1> USE RoutingAssumption DEF Keys, IInv, Delivery, sockets, reader, registry, topics, handler, history, Step
<1>1. \A b \in Agents : Mapped(b) => Mapped(b)'
    BY DEF MapEndpoint, Mapped, Lost, TypeOK
<1>2. Mapped(owner[c])'
    BY AgentsOfWork DEF MapEndpoint, Mapped, TypeOK, Key, Keys
<1>3. LinksOK' /\ HeldOK'
    BY DEF MapEndpoint, TypeOK, LinksOK, HeldOK
<1>4. ReachedOK'
    BY <1>1, <1>2, AgentsOfWork DEF MapEndpoint, TypeOK, ReachedOK
<1>5. AllKept'
    BY DEF MapEndpoint, AllKept, Kept, Carried, At
<1> QED BY <1>3, <1>4, <1>5

LEMMA PublishDelivers ==
    ASSUME NEW c \in Clients, IInv, Delivery, ~Faulty, DistinctKeys,
           Publish(c)
    PROVE  Delivery'
<1> USE RoutingAssumption DEF Keys, IInv, Delivery, sockets, reader, registry, topics, handler, history, Step
<1> DEFINE p == [req |-> held[c], key |-> Key(owner[c])]
<1>1. inbound' = inbound \cup {p} /\ held[c] \in Requests /\ asker[held[c]] = owner[c]
    BY DEF Publish, RequestsOK
<1>2. \A b : Mapped(b)' <=> Mapped(b)
    BY DEF Publish, Mapped, Lost
<1>3. LinksOK' /\ HeldOK'
    BY DEF Publish, TypeOK, LinksOK, HeldOK
<1>4. ReachedOK'
    BY <1>1, <1>2 DEF Publish, TypeOK, ReachedOK
<1>5. ASSUME NEW n \in Requests, asker'[n] # None PROVE Kept(n)'
    <2>1. Kept(n) /\ asker'[n] = asker[n]
        BY <1>5 DEF Publish, AllKept
    <2>2. Carried(n) => Carried(n)'
        BY DEF Publish, Carried
    <2>3. CASE n = held[c]
        BY <1>1, <2>3 DEF Publish, Kept, Carried
    <2>4. CASE n # held[c]
        <3>1. \A d \in Clients : At(d, n) => At(d, n)'
            BY <2>4 DEF Publish, TypeOK, At
        <3> QED BY <2>1, <2>2, <3>1, StaysKept DEF Publish
    <2> QED BY <2>3, <2>4
<1> QED BY <1>3, <1>4, <1>5 DEF AllKept

\* The mapping that goes is of an agent whose connection is gone.
LEMMA CleanupDelivers ==
    ASSUME NEW c \in Clients, IInv, Delivery, ~Faulty, DistinctKeys,
           Cleanup(c)
    PROVE  Delivery'
<1> USE RoutingAssumption DEF Keys, IInv, Delivery, sockets, reader, registry, topics, handler, history, Step
<1>1. link[c] = "down" /\ owner[c] \in Agents
    BY AgentsOfWork DEF Cleanup, LinksOK
<1>2. ASSUME NEW b \in Agents, Mapped(b) PROVE Mapped(b)'
    <2>1. CASE Lost(b)
        BY <2>1 DEF Cleanup, Mapped, Lost
    <2>2. CASE endpointToClient[Key(b)] # None /\ endpointToClient[Key(b)] # c
        BY <2>2 DEF Cleanup, Mapped, TypeOK, Key, Keys
    <2>3. CASE endpointToClient[Key(b)] = c
        <3>1. Key(owner[c]) = Key(b)
            BY <2>3 DEF MappingOK, Key, Keys
        <3>2. owner[c] = b
            BY <1>1, <3>1 DEF DistinctKeys
        <3> QED BY <1>1, <3>2 DEF Cleanup, Mapped, Lost
    <2> QED BY <1>2, <2>1, <2>2, <2>3 DEF Mapped
<1>3. LinksOK' /\ HeldOK'
    BY DEF Cleanup, TypeOK, LinksOK, HeldOK
<1>4. ReachedOK'
    BY <1>2, AgentsOfWork DEF Cleanup, TypeOK, ReachedOK
<1>5. AllKept'
    BY DEF Cleanup, AllKept, Kept, Carried, At
<1> QED BY <1>3, <1>4, <1>5

LEMMA CloseDelivers ==
    ASSUME NEW c \in Clients, IInv, Delivery, ~Faulty, DistinctKeys,
           Close(c)
    PROVE  Delivery'
<1> USE RoutingAssumption DEF Keys, IInv, Delivery, sockets, reader, registry, topics, handler, history, Step
<1>1. \A b \in Agents : Mapped(b) => Mapped(b)'
    BY StaysMapped DEF Close, TypeOK
<1>2. LinksOK' /\ HeldOK'
    BY DEF Close, TypeOK, LinksOK, HeldOK
<1>3. ReachedOK'
    BY <1>1, AgentsOfWork DEF Close, TypeOK, ReachedOK
<1>4. AllKept'
    BY DEF Close, TypeOK, AllKept, Kept, Carried, At
<1> QED BY <1>2, <1>3, <1>4

LEMMA AnswerDelivers ==
    ASSUME NEW m, IInv, Delivery, ~Faulty, DistinctKeys,
           Answer(m)
    PROVE  Delivery'
<1> USE RoutingAssumption DEF Keys, IInv, Delivery, sockets, reader, registry, topics, handler, history, Step
<1>1. inbound' \cup outbound' = inbound \cup outbound
    BY DEF Answer, Consumed
<1>2. \A b : Mapped(b)' <=> Mapped(b)
    BY DEF Answer, Mapped, Lost
<1>3. LinksOK' /\ HeldOK'
    BY DEF Answer, LinksOK, HeldOK
<1>4. ReachedOK'
    BY <1>1, <1>2 DEF Answer, ReachedOK
<1>5. AllKept'
    BY <1>1 DEF Answer, AllKept, Kept, Carried, At
<1> QED BY <1>3, <1>4, <1>5

LEMMA FetchDelivers ==
    ASSUME NEW m, IInv, Delivery, ~Faulty, DistinctKeys,
           Fetch(m)
    PROVE  Delivery'
<1> USE RoutingAssumption DEF Keys, IInv, Delivery, sockets, reader, registry, topics, handler, history, Step
<1>1. outbound' = outbound \ {m} /\ task' = m /\ m \in outbound /\ task = None
    BY DEF Fetch, Consumed
<1>2. \A b : Mapped(b)' <=> Mapped(b)
    BY DEF Fetch, Mapped, Lost
<1>3. LinksOK' /\ HeldOK'
    BY DEF Fetch, LinksOK, HeldOK
<1>4. ReachedOK'
    BY <1>1, <1>2 DEF Fetch, ReachedOK
<1>5. ASSUME NEW n \in Requests, asker'[n] # None PROVE Kept(n)'
    <2>1. Kept(n) /\ asker'[n] = asker[n] /\ asker[n] # None
        BY <1>5 DEF Fetch, AllKept
    <2>2. [req |-> n, key |-> Key(asker[n])] # None
        BY <2>1, AgentsOfWork DEF Message, Key
    <2>3. Carried(n) => Carried(n)'
        BY <1>1, <2>1, <2>2 DEF Fetch, Carried
    <2>4. \A d \in Clients : At(d, n) => At(d, n)'
        BY DEF Fetch, At
    <2> QED BY <2>1, <2>3, <2>4, StaysKept DEF Fetch
<1> QED BY <1>3, <1>4, <1>5 DEF AllKept

\* A message is dropped only when a connection of its agent is gone.
LEMMA LookupDelivers ==
    ASSUME IInv, Delivery, ~Faulty, DistinctKeys,
           Lookup
    PROVE  Delivery'
<1> USE RoutingAssumption DEF Keys, IInv, Delivery, sockets, reader, registry, topics, handler, history, Step
<1>1. \A b : Mapped(b)' <=> Mapped(b)
    BY DEF Lookup, Mapped, Lost
<1>2. LinksOK' /\ HeldOK'
    BY DEF Lookup, LinksOK, HeldOK
<1>3. ReachedOK'
    BY <1>1 DEF Lookup, ReachedOK
<1>4. task' = task \/ Lost(asker[task.req])
    <2>1. task # None /\ task.key = Key(asker[task.req]) /\ asker[task.req] \in Agents
        BY DEF Lookup, MessagesOK, Keyed
    <2>2. task.key \in Keys
        BY <2>1 DEF Key, Keys
    <2>3. CASE endpointToClient[task.key] \in connections
        BY <2>3 DEF Lookup
    <2>4. CASE endpointToClient[task.key] \notin connections
        <3>1. endpointToClient[task.key] = None
            BY <2>2, <2>4 DEF TypeOK, MappingOK, RegisteredOK
        <3> QED BY <2>1, <3>1 DEF ReachedOK, Mapped
    <2> QED BY <2>3, <2>4
<1>5. ASSUME NEW n \in Requests, asker'[n] # None PROVE Kept(n)'
    <2>1. Kept(n) /\ UNCHANGED <<asker, owner, link, pipe, held, received, inbound, outbound>>
        BY <1>5 DEF Lookup, AllKept
    <2>2. CASE task' = task \/ ~Carried(n)
        BY <2>1, <2>2 DEF Kept, Carried, At
    <2>3. CASE Carried(n) /\ task # [req |-> n, key |-> Key(asker[n])]
        BY <2>1, <2>3 DEF Kept, Carried
    <2>4. CASE Lost(asker[task.req]) /\ task = [req |-> n, key |-> Key(asker[n])]
        BY <2>1, <2>4 DEF Kept, Lost
    <2> QED BY <1>4, <2>2, <2>3, <2>4
<1> QED BY <1>2, <1>3, <1>5 DEF AllKept

LEMMA WriteDelivers ==
    ASSUME IInv, Delivery, ~Faulty, DistinctKeys,
           Write
    PROVE  Delivery'
<1> USE RoutingAssumption DEF Keys, IInv, Delivery, sockets, reader, registry, topics, handler, history, Step
<1>1. \A b : Mapped(b)' <=> Mapped(b)
    BY DEF Write, Mapped, Lost
<1>2. LinksOK' /\ HeldOK'
    BY DEF Write, LinksOK, HeldOK
<1>3. ReachedOK'
    BY <1>1 DEF Write, ReachedOK
<1>4. /\ task # None /\ target \in Clients /\ owner[target] = asker[task.req]
      /\ link[target] # "up" => link[target] = "down"
    <2>1. target \in Clients /\ task # None /\ owner[target] \in Agents
        BY DEF Write, TypeOK, TargetOK
    <2>2. owner[target] = asker[task.req]
        BY <2>1 DEF Write, TargetOK, MessagesOK, Keyed, DistinctKeys
    <2>3. link[target] \in {"up", "down"}
        BY <2>1 DEF TypeOK, Accepted, LinksOK
    <2> QED BY <2>1, <2>2, <2>3
<1>5. ASSUME NEW n \in Requests, asker'[n] # None PROVE Kept(n)'
    <2>1. /\ Kept(n)
          /\ UNCHANGED <<asker, owner, link, pipe, held, inbound, outbound>>
        BY <1>5 DEF Write, AllKept
    <2>2. /\ \A d \in Clients : received[d] \subseteq received'[d]
          /\ link[target] = "up" => task.req \in received'[target]
        BY <1>4 DEF Write, TypeOK
    <2>3. CASE task = [req |-> n, key |-> Key(asker[n])]
        <3>1. task.req = n
            BY <2>3
        <3>2. owner'[target] = asker'[n] /\ (link'[target] = "down" \/ n \in received'[target])
            BY <1>4, <2>1, <2>2, <3>1
        <3> QED BY <1>4, <3>2 DEF Kept, At
    <2>4. CASE task # [req |-> n, key |-> Key(asker[n])]
        <3>1. Carried(n) => Carried(n)'
            BY <2>1, <2>4 DEF Carried
        <3>2. \A d \in Clients : At(d, n) => At(d, n)'
            BY <2>1, <2>2 DEF At
        <3> QED BY <2>1, <3>1, <3>2, StaysKept
    <2> QED BY <2>3, <2>4
<1> QED BY <1>2, <1>3, <1>5 DEF AllKept

LEMMA InitDelivery == Init => Delivery
BY RoutingAssumption DEF Keys, Init, Delivery, LinksOK, ReachedOK, HeldOK, AllKept

LEMMA StepDelivery ==
    ASSUME IInv, Delivery, ~Faulty, DistinctKeys, [Next]_vars
    PROVE  Delivery'
<1>1. ASSUME NEW c \in Clients, Network(c) \/ HandleWebSocket(c) PROVE Delivery'
    BY <1>1, AskDelivers, DropDelivers, RegisterDelivers, ReadMessageDelivers,
       ReadErrorDelivers, MapEndpointDelivers, PublishDelivers, CleanupDelivers,
       CloseDelivers DEF Network, HandleWebSocket
<1>2. ASSUME NEW c \in Clients, NEW a \in Agents, Upgrade(c, a) PROVE Delivery'
    BY <1>2, UpgradeDelivers
<1>3. ASSUME NEW m \in inbound, Answer(m) PROVE Delivery'
    BY <1>3, AnswerDelivers
<1>4. CASE Handle
    BY <1>4, FetchDelivers, LookupDelivers, WriteDelivers DEF Handle
<1>5. CASE UNCHANGED vars
    BY <1>5 DEF vars, sockets, reader, registry, topics, handler, history,
       Delivery, LinksOK, ReachedOK, HeldOK, AllKept, Kept, Carried, At, Mapped, Lost
<1> QED BY <1>1, <1>2, <1>3, <1>4, <1>5 DEF Next, Restart

LEMMA InvariantDelivery == ~Faulty /\ DistinctKeys => (Spec => []Delivery)
<1> SUFFICES ASSUME ~Faulty, DistinctKeys PROVE Spec => []Delivery
    OBVIOUS
<1>1. IInv /\ Delivery /\ [Next]_vars => Delivery'
    BY StepDelivery
<1> QED BY <1>1, InitDelivery, Inductive, PTL DEF Spec

\* While sockets are all that fails, and agents are told apart, no request is
\* lost but with a connection of the agent that asked: not between the read
\* and the topics, and not when the connection is replaced between the
\* publication, the lookup and the write.
THEOREM NoRequestIsLost == Spec => []RequestIsKept
<1>1. CASE ~Faulty /\ DistinctKeys
    <2>1. Delivery => RequestIsKept
        BY DEF Delivery, AllKept, Kept, Carried, RequestIsKept
    <2> QED BY <1>1, <2>1, InvariantDelivery, PTL
<1>2. CASE ~(~Faulty /\ DistinctKeys)
    <2>1. RequestIsKept
        BY <1>2 DEF RequestIsKept
    <2> QED BY <2>1, PTL
<1> QED BY <1>1, <1>2
===============================================================================
