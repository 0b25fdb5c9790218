----------------------------- MODULE WebSocketMTP -----------------------------
(***************************************************************************)
(* The WebSocket MTP service between its agents and Kafka.                 *)
(*                                                                         *)
(* Every connection has a goroutine, handleWebSocket, which registers it,  *)
(* reads records, maps the endpoint id found in a record to the connection *)
(* and publishes the record; when the socket fails it takes the connection *)
(* and its mappings out again.  The Kafka consumer's goroutine looks the   *)
(* connection of an outbound message up and, with the lock released,       *)
(* writes to it.  An agent may connect again while the goroutine of its    *)
(* previous connection has not noticed yet that the socket is gone.        *)
(*                                                                         *)
(* A message is the request it carries or answers, with the endpoint id it *)
(* travels under.                                                          *)
(***************************************************************************)
EXTENDS Naturals, Sequences

CONSTANTS
    Agents, Controller,
    Rank,      \* Rank[e]: place of e's authority scheme in authoritySchemes
    Clients,   \* connections, each named by its client id
    Requests,
    Faulty,    \* may produce fail, records come again, the process end?
    None

Keys == Agents \cup {Controller}
Message == [req : Requests, key : Keys]

ASSUME RoutingAssumption ==
    /\ Controller \notin Agents
    /\ Rank \in [Keys -> Nat]
    /\ Faulty \in BOOLEAN
    /\ None \notin Keys \cup Clients \cup Requests \cup Message

VARIABLES
    owner,             \* owner[c]: the agent at the other end
    link,              \* link[c]: the state of the socket
    pipe,              \* pipe[c]: records sent and not read
    pc,                \* pc[c]: the next step of handleWebSocket
    held,              \* held[c]: the record in processUSPMessage
    connections,       \* keys of the map of this name
    endpointToClient,  \* the map of this name, None where it has no entry
    inbound, outbound, \* the two topics
    task, target,      \* outbound handler: message, connection looked up
    asker,             \* asker[n]: the agent that sent request n
    received           \* received[c]: answers the agent got over c

sockets == <<owner, link, pipe>>
reader == <<pc, held>>
registry == <<connections, endpointToClient>>
topics == <<inbound, outbound>>
handler == <<task, target>>
history == <<asker, received>>
vars == <<sockets, reader, registry, topics, handler, history>>

(***************************************************************************)
(* extractEndpointID looks for the schemes in a fixed order and takes the  *)
(* first place in the record where one stands.  A record carries to_id     *)
(* (field 2), the controller, before from_id (field 3), the sender: the    *)
(* sender is found only when its scheme comes first in the list.           *)
(***************************************************************************)
Key(a) == IF Rank[a] < Rank[Controller] THEN a ELSE Controller

\* Schemes under which agents are told apart.
DistinctKeys == \A a, b \in Agents : Key(a) = Key(b) => a = b

Init ==
    /\ owner = [c \in Clients |-> None]
    /\ link = [c \in Clients |-> "none"]
    /\ pipe = [c \in Clients |-> <<>>]
    /\ pc = [c \in Clients |-> "none"]
    /\ held = [c \in Clients |-> None]
    /\ connections = {}
    /\ endpointToClient = [k \in Keys |-> None]
    /\ inbound = {}
    /\ outbound = {}
    /\ task = None
    /\ target = None
    /\ asker = [n \in Requests |-> None]
    /\ received = [c \in Clients |-> {}]

-----------------------------------------------------------------------------
(***************************************************************************)
(* Agents and the network.                                                 *)
(***************************************************************************)
Ask(c, n) ==
    /\ link[c] = "up"
    /\ asker[n] = None
    /\ asker' = [asker EXCEPT ![n] = owner[c]]
    /\ pipe' = [pipe EXCEPT ![c] = Append(@, n)]
    /\ UNCHANGED <<owner, link, reader, registry, topics, handler, received>>

\* Closed by the agent or lost: what was sent may be lost with it.
Drop(c) ==
    /\ link[c] = "up"
    /\ link' = [link EXCEPT ![c] = "down"]
    /\ \/ UNCHANGED pipe
       \/ pipe' = [pipe EXCEPT ![c] = <<>>]
    /\ UNCHANGED <<owner, reader, registry, topics, handler, history>>

-----------------------------------------------------------------------------
(***************************************************************************)
(* handleWebSocket and processUSPMessage.                                  *)
(***************************************************************************)
Step(c, from, to) ==
    /\ pc[c] = from
    /\ pc' = [pc EXCEPT ![c] = to]

Upgrade(c, a) ==
    /\ Step(c, "none", "register")
    /\ owner' = [owner EXCEPT ![c] = a]
    /\ link' = [link EXCEPT ![c] = "up"]
    /\ UNCHANGED <<pipe, held, registry, topics, handler, history>>

Register(c) ==
    /\ Step(c, "register", "read")
    /\ connections' = connections \cup {c}
    /\ UNCHANGED <<sockets, held, endpointToClient, topics, handler, history>>

\* Mutant: the endpoint is not mapped.
PublishOnly(c) ==
    /\ Step(c, "read", "publish")
    /\ pipe[c] # <<>>
    /\ held' = [held EXCEPT ![c] = Head(pipe[c])]
    /\ pipe' = [pipe EXCEPT ![c] = Tail(@)]
    /\ UNCHANGED <<owner, link, registry, topics, handler, history>>

ReadMessage(c) ==
    /\ Step(c, "read", "map")
    /\ pipe[c] # <<>>
    /\ held' = [held EXCEPT ![c] = Head(pipe[c])]
    /\ pipe' = [pipe EXCEPT ![c] = Tail(@)]
    /\ UNCHANGED <<owner, link, registry, topics, handler, history>>

\* Mutant: the loop goes on after a read error.
ReadOn(c) ==
    /\ Step(c, "read", "read")
    /\ link[c] = "down" /\ pipe[c] = <<>>
    /\ UNCHANGED <<sockets, held, registry, topics, handler, history>>

ReadError(c) ==
    /\ Step(c, "read", "cleanup")
    /\ link[c] = "down" /\ pipe[c] = <<>>
    /\ UNCHANGED <<sockets, held, registry, topics, handler, history>>

MapEndpoint(c) ==
    /\ Step(c, "map", "publish")
    /\ endpointToClient' = [endpointToClient EXCEPT ![Key(owner[c])] = c]
    /\ UNCHANGED <<sockets, held, connections, topics, handler, history>>

\* A failure to publish is logged and the loop goes on.
Publish(c) ==
    /\ Step(c, "publish", "read")
    /\ \/ inbound' = inbound \cup {[req |-> held[c], key |-> Key(owner[c])]}
       \/ Faulty /\ UNCHANGED inbound
    /\ held' = [held EXCEPT ![c] = None]
    /\ UNCHANGED <<sockets, registry, outbound, handler, history>>

\* Mutant: the mappings of the agent go with any connection of it.
UnmapAgent(c) ==
    /\ Step(c, "cleanup", "close")
    /\ connections' = connections \ {c}
    /\ endpointToClient' = [endpointToClient EXCEPT ![Key(owner[c])] = None]
    /\ UNCHANGED <<sockets, held, topics, handler, history>>

\* Mutant: the mappings stay.
ForgetConnection(c) ==
    /\ Step(c, "cleanup", "close")
    /\ connections' = connections \ {c}
    /\ UNCHANGED <<sockets, held, endpointToClient, topics, handler, history>>

\* Mutant: entries are emptied, not deleted.
EmptyEntries(c) ==
    /\ Step(c, "cleanup", "close")
    /\ connections' = connections \ {c}
    /\ endpointToClient' =
           [k \in Keys |-> IF endpointToClient[k] = c THEN ""
                                                      ELSE endpointToClient[k]]
    /\ UNCHANGED <<sockets, held, topics, handler, history>>

\* The deferred function: one critical section.
Cleanup(c) ==
    /\ Step(c, "cleanup", "close")
    /\ connections' = connections \ {c}
    /\ endpointToClient' =
           [k \in Keys |-> IF endpointToClient[k] = c THEN None
                                                      ELSE endpointToClient[k]]
    /\ UNCHANGED <<sockets, held, topics, handler, history>>

Close(c) ==
    /\ Step(c, "close", "done")
    /\ link' = [link EXCEPT ![c] = "down"]
    /\ UNCHANGED <<owner, pipe, held, registry, topics, handler, history>>

-----------------------------------------------------------------------------
(***************************************************************************)
(* usp-service: handleUSPMessage answers a record under the endpoint id it *)
(* came with.  A record may be consumed again after a crash, or be lost    *)
(* with one, its offset being committed already.                           *)
(***************************************************************************)
Consumed(topic, m) == {topic \ {m}} \cup (IF Faulty THEN {topic} ELSE {})

Answer(m) ==
    /\ m \in inbound
    /\ inbound' \in Consumed(inbound, m)
    /\ \/ outbound' = outbound \cup {m}
       \/ Faulty /\ UNCHANGED outbound
    /\ UNCHANGED <<sockets, reader, registry, handler, history>>

-----------------------------------------------------------------------------
(***************************************************************************)
(* The outbound handler.                                                   *)
(***************************************************************************)
Fetch(m) ==
    /\ task = None
    /\ m \in outbound
    /\ outbound' \in Consumed(outbound, m)
    /\ task' = m
    /\ UNCHANGED <<sockets, reader, registry, inbound, target, history>>

\* Mutant: any registered connection will do.
LookupAny ==
    /\ task # None /\ target = None
    /\ \/ \E c \in connections : target' = c /\ UNCHANGED task
       \/ connections = {} /\ task' = None /\ UNCHANGED target
    /\ UNCHANGED <<sockets, reader, registry, topics, history>>

\* Both maps under one read lock; an unmapped endpoint's message is dropped.
Lookup ==
    /\ task # None /\ target = None
    /\ LET c == endpointToClient[task.key]
       IN  IF c \in connections
           THEN target' = c /\ UNCHANGED task
           ELSE task' = None /\ UNCHANGED target
    /\ UNCHANGED <<sockets, reader, registry, topics, history>>

\* Mutant: a write that fails is tried again, until it succeeds.
WriteAgain ==
    /\ target # None
    /\ IF link[target] = "up"
       THEN /\ received' = [received EXCEPT ![target] = @ \cup {task.req}]
            /\ task' = None /\ target' = None
       ELSE UNCHANGED <<received, handler>>
    /\ UNCHANGED <<sockets, reader, registry, topics, asker>>

\* WriteMessage: on a socket that is gone, an error, which is only logged.
Write ==
    /\ target # None
    /\ received' = IF link[target] = "up"
                   THEN [received EXCEPT ![target] = @ \cup {task.req}]
                   ELSE received
    /\ task' = None /\ target' = None
    /\ UNCHANGED <<sockets, reader, registry, topics, asker>>

-----------------------------------------------------------------------------
\* The process ends, by a crash or by main, and is started again.
Restart ==
    /\ Faulty
    /\ link' = [c \in Clients |-> IF link[c] = "none" THEN "none" ELSE "down"]
    /\ pc' = [c \in Clients |-> IF pc[c] = "none" THEN "none" ELSE "done"]
    /\ pipe' = [c \in Clients |-> <<>>]
    /\ held' = [c \in Clients |-> None]
    /\ connections' = {}
    /\ endpointToClient' = [k \in Keys |-> None]
    /\ task' = None /\ target' = None
    /\ UNCHANGED <<owner, topics, history>>

Network(c) == Drop(c) \/ \E n \in Requests : Ask(c, n)

HandleWebSocket(c) ==
    \/ Register(c) \/ ReadMessage(c) \/ ReadError(c) \/ MapEndpoint(c)
    \/ Publish(c) \/ Cleanup(c) \/ Close(c)

Handle == (\E m \in outbound : Fetch(m)) \/ Lookup \/ Write

Next ==
    \/ \E c \in Clients :
          \/ Network(c) \/ HandleWebSocket(c)
          \/ \E a \in Agents : Upgrade(c, a)
    \/ \E m \in inbound : Answer(m)
    \/ Handle
    \/ Restart

Spec == Init /\ [][Next]_vars

(***************************************************************************)
(* The Go scheduler runs every goroutine that can run, a socket that is    *)
(* gone makes ReadMessage return, usp-service consumes its topic.  Agents  *)
(* and faults promise nothing.                                             *)
(***************************************************************************)
FairSpec ==
    /\ Spec
    /\ \A c \in Clients : WF_vars(HandleWebSocket(c))
    /\ WF_vars(Handle)
    /\ WF_vars(\E m \in inbound : Answer(m))

-----------------------------------------------------------------------------
(***************************************************************************)
(* Properties.                                                             *)
(***************************************************************************)
\* The type invariant: every variable holds a value of its Go type.
TypeOK ==
    /\ owner \in [Clients -> Agents \cup {None}]
    /\ link \in [Clients -> {"none", "up", "down"}]
    /\ pipe \in [Clients -> Seq(Requests)]
    /\ pc \in [Clients -> {"none", "register", "read", "map", "publish",
                           "cleanup", "close", "done"}]
    /\ held \in [Clients -> Requests \cup {None}]
    /\ connections \in SUBSET Clients
    /\ endpointToClient \in [Keys -> Clients \cup {None}]
    /\ inbound \in SUBSET Message
    /\ outbound \in SUBSET Message
    /\ task \in Message \cup {None}
    /\ target \in Clients \cup {None}
    /\ asker \in [Requests -> Agents \cup {None}]
    /\ received \in [Clients -> SUBSET Requests]

\* Whatever order connections of an agent open and close in, an endpoint is
\* mapped only to a registered connection whose goroutine still reads: the
\* outbound handler's branch for an unconnected client is never taken.
MappedIsConnected ==
    \A k \in Keys : endpointToClient[k] # None =>
        /\ endpointToClient[k] \in connections
        /\ pc[endpointToClient[k]] \in {"read", "map", "publish", "cleanup"}

\* The cleanup of a connection does not take away the mapping of the
\* connection that has replaced it: a mapping disappears only together with
\* the connection it names.
NewerIsKept ==
    [][\A k \in Keys :
          (endpointToClient[k] # None /\ endpointToClient'[k] = None) =>
              endpointToClient[k] \notin connections']_vars

\* Every answer written to a connection is written to the agent that asked,
\* also when connections are replaced between lookup and write.
Isolation ==
    \A c \in Clients : \A n \in received[c] : asker[n] = owner[c]

\* Towards the agents the service is a mailbox.
Mail == INSTANCE Mailbox WITH
    inbox <- [a \in Agents |-> {n \in Requests :
                 \E c \in Clients : owner[c] = a /\ n \in received[c]}]
ImplementsMailbox == Mail!Spec

\* Request n is at c: sent over it and not yet published, or answered.
At(c, n) ==
    \/ \E i \in 1 .. Len(pipe[c]) : pipe[c][i] = n
    \/ held[c] = n
    \/ n \in received[c]

\* Without other faults no step loses the request of an agent whose
\* connections hold: it is at one of them, in a topic or with the handler,
\* whichever of the connections is mapped when its answer is looked up.
RequestIsKept ==
    ~Faulty /\ DistinctKeys =>
        \A n \in Requests : asker[n] # None =>
            \/ [req |-> n, key |-> Key(asker[n])] \in inbound \cup outbound \cup {task}
            \/ \E c \in Clients : owner[c] = asker[n] /\ (At(c, n) \/ link[c] = "down")

\* Nothing of a connection that is gone stays in the two maps.
GoneIsForgotten ==
    \A c \in Clients : link[c] = "down" ~>
        (c \notin connections /\ \A k \in Keys : endpointToClient[k] # c)

\* An agent none of whose connections fails gets the answer to each of its
\* requests, although it may have replaced the connection it asked over.
Answered ==
    \A n \in Requests : asker[n] # None ~>
        \E c \in Clients : /\ owner[c] = asker[n]
                           /\ n \in received[c] \/ link[c] = "down"
=============================================================================
