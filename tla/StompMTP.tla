------------------------------- MODULE StompMTP -------------------------------
(***************************************************************************)
(* The STOMP MTP service between RabbitMQ and Kafka.                       *)
(*                                                                         *)
(* Start connects, starts the goroutine of readMessages, waits up to five  *)
(* seconds for it to see CONNECTED, subscribes and from then on only waits *)
(* for the end.  readMessages takes what a read of the socket returns for  *)
(* one frame, and cuts the payload out of its buffer with the length the   *)
(* frame states, whatever the read returned: the bytes that did not come   *)
(* are those of earlier reads.  The Kafka consumer's goroutine puts every  *)
(* outbound message, whatever agent and transport it is for, into the one  *)
(* queue all STOMP agents read.  The flags connected and authenticated are *)
(* shared under a lock.                                                    *)
(*                                                                         *)
(* A message is the request it carries or answers, or "HYBRID", what a     *)
(* split frame and stale bytes make together; "REST" is what is left of a  *)
(* frame that a read has split.                                            *)
(***************************************************************************)
EXTENDS Naturals, Sequences

CONSTANTS
    Agents,       \* agents on STOMP
    Others,       \* agents on other transports
    Requests,
    WholeFrames,  \* does every read return exactly one frame?
    Faulty,       \* may Kafka refuse, records come again, the process end?
    MaxCancels,   \* bound: subscriptions the broker cancels
    None

ASSUME StompAssumption ==
    /\ Agents \cap Others = {}
    /\ WholeFrames \in BOOLEAN /\ Faulty \in BOOLEAN
    /\ MaxCancels \in Nat
    /\ None \notin Agents \cup Others \cup Requests
    /\ {"CONNECTED", "CANCELLED", "REST", "HYBRID"} \cap Requests = {}
    /\ None # "HYBRID"

VARIABLES
    tcp,             \* b.conn: none, up, lost (not noticed), closed
    starter, reader, \* the next steps of Start and readMessages
    stop,            \* main: no, cancelled (the context), closed (the broker)
    buffer,          \* requests with bytes in the buffer of readMessages
    connected, authenticated,    \* the flags of STOMPBroker
    session,         \* the broker's side: none, asked for, open
    subscribed,      \* the broker has a subscription of the service
    cancels,         \* subscriptions cancelled
    frames,          \* what the broker has sent and the service not read
    toController, toAgents,      \* RabbitMQ's two queues
    inbound, outbound,           \* Kafka's two topics
    task, sending,   \* outbound handler: its message, IsConnected was true
    asker, received, \* history: who asks, and what the agents take
    published        \* history: what was published for a request's frame

flags == <<connected, authenticated>>
broker == <<session, subscribed, cancels, frames, toController>>
control == <<starter, reader, stop>>
threads == <<control, buffer>>
handler == <<task, sending>>
topics == <<inbound, outbound>>
vars == <<tcp, threads, flags, broker, toAgents, topics, handler,
          asker, published, received>>

Frames == Requests \cup {"CONNECTED", "CANCELLED", "REST"}
Records == Requests \cup {"HYBRID"}

Init ==
    /\ tcp = "none"
    /\ starter = "dial" /\ reader = "off" /\ stop = "no" /\ buffer = {}
    /\ connected = FALSE /\ authenticated = FALSE
    /\ session = "none" /\ subscribed = FALSE /\ cancels = 0
    /\ frames = <<>>
    /\ toController = {} /\ toAgents = {}
    /\ inbound = {} /\ outbound = {}
    /\ task = None /\ sending = FALSE
    /\ asker = [n \in Requests |-> None]
    /\ published = [n \in Requests |-> None]
    /\ received = [a \in Agents |-> {}]

-----------------------------------------------------------------------------
(***************************************************************************)
(* Agents, RabbitMQ and the network.                                       *)
(***************************************************************************)
Ask(a, n) ==
    /\ asker[n] = None
    /\ asker' = [asker EXCEPT ![n] = a]
    /\ IF a \in Agents
       THEN toController' = toController \cup {n} /\ UNCHANGED inbound
       ELSE inbound' = inbound \cup {n} /\ UNCHANGED toController
    /\ UNCHANGED <<tcp, threads, flags, session, subscribed, cancels, frames,
                   toAgents, outbound, handler, published, received>>

\* Consumers of one queue compete for its messages.
Take(a, n) ==
    /\ n \in toAgents
    /\ toAgents' = toAgents \ {n}
    /\ received' = [received EXCEPT ![a] = @ \cup {n}]
    /\ UNCHANGED <<tcp, threads, flags, broker, topics, handler,
                   asker, published>>

Accept ==
    /\ session = "asked"
    /\ session' = "open"
    /\ frames' = Append(frames, "CONNECTED")
    /\ UNCHANGED <<tcp, threads, flags, subscribed, cancels, toController,
                   toAgents, topics, handler, asker, published, received>>

\* ack:auto, the queue forgets what it has sent.
Push(n) ==
    /\ subscribed
    /\ n \in toController
    /\ toController' = toController \ {n}
    /\ frames' = Append(frames, n)
    /\ UNCHANGED <<tcp, threads, flags, session, subscribed, cancels,
                   toAgents, topics, handler, asker, published, received>>

CancelSubscription ==
    /\ subscribed
    /\ cancels < MaxCancels
    /\ cancels' = cancels + 1
    /\ subscribed' = FALSE
    /\ frames' = Append(frames, "CANCELLED")
    /\ UNCHANGED <<tcp, threads, flags, session, toController, toAgents,
                   topics, handler, asker, published, received>>

\* What was on its way in may be read still, or be lost.
LoseLink ==
    /\ tcp = "up"
    /\ tcp' = "lost"
    /\ session' = "none" /\ subscribed' = FALSE
    /\ frames' \in {frames, <<>>}
    /\ UNCHANGED <<threads, flags, cancels, toController, toAgents, topics,
                   handler, asker, published, received>>

-----------------------------------------------------------------------------
(***************************************************************************)
(* Start.                                                                  *)
(***************************************************************************)
Beyond == <<toAgents, topics, handler, asker, published, received>>
Rest == <<buffer, Beyond>>

Dial ==
    /\ starter = "dial"
    /\ \/ /\ tcp' = "up" /\ connected' = TRUE
          /\ starter' = "connect"
       \/ starter' = "failed" /\ UNCHANGED <<tcp, connected>>
    /\ UNCHANGED <<reader, stop, authenticated, broker, Rest>>

\* An error ends Start, with connected still set.
SendConnect ==
    /\ starter = "connect"
    /\ IF tcp = "up"
       THEN starter' = "wait" /\ reader' = "reading" /\ session' = "asked"
       ELSE starter' = "failed" /\ UNCHANGED <<reader, session>>
    /\ UNCHANGED <<tcp, stop, flags, subscribed, cancels, frames, toController,
                   Rest>>

\* Mutant: subscribes without a session.
SubscribeAnyway ==
    /\ starter = "wait"
    /\ ~authenticated
    /\ starter' = "subscribe"
    /\ UNCHANGED <<tcp, reader, stop, flags, broker, Rest>>

SeeAuthenticated ==
    /\ starter = "wait"
    /\ authenticated
    /\ starter' = "subscribe"
    /\ UNCHANGED <<tcp, reader, stop, flags, broker, Rest>>

\* Five seconds without CONNECTED: "subscriptions skipped", for good.
GiveUp ==
    /\ starter = "wait"
    /\ ~authenticated
    /\ starter' = "deaf"
    /\ UNCHANGED <<tcp, reader, stop, flags, broker, Rest>>

Subscribe ==
    /\ starter = "subscribe"
    /\ subscribed' = (tcp = "up")
    /\ starter' = "serve"
    /\ UNCHANGED <<tcp, reader, stop, flags, session, cancels, frames,
                   toController, Rest>>

-----------------------------------------------------------------------------
(***************************************************************************)
(* readMessages and ProcessUSPMessage.                                     *)
(***************************************************************************)
\* What a read that ends after the last-th frame, or inside it, leaves.
Left(last) ==
    LET later == SubSeq(frames, last + 1, Len(frames))
    IN  {later} \cup (IF WholeFrames THEN {} ELSE {<<"REST">> \o later})

\* Mutant: keeps the frame in the socket with what it has not looked at.
ReadsAgain(f) ==
    /\ reader = "reading"
    /\ tcp # "closed"
    /\ frames # <<>> /\ Head(frames) = f
    /\ \E last \in 1 .. (IF WholeFrames THEN 1 ELSE Len(frames)) :
          /\ frames' \in Left(last - 1)
          /\ buffer' = buffer \cup ({frames[i] : i \in 1 .. last} \cap Requests)

\* A read returns the first frame f, and maybe others that are not looked at.
Reads(f) ==
    /\ reader = "reading"
    /\ tcp # "closed"
    /\ frames # <<>> /\ Head(frames) = f
    /\ \E last \in 1 .. (IF WholeFrames THEN 1 ELSE Len(frames)) :
          /\ frames' \in Left(last)
          /\ buffer' = buffer \cup ({frames[i] : i \in 1 .. last} \cap Requests)

ReadConnected ==
    /\ Reads("CONNECTED")
    /\ authenticated' = TRUE
    /\ UNCHANGED <<tcp, control, connected, session, subscribed, cancels,
                   toController, Beyond>>

\* Mutant: the frame's command is not looked at.
PublishAny ==
    /\ Reads("CANCELLED")
    /\ inbound' = inbound \cup {"CANCELLED"}
    /\ UNCHANGED <<tcp, control, flags, session, subscribed, cancels,
                   toController, toAgents, outbound, handler, asker,
                   published, received>>

\* Mutant: a cancelled subscription is only logged.
LogCancelled ==
    /\ Reads("CANCELLED")
    /\ UNCHANGED <<tcp, control, flags, session, subscribed, cancels,
                   toController, Beyond>>

\* Resubscribes.
ReadCancelled ==
    /\ Reads("CANCELLED")
    /\ subscribed' = (tcp = "up")
    /\ UNCHANGED <<tcp, control, flags, session, cancels, toController, Beyond>>

Publish(n, record) ==
    /\ inbound' = inbound \cup {record}
    /\ published' = [published EXCEPT ![n] = record]

ReadMessage(n) ==
    /\ Reads(n)
    /\ Publish(n, n) \/ (Faulty /\ UNCHANGED <<inbound, published>>)
    /\ UNCHANGED <<tcp, control, flags, session, subscribed, cancels,
                   toController, toAgents, outbound, handler, asker, received>>

\* The read ends inside the frame.  A request whose headers have come is
\* completed with what earlier reads left in the buffer: that may be another
\* request as a whole, a mixture, or nothing with a sender.
ReadSplit ==
    /\ ~WholeFrames
    /\ \E f \in Frames :
          /\ Reads(f) /\ frames' = <<"REST">> \o Tail(frames)
          /\ \/ UNCHANGED <<inbound, published>>
             \/ /\ f \in Requests
                /\ \E record \in buffer \cup {"HYBRID"} : Publish(f, record)
    /\ UNCHANGED <<tcp, control, flags, session, subscribed, cancels,
                   toController, toAgents, outbound, handler, asker, received>>

\* Neither the rest of a frame nor what comes with it is understood.
ReadRest ==
    /\ Reads("REST")
    /\ UNCHANGED <<tcp, control, flags, session, subscribed, cancels,
                   toController, Beyond>>

EndProcess ==
    /\ tcp' = "none" /\ starter' = "dial" /\ reader' = "off" /\ stop' = "no"
    /\ buffer' = {}
    /\ connected' = FALSE /\ authenticated' = FALSE
    /\ session' = "none" /\ subscribed' = FALSE /\ frames' = <<>>
    /\ task' = None /\ sending' = FALSE
    /\ UNCHANGED <<cancels, toController, toAgents, topics,
                   asker, published, received>>

\* The length the frame states goes beyond the buffer, and nothing recovers.
ReadOverlong ==
    /\ ~WholeFrames
    /\ reader = "reading" /\ tcp # "closed"
    /\ frames # <<>> /\ Head(frames) \in Requests
    /\ EndProcess

\* Mutant: a read that times out ends the goroutine too.
ReadErrorOnTimeout ==
    /\ reader = "reading"
    /\ reader' = "gone"
    /\ UNCHANGED <<tcp, starter, stop, flags, broker, Rest>>

\* Any error but a timeout ends the goroutine, and so does the context;
\* connected stays as it is.
ReadError ==
    /\ reader = "reading"
    /\ \/ tcp = "lost" /\ frames = <<>>
       \/ tcp = "closed"
       \/ stop # "no"
    /\ reader' = "gone"
    /\ UNCHANGED <<tcp, starter, stop, flags, broker, Rest>>

-----------------------------------------------------------------------------
(***************************************************************************)
(* usp-service, and the outbound handler.                                  *)
(***************************************************************************)
\* A record may come again, and the topic may hold it more than once.
Consumed(topic, n) ==
    {topic \ {n}} \cup (IF Faulty \/ ~WholeFrames THEN {topic} ELSE {})

\* An error is only logged; a hybrid may be no USP record.
Answer(n) ==
    /\ n \in inbound
    /\ inbound' \in Consumed(inbound, n)
    /\ \/ outbound' = outbound \cup {n}
       \/ (Faulty \/ n = "HYBRID") /\ UNCHANGED outbound
    /\ UNCHANGED <<tcp, threads, flags, broker, toAgents, handler,
                   asker, published, received>>

Fetch(n) ==
    /\ task = None
    /\ n \in outbound
    /\ outbound' \in Consumed(outbound, n)
    /\ task' = n
    /\ UNCHANGED <<tcp, threads, flags, broker, toAgents, inbound, sending,
                   asker, published, received>>

CheckConnected ==
    /\ task # None /\ ~sending
    /\ IF connected THEN sending' = TRUE /\ UNCHANGED task
                    ELSE task' = None /\ UNCHANGED sending
    /\ UNCHANGED <<tcp, threads, flags, broker, toAgents, topics,
                   asker, published, received>>

\* Send looks at the flag again.  A write to a lost link fails, or is lost.
Send ==
    /\ sending
    /\ toAgents' = IF connected /\ tcp = "up" THEN toAgents \cup {task}
                                              ELSE toAgents
    /\ task' = None /\ sending' = FALSE
    /\ UNCHANGED <<tcp, threads, flags, broker, topics,
                   asker, published, received>>

-----------------------------------------------------------------------------
(***************************************************************************)
(* The end: main cancels the context and closes the broker; Start closes   *)
(* it too when it sees the context done.  Then the process ends.           *)
(***************************************************************************)
Cancel ==
    /\ stop = "no"
    /\ stop' = "cancelled"
    /\ UNCHANGED <<tcp, starter, reader, flags, broker, Rest>>

Close ==
    /\ \/ stop = "cancelled" /\ stop' = "closed" /\ UNCHANGED starter
       \/ /\ stop # "no" /\ starter \in {"serve", "deaf"}
          /\ starter' = "stopped" /\ UNCHANGED stop
    /\ tcp' = IF tcp = "none" THEN "none" ELSE "closed"
    /\ connected' = FALSE
    /\ session' = "none" /\ subscribed' = FALSE
    /\ UNCHANGED <<reader, authenticated, cancels, frames, toController, Rest>>

\* The process has ended, or crashed, and is started again.
Restart == Faulty /\ EndProcess

Start == Dial \/ SendConnect \/ SeeAuthenticated \/ GiveUp \/ Subscribe

ReadMessages ==
    \/ ReadConnected \/ ReadCancelled \/ ReadRest \/ ReadError
    \/ ReadSplit \/ ReadOverlong
    \/ \E n \in Requests : ReadMessage(n)

Handle == (\E n \in outbound : Fetch(n)) \/ CheckConnected \/ Send

RabbitMQ == Accept \/ \E n \in toController : Push(n)

Agent ==
    \/ \E a \in Agents \cup Others, n \in Requests : Ask(a, n)
    \/ \E a \in Agents, n \in toAgents : Take(a, n)

Next ==
    \/ Start \/ ReadMessages \/ Handle \/ RabbitMQ \/ Agent
    \/ CancelSubscription \/ LoseLink \/ Cancel \/ Close \/ Restart
    \/ \E n \in inbound : Answer(n)

Spec == Init /\ [][Next]_vars

(***************************************************************************)
(* The Go scheduler runs every goroutine that can run, reads return, and   *)
(* RabbitMQ accepts and delivers.  Faults and agents promise nothing.      *)
(***************************************************************************)
FairSpec ==
    /\ Spec
    /\ WF_vars(Start) /\ WF_vars(ReadMessages) /\ WF_vars(Handle)
    /\ WF_vars(RabbitMQ)

-----------------------------------------------------------------------------
(***************************************************************************)
(* Properties.                                                             *)
(***************************************************************************)
\* The type invariant: every variable holds a value of its Go type.
TypeOK ==
    /\ tcp \in {"none", "up", "lost", "closed"}
    /\ starter \in {"dial", "connect", "wait", "subscribe", "serve", "deaf",
                    "failed", "stopped"}
    /\ reader \in {"off", "reading", "gone"}
    /\ stop \in {"no", "cancelled", "closed"}
    /\ connected \in BOOLEAN /\ authenticated \in BOOLEAN
    /\ session \in {"none", "asked", "open"}
    /\ subscribed \in BOOLEAN
    /\ cancels \in 0 .. MaxCancels
    /\ frames \in Seq(Frames)
    /\ buffer \in SUBSET Requests /\ toController \in SUBSET Requests
    /\ toAgents \in SUBSET Records
    /\ inbound \in SUBSET Records /\ outbound \in SUBSET Records
    /\ task \in Records \cup {None}
    /\ sending \in BOOLEAN
    /\ asker \in [Requests -> Agents \cup Others \cup {None}]
    /\ published \in [Requests -> Records \cup {None}]
    /\ received \in [Agents -> SUBSET Records]

\* A subscription exists only in an open session whose CONNECTED has been
\* seen, and until main cancels the context a goroutine reads: what the
\* broker sends, and the queue forgets, does not go to a socket nobody
\* listens to.
SubscribedIsHeard ==
    subscribed => /\ tcp = "up" /\ session = "open"
                  /\ authenticated
                  /\ reader = "reading" \/ stop # "no"

Incoming(n) == \E i \in DOMAIN frames : frames[i] = n

\* Of request n nothing is published, for its frame or another one, nor read.
Unread(n) ==
    /\ published[n] = None /\ n \notin buffer
    /\ \A m \in Requests : published[m] # n

\* Whatever a read returns, and across cancelled subscriptions, lost links and
\* restarts: ack:auto makes the queue forget what is on its way, a frame is
\* read once, and it makes one record at most.  As long as a request is in the
\* queue or on its way, nothing has been published for it, and of its bytes
\* there are none in the buffer and no record.  (Once it has been read, a
\* later frame that is split may publish it again: PayloadOfItsFrame.)
TakenOnce ==
    /\ \A n \in toController : ~Incoming(n)
    /\ \A n \in Requests : n \in toController \/ Incoming(n) => Unread(n)
    /\ \A i, j \in DOMAIN frames :
          frames[i] \in Requests /\ frames[i] = frames[j] => i = j

\* With whole frames, while the link holds and until main cancels the context,
\* no request of a STOMP agent gets lost between the queue and Kafka, not when
\* a subscription is cancelled or never comes: what the queue has forgotten is
\* published, or on its way to a goroutine that reads.
Accounted ==
    WholeFrames /\ ~Faulty /\ stop = "no" /\ tcp \in {"none", "up"} =>
        \A n \in Requests : asker[n] \in Agents =>
            \/ n \in toController
            \/ Incoming(n) /\ reader = "reading"
            \/ published[n] = n

\* As long as the link holds and Start has not given up, a request in the
\* controller's queue is published, also across cancelled subscriptions.
Published ==
    \A n \in Requests : n \in toController ~>
        (published[n] = n \/ tcp # "up" \/ starter = "deaf" \/ stop # "no")

\* docs/MTP_ROUTING.md: "Each agent receives only its own messages", "No
\* message leakage between agents".
Isolation == \A a \in Agents : \A n \in received[a] \cap Requests : asker[n] = a

\* stomp/main.go: "IsConnected returns true if STOMP broker is connected": a
\* lost link is noticed eventually.
LossIsNoticed == (tcp = "lost") ~> ~connected

\* stomp/main.go: "Extract USP payload from STOMP MESSAGE frame": what is
\* published for a frame is its payload, however the reads cut the frames.
PayloadOfItsFrame == \A n \in Requests : published[n] \in {n, None}

\* stomp/main.go: "Handle graceful shutdown", "stopped gracefully": Accounted
\* also when main has cancelled the context and the subscription is still open.
StopsGracefully ==
    WholeFrames /\ ~Faulty /\ tcp \in {"none", "up"} =>
        \A n \in Requests : asker[n] \in Agents =>
            \/ n \in toController
            \/ Incoming(n) /\ reader = "reading"
            \/ published[n] = n
=============================================================================
