------------------------------- MODULE UspAgent -------------------------------
(***************************************************************************)
(* The USP agent of cmd/agents/usp: one session with the controller, over  *)
(* WebSocket or STOMP.                                                     *)
(*                                                                         *)
(* main connects, sends a Boot! event, reads, sends a Get, reads, closes   *)
(* the transport and returns.  Over STOMP two goroutines work for it: the  *)
(* reader takes frames off the socket and puts the messages into inbox,    *)
(* the heartbeat writes to the same socket.  Both report errors through    *)
(* errs, and the reader and Close both close the channel closed.           *)
(*                                                                         *)
(* usp-service answers what it receives, late, twice, out of order or not  *)
(* at all.  STOMP has one queue for all agents, so an agent also gets what *)
(* is meant for others.  The link fails at any moment.                     *)
(*                                                                         *)
(* A USP record is its version, its two endpoint ids, and the type and id  *)
(* of its message; what a message carries is left out.                     *)
(***************************************************************************)
EXTENDS Naturals, Sequences

CONSTANTS
    agent, controller, other,  \* endpoint ids: other is another agent
    InboxSize,                 \* capacity of inbox
    MaxFrames,                 \* bound: messages pushed to the agent
    None

ASSUME AgentAssumption ==
    /\ InboxSize \in Nat \ {0} /\ MaxFrames \in Nat
    /\ agent # other

Versions == {"1.3", "1.4"}
Ids == {agent, controller, other}

\* The message types of usp-msg.proto that the agent and its answers use.
Types == {"NOTIFY", "GET", "NOTIFY_RESP", "GET_RESP", "ERROR"}

Record == [version : Versions, from : Ids, to : Ids, type : Types,
           id : {"boot", "msg", "notify-resp-boot", "get-resp-msg", "error-resp"}]

ASSUME NoneAssumption == None \notin Record

VARIABLES
    transport,  \* the configured MTP: "stomp" or "websocket"
    version,    \* the configured USP version
    heartbeats, \* is STOMPHeartbeatSend positive?
    main,       \* what main does next
    reader,     \* readLoop
    held,       \* the message readLoop is about to put into inbox
    beat,       \* heartbeatLoop
    inbox,      \* the channel of messages
    errs,       \* the channel of errors, of capacity one
    closed,     \* the channel closed is closed
    once,       \* closeOnce has been used
    link,       \* the socket, as the agent has it
    failed,     \* a read of the WebSocket has failed: all later ones do
    session,    \* the broker's side of the connection
    greeting,   \* RabbitMQ's answer to CONNECT, on its way
    wire,       \* messages on their way to the agent
    received,   \* records of the agent the controller has got
    pushed,     \* history variable: messages put on the wire
    got,        \* history variable: messages Read has returned
    noticed     \* history variable: Read has returned an error of errs

config == <<transport, version, heartbeats>>
channels == <<inbox, errs, closed, once>>
socket == <<link, failed>>
transit == <<greeting, wire, received, pushed>>
outside == <<session, transit>>
history == <<got, noticed>>
vars == <<config, main, reader, held, beat, channels, socket, outside, history>>

-----------------------------------------------------------------------------
(***************************************************************************)
(* Records, and usp-service's answers to them.                             *)
(***************************************************************************)
createOnboardingMessage ==
    [version |-> version, from |-> agent, to |-> controller,
     type |-> "NOTIFY", id |-> "boot"]

createGetMessage ==
    [version |-> version, from |-> agent, to |-> controller,
     type |-> "GET", id |-> "msg"]

\* Both generations parse any record; what counts is the field Version.
DetectUSPVersion(rec) == IF rec.version = "1.4" THEN "1.4" ELSE "1.3"

\* createUSP13Response and createUSP14Response.
createResponse(rec) ==
    CASE rec.type = "NOTIFY" -> [type |-> "NOTIFY_RESP",
                                 id |-> "notify-resp-boot"]
      [] rec.type = "GET" -> [type |-> "GET_RESP", id |-> "get-resp-msg"]
      [] OTHER -> [type |-> "ERROR", id |-> "error-resp"]

ProcessUSPMessage(rec) ==
    [version |-> DetectUSPVersion(rec), from |-> rec.to, to |-> rec.from,
     type |-> createResponse(rec).type, id |-> createResponse(rec).id]

Answers == {ProcessUSPMessage(rec) : rec \in received}

\* What the queue all STOMP agents read holds for another one.
Strays ==
    IF transport = "stomp"
    THEN {[version |-> "1.3", from |-> controller, to |-> other,
           type |-> "GET_RESP", id |-> "get-resp-msg"]}
    ELSE {}

-----------------------------------------------------------------------------
Init ==
    /\ transport \in {"stomp", "websocket"}
    /\ version \in Versions
    /\ heartbeats \in BOOLEAN
    /\ main = "dial" /\ reader = "off" /\ held = None /\ beat = "off"
    /\ inbox = <<>> /\ errs = <<>> /\ closed = FALSE /\ once = FALSE
    /\ link = "none" /\ failed = FALSE
    /\ session = "none" /\ greeting = "none" /\ wire = <<>> /\ received = {}
    /\ pushed = <<>> /\ got = <<>> /\ noticed = FALSE

-----------------------------------------------------------------------------
(***************************************************************************)
(* The network, the broker and usp-service.                                *)
(***************************************************************************)
\* RabbitMQ answers CONNECT.
Accept ==
    /\ session = "asked"
    /\ greeting' \in {"CONNECTED", "ERROR"}
    /\ session' = "connected"
    /\ UNCHANGED <<config, main, reader, held, beat, channels, socket, wire,
                   received, pushed, history>>

\* An answer reaches the agent, for the first time or again.
Push ==
    /\ session = "open"
    /\ Len(pushed) < MaxFrames
    /\ \E m \in Answers \cup Strays :
          /\ pushed' = Append(pushed, m)
          /\ wire' = Append(wire, m)
    /\ UNCHANGED <<config, main, reader, held, beat, channels, socket, session,
                   greeting, received, history>>

\* The last frames on their way may be lost with the link.
LoseLink ==
    /\ link = "up"
    /\ link' = "lost" /\ session' = "none"
    /\ \E n \in 0 .. Len(wire) : wire' = SubSeq(wire, 1, n)
    /\ greeting' \in {greeting, "none"}
    /\ UNCHANGED <<config, main, reader, held, beat, channels, failed,
                   received, pushed, history>>

-----------------------------------------------------------------------------
(***************************************************************************)
(* main and USPClient.                                                     *)
(***************************************************************************)
\* A write to a link that is lost may fail or be in vain.
CanWrite == link \in {"up", "lost"}
MayFail == link # "up"

\* log.Fatalf, a panic, or the return of main: the process ends, with every
\* goroutine.
Exit(how) ==
    /\ main' = how
    /\ reader' = "off" /\ beat' = "off"
    /\ session' = "none"
    /\ link' = IF link = "none" THEN "none" ELSE "closed"

Fatal ==
    /\ Exit("fatal")
    /\ UNCHANGED <<config, held, channels, failed, transit, history>>

Dial ==
    /\ main = "dial"
    /\ \/ /\ link' = "up"
          /\ main' = IF transport = "stomp" THEN "connect" ELSE "boot"
          /\ session' = IF transport = "stomp" THEN "none" ELSE "open"
          /\ UNCHANGED <<config, reader, held, beat, channels, failed, transit,
                         history>>
       \/ Fatal

SendConnect ==
    /\ main = "connect"
    /\ \/ /\ CanWrite
          /\ main' = "accept"
          /\ session' = IF link = "up" THEN "asked" ELSE session
          /\ UNCHANGED <<config, reader, held, beat, channels, socket, transit,
                         history>>
       \/ MayFail /\ Fatal

ReadConnected ==
    /\ main = "accept"
    /\ greeting = "CONNECTED"
    /\ main' = "subscribe"
    /\ UNCHANGED <<config, reader, held, beat, channels, socket, outside,
                   history>>

\* An ERROR frame, five seconds of silence, or a lost link.
ConnectFails ==
    /\ main = "accept"
    /\ greeting # "CONNECTED"
    /\ Fatal

Subscribe ==
    /\ main = "subscribe"
    /\ \/ /\ CanWrite
          /\ session' = IF link = "up" THEN "open" ELSE session
          /\ main' = "boot" /\ reader' = "reading"
          /\ beat' = IF heartbeats THEN "ticking" ELSE "off"
          /\ UNCHANGED <<config, held, channels, socket, transit, history>>
       \/ MayFail /\ Fatal

\* sendRecord; an error ends demonstrateUSPOperations, and with it the agent.
SendRecord(rec, next) ==
    \/ /\ CanWrite
       /\ received' = IF link = "up" THEN received \cup {rec} ELSE received
       /\ main' = next
       /\ UNCHANGED <<config, reader, held, beat, channels, link, failed,
                      session, greeting, wire, pushed, history>>
    \/ MayFail /\ Fatal

SendBoot == main = "boot" /\ SendRecord(createOnboardingMessage, "bootResp")

SendGet == main = "get" /\ SendRecord(createGetMessage, "getResp")

\* readResponse: whatever Read returns, main goes on.  It takes the first
\* message it gets, whatever that answers.
Reading == main \in {"bootResp", "getResp"}
GoOn == main' = IF main = "bootResp" THEN "get" ELSE "close"

\* Mutant: passes over all but the latest message.
ReadLatest ==
    /\ Reading /\ transport = "stomp"
    /\ inbox # <<>>
    /\ got' = Append(got, inbox[Len(inbox)])
    /\ inbox' = <<>>
    /\ GoOn
    /\ UNCHANGED <<config, reader, held, beat, errs, closed, once, socket,
                   outside, noticed>>

ReadInbox ==
    /\ Reading /\ transport = "stomp"
    /\ inbox # <<>>
    /\ got' = Append(got, Head(inbox))
    /\ inbox' = Tail(inbox)
    /\ GoOn
    /\ UNCHANGED <<config, reader, held, beat, errs, closed, once, socket,
                   outside,
                   noticed>>

\* Mutant: an error empties inbox.
ReadErrsAndClear ==
    /\ Reading /\ transport = "stomp"
    /\ errs # <<>>
    /\ errs' = Tail(errs)
    /\ inbox' = <<>>
    /\ noticed' = TRUE
    /\ GoOn
    /\ UNCHANGED <<config, reader, held, beat, closed, once, socket, outside,
                   got>>

ReadErrs ==
    /\ Reading /\ transport = "stomp"
    /\ errs # <<>>
    /\ errs' = Tail(errs)
    /\ noticed' = TRUE
    /\ GoOn
    /\ UNCHANGED <<config, reader, held, beat, inbox, closed, once, socket,
                   outside,
                   got>>

\* Mutant: only a link that is lost ends the wait.
ReadTimesOutIfLost ==
    /\ Reading /\ transport = "stomp"
    /\ inbox = <<>> /\ errs = <<>>
    /\ link # "up"
    /\ GoOn
    /\ UNCHANGED <<config, reader, held, beat, channels, socket, outside,
                   history>>

\* Ten seconds with neither a message nor an error.
ReadTimeout ==
    /\ Reading /\ transport = "stomp"
    /\ inbox = <<>> /\ errs = <<>>
    /\ GoOn
    /\ UNCHANGED <<config, reader, held, beat, channels, socket, outside,
                   history>>

ReadWebSocket ==
    /\ Reading /\ transport = "websocket"
    /\ ~failed /\ wire # <<>>
    /\ got' = Append(got, Head(wire))
    /\ wire' = Tail(wire)
    /\ GoOn
    /\ UNCHANGED <<config, reader, held, beat, channels, socket, session,
                   greeting, received, pushed, noticed>>

\* The deadline, an error of the link, or an earlier error that stays.
WebSocketReadFails ==
    /\ Reading /\ transport = "websocket"
    /\ failed \/ wire = <<>>
    /\ failed' = TRUE
    /\ GoOn
    /\ UNCHANGED <<config, reader, held, beat, channels, link,
                   outside, history>>

\* close(s.closed), which panics the second time.
CloseChannel(how) ==
    IF closed
    THEN Exit("panic") /\ UNCHANGED closed
    ELSE closed' = TRUE /\ how

\* The deferred Close.  Over STOMP it does nothing if the reader has ended:
\* no DISCONNECT, and the socket is left to the end of the process.
Close ==
    LET shut == /\ link' = "closed" /\ session' = "none"
                /\ main' = "return"
                /\ UNCHANGED <<reader, beat>>
    IN  /\ main = "close"
        /\ IF transport = "stomp"
           THEN IF once
                THEN /\ main' = "return"
                     /\ UNCHANGED <<reader, beat, link, session, once, closed>>
                ELSE once' = TRUE /\ CloseChannel(shut)
           ELSE shut /\ UNCHANGED <<once, closed>>
        /\ UNCHANGED <<config, held, inbox, errs, failed, transit, history>>

Return ==
    /\ main = "return"
    /\ Exit("done")
    /\ UNCHANGED <<config, held, channels, failed, transit, history>>

-----------------------------------------------------------------------------
(***************************************************************************)
(* readLoop.                                                               *)
(***************************************************************************)
\* Mutant: a full inbox drops the message.
TakeFrameOrDrop ==
    /\ reader = "reading"
    /\ wire # <<>>
    /\ wire' = Tail(wire)
    /\ inbox' = IF Len(inbox) < InboxSize THEN Append(inbox, Head(wire))
                ELSE inbox
    /\ UNCHANGED <<config, main, reader, held, beat, errs, closed, once,
                   socket, session, greeting, received, pushed, history>>

\* readStompFrame returns a MESSAGE; other frames are passed over.  What its
\* buffer holds can be read even when Close has closed the socket.
TakeFrame ==
    /\ reader = "reading"
    /\ wire # <<>>
    /\ wire' = Tail(wire)
    /\ held' = Head(wire)
    /\ reader' = "holding"
    /\ UNCHANGED <<config, main, beat, channels, socket, session, greeting,
                   received, pushed, history>>

\* Mutant: the channel has no capacity to fill.
PutUnbounded ==
    /\ reader = "holding"
    /\ inbox' = Append(inbox, held)
    /\ held' = None
    /\ reader' = "reading"
    /\ UNCHANGED <<config, main, beat, errs, closed, once, socket, outside,
                   history>>

\* The send blocks while inbox is full.
PutInbox ==
    /\ reader = "holding"
    /\ Len(inbox) < InboxSize
    /\ inbox' = Append(inbox, held)
    /\ held' = None
    /\ reader' = "reading"
    /\ UNCHANGED <<config, main, beat, errs, closed, once, socket, outside,
                   history>>

\* An error of the socket, or thirty seconds without a frame.
ReadFails ==
    /\ reader = "reading"
    /\ link = "closed" \/ wire = <<>>
    /\ reader' = "report"
    /\ UNCHANGED <<config, main, held, beat, channels, socket, outside,
                   history>>

\* Mutant: ends without telling main.
EndSilently ==
    /\ reader = "report"
    /\ reader' = "end"
    /\ UNCHANGED <<config, main, held, beat, channels, socket, outside,
                   history>>

\* The send to errs does not block: an error may be there already.
ReportError ==
    /\ reader = "report"
    /\ errs' = IF errs = <<>> THEN <<"read">> ELSE errs
    /\ reader' = "end"
    /\ UNCHANGED <<config, main, held, beat, inbox, closed, once, socket,
                   outside,
                   history>>

\* Mutant: closes the channel without closeOnce.
EndReaderAnyway ==
    /\ reader = "end"
    /\ CloseChannel(reader' = "gone" /\ UNCHANGED <<main, beat, link, session>>)
    /\ UNCHANGED <<config, held, inbox, errs, once, failed, transit, history>>

\* closeOnce: whoever comes second does nothing.
EndReader ==
    /\ reader = "end"
    /\ IF once
       THEN /\ reader' = "gone"
            /\ UNCHANGED <<closed, once, main, beat, link, session>>
       ELSE /\ once' = TRUE
            /\ CloseChannel(/\ reader' = "gone"
                            /\ UNCHANGED <<main, beat, link, session>>)
    /\ UNCHANGED <<config, held, inbox, errs, failed, transit, history>>

-----------------------------------------------------------------------------
(***************************************************************************)
(* heartbeatLoop.                                                          *)
(***************************************************************************)
Beat ==
    /\ beat = "ticking"
    /\ \/ CanWrite /\ UNCHANGED beat
       \/ MayFail /\ beat' = "report"
    /\ UNCHANGED <<config, main, reader, held, channels, link, failed, outside,
                   history>>

\* This send to errs blocks while an error is there.
ReportBeat ==
    /\ beat = "report"
    /\ errs = <<>>
    /\ errs' = <<"beat">>
    /\ beat' = "gone"
    /\ UNCHANGED <<config, main, reader, held, inbox, closed, once, socket,
                   outside,
                   history>>

StopBeat ==
    /\ beat = "ticking"
    /\ closed
    /\ beat' = "gone"
    /\ UNCHANGED <<config, main, reader, held, channels, socket, outside,
                   history>>

-----------------------------------------------------------------------------
World == Accept \/ Push \/ LoseLink

Main ==
    \/ Dial \/ SendConnect \/ ReadConnected \/ ConnectFails \/ Subscribe
    \/ SendBoot \/ SendGet
    \/ ReadInbox \/ ReadErrs \/ ReadTimeout
    \/ ReadWebSocket \/ WebSocketReadFails
    \/ Close \/ Return

readLoop == TakeFrame \/ PutInbox \/ ReadFails \/ ReportError \/ EndReader

heartbeatLoop == Beat \/ ReportBeat \/ StopBeat

Next == World \/ Main \/ readLoop \/ heartbeatLoop

Spec == Init /\ [][Next]_vars

\* The scheduler runs main, and timers expire.  Nothing is assumed of the
\* other goroutines, the network and the controller.
FairSpec == Spec /\ WF_vars(Main)

-----------------------------------------------------------------------------
(***************************************************************************)
(* Properties.                                                             *)
(***************************************************************************)
\* The type invariant.
TypeOK ==
    /\ transport \in {"stomp", "websocket"}
    /\ version \in Versions /\ heartbeats \in BOOLEAN
    /\ main \in {"dial", "connect", "accept", "subscribe", "boot", "bootResp",
                "get", "getResp", "close", "return", "done", "fatal", "panic"}
    /\ reader \in {"off", "reading", "holding", "report", "end", "gone"}
    /\ held \in Record \cup {None}
    /\ beat \in {"off", "ticking", "report", "gone"}
    /\ inbox \in Seq(Record) /\ Len(inbox) <= InboxSize
    /\ errs \in {<<>>, <<"read">>, <<"beat">>}
    /\ closed \in BOOLEAN /\ once \in BOOLEAN
    /\ link \in {"none", "up", "lost", "closed"} /\ failed \in BOOLEAN
    /\ session \in {"none", "asked", "connected", "open"}
    /\ greeting \in {"none", "CONNECTED", "ERROR"}
    /\ wire \in Seq(Record)
    /\ received \in SUBSET Record
    /\ pushed \in Seq(Record) /\ Len(pushed) <= MaxFrames
    /\ got \in Seq(Record)
    /\ noticed \in BOOLEAN

\* What readLoop has taken off the socket and not yet put into inbox.
InHand == IF held = None THEN <<>> ELSE <<held>>

\* What has been read, what waits in inbox, what readLoop holds, what is on
\* the wire.
Path == got \o inbox \o InHand \o wire

\* No message disappears or changes places between the socket and the
\* program, whatever the goroutines do and however full inbox is: the path is
\* what was put on the wire, but for what a lost link cut off its end.
Conserved ==
    /\ Len(Path) <= Len(pushed)
    /\ \A n \in 1 .. Len(Path) : Path[n] = pushed[n]
    /\ link = "up" => Len(Path) = Len(pushed)

\* The reader and Close both close the channel closed, and a second close
\* would end the agent: closeOnce keeps them apart.
ClosedOnce == main # "panic"

\* Once the reader has ended, the next Read need not wait: an error is in
\* errs, the reader's or the heartbeat's, unless Read has returned one.
ErrorIsKnown == reader \in {"end", "gone"} => errs # <<>> \/ noticed

\* Read returns the messages in the order they were put on the wire, each
\* once, and never takes one back.
ReadsInOrder ==
    [][got' # got => got' = Append(got, pushed[Len(got) + 1])]_vars

\* Towards the program, socket, reader and inbox are one stream: a message
\* that waits behind a full inbox or in the reader's hand is neither lost nor
\* passed when the link fails, a heartbeat fails or Close comes in between.
Pending == inbox \o InHand \o wire
MayCome == link \in {"none", "up"}
Messages == INSTANCE Stream WITH
    Messages <- Record, open <- MayCome, queue <- Pending, taken <- got
ImplementsStream == Messages!Spec

\* Whatever the link and the controller do, the agent comes to an end: no
\* send, no read and no Close waits for ever.
Ends == <>(main \in {"done", "fatal"})

\* agents/usp/main.go: "Waiting for GET response...": what main reads after
\* the Get is the agent's GET_RESP.
ReadsGetResp ==
    [][main = "getResp" /\ got' # got =>
          LET m == got'[Len(got')]
          IN  m.type = "GET_RESP" /\ m.to = agent]_vars

\* agents/usp/transport.go: a message that has come is read before the agent
\* goes, as the queue has forgotten it (ack:auto).
NothingIsDiscarded == main = "return" => inbox = <<>> /\ held = None
=============================================================================
