--------------------------- MODULE RequestResponse ---------------------------
(***************************************************************************)
(* The RequestResponseClient of api-gateway and data-service's side of it. *)
(*                                                                         *)
(* Each HTTP request runs SendRequest in a goroutine of its own: it        *)
(* registers a channel under its correlation id, produces the request and  *)
(* waits, first for the delivery report and then for the response.  One    *)
(* listener goroutine per gateway reads the response topic, in a consumer  *)
(* group of its own, and hands each response to the channel registered for *)
(* it.  Stop closes the client while requests may be in flight.            *)
(*                                                                         *)
(* A response is its correlation id, that is the request it answers.       *)
(***************************************************************************)
EXTENDS Naturals, Sequences, FiniteSets

CONSTANTS
    Requests, Gateways,
    Home,        \* Home[r]: the gateway that serves HTTP request r
    MaxCopies,   \* bound: copies of a request the producer's retries write
    MaxCrashes,  \* bound: crashes of data-service
    MayStop,     \* may the operator stop a gateway?
    None,        \* no response
    Error        \* what SendRequest returns instead of one

ASSUME RequestsAssumption ==
    /\ Home \in [Requests -> Gateways]
    /\ MaxCopies \in Nat /\ MaxCrashes \in Nat
    /\ MayStop \in BOOLEAN
    /\ None \notin Requests /\ Error \notin Requests /\ None # Error

VARIABLES
    phase,      \* phase[g]: how far gateway g is in its life
    pc,         \* pc[r]: the next step of the goroutine of r
    result,     \* result[r]: what SendRequest is about to return
    delivery,   \* delivery[r]: what the producer knows of the request
    pending,    \* pending[g]: keys of pendingRequests
    buffer,     \* buffer[r]: what the channel of r holds
    closed,     \* closed[r]: the channel of r is closed
    listener,   \* listener[g]: the next step of listenForResponses
    held,       \* held[g]: the response the listener has, for a channel found
    requests,   \* the request topic
    taken,      \* requests data-service has read
    committed,  \* offset its group restarts from
    serving,    \* the request in handleAPIRequest
    crashes,    \* crashes of data-service
    responses,  \* the response topic
    seen,       \* seen[g]: responses g has read, None before assignment
    executed    \* history variable: times each operation was executed

caller == <<pc, result>>
channels == <<pending, buffer, closed>>
listening == <<listener, held, seen>>
service == <<requests, taken, committed, serving, crashes, responses, executed>>
vars == <<phase, caller, delivery, channels, listening, service>>

Phases == {"running", "closing", "closed", "draining", "down", "crashed"}
Alive(g) == phase[g] \notin {"down", "crashed"}
Kafka(g) == phase[g] \in {"running", "closing"}

Init ==
    /\ phase = [g \in Gateways |-> "running"]
    /\ pc = [r \in Requests |-> "idle"]
    /\ result = [r \in Requests |-> None]
    /\ delivery = [r \in Requests |-> "none"]
    /\ pending = [g \in Gateways |-> {}]
    /\ buffer = [r \in Requests |-> None]
    /\ closed = [r \in Requests |-> FALSE]
    /\ listener = [g \in Gateways |-> "loop"]
    /\ held = [g \in Gateways |-> None]
    /\ seen = [g \in Gateways |-> None]
    /\ requests = <<>>
    /\ taken = 0
    /\ committed = 0
    /\ serving = None
    /\ crashes = 0
    /\ responses = <<>>
    /\ executed = [r \in Requests |-> 0]

-----------------------------------------------------------------------------
(***************************************************************************)
(* SendRequest.  Every return runs the deferred function, which removes    *)
(* the channel under the lock and closes it after the lock is released.    *)
(***************************************************************************)
At(r, l) == Alive(Home[r]) /\ pc[r] = l
Go(r, l) == pc' = [pc EXCEPT ![r] = l]

Leave(r, value) ==
    /\ Go(r, "leave")
    /\ result' = [result EXCEPT ![r] = value]

\* The HTTP server takes requests until Stop shuts it down, after the client.
Call(r) ==
    /\ At(r, "idle")
    /\ phase[Home[r]] # "draining"
    /\ pending' = [pending EXCEPT ![Home[r]] = @ \cup {r}]
    /\ Go(r, "produce")
    /\ UNCHANGED <<phase, result, delivery, buffer, closed, listening, service>>

\* A full local queue is an error at once.
Produce(r) ==
    /\ At(r, "produce")
    /\ \/ /\ Kafka(Home[r])
          /\ delivery' = [delivery EXCEPT ![r] = "queued"]
          /\ Go(r, "delivery")
          /\ UNCHANGED result
       \/ Leave(r, Error) /\ UNCHANGED delivery
    /\ UNCHANGED <<phase, channels, listening, service>>

\* A producer that is closed has freed its librdkafka handle: using it may
\* also end the process.
ProduceAfterClose(r) ==
    /\ At(r, "produce")
    /\ ~Kafka(Home[r])
    /\ phase' = [phase EXCEPT ![Home[r]] = "crashed"]
    /\ UNCHANGED <<caller, delivery, channels, listening, service>>

\* Mutant: the delivery report is taken for the answer.
DeliveredIsAnswer(r) ==
    /\ At(r, "delivery")
    /\ \/ delivery[r] = "acked" /\ Leave(r, r)
       \/ delivery[r] = "failed" /\ Leave(r, Error)
    /\ UNCHANGED <<phase, delivery, channels, listening, service>>

Delivered(r) ==
    /\ At(r, "delivery")
    /\ \/ delivery[r] = "acked" /\ Go(r, "response") /\ UNCHANGED result
       \/ delivery[r] = "failed" /\ Leave(r, Error)
    /\ UNCHANGED <<phase, delivery, channels, listening, service>>

Receive(r) ==
    /\ At(r, "response")
    /\ buffer[r] # None
    /\ Leave(r, buffer[r])
    /\ buffer' = [buffer EXCEPT ![r] = None]
    /\ UNCHANGED <<phase, delivery, pending, closed, listening, service>>

\* Mutant: no timer on the delivery report.
TimeoutOnResponse(r) ==
    /\ At(r, "response")
    /\ Leave(r, Error)
    /\ UNCHANGED <<phase, delivery, channels, listening, service>>

\* Five seconds for the delivery report, thirty for the response.
Timeout(r) ==
    /\ At(r, "delivery") \/ At(r, "response")
    /\ Leave(r, Error)
    /\ UNCHANGED <<phase, delivery, channels, listening, service>>

\* Mutant: the channel is closed before it is removed from the map.
ForgetLate(r) ==
    /\ At(r, "leave")
    /\ closed' = [closed EXCEPT ![r] = TRUE]
    /\ Go(r, "close")
    /\ UNCHANGED <<phase, result, delivery, pending, buffer, listening, service>>

Forget(r) ==
    /\ At(r, "leave")
    /\ pending' = [pending EXCEPT ![Home[r]] = @ \ {r}]
    /\ Go(r, "close")
    /\ UNCHANGED <<phase, result, delivery, buffer, closed, listening, service>>

CloseChannel(r) ==
    /\ At(r, "close")
    /\ closed' = [closed EXCEPT ![r] = TRUE]
    /\ Go(r, "done")
    /\ UNCHANGED <<phase, result, delivery, pending, buffer, listening, service>>

-----------------------------------------------------------------------------
(***************************************************************************)
(* The broker.  The producer retries, and without idempotence a retry      *)
(* writes the request again.                                               *)
(***************************************************************************)
Copies(r) == {n \in DOMAIN requests : requests[n] = r}

Accept(r) ==
    /\ delivery[r] = "queued"
    /\ Cardinality(Copies(r)) < MaxCopies
    /\ requests' = Append(requests, r)
    /\ \/ delivery' = [delivery EXCEPT ![r] = "acked"]
       \/ UNCHANGED delivery
    /\ UNCHANGED <<phase, caller, channels, listening, taken, committed,
                   serving, crashes, responses, executed>>

Reject(r) ==
    /\ delivery[r] = "queued"
    /\ delivery' = [delivery EXCEPT ![r] = "failed"]
    /\ UNCHANGED <<phase, caller, channels, listening, service>>

-----------------------------------------------------------------------------
(***************************************************************************)
(* data-service: handleAPIRequest executes the operation, whose outcome,   *)
(* good or bad, is the response.                                           *)
(***************************************************************************)
Serve ==
    /\ serving = None
    /\ taken < Len(requests)
    /\ LET r == requests[taken + 1]
       IN  /\ serving' = r
           /\ executed' = [executed EXCEPT ![r] = @ + 1]
    /\ taken' = taken + 1
    /\ UNCHANGED <<phase, caller, delivery, channels, listening, requests,
                   committed, crashes, responses>>

\* sendAPIResponse does not wait for a delivery report: a response may be lost.
Respond ==
    /\ serving # None
    /\ \/ responses' = Append(responses, serving)
       \/ UNCHANGED responses
    /\ serving' = None
    /\ UNCHANGED <<phase, caller, delivery, channels, listening, requests,
                   taken, committed, crashes, executed>>

\* Mutant: the commit includes the next request.
CommitAhead ==
    /\ committed' = taken + 1
    /\ UNCHANGED <<phase, caller, delivery, channels, listening, requests,
                   taken, serving, crashes, responses, executed>>

\* enable.auto.commit, at any moment.
Commit ==
    /\ committed' = taken
    /\ UNCHANGED <<phase, caller, delivery, channels, listening, requests,
                   taken, serving, crashes, responses, executed>>

\* The process ends and is started again.
ServiceCrash ==
    /\ crashes < MaxCrashes
    /\ crashes' = crashes + 1
    /\ taken' = committed
    /\ serving' = None
    /\ UNCHANGED <<phase, caller, delivery, channels, listening, requests,
                   committed, responses, executed>>

-----------------------------------------------------------------------------
(***************************************************************************)
(* listenForResponses.                                                     *)
(***************************************************************************)
Hears(g, l) == Alive(g) /\ listener[g] = l
Turn(g, l) == listener' = [listener EXCEPT ![g] = l]

\* auto.offset.reset = latest: what is there before the assignment is missed.
Assign(g) ==
    /\ Alive(g) /\ listener[g] # "stopped"
    /\ seen[g] = None
    /\ seen' = [seen EXCEPT ![g] = Len(responses)]
    /\ UNCHANGED <<phase, caller, delivery, channels, listener, held, service>>

\* The top of the loop looks at ctx.Done.
Poll(g) ==
    /\ Hears(g, "loop")
    /\ Turn(g, IF phase[g] = "running" THEN "read" ELSE "stopped")
    /\ UNCHANGED <<phase, caller, delivery, channels, held, seen, service>>

Unread(g) == seen[g] # None /\ seen[g] < Len(responses)

\* ReadMessage, and the lookup of the channel under the read lock.
Read(g) ==
    /\ Hears(g, "read")
    /\ Unread(g)
    /\ seen' = [seen EXCEPT ![g] = @ + 1]
    /\ LET resp == responses[seen[g] + 1]
       IN  IF resp \in pending[g]
           THEN Turn(g, "deliver") /\ held' = [held EXCEPT ![g] = resp]
           ELSE Turn(g, "loop") /\ UNCHANGED held
    /\ UNCHANGED <<phase, caller, delivery, channels, service>>

\* Mutant: the listener returns when ReadMessage times out.
ReadTimeoutStops(g) ==
    /\ Hears(g, "read")
    /\ ~Unread(g)
    /\ Turn(g, "stopped")
    /\ UNCHANGED <<phase, caller, delivery, channels, held, seen, service>>

\* ReadMessage returns ErrTimedOut after 100 ms without a message.
ReadTimeout(g) ==
    /\ Hears(g, "read")
    /\ ~Unread(g)
    /\ Turn(g, "loop")
    /\ UNCHANGED <<phase, caller, delivery, channels, held, seen, service>>

\* The non-blocking send, with the lock released: a second response finds
\* the channel full and is dropped.
Deliver(g) ==
    /\ Hears(g, "deliver")
    /\ ~closed[held[g]]
    /\ buffer' = IF buffer[held[g]] = None
                 THEN [buffer EXCEPT ![held[g]] = held[g]]
                 ELSE buffer
    /\ Turn(g, "loop")
    /\ held' = [held EXCEPT ![g] = None]
    /\ UNCHANGED <<phase, caller, delivery, pending, closed, seen, service>>

\* "panic: send on closed channel", in a goroutine nobody recovers.
SendOnClosed(g) ==
    /\ Hears(g, "deliver")
    /\ closed[held[g]]
    /\ phase' = [phase EXCEPT ![g] = "crashed"]
    /\ UNCHANGED <<caller, delivery, channels, listening, service>>

-----------------------------------------------------------------------------
(***************************************************************************)
(* Stop: the client is closed first, then the HTTP server is shut down,    *)
(* which waits ten seconds for requests in flight, then main returns.      *)
(***************************************************************************)
Advance(g, from, to) ==
    /\ phase[g] = from
    /\ phase' = [phase EXCEPT ![g] = to]
    /\ UNCHANGED <<caller, delivery, channels, listening, service>>

Cancel(g) == MayStop /\ Advance(g, "running", "closing")

CloseClient(g) == listener[g] = "stopped" /\ Advance(g, "closing", "closed")

Shutdown(g) == Advance(g, "closed", "draining")

Exit(g) == Advance(g, "draining", "down")

-----------------------------------------------------------------------------
Caller(r) ==
    \/ Produce(r) \/ ProduceAfterClose(r) \/ Delivered(r) \/ Receive(r)
    \/ Timeout(r) \/ Forget(r) \/ CloseChannel(r)

Listener(g) ==
    Poll(g) \/ Read(g) \/ ReadTimeout(g) \/ Deliver(g) \/ SendOnClosed(g)

Stop(g) == Cancel(g) \/ CloseClient(g) \/ Shutdown(g) \/ Exit(g)

DataService == Serve \/ Respond \/ Commit \/ ServiceCrash

Next ==
    \/ \E r \in Requests : Call(r) \/ Caller(r) \/ Accept(r) \/ Reject(r)
    \/ \E g \in Gateways : Assign(g) \/ Listener(g) \/ Stop(g)
    \/ DataService

Spec == Init /\ [][Next]_vars

\* Goroutines of a live gateway run and its timers fire; nothing is promised
\* of the broker, of data-service or of the operator.
FairSpec ==
    /\ Spec
    /\ \A r \in Requests : WF_vars(Caller(r))
    /\ \A g \in Gateways : WF_vars(Listener(g))

-----------------------------------------------------------------------------
(***************************************************************************)
(* Properties.                                                             *)
(***************************************************************************)
GatewayOK ==
    /\ phase \in [Gateways -> Phases]
    /\ pending \in [Gateways -> SUBSET Requests]
    /\ listener \in [Gateways -> {"loop", "read", "deliver", "stopped"}]
    /\ held \in [Gateways -> Requests \cup {None}]
    /\ seen \in [Gateways -> Nat \cup {None}]

CallerOK ==
    /\ pc \in [Requests -> {"idle", "produce", "delivery", "response", "leave",
                            "close", "done"}]
    /\ result \in [Requests -> Requests \cup {None, Error}]
    /\ delivery \in [Requests -> {"none", "queued", "acked", "failed"}]
    /\ buffer \in [Requests -> Requests \cup {None}]
    /\ closed \in [Requests -> BOOLEAN]

ServiceOK ==
    /\ requests \in Seq(Requests) /\ responses \in Seq(Requests)
    /\ committed \in Nat /\ taken \in Nat /\ crashes \in Nat
    /\ committed <= taken /\ taken <= Len(requests)
    /\ serving \in Requests \cup {None}
    /\ executed \in [Requests -> Nat]

\* Every variable holds a value of its kind, and data-service does not read
\* past the end of its topic.
TypeOK == GatewayOK /\ CallerOK /\ ServiceOK

\* A registered channel is open and waited for: the map never holds a channel
\* its owner has closed, and keeps nothing once SendRequest has returned.
PendingIsOpen ==
    \A g \in Gateways : \A r \in pending[g] :
        ~closed[r] /\ pc[r] \notin {"idle", "close", "done"}

\* Every HTTP request gets an answer or an error while its gateway lives.
Returns ==
    \A r \in Requests :
        pc[r] # "idle" ~> pc[r] = "done" \/ ~Alive(Home[r])

\* The listener never gets stuck: a gateway that keeps running reads every
\* response of its partitions, however many of them nobody waits for.
KeepsUp ==
    \A g \in Gateways : Unread(g) ~> ~Unread(g) \/ phase[g] # "running"

\* How RemoteCalls sees call r.
Status ==
    [r \in Requests |->
        CASE pc[r] = "idle" -> "idle"
          [] pc[r] = "done" -> IF result[r] = Error THEN "failed" ELSE "answered"
          [] OTHER -> IF Alive(Home[r]) THEN "open" ELSE "lost"]

Calls == INSTANCE RemoteCalls WITH status <- Status

\* SendRequest implements a remote call: it is answered only after the
\* operation was executed, and ends once.
ImplementsCalls == Calls!Spec

\* "listenForResponses continuously listens for responses": it does not end
\* the gateway.
Listens == \A g \in Gateways : phase[g] # "crashed"
=============================================================================
