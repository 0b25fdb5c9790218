------------------------ MODULE RequestResponse_proofs ------------------------
(***************************************************************************)
(* Proofs about RequestResponse: its types, the map of pending channels,   *)
(* and that it implements RemoteCalls.                                     *)
(***************************************************************************)
EXTENDS RequestResponse, TLAPS

(***************************************************************************)
(* What the properties rest on.                                            *)
(***************************************************************************)
\* The channel of a request is closed by its last step, is registered only
\* at its own gateway, and only before its owner removes it.
ChannelsOK ==
    /\ \A r \in Requests : closed[r] => pc[r] = "done"
    /\ \A g \in Gateways : \A r \in pending[g] :
          Home[r] = g /\ pc[r] \notin {"idle", "close", "done"}

Ran(r) == executed[r] > 0

\* Nothing is a response, wherever it is on its way, unless its operation ran.
ResponsesRan ==
    /\ \A n \in 1 .. Len(responses) : Ran(responses[n])
    /\ serving # None => Ran(serving)
    /\ \A g \in Gateways : held[g] # None => Ran(held[g])
    /\ \A g \in Gateways : listener[g] = "deliver" => held[g] # None

AnswersRan ==
    /\ \A r \in Requests : buffer[r] # None => buffer[r] = r /\ Ran(r)
    /\ \A r \in Requests :
          result[r] \notin {None, Error} => result[r] = r /\ Ran(r)
    /\ \A r \in Requests :
          pc[r] \in {"leave", "close", "done"} => result[r] # None

\* Nobody asks for an operation before its HTTP request has arrived.
Asked ==
    /\ \A r \in Requests : delivery[r] # "none" => pc[r] # "idle"
    /\ \A n \in 1 .. Len(requests) : pc[requests[n]] # "idle"

IInv == TypeOK /\ ChannelsOK /\ ResponsesRan /\ AnswersRan /\ Asked

(***************************************************************************)
(* Initial states.                                                         *)
(***************************************************************************)
LEMMA InitInv == Init => IInv
<1> USE RequestsAssumption
<1> SUFFICES ASSUME Init PROVE IInv
    OBVIOUS
<1>1. TypeOK
    BY DEF Init, TypeOK, GatewayOK, CallerOK, ServiceOK, Phases
<1>2. ChannelsOK /\ ResponsesRan /\ AnswersRan /\ Asked
    BY DEF Init, ChannelsOK, ResponsesRan, AnswersRan, Asked
<1> QED BY <1>1, <1>2 DEF IInv

(***************************************************************************)
(* Facts about the two topics.                                             *)
(***************************************************************************)
LEMMA Appended ==
    ASSUME NEW S, NEW s \in Seq(S), NEW e \in S
    PROVE  /\ Append(s, e) \in Seq(S)
           /\ Len(Append(s, e)) = Len(s) + 1
           /\ \A n \in 1 .. Len(s) : Append(s, e)[n] = s[n]
           /\ Append(s, e)[Len(s) + 1] = e
OBVIOUS

LEMMA TopicsHoldRequests ==
    ASSUME ServiceOK
    PROVE  /\ \A n \in 1 .. Len(requests) : requests[n] \in Requests
           /\ \A n \in 1 .. Len(responses) : responses[n] \in Requests
BY DEF ServiceOK

\* A goroutine that has begun stays begun.
LEMMA StaysAsked ==
    ASSUME CallerOK, ServiceOK, Asked, NEW r \in Requests, NEW l,
           l # "idle", pc' = [pc EXCEPT ![r] = l], requests' = requests,
           \A q \in Requests : delivery'[q] # delivery[q] => q = r
    PROVE  Asked'
<1>1. \A q \in Requests : pc[q] # "idle" => pc'[q] # "idle"
    BY DEF CallerOK
<1>2. pc'[r] # "idle"
    BY DEF CallerOK
<1>3. \A q \in Requests : delivery'[q] # "none" => pc'[q] # "idle"
    BY <1>1, <1>2 DEF Asked
<1>4. \A n \in 1 .. Len(requests) : pc'[requests[n]] # "idle"
    BY <1>1, TopicsHoldRequests DEF Asked
<1> QED BY <1>3, <1>4 DEF Asked

(***************************************************************************)
(* SendRequest.                                                            *)
(***************************************************************************)
LEMMA CallInv ==
    ASSUME NEW r \in Requests, IInv, Call(r) PROVE IInv'
<1> USE RequestsAssumption DEF IInv, TypeOK, vars, caller, channels, listening, service
<1>1. GatewayOK'
    BY DEF Call, GatewayOK, Phases, At, Go, Alive
<1>2. CallerOK'
    BY DEF Call, CallerOK, At, Go, Alive
<1>3. ChannelsOK'
    BY DEF Call, ChannelsOK, GatewayOK, CallerOK, At, Go, Alive
<1>4. AnswersRan'
    BY DEF Call, AnswersRan, Ran, CallerOK, At, Go, Alive
<1>5. Asked'
    BY StaysAsked DEF Call, CallerOK, Go
<1>6. ServiceOK' /\ ResponsesRan'
    BY DEF Call, ServiceOK, ResponsesRan, Ran
<1> QED BY <1>1, <1>2, <1>3, <1>4, <1>5, <1>6

\* Every return with an error.
LEMMA LeaveWithError ==
    ASSUME NEW r \in Requests, CallerOK, AnswersRan, Leave(r, Error),
           UNCHANGED <<buffer, executed>>
    PROVE  AnswersRan'
<1> USE RequestsAssumption DEF CallerOK, AnswersRan, Leave, Go, Ran
<1>1. \A q \in Requests : result'[q] = IF q = r THEN Error ELSE result[q]
    OBVIOUS
<1>2. \A q \in Requests : pc'[q] = IF q = r THEN "leave" ELSE pc[q]
    OBVIOUS
<1> QED BY <1>1, <1>2

LEMMA ProduceInv ==
    ASSUME NEW r \in Requests, IInv, Produce(r) PROVE IInv'
<1> USE RequestsAssumption DEF IInv, TypeOK, vars, caller, channels, listening, service
<1>1. CallerOK'
    BY DEF Produce, CallerOK, At, Go, Leave, Alive, Kafka
<1>2. ChannelsOK'
    BY DEF Produce, ChannelsOK, GatewayOK, CallerOK, At, Go, Leave, Alive, Kafka
<1>3. AnswersRan'
    <2>1. CASE Leave(r, Error)
        BY <2>1, LeaveWithError DEF Produce
    <2>2. CASE Go(r, "delivery") /\ UNCHANGED result
        BY <2>2 DEF Produce, AnswersRan, Ran, CallerOK, Go
    <2> QED BY <2>1, <2>2 DEF Produce
<1>4. Asked'
    BY StaysAsked DEF Produce, CallerOK, Go, Leave
<1>5. GatewayOK' /\ ServiceOK' /\ ResponsesRan'
    BY DEF Produce, GatewayOK, ServiceOK, ResponsesRan, Ran
<1> QED BY <1>1, <1>2, <1>3, <1>4, <1>5

LEMMA ProduceAfterCloseInv ==
    ASSUME NEW r \in Requests, IInv, ProduceAfterClose(r) PROVE IInv'
<1> USE RequestsAssumption DEF IInv, TypeOK, vars, caller, channels, listening, service
<1>1. GatewayOK'
    BY DEF ProduceAfterClose, GatewayOK, Phases, At
<1>2. CallerOK' /\ ServiceOK' /\ ChannelsOK' /\ ResponsesRan' /\ AnswersRan' /\ Asked'
    BY DEF ProduceAfterClose, CallerOK, ServiceOK, ChannelsOK, ResponsesRan, AnswersRan, Asked, Ran
<1> QED BY <1>1, <1>2

LEMMA DeliveredInv ==
    ASSUME NEW r \in Requests, IInv, Delivered(r) PROVE IInv'
<1> USE RequestsAssumption DEF IInv, TypeOK, vars, caller, channels, listening, service
<1>1. CallerOK'
    BY DEF Delivered, CallerOK, At, Go, Leave
<1>2. ChannelsOK'
    BY DEF Delivered, ChannelsOK, GatewayOK, CallerOK, At, Go, Leave
<1>3. AnswersRan'
    <2>1. CASE Leave(r, Error)
        BY <2>1, LeaveWithError DEF Delivered
    <2>2. CASE Go(r, "response") /\ UNCHANGED result
        BY <2>2 DEF Delivered, AnswersRan, Ran, CallerOK, Go
    <2> QED BY <2>1, <2>2 DEF Delivered
<1>4. Asked'
    BY StaysAsked DEF Delivered, CallerOK, Go, Leave
<1>5. GatewayOK' /\ ServiceOK' /\ ResponsesRan'
    BY DEF Delivered, GatewayOK, ServiceOK, ResponsesRan, Ran
<1> QED BY <1>1, <1>2, <1>3, <1>4, <1>5

LEMMA ReceiveInv ==
    ASSUME NEW r \in Requests, IInv, Receive(r) PROVE IInv'
<1> USE RequestsAssumption DEF IInv, TypeOK, vars, caller, channels, listening, service
<1>1. CallerOK'
    BY DEF Receive, CallerOK, At, Go, Leave
<1>2. ChannelsOK'
    BY DEF Receive, ChannelsOK, GatewayOK, CallerOK, At, Go, Leave
<1>3. AnswersRan'
    BY DEF Receive, AnswersRan, Ran, CallerOK, At, Go, Leave
<1>4. Asked'
    BY StaysAsked DEF Receive, CallerOK, Go, Leave
<1>5. GatewayOK' /\ ServiceOK' /\ ResponsesRan'
    BY DEF Receive, GatewayOK, ServiceOK, ResponsesRan, Ran
<1> QED BY <1>1, <1>2, <1>3, <1>4, <1>5

LEMMA TimeoutInv ==
    ASSUME NEW r \in Requests, IInv, Timeout(r) PROVE IInv'
<1> USE RequestsAssumption DEF IInv, TypeOK, vars, caller, channels, listening, service
<1>1. CallerOK'
    BY DEF Timeout, CallerOK, At, Go, Leave
<1>2. ChannelsOK'
    BY DEF Timeout, ChannelsOK, GatewayOK, CallerOK, At, Go, Leave
<1>3. AnswersRan'
    BY DEF Timeout, AnswersRan, Ran, CallerOK, At, Go, Leave
<1>4. Asked'
    BY StaysAsked DEF Timeout, CallerOK, Go, Leave
<1>5. GatewayOK' /\ ServiceOK' /\ ResponsesRan'
    BY DEF Timeout, GatewayOK, ServiceOK, ResponsesRan, Ran
<1> QED BY <1>1, <1>2, <1>3, <1>4, <1>5

LEMMA ForgetInv ==
    ASSUME NEW r \in Requests, IInv, Forget(r) PROVE IInv'
<1> USE RequestsAssumption DEF IInv, TypeOK, vars, caller, channels, listening, service
<1>1. GatewayOK'
    BY DEF Forget, GatewayOK, Phases, At, Go
<1>2. CallerOK'
    BY DEF Forget, CallerOK, At, Go
<1>3. ChannelsOK'
    BY DEF Forget, ChannelsOK, GatewayOK, CallerOK, At, Go
<1>4. AnswersRan'
    BY DEF Forget, AnswersRan, Ran, CallerOK, At, Go
<1>5. Asked'
    BY StaysAsked DEF Forget, CallerOK, Go
<1>6. ServiceOK' /\ ResponsesRan'
    BY DEF Forget, ServiceOK, ResponsesRan, Ran
<1> QED BY <1>1, <1>2, <1>3, <1>4, <1>5, <1>6

LEMMA CloseChannelInv ==
    ASSUME NEW r \in Requests, IInv, CloseChannel(r) PROVE IInv'
<1> USE RequestsAssumption DEF IInv, TypeOK, vars, caller, channels, listening, service
<1>1. CallerOK'
    BY DEF CloseChannel, CallerOK, At, Go
<1>2. ChannelsOK'
    BY DEF CloseChannel, ChannelsOK, GatewayOK, CallerOK, At, Go
<1>3. AnswersRan'
    BY DEF CloseChannel, AnswersRan, Ran, CallerOK, At, Go
<1>4. Asked'
    BY StaysAsked DEF CloseChannel, CallerOK, Go
<1>5. GatewayOK' /\ ServiceOK' /\ ResponsesRan'
    BY DEF CloseChannel, GatewayOK, ServiceOK, ResponsesRan, Ran
<1> QED BY <1>1, <1>2, <1>3, <1>4, <1>5

(***************************************************************************)
(* The broker and data-service.                                            *)
(***************************************************************************)
LEMMA AcceptInv ==
    ASSUME NEW r \in Requests, IInv, Accept(r) PROVE IInv'
<1> USE RequestsAssumption DEF IInv, TypeOK, vars, caller, channels, listening, service
<1>1. CallerOK'
    BY DEF Accept, CallerOK
<1>2. ServiceOK'
    BY DEF Accept, ServiceOK
<1>3. Asked'
    <2>1. pc[r] # "idle"
        BY DEF Accept, Asked
    <2>2. \A n \in 1 .. Len(requests') : requests'[n] = r \/ n \in 1 .. Len(requests)
        BY Appended DEF Accept, ServiceOK
    <2>3. \A n \in 1 .. Len(requests') : pc[requests'[n]] # "idle"
        BY <2>1, <2>2, Appended DEF Accept, Asked, ServiceOK
    <2>4. \A q \in Requests : delivery'[q] # "none" => pc[q] # "idle"
        BY <2>1 DEF Accept, Asked, CallerOK
    <2> QED BY <2>3, <2>4 DEF Accept, Asked
<1>4. GatewayOK' /\ ChannelsOK' /\ ResponsesRan' /\ AnswersRan'
    BY DEF Accept, GatewayOK, ChannelsOK, ResponsesRan, AnswersRan, Ran
<1> QED BY <1>1, <1>2, <1>3, <1>4

LEMMA RejectInv ==
    ASSUME NEW r \in Requests, IInv, Reject(r) PROVE IInv'
<1> USE RequestsAssumption DEF IInv, TypeOK, vars, caller, channels, listening, service
<1>1. CallerOK'
    BY DEF Reject, CallerOK
<1>2. Asked'
    BY DEF Reject, Asked, CallerOK, ServiceOK
<1>3. GatewayOK' /\ ServiceOK' /\ ChannelsOK' /\ ResponsesRan' /\ AnswersRan'
    BY DEF Reject, GatewayOK, ServiceOK, ChannelsOK, ResponsesRan, AnswersRan, Ran
<1> QED BY <1>1, <1>2, <1>3

LEMMA ServeInv ==
    ASSUME IInv, Serve PROVE IInv'
<1> USE RequestsAssumption DEF IInv, TypeOK, vars, caller, channels, listening, service
<1>1. ServiceOK'
    BY DEF Serve, ServiceOK
<1>2. ResponsesRan'
    <2>1. requests[taken + 1] \in Requests
        BY TopicsHoldRequests DEF Serve, ServiceOK
    <2>2. Ran(serving)' /\ \A q \in Requests : Ran(q) => Ran(q)'
        BY <2>1 DEF Serve, Ran, ServiceOK
    <2> QED BY <2>2, TopicsHoldRequests DEF Serve, ResponsesRan, Ran, GatewayOK
<1>3. AnswersRan'
    <2>1. requests[taken + 1] \in Requests
        BY TopicsHoldRequests DEF Serve, ServiceOK
    <2>2. \A q \in Requests : Ran(q) => Ran(q)'
        BY <2>1 DEF Serve, Ran, ServiceOK
    <2> QED BY <2>2 DEF Serve, AnswersRan
<1>4. GatewayOK' /\ CallerOK' /\ ChannelsOK' /\ Asked'
    BY DEF Serve, GatewayOK, CallerOK, ChannelsOK, Asked
<1> QED BY <1>1, <1>2, <1>3, <1>4

LEMMA RespondInv ==
    ASSUME IInv, Respond PROVE IInv'
<1> USE RequestsAssumption DEF IInv, TypeOK, vars, caller, channels, listening, service
<1>1. ServiceOK'
    <2>1. responses' \in Seq(Requests)
        <3>1. CASE responses' = Append(responses, serving)
            BY <3>1, Appended DEF Respond, ServiceOK
        <3>2. CASE UNCHANGED responses
            BY <3>2 DEF ServiceOK
        <3> QED BY <3>1, <3>2 DEF Respond
    <2> QED BY <2>1 DEF Respond, ServiceOK
<1>2. ResponsesRan'
    <2>1. \A n \in 1 .. Len(responses') : Ran(responses'[n])
        <3>1. CASE responses' = Append(responses, serving)
            BY <3>1, Appended DEF Respond, ServiceOK, ResponsesRan
        <3>2. CASE UNCHANGED responses
            BY <3>2 DEF ResponsesRan
        <3> QED BY <3>1, <3>2 DEF Respond
    <2> QED BY <2>1 DEF Respond, ResponsesRan, Ran
<1>3. GatewayOK' /\ CallerOK' /\ ChannelsOK' /\ AnswersRan' /\ Asked'
    BY DEF Respond, GatewayOK, CallerOK, ChannelsOK, AnswersRan, Asked, Ran
<1> QED BY <1>1, <1>2, <1>3

LEMMA CommitInv ==
    ASSUME IInv, Commit PROVE IInv'
<1> USE RequestsAssumption DEF IInv, TypeOK, vars, caller, channels, listening, service
<1>1. ServiceOK'
    BY DEF Commit, ServiceOK
<1>2. GatewayOK' /\ CallerOK' /\ ChannelsOK' /\ ResponsesRan' /\ AnswersRan' /\ Asked'
    BY DEF Commit, GatewayOK, CallerOK, ChannelsOK, ResponsesRan, AnswersRan, Asked, Ran
<1> QED BY <1>1, <1>2

LEMMA ServiceCrashInv ==
    ASSUME IInv, ServiceCrash PROVE IInv'
<1> USE RequestsAssumption DEF IInv, TypeOK, vars, caller, channels, listening, service
<1>1. ServiceOK'
    BY DEF ServiceCrash, ServiceOK
<1>2. ResponsesRan'
    BY DEF ServiceCrash, ResponsesRan, Ran, GatewayOK, ServiceOK
<1>3. GatewayOK' /\ CallerOK' /\ ChannelsOK' /\ AnswersRan' /\ Asked'
    BY DEF ServiceCrash, GatewayOK, CallerOK, ChannelsOK, AnswersRan, Asked, Ran
<1> QED BY <1>1, <1>2, <1>3

(***************************************************************************)
(* The listener, and Stop.                                                 *)
(***************************************************************************)
LEMMA AssignInv ==
    ASSUME NEW g \in Gateways, IInv, Assign(g) PROVE IInv'
<1> USE RequestsAssumption DEF IInv, TypeOK, vars, caller, channels, listening, service
<1>1. GatewayOK'
    BY DEF Assign, GatewayOK, Phases
<1>2. CallerOK' /\ ServiceOK' /\ ChannelsOK' /\ ResponsesRan' /\ AnswersRan' /\ Asked'
    BY DEF Assign, CallerOK, ServiceOK, ChannelsOK, ResponsesRan, AnswersRan, Asked, Ran
<1> QED BY <1>1, <1>2

LEMMA PollInv ==
    ASSUME NEW g \in Gateways, IInv, Poll(g) PROVE IInv'
<1> USE RequestsAssumption DEF IInv, TypeOK, vars, caller, channels, listening, service
<1>1. GatewayOK'
    BY DEF Poll, GatewayOK, Phases, Hears, Turn
<1>2. ResponsesRan'
    BY DEF Poll, ResponsesRan, Ran, GatewayOK, ServiceOK, Hears, Turn
<1>3. CallerOK' /\ ServiceOK' /\ ChannelsOK' /\ AnswersRan' /\ Asked'
    BY DEF Poll, CallerOK, ServiceOK, ChannelsOK, AnswersRan, Asked, Ran
<1> QED BY <1>1, <1>2, <1>3

LEMMA ReadInv ==
    ASSUME NEW g \in Gateways, IInv, Read(g) PROVE IInv'
<1> USE RequestsAssumption DEF IInv, TypeOK, vars, caller, channels, listening, service
<1>1. GatewayOK'
    BY DEF Read, GatewayOK, Phases, Hears, Turn, Unread
<1>2. ResponsesRan'
    <2> DEFINE resp == responses[seen[g] + 1]
    <2>0. seen[g] + 1 \in 1 .. Len(responses)
        BY DEF Read, Unread, GatewayOK, ServiceOK
    <2>1. resp \in Requests /\ Ran(resp)
        BY <2>0, TopicsHoldRequests DEF Read, Unread, GatewayOK, ServiceOK, ResponsesRan
    <2>2. \A h \in Gateways : held'[h] # None => Ran(held'[h])
        BY <2>1 DEF Read, GatewayOK, ResponsesRan
    <2>3. \A h \in Gateways : listener'[h] = "deliver" => held'[h] # None
        BY <2>1 DEF Read, Turn, GatewayOK, ResponsesRan
    <2> QED BY <2>2, <2>3 DEF Read, ResponsesRan, Ran
<1>3. CallerOK' /\ ServiceOK' /\ ChannelsOK' /\ AnswersRan' /\ Asked'
    BY DEF Read, CallerOK, ServiceOK, ChannelsOK, AnswersRan, Asked, Ran
<1> QED BY <1>1, <1>2, <1>3

LEMMA ReadTimeoutInv ==
    ASSUME NEW g \in Gateways, IInv, ReadTimeout(g) PROVE IInv'
<1> USE RequestsAssumption DEF IInv, TypeOK, vars, caller, channels, listening, service
<1>1. GatewayOK'
    BY DEF ReadTimeout, GatewayOK, Phases, Hears, Turn
<1>2. ResponsesRan'
    BY DEF ReadTimeout, ResponsesRan, Ran, GatewayOK, ServiceOK, Hears, Turn
<1>3. CallerOK' /\ ServiceOK' /\ ChannelsOK' /\ AnswersRan' /\ Asked'
    BY DEF ReadTimeout, CallerOK, ServiceOK, ChannelsOK, AnswersRan, Asked, Ran
<1> QED BY <1>1, <1>2, <1>3

LEMMA DeliverInv ==
    ASSUME NEW g \in Gateways, IInv, Deliver(g) PROVE IInv'
<1> USE RequestsAssumption DEF IInv, TypeOK, vars, caller, channels, listening, service
<1>1. GatewayOK'
    BY DEF Deliver, GatewayOK, Phases, Hears, Turn
<1>2. CallerOK'
    BY DEF Deliver, CallerOK, Hears, Turn
<1>3. ResponsesRan'
    BY DEF Deliver, ResponsesRan, Ran, GatewayOK, ServiceOK, Hears, Turn
<1>4. AnswersRan'
    BY DEF Deliver, Hears, AnswersRan, ResponsesRan, Ran, GatewayOK, CallerOK
<1>5. ServiceOK' /\ ChannelsOK' /\ Asked'
    BY DEF Deliver, ServiceOK, ChannelsOK, Asked
<1> QED BY <1>1, <1>2, <1>3, <1>4, <1>5

LEMMA SendOnClosedInv ==
    ASSUME NEW g \in Gateways, IInv, SendOnClosed(g) PROVE IInv'
<1> USE RequestsAssumption DEF IInv, TypeOK, vars, caller, channels, listening, service
<1>1. GatewayOK'
    BY DEF SendOnClosed, GatewayOK, Phases, Hears
<1>2. CallerOK' /\ ServiceOK' /\ ChannelsOK' /\ ResponsesRan' /\ AnswersRan' /\ Asked'
    BY DEF SendOnClosed, CallerOK, ServiceOK, ChannelsOK, ResponsesRan, AnswersRan, Asked, Ran
<1> QED BY <1>1, <1>2

LEMMA StopInv ==
    ASSUME NEW g \in Gateways, IInv, Stop(g) PROVE IInv'
<1> USE DEF IInv, TypeOK, caller, channels, listening, service
<1>1. PICK to \in Phases : phase' = [phase EXCEPT ![g] = to]
    BY DEF Stop, Cancel, CloseClient, Shutdown, Exit, Advance, Phases
<1>2. UNCHANGED <<caller, delivery, channels, listening, service>>
    BY DEF Stop, Cancel, CloseClient, Shutdown, Exit, Advance
<1>3. GatewayOK'
    BY <1>1, <1>2 DEF GatewayOK
<1>4. CallerOK' /\ ServiceOK' /\ ChannelsOK' /\ ResponsesRan' /\ AnswersRan' /\ Asked'
    BY <1>2 DEF CallerOK, ServiceOK, ChannelsOK, ResponsesRan, AnswersRan, Asked, Ran
<1> QED BY <1>3, <1>4

-----------------------------------------------------------------------------
\* IInv is inductive.
LEMMA NextInv == IInv /\ [Next]_vars => IInv'
<1> SUFFICES ASSUME IInv, [Next]_vars PROVE IInv'
    OBVIOUS
<1>1. CASE UNCHANGED vars
    BY <1>1 DEF IInv, TypeOK, GatewayOK, CallerOK, ServiceOK, ChannelsOK, ResponsesRan,
                AnswersRan, Ran, Asked, vars, caller, channels, listening, service
<1>2. ASSUME NEW r \in Requests, Call(r) \/ Caller(r) \/ Accept(r) \/ Reject(r)
      PROVE  IInv'
    BY <1>2, CallInv, ProduceInv, ProduceAfterCloseInv, DeliveredInv, ReceiveInv,
       TimeoutInv, ForgetInv, CloseChannelInv, AcceptInv, RejectInv DEF Caller
<1>3. ASSUME NEW g \in Gateways, Assign(g) \/ Listener(g) \/ Stop(g)
      PROVE  IInv'
    BY <1>3, AssignInv, PollInv, ReadInv, ReadTimeoutInv, DeliverInv,
       SendOnClosedInv, StopInv DEF Listener
<1>4. CASE DataService
    BY <1>4, ServeInv, RespondInv, CommitInv, ServiceCrashInv DEF DataService
<1> QED BY <1>1, <1>2, <1>3, <1>4 DEF Next

THEOREM Inductive == Spec => []IInv
<1>1. Init => IInv
    BY InitInv
<1>2. IInv /\ [Next]_vars => IInv'
    BY NextInv
<1> QED BY <1>1, <1>2, PTL DEF Spec

\* Every variable of SendRequest, of the listener and of data-service keeps
\* its kind, and data-service never reads past its topic.
THEOREM TypeCorrect == Spec => []TypeOK
BY Inductive, PTL DEF IInv

\* Whatever SendRequest, the listener and Stop do to each other, a channel in
\* pendingRequests is open and its owner has not removed it.
THEOREM PendingChannelsAreOpen == Spec => []PendingIsOpen
<1>1. IInv => PendingIsOpen
    BY DEF IInv, TypeOK, GatewayOK, ChannelsOK, PendingIsOpen
<1> QED BY <1>1, Inductive, PTL

-----------------------------------------------------------------------------
(***************************************************************************)
(* Refinement: every step is a step of RemoteCalls or changes nothing it   *)
(* sees.                                                                   *)
(***************************************************************************)
\* What a step must keep to be invisible to RemoteCalls.
LEMMA Invisible ==
    ASSUME \A r \in Requests :
               /\ pc'[r] = "idle" <=> pc[r] = "idle"
               /\ pc'[r] = "done" <=> pc[r] = "done"
               /\ pc[r] = "done" => result'[r] = result[r]
               /\ Alive(Home[r])' = Alive(Home[r])
    PROVE  Status' = Status
BY DEF Status

\* Steps of SendRequest between its first and its last.
LEMMA MiddleIsInvisible ==
    ASSUME NEW r \in Requests, IInv,
           Produce(r) \/ Delivered(r) \/ Receive(r) \/ Timeout(r) \/ Forget(r)
    PROVE  UNCHANGED <<Status, executed>>
<1> USE DEF caller, service
<1>1. \A q \in Requests : q # r => pc'[q] = pc[q] /\ result'[q] = result[q]
    BY DEF IInv, TypeOK, CallerOK, Produce, Delivered, Receive, Timeout, Forget,
           Go, Leave
<1>2. /\ pc[r] \notin {"idle", "done"} /\ pc'[r] \notin {"idle", "done"}
    BY DEF IInv, TypeOK, CallerOK, Produce, Delivered, Receive, Timeout, Forget,
           At, Go, Leave
<1>3. UNCHANGED <<phase, executed>>
    BY DEF Produce, Delivered, Receive, Timeout, Forget
<1>4. \A q \in Requests : Alive(Home[q])' = Alive(Home[q])
    BY <1>3 DEF Alive
<1> QED BY <1>1, <1>2, <1>3, <1>4, Invisible

\* Steps that move neither a goroutine nor a process.
LEMMA RestIsInvisible ==
    ASSUME UNCHANGED <<phase, caller, executed>>
    PROVE  UNCHANGED <<Status, executed>>
BY DEF Status, Alive, caller

LEMMA CallIsCall ==
    ASSUME NEW r \in Requests, IInv, Call(r)
    PROVE  Calls!Call(r)
<1> USE DEF IInv, TypeOK, CallerOK, service
<1>1. pc[r] = "idle" /\ pc' = [pc EXCEPT ![r] = "produce"]
    BY DEF Call, At, Go
<1>2. UNCHANGED <<phase, result, executed>> /\ Alive(Home[r])
    BY DEF Call, At
<1>3. Status[r] = "idle"
    BY <1>1 DEF Status
<1>4. Status' = [Status EXCEPT ![r] = "open"]
    BY <1>1, <1>2 DEF Status, Alive
<1> QED BY <1>2, <1>3, <1>4 DEF Calls!Call

\* A goroutine that ends has an error, or the answer to an operation that ran.
LEMMA CloseChannelEndsCall ==
    ASSUME NEW r \in Requests, IInv, CloseChannel(r)
    PROVE  Calls!Answer(r) \/ Calls!Fail(r)
<1> USE DEF IInv, TypeOK, CallerOK, caller, service
<1>1. pc[r] = "close" /\ pc' = [pc EXCEPT ![r] = "done"]
    BY DEF CloseChannel, At, Go
<1>2. UNCHANGED <<phase, result, executed>> /\ Alive(Home[r])
    BY DEF CloseChannel, At
<1>3. Status[r] = "open"
    BY <1>1, <1>2 DEF Status
<1>4. CASE result[r] = Error
    <2>1. Status' = [Status EXCEPT ![r] = "failed"]
        BY <1>1, <1>2, <1>4 DEF Status, Alive
    <2> QED BY <1>2, <1>3, <2>1 DEF Calls!Fail
<1>5. CASE result[r] # Error
    <2>1. Status' = [Status EXCEPT ![r] = "answered"]
        BY <1>1, <1>2, <1>5 DEF Status, Alive
    <2>2. executed[r] > 0
        BY <1>1, <1>5 DEF AnswersRan, Ran
    <2> QED BY <1>2, <1>3, <2>1, <2>2 DEF Calls!Answer
<1> QED BY <1>4, <1>5

LEMMA ServeIsExecute ==
    ASSUME IInv, Serve
    PROVE  \E r \in Requests : Calls!Execute(r)
<1> DEFINE r == requests[taken + 1]
<1>1. r \in Requests /\ pc[r] # "idle"
    BY TopicsHoldRequests DEF Serve, IInv, TypeOK, ServiceOK, Asked
<1>2. executed' = [executed EXCEPT ![r] = @ + 1]
    BY DEF Serve
<1>3. UNCHANGED Status
    BY DEF Serve, Status, Alive, caller
<1>4. Status[r] # "idle"
    BY <1>1 DEF Status
<1> HIDE DEF r
<1> QED BY <1>1, <1>2, <1>3, <1>4 DEF Calls!Execute

\* A gateway that was alive and is not takes its open calls with it.
LEMMA EndIsLose ==
    ASSUME NEW g \in Gateways, NEW to \in {"down", "crashed"}, IInv, Alive(g),
           phase' = [phase EXCEPT ![g] = to], UNCHANGED <<caller, executed>>
    PROVE  Calls!Lose(g)
<1>1. \A h \in Gateways : Alive(h)' <=> Alive(h) /\ h # g
    BY DEF Alive, IInv, TypeOK, GatewayOK
<1>2. \A r \in Requests :
          Status'[r] = IF Home[r] = g /\ Status[r] = "open" THEN "lost"
                       ELSE Status[r]
    BY <1>1, RequestsAssumption DEF Status, caller
<1>3. Status' = [r \in Requests |->
                    IF Home[r] = g /\ Status[r] = "open" THEN "lost"
                    ELSE Status[r]]
    BY <1>2 DEF Status
<1> QED BY <1>3 DEF Calls!Lose

LEMMA StopIsLose ==
    ASSUME NEW g \in Gateways, IInv, Stop(g)
    PROVE  Calls!Lose(g) \/ UNCHANGED <<Status, executed>>
<1> USE DEF service
<1>1. CASE Exit(g)
    BY <1>1, EndIsLose DEF Exit, Advance, Alive
<1>2. CASE Cancel(g) \/ CloseClient(g) \/ Shutdown(g)
    <2>1. UNCHANGED <<caller, executed>>
        BY <1>2 DEF Cancel, CloseClient, Shutdown, Advance
    <2>2. \A h \in Gateways : Alive(h)' = Alive(h)
        BY <1>2 DEF Cancel, CloseClient, Shutdown, Advance, Alive, IInv, TypeOK, GatewayOK
    <2>3. \A r \in Requests : Alive(Home[r])' = Alive(Home[r])
        BY <2>2, RequestsAssumption
    <2> QED BY <2>1, <2>3, Invisible DEF caller
<1> QED BY <1>1, <1>2 DEF Stop

\* Steps are mapped by Status to steps of RemoteCalls or to nothing.
LEMMA StepIsStep ==
    IInv /\ [Next]_vars => [Calls!Next]_<<Status, executed>>
<1> SUFFICES ASSUME IInv, [Next]_vars
             PROVE  Calls!Next \/ UNCHANGED <<Status, executed>>
    OBVIOUS
<1>1. CASE UNCHANGED vars
    BY <1>1, RestIsInvisible DEF vars, service
<1>2. ASSUME NEW r \in Requests, Call(r) \/ Caller(r) \/ Accept(r) \/ Reject(r)
      PROVE  Calls!Next \/ UNCHANGED <<Status, executed>>
    <2>1. CASE Call(r)
        BY <2>1, CallIsCall DEF Calls!Next
    <2>2. CASE Caller(r)
        <3>1. CASE ProduceAfterClose(r)
            BY <3>1, EndIsLose, RequestsAssumption
               DEF ProduceAfterClose, At, Calls!Next, service
        <3>2. CASE CloseChannel(r)
            BY <3>2, CloseChannelEndsCall DEF Calls!Next
        <3> QED BY <2>2, <3>1, <3>2, MiddleIsInvisible DEF Caller
    <2>3. CASE Accept(r) \/ Reject(r)
        BY <2>3, RestIsInvisible DEF Accept, Reject, service
    <2> QED BY <1>2, <2>1, <2>2, <2>3
<1>3. ASSUME NEW g \in Gateways, Assign(g) \/ Listener(g) \/ Stop(g)
      PROVE  Calls!Next \/ UNCHANGED <<Status, executed>>
    <2>1. CASE SendOnClosed(g)
        BY <2>1, EndIsLose DEF SendOnClosed, Hears, Calls!Next, service
    <2>2. CASE Assign(g) \/ Poll(g) \/ Read(g) \/ ReadTimeout(g) \/ Deliver(g)
        BY <2>2, RestIsInvisible
           DEF Assign, Poll, Read, ReadTimeout, Deliver, service
    <2>3. CASE Stop(g)
        BY <2>3, StopIsLose DEF Calls!Next
    <2> QED BY <1>3, <2>1, <2>2, <2>3 DEF Listener
<1>4. CASE DataService
    <2>1. CASE Serve
        BY <2>1, ServeIsExecute DEF Calls!Next
    <2>2. CASE Respond \/ Commit \/ ServiceCrash
        BY <2>2, RestIsInvisible DEF Respond, Commit, ServiceCrash
    <2> QED BY <1>4, <2>1, <2>2 DEF DataService
<1> QED BY <1>1, <1>2, <1>3, <1>4 DEF Next

\* SendRequest, its listener, Stop and data-service together are a remote call:
\* it ends at most once, and with a response only if the operation was executed.
THEOREM Refinement == Spec => ImplementsCalls
<1>1. Init => Calls!Init
    BY RequestsAssumption DEF Init, Calls!Init, Status
<1>2. IInv /\ [Next]_vars => [Calls!Next]_<<Status, executed>>
    BY StepIsStep
<1> QED BY <1>1, <1>2, Inductive, PTL DEF Spec, ImplementsCalls, Calls!Spec

===============================================================================
