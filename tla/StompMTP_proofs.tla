---------------------------- MODULE StompMTP_proofs ----------------------------
(***************************************************************************)
(* Proofs about StompMTP: its types, that a subscription is heard, and     *)
(* where a request is on its way from the queue to Kafka.                  *)
(***************************************************************************)
EXTENDS StompMTP, TLAPS

(***************************************************************************)
(* What the properties rest on.                                            *)
(***************************************************************************)
\* Until CONNECT is sent nothing is known of the broker.
Fresh ==
    /\ starter = "dial" => tcp = "none"
    /\ tcp = "none" => frames = <<>>
    /\ starter \in {"dial", "connect"} =>
          ~authenticated /\ frames = <<>> /\ session = "none"

\* A link that holds has a session, and a reader unless main has cancelled.
Linked ==
    /\ session # "none" => tcp = "up"
    /\ tcp = "up" /\ starter \notin {"dial", "connect"} =>
          session # "none" /\ (reader = "reading" \/ stop # "no")

\* The broker sends nothing before it accepts.
Opened ==
    tcp = "up" /\ (authenticated \/ frames # <<>>) => session = "open"

\* The broker sends requests and cancellations only to a subscription, and
\* the service subscribes only after CONNECTED.
Known ==
    /\ starter = "subscribe" => authenticated
    /\ \A i \in 1 .. Len(frames) :
          frames[i] \notin {"CONNECTED", "REST"} => authenticated

\* The outbound handler sends only what it has fetched.
Busy == sending => task # None

IInv ==
    /\ TypeOK /\ Fresh /\ Linked /\ Opened /\ Known /\ Busy
    /\ SubscribedIsHeard

(***************************************************************************)
(* Facts about sequences.                                                   *)
(***************************************************************************)
LEMMA Appended ==
    ASSUME NEW S, NEW s \in Seq(S), NEW e \in S
    PROVE  /\ Append(s, e) \in Seq(S)
           /\ Append(s, e) # <<>>
           /\ \A i \in 1 .. Len(Append(s, e)) :
                 \/ i \in 1 .. Len(s) /\ Append(s, e)[i] = s[i]
                 \/ Append(s, e)[i] = e
OBVIOUS

LEMMA Dropped ==
    ASSUME NEW S, NEW s \in Seq(S), NEW k \in 1 .. Len(s)
    PROVE  /\ SubSeq(s, k + 1, Len(s)) \in Seq(S)
           /\ \A i \in 1 .. Len(SubSeq(s, k + 1, Len(s))) :
                 i + k \in 1 .. Len(s) /\ SubSeq(s, k + 1, Len(s))[i] = s[i + k]
OBVIOUS

LEMMA Prefixed ==
    ASSUME NEW S, NEW s \in Seq(S), NEW e \in S
    PROVE  /\ <<e>> \o s \in Seq(S) /\ Len(<<e>> \o s) = Len(s) + 1
           /\ \A i \in 1 .. Len(<<e>> \o s) :
                 \/ i = 1 /\ (<<e>> \o s)[i] = e
                 \/ i - 1 \in 1 .. Len(s) /\ (<<e>> \o s)[i] = s[i - 1]
OBVIOUS

LEMMA EmptyFrames == <<>> \in Seq(Frames)
OBVIOUS

\* What a read leaves is a later part of what was there, maybe behind the rest
\* of a frame: shift says how far on the frames are that it leaves.
LEMMA LaterFrames ==
    ASSUME frames \in Seq(Frames), NEW f, Reads(f)
    PROVE  \E k \in 1 .. Len(frames), shift \in Nat :
              /\ frames' \in Seq(Frames)
              /\ Len(frames') = Len(frames) - shift
              /\ WholeFrames => k = 1 /\ shift = 1
              /\ buffer' = buffer \cup ({frames[i] : i \in 1 .. k} \cap Requests)
              /\ \A i \in 1 .. Len(frames') :
                    \/ frames'[i] = "REST"
                    \/ /\ i + shift \in 1 .. Len(frames) /\ i + shift > k
                       /\ frames'[i] = frames[i + shift]
<1>1. frames # <<>> /\ Len(frames) \in Nat /\ Len(frames) > 0
    BY DEF Reads
<1>2. PICK k \in 1 .. (IF WholeFrames THEN 1 ELSE Len(frames)) :
          /\ frames' \in Left(k)
          /\ buffer' = buffer \cup ({frames[i] : i \in 1 .. k} \cap Requests)
    BY DEF Reads
<1>3. k \in 1 .. Len(frames) /\ (WholeFrames => k = 1)
    BY <1>1, <1>2
<1> DEFINE later == SubSeq(frames, k + 1, Len(frames))
<1>4. /\ later \in Seq(Frames) /\ Len(later) = Len(frames) - k
      /\ \A i \in 1 .. Len(later) :
            i + k \in 1 .. Len(frames) /\ i + k > k /\ later[i] = frames[i + k]
    BY <1>3
<1> HIDE DEF later
<1>5. CASE frames' = later
    <2>1. k \in Nat /\ Len(frames') = Len(frames) - k
        BY <1>3, <1>4, <1>5
    <2>2. \A i \in 1 .. Len(frames') :
             i + k \in 1 .. Len(frames) /\ i + k > k /\ frames'[i] = frames[i + k]
        BY <1>4, <1>5
    <2>3. frames' \in Seq(Frames)
        BY <1>4, <1>5
    <2> QED BY <1>2, <1>3, <2>1, <2>2, <2>3
<1>6. CASE ~WholeFrames /\ frames' = <<"REST">> \o later
    <2>1. "REST" \in Frames
        BY DEF Frames
    <2>2. /\ frames' \in Seq(Frames) /\ Len(frames') = Len(later) + 1
          /\ \A i \in 1 .. Len(frames') :
                \/ i = 1 /\ frames'[i] = "REST"
                \/ i - 1 \in 1 .. Len(later) /\ frames'[i] = later[i - 1]
        <3>1. /\ <<"REST">> \o later \in Seq(Frames)
              /\ Len(<<"REST">> \o later) = Len(later) + 1
              /\ \A i \in 1 .. Len(<<"REST">> \o later) :
                    \/ i = 1 /\ (<<"REST">> \o later)[i] = "REST"
                    \/ /\ i - 1 \in 1 .. Len(later)
                       /\ (<<"REST">> \o later)[i] = later[i - 1]
            BY <1>4, <2>1, Prefixed
        <3> QED BY <1>6, <3>1
    <2>3. k - 1 \in Nat /\ Len(frames') = Len(frames) - (k - 1)
        BY <1>3, <1>4, <2>2
    <2>4. ASSUME NEW i \in 1 .. Len(frames'), frames'[i] # "REST"
          PROVE  /\ i + (k - 1) \in 1 .. Len(frames) /\ i + (k - 1) > k
                 /\ frames'[i] = frames[i + (k - 1)]
        <3>1. i - 1 \in 1 .. Len(later) /\ frames'[i] = later[i - 1]
            BY <2>2, <2>4
        <3>2. (i - 1) + k = i + (k - 1)
            BY <1>3
        <3> QED BY <1>4, <3>1, <3>2
    <2> QED BY <1>2, <1>3, <1>6, <2>2, <2>3, <2>4
<1>7. frames' = later \/ (~WholeFrames /\ frames' = <<"REST">> \o later)
    BY <1>2 DEF Left, later
<1> QED BY <1>5, <1>6, <1>7

LEMMA AfterRead ==
    ASSUME TypeOK, NEW f, Reads(f)
    PROVE  /\ frames' \in Seq(Frames)
           /\ \A i \in 1 .. Len(frames') : frames'[i] = "REST" \/
                 \E j \in 1 .. Len(frames) : frames'[i] = frames[j]
           /\ frames # <<>> /\ frames[1] = f /\ 1 \in 1 .. Len(frames)
           /\ reader = "reading"
           /\ buffer' \in SUBSET Requests
<1>1. frames \in Seq(Frames) /\ frames # <<>> /\ Head(frames) = f
    BY DEF Reads, TypeOK
<1>2. PICK k \in 1 .. Len(frames), shift \in Nat :
          /\ frames' \in Seq(Frames)
          /\ buffer' = buffer \cup ({frames[i] : i \in 1 .. k} \cap Requests)
          /\ \A i \in 1 .. Len(frames') :
                \/ frames'[i] = "REST"
                \/ /\ i + shift \in 1 .. Len(frames)
                   /\ frames'[i] = frames[i + shift]
    BY <1>1, LaterFrames
<1>3. frames[1] = f /\ 1 \in 1 .. Len(frames)
    BY <1>1
<1>4. buffer' \in SUBSET Requests
    BY <1>2 DEF TypeOK
<1> QED BY <1>1, <1>2, <1>3, <1>4 DEF Reads

(***************************************************************************)
(* Initial states, and steps the argument is not about.                     *)
(***************************************************************************)
LEMMA InitInv == Init => IInv
<1> SUFFICES ASSUME Init PROVE IInv
    OBVIOUS
<1>1. TypeOK
    <2>1. /\ connected \in BOOLEAN /\ authenticated \in BOOLEAN
          /\ subscribed \in BOOLEAN /\ sending \in BOOLEAN
        BY Zenon DEF Init
    <2>2. frames \in Seq(Frames) /\ cancels \in 0 .. MaxCancels
        BY EmptyFrames, StompAssumption DEF Init
    <2> QED BY <2>1, <2>2 DEF Init, TypeOK
<1>2. Fresh /\ Linked /\ Opened /\ Known /\ Busy /\ SubscribedIsHeard
    BY DEF Init, Fresh, Linked, Opened, Known, Busy, SubscribedIsHeard
<1> QED BY <1>1, <1>2 DEF IInv

link == <<tcp, starter, reader, stop, authenticated, session, subscribed,
          frames>>

LEMMA Quiet == ASSUME IInv, TypeOK', Busy', UNCHANGED link PROVE IInv'
    BY DEF IInv, link, Fresh, Linked, Opened, Known, SubscribedIsHeard

LEMMA AskInv ==
    ASSUME NEW a \in Agents \cup Others, NEW n \in Requests, IInv, Ask(a, n) PROVE IInv'
<1> USE StompAssumption DEF IInv, flags, broker, control, threads, handler, topics, Rest, Beyond
<1>1. TypeOK'
    BY DEF Ask, TypeOK, Records
<1>2. Busy'
    BY DEF Ask, TypeOK, Busy
<1>3. UNCHANGED link
    BY DEF Ask, link
<1> QED BY <1>1, <1>2, <1>3, Quiet

LEMMA TakeInv ==
    ASSUME NEW a \in Agents, NEW n \in Records, IInv, Take(a, n) PROVE IInv'
<1> USE StompAssumption DEF IInv, flags, broker, control, threads, handler, topics, Rest, Beyond
<1>1. TypeOK'
    BY DEF Take, TypeOK
<1>2. Busy'
    BY DEF Take, TypeOK, Busy
<1>3. UNCHANGED link
    BY DEF Take, link
<1> QED BY <1>1, <1>2, <1>3, Quiet

LEMMA AnswerInv ==
    ASSUME NEW n, IInv, Answer(n) PROVE IInv'
<1> USE StompAssumption DEF IInv, flags, broker, control, threads, handler, topics, Rest, Beyond
<1>1. TypeOK'
    BY DEF Answer, TypeOK, Consumed
<1>2. Busy'
    BY DEF Answer, TypeOK, Busy
<1>3. UNCHANGED link
    BY DEF Answer, link
<1> QED BY <1>1, <1>2, <1>3, Quiet

LEMMA FetchInv ==
    ASSUME NEW n, IInv, Fetch(n) PROVE IInv'
<1> USE StompAssumption DEF IInv, flags, broker, control, threads, handler, topics, Rest, Beyond
<1>1. TypeOK'
    BY DEF Fetch, TypeOK, Consumed
<1>2. Busy'
    BY DEF Fetch, TypeOK, Busy
<1>3. UNCHANGED link
    BY DEF Fetch, link
<1> QED BY <1>1, <1>2, <1>3, Quiet

LEMMA CheckConnectedInv ==
    ASSUME IInv, CheckConnected PROVE IInv'
<1> USE StompAssumption DEF IInv, flags, broker, control, threads, handler, topics, Rest, Beyond
<1>1. TypeOK'
    <2>1. sending' \in BOOLEAN /\ task' \in Records \cup {None}
        <3>1. CASE connected
            BY <3>1 DEF CheckConnected, TypeOK
        <3>2. CASE ~connected
            BY <3>2 DEF CheckConnected, TypeOK
        <3> QED BY <3>1, <3>2
    <2> QED BY <2>1 DEF CheckConnected, TypeOK
<1>2. Busy'
    BY DEF CheckConnected, TypeOK, Busy
<1>3. UNCHANGED link
    BY DEF CheckConnected, link
<1> QED BY <1>1, <1>2, <1>3, Quiet

LEMMA SendInv ==
    ASSUME IInv, Send PROVE IInv'
<1> USE StompAssumption DEF IInv, flags, broker, control, threads, handler, topics, Rest, Beyond
<1>1. TypeOK'
    <2>1. toAgents' \in SUBSET Records
        <3>1. CASE connected /\ tcp = "up"
            BY <3>1 DEF Send, TypeOK, Busy
        <3>2. CASE ~(connected /\ tcp = "up")
            BY <3>2 DEF Send, TypeOK
        <3> QED BY <3>1, <3>2
    <2>2. sending' \in BOOLEAN /\ task' = None
        BY DEF Send
    <2> QED BY <2>1, <2>2 DEF Send, TypeOK
<1>2. Busy'
    BY DEF Send, TypeOK, Busy
<1>3. UNCHANGED link
    BY DEF Send, link
<1> QED BY <1>1, <1>2, <1>3, Quiet

(***************************************************************************)
(* RabbitMQ and the network.                                                *)
(***************************************************************************)
LEMMA AcceptInv ==
    ASSUME IInv, Accept PROVE IInv'
<1> USE StompAssumption DEF IInv, flags, broker, control, threads, handler, topics, Rest, Beyond
<1>1. frames \in Seq(Frames) /\ "CONNECTED" \in Frames
    BY DEF Accept, TypeOK, Frames
<1>2. frames' = Append(frames, "CONNECTED")
    BY DEF Accept
<1>3. frames' \in Seq(Frames) /\ frames' # <<>>
    BY <1>1, <1>2, Appended
<1>4. \A i \in 1 .. Len(frames') :
          \/ i \in 1 .. Len(frames) /\ frames'[i] = frames[i]
          \/ frames'[i] = "CONNECTED"
    BY <1>1, <1>2, Appended
<1>5. TypeOK'
    BY <1>1, <1>2, <1>3, <1>4 DEF Accept, TypeOK
<1>6. Fresh' /\ Linked'
    BY <1>1, <1>2, <1>3, <1>4 DEF Accept, TypeOK, Fresh, Linked, Opened, SubscribedIsHeard
<1>7. Opened' /\ Known' /\ Busy'
    BY <1>1, <1>2, <1>3, <1>4 DEF Accept, TypeOK, Fresh, Linked, Opened, Known, Busy, SubscribedIsHeard
<1>8. SubscribedIsHeard'
    BY <1>1, <1>2, <1>3, <1>4 DEF Accept, TypeOK, Fresh, Linked, Opened, Known, SubscribedIsHeard
<1> QED BY <1>1, <1>2, <1>3, <1>4, <1>5, <1>6, <1>7, <1>8

LEMMA PushInv ==
    ASSUME NEW n \in Requests, IInv, Push(n) PROVE IInv'
<1> USE StompAssumption DEF IInv, flags, broker, control, threads, handler, topics, Rest, Beyond
<1>1. frames \in Seq(Frames) /\ n \in Frames
    BY DEF Push, TypeOK, Frames
<1>2. frames' = Append(frames, n)
    BY DEF Push
<1>3. frames' \in Seq(Frames) /\ frames' # <<>>
    BY <1>1, <1>2, Appended
<1>4. \A i \in 1 .. Len(frames') :
          \/ i \in 1 .. Len(frames) /\ frames'[i] = frames[i]
          \/ frames'[i] = n
    BY <1>1, <1>2, Appended
<1>5. TypeOK'
    BY <1>1, <1>2, <1>3, <1>4 DEF Push, TypeOK
<1>6. Fresh' /\ Linked'
    BY <1>1, <1>2, <1>3, <1>4 DEF Push, TypeOK, Fresh, Linked, Opened, SubscribedIsHeard
<1>7. Opened' /\ Known' /\ Busy'
    BY <1>1, <1>2, <1>3, <1>4 DEF Push, TypeOK, Fresh, Linked, Opened, Known, Busy, SubscribedIsHeard
<1>8. SubscribedIsHeard'
    BY <1>1, <1>2, <1>3, <1>4 DEF Push, TypeOK, Fresh, Linked, Opened, Known, SubscribedIsHeard
<1> QED BY <1>1, <1>2, <1>3, <1>4, <1>5, <1>6, <1>7, <1>8

LEMMA CancelSubscriptionInv ==
    ASSUME IInv, CancelSubscription PROVE IInv'
<1> USE StompAssumption DEF IInv, flags, broker, control, threads, handler, topics, Rest, Beyond
<1>1. frames \in Seq(Frames) /\ "CANCELLED" \in Frames
    BY DEF CancelSubscription, TypeOK, Frames
<1>2. frames' = Append(frames, "CANCELLED")
    BY DEF CancelSubscription
<1>3. frames' \in Seq(Frames) /\ frames' # <<>>
    BY <1>1, <1>2, Appended
<1>4. \A i \in 1 .. Len(frames') :
          \/ i \in 1 .. Len(frames) /\ frames'[i] = frames[i]
          \/ frames'[i] = "CANCELLED"
    BY <1>1, <1>2, Appended
<1>5. TypeOK'
    <2>1. cancels' \in 0 .. MaxCancels
        BY DEF CancelSubscription, TypeOK
    <2>2. subscribed' \in BOOLEAN
        BY DEF CancelSubscription
    <2> QED BY <1>3, <2>1, <2>2 DEF CancelSubscription, TypeOK
<1>6. Fresh' /\ Linked'
    BY <1>1, <1>2, <1>3, <1>4 DEF CancelSubscription, TypeOK, Fresh, Linked, Opened, SubscribedIsHeard
<1>7. Opened' /\ Known' /\ Busy'
    BY <1>1, <1>2, <1>3, <1>4 DEF CancelSubscription, TypeOK, Fresh, Linked, Opened, Known, Busy, SubscribedIsHeard
<1>8. SubscribedIsHeard'
    BY <1>1, <1>2, <1>3, <1>4 DEF CancelSubscription, TypeOK, Fresh, Linked, Opened, Known, SubscribedIsHeard
<1> QED BY <1>1, <1>2, <1>3, <1>4, <1>5, <1>6, <1>7, <1>8

LEMMA LoseLinkInv ==
    ASSUME IInv, LoseLink PROVE IInv'
<1> USE StompAssumption DEF IInv, flags, broker, control, threads, handler, topics, Rest, Beyond
<1>1. frames' \in Seq(Frames) /\ (frames' = frames \/ Len(frames') = 0)
    BY EmptyFrames DEF LoseLink, TypeOK
<1>2. TypeOK'
    BY <1>1 DEF LoseLink, TypeOK
<1>3. Fresh' /\ Linked'
    BY <1>1 DEF LoseLink, TypeOK, Fresh, Linked, Opened, SubscribedIsHeard
<1>4. Opened' /\ Known' /\ Busy'
    BY <1>1 DEF LoseLink, TypeOK, Fresh, Linked, Opened, Known, Busy, SubscribedIsHeard
<1>5. SubscribedIsHeard'
    BY <1>1 DEF LoseLink, TypeOK, Fresh, Linked, Opened, Known, SubscribedIsHeard
<1> QED BY <1>1, <1>2, <1>3, <1>4, <1>5

(***************************************************************************)
(* Start.                                                                   *)
(***************************************************************************)
LEMMA DialInv ==
    ASSUME IInv, Dial PROVE IInv'
<1> USE StompAssumption DEF IInv, flags, broker, control, threads, handler, topics, Rest, Beyond
<1>1. TypeOK'
    <2>1. tcp' \in {"none", "up", "lost", "closed"} /\ connected' \in BOOLEAN
        <3>1. CASE tcp' = "up" /\ connected' = TRUE
            BY <3>1
        <3>2. CASE UNCHANGED <<tcp, connected>>
            BY <3>2 DEF TypeOK
        <3> QED BY <3>1, <3>2 DEF Dial
    <2> QED BY <2>1 DEF Dial, TypeOK
<1>2. Fresh' /\ Linked'
    BY DEF Dial, TypeOK, Fresh, Linked, Opened, SubscribedIsHeard
<1>3. Opened' /\ Known' /\ Busy'
    BY DEF Dial, TypeOK, Fresh, Linked, Opened, Known, Busy, SubscribedIsHeard
<1>4. SubscribedIsHeard'
    BY DEF Dial, TypeOK, Fresh, Linked, Opened, Known, SubscribedIsHeard
<1> QED BY <1>1, <1>2, <1>3, <1>4

LEMMA SendConnectInv ==
    ASSUME IInv, SendConnect PROVE IInv'
<1> USE StompAssumption DEF IInv, flags, broker, control, threads, handler, topics, Rest, Beyond
<1>1. TypeOK'
    BY DEF SendConnect, TypeOK
<1>2. Fresh' /\ Linked'
    BY DEF SendConnect, TypeOK, Fresh, Linked, Opened, SubscribedIsHeard
<1>3. Opened' /\ Known' /\ Busy'
    BY DEF SendConnect, TypeOK, Fresh, Linked, Opened, Known, Busy, SubscribedIsHeard
<1>4. SubscribedIsHeard'
    BY DEF SendConnect, TypeOK, Fresh, Linked, Opened, Known, SubscribedIsHeard
<1> QED BY <1>1, <1>2, <1>3, <1>4

LEMMA SeeAuthenticatedInv ==
    ASSUME IInv, SeeAuthenticated PROVE IInv'
<1> USE StompAssumption DEF IInv, flags, broker, control, threads, handler, topics, Rest, Beyond
<1>1. TypeOK'
    BY DEF SeeAuthenticated, TypeOK
<1>2. Fresh' /\ Linked'
    BY DEF SeeAuthenticated, TypeOK, Fresh, Linked, Opened, SubscribedIsHeard
<1>3. Opened' /\ Known' /\ Busy'
    BY DEF SeeAuthenticated, TypeOK, Fresh, Linked, Opened, Known, Busy, SubscribedIsHeard
<1>4. SubscribedIsHeard'
    BY DEF SeeAuthenticated, TypeOK, Fresh, Linked, Opened, Known, SubscribedIsHeard
<1> QED BY <1>1, <1>2, <1>3, <1>4

LEMMA GiveUpInv ==
    ASSUME IInv, GiveUp PROVE IInv'
<1> USE StompAssumption DEF IInv, flags, broker, control, threads, handler, topics, Rest, Beyond
<1>1. TypeOK'
    BY DEF GiveUp, TypeOK
<1>2. Fresh' /\ Linked'
    BY DEF GiveUp, TypeOK, Fresh, Linked, Opened, SubscribedIsHeard
<1>3. Opened' /\ Known' /\ Busy'
    BY DEF GiveUp, TypeOK, Fresh, Linked, Opened, Known, Busy, SubscribedIsHeard
<1>4. SubscribedIsHeard'
    BY DEF GiveUp, TypeOK, Fresh, Linked, Opened, Known, SubscribedIsHeard
<1> QED BY <1>1, <1>2, <1>3, <1>4

LEMMA SubscribeInv ==
    ASSUME IInv, Subscribe PROVE IInv'
<1> USE StompAssumption DEF IInv, flags, broker, control, threads, handler, topics, Rest, Beyond
<1>1. TypeOK'
    BY DEF Subscribe, TypeOK
<1>2. Fresh' /\ Linked'
    BY DEF Subscribe, TypeOK, Fresh, Linked, Opened, SubscribedIsHeard
<1>3. Opened' /\ Known' /\ Busy'
    BY DEF Subscribe, TypeOK, Fresh, Linked, Opened, Known, Busy, SubscribedIsHeard
<1>4. SubscribedIsHeard'
    BY DEF Subscribe, TypeOK, Fresh, Linked, Opened, Known, SubscribedIsHeard
<1> QED BY <1>1, <1>2, <1>3, <1>4

(***************************************************************************)
(* readMessages.                                                            *)
(***************************************************************************)
LEMMA ReadConnectedInv ==
    ASSUME IInv, ReadConnected PROVE IInv'
<1> USE StompAssumption DEF IInv, flags, broker, control, threads, handler, topics, Rest, Beyond
<1>1. Reads("CONNECTED")
    BY DEF ReadConnected
<1>2. /\ frames' \in Seq(Frames)
      /\ \A i \in 1 .. Len(frames') : frames'[i] = "REST" \/
            \E j \in 1 .. Len(frames) : frames'[i] = frames[j]
      /\ frames # <<>> /\ frames[1] = "CONNECTED" /\ 1 \in 1 .. Len(frames)
      /\ reader = "reading" /\ buffer' \in SUBSET Requests
    BY <1>1, AfterRead
<1>3. TypeOK'
    BY <1>1, <1>2 DEF ReadConnected, TypeOK
<1>4. Fresh' /\ Linked'
    BY <1>1, <1>2 DEF ReadConnected, TypeOK, Fresh, Linked, Opened, SubscribedIsHeard
<1>5. Opened' /\ Known' /\ Busy'
    BY <1>1, <1>2 DEF ReadConnected, TypeOK, Fresh, Linked, Opened, Known, Busy, SubscribedIsHeard
<1>6. SubscribedIsHeard'
    BY <1>1, <1>2 DEF ReadConnected, TypeOK, Fresh, Linked, Opened, Known, SubscribedIsHeard
<1> QED BY <1>1, <1>2, <1>3, <1>4, <1>5, <1>6

LEMMA ReadCancelledInv ==
    ASSUME IInv, ReadCancelled PROVE IInv'
<1> USE StompAssumption DEF IInv, flags, broker, control, threads, handler, topics, Rest, Beyond
<1>1. Reads("CANCELLED")
    BY DEF ReadCancelled
<1>2. /\ frames' \in Seq(Frames)
      /\ \A i \in 1 .. Len(frames') : frames'[i] = "REST" \/
            \E j \in 1 .. Len(frames) : frames'[i] = frames[j]
      /\ frames # <<>> /\ frames[1] = "CANCELLED" /\ 1 \in 1 .. Len(frames)
      /\ reader = "reading" /\ buffer' \in SUBSET Requests
    BY <1>1, AfterRead
<1>3. TypeOK'
    BY <1>1, <1>2 DEF ReadCancelled, TypeOK
<1>4. Fresh' /\ Linked'
    BY <1>1, <1>2 DEF ReadCancelled, TypeOK, Fresh, Linked, Opened, SubscribedIsHeard
<1>5. Opened' /\ Known' /\ Busy'
    BY <1>1, <1>2 DEF ReadCancelled, TypeOK, Fresh, Linked, Opened, Known, Busy, SubscribedIsHeard
<1>6. SubscribedIsHeard'
    BY <1>1, <1>2 DEF ReadCancelled, TypeOK, Fresh, Linked, Opened, Known, SubscribedIsHeard
<1> QED BY <1>1, <1>2, <1>3, <1>4, <1>5, <1>6

\* What a read of any frame does but for CONNECTED and CANCELLED.
LEMMA ReadInv ==
    ASSUME IInv, NEW f, Reads(f),
           UNCHANGED <<tcp, control, flags, session, subscribed, cancels, task, sending>>,
           TypeOK'
    PROVE  IInv'
<1> USE DEF IInv, control, flags
<1>1. /\ frames' \in Seq(Frames)
      /\ \A i \in 1 .. Len(frames') : frames'[i] = "REST" \/
            \E j \in 1 .. Len(frames) : frames'[i] = frames[j]
      /\ frames # <<>> /\ reader = "reading"
    BY AfterRead
<1>2. Fresh' /\ Linked'
    BY <1>1 DEF TypeOK, Fresh, Linked, Opened
<1>3. Opened' /\ Known' /\ Busy'
    BY <1>1 DEF TypeOK, Fresh, Opened, Known, Busy
<1>4. SubscribedIsHeard'
    BY DEF SubscribedIsHeard
<1> QED BY <1>2, <1>3, <1>4

LEMMA ReadMessageInv ==
    ASSUME NEW n \in Requests, IInv, ReadMessage(n) PROVE IInv'
<1> USE StompAssumption DEF IInv, flags, control, handler
<1>1. Reads(n)
    BY DEF ReadMessage
<1>2. frames' \in Seq(Frames) /\ buffer' \in SUBSET Requests
    BY <1>1, AfterRead
<1>3. inbound' \in SUBSET Records /\ published' \in [Requests -> Records \cup {None}]
    BY DEF ReadMessage, Publish, TypeOK, Records
<1>4. TypeOK'
    BY <1>2, <1>3 DEF ReadMessage, TypeOK
<1> QED BY <1>1, <1>4, ReadInv DEF ReadMessage

LEMMA ReadSplitInv ==
    ASSUME IInv, ReadSplit PROVE IInv'
<1> USE StompAssumption DEF IInv, flags, control, handler
<1>1. PICK f \in Frames :
          /\ Reads(f)
          /\ \/ UNCHANGED <<inbound, published>>
             \/ /\ f \in Requests
                /\ \E record \in buffer \cup {"HYBRID"} : Publish(f, record)
    BY DEF ReadSplit
<1>2. frames' \in Seq(Frames) /\ buffer' \in SUBSET Requests
    BY <1>1, AfterRead
<1>3. inbound' \in SUBSET Records /\ published' \in [Requests -> Records \cup {None}]
    BY <1>1 DEF Publish, TypeOK, Records
<1>4. TypeOK'
    BY <1>2, <1>3 DEF ReadSplit, TypeOK
<1> QED BY <1>1, <1>4, ReadInv DEF ReadSplit

LEMMA ReadRestInv ==
    ASSUME IInv, ReadRest PROVE IInv'
<1> USE DEF IInv, flags, control, handler, topics, Beyond
<1>1. Reads("REST")
    BY DEF ReadRest
<1>2. frames' \in Seq(Frames) /\ buffer' \in SUBSET Requests
    BY <1>1, AfterRead
<1>3. TypeOK'
    BY <1>2 DEF ReadRest, TypeOK
<1> QED BY <1>1, <1>3, ReadInv DEF ReadRest

LEMMA ReadErrorInv ==
    ASSUME IInv, ReadError PROVE IInv'
<1> USE StompAssumption DEF IInv, flags, broker, control, threads, handler, topics, Rest, Beyond
<1>1. TypeOK'
    BY DEF ReadError, TypeOK
<1>2. Fresh' /\ Linked'
    BY DEF ReadError, TypeOK, Fresh, Linked, Opened, SubscribedIsHeard
<1>3. Opened' /\ Known' /\ Busy'
    BY DEF ReadError, TypeOK, Fresh, Linked, Opened, Known, Busy, SubscribedIsHeard
<1>4. SubscribedIsHeard'
    BY DEF ReadError, TypeOK, Fresh, Linked, Opened, Known, SubscribedIsHeard
<1> QED BY <1>1, <1>2, <1>3, <1>4

(***************************************************************************)
(* The end.                                                                 *)
(***************************************************************************)
LEMMA CancelInv ==
    ASSUME IInv, Cancel PROVE IInv'
<1> USE StompAssumption DEF IInv, flags, broker, control, threads, handler, topics, Rest, Beyond
<1>1. TypeOK'
    BY DEF Cancel, TypeOK
<1>2. Fresh' /\ Linked'
    BY DEF Cancel, TypeOK, Fresh, Linked, Opened, SubscribedIsHeard
<1>3. Opened' /\ Known' /\ Busy'
    BY DEF Cancel, TypeOK, Fresh, Linked, Opened, Known, Busy, SubscribedIsHeard
<1>4. SubscribedIsHeard'
    BY DEF Cancel, TypeOK, Fresh, Linked, Opened, Known, SubscribedIsHeard
<1> QED BY <1>1, <1>2, <1>3, <1>4

LEMMA CloseInv ==
    ASSUME IInv, Close PROVE IInv'
<1> USE StompAssumption DEF IInv, flags, broker, control, threads, handler, topics, Rest, Beyond
<1>1. TypeOK'
    BY DEF Close, TypeOK
<1>2. Fresh' /\ Linked'
    BY DEF Close, TypeOK, Fresh, Linked, Opened, SubscribedIsHeard
<1>3. Opened' /\ Known' /\ Busy'
    BY DEF Close, TypeOK, Fresh, Linked, Opened, Known, Busy, SubscribedIsHeard
<1>4. SubscribedIsHeard'
    BY DEF Close, TypeOK, Fresh, Linked, Opened, Known, SubscribedIsHeard
<1> QED BY <1>1, <1>2, <1>3, <1>4

LEMMA EndProcessInv ==
    ASSUME IInv, EndProcess PROVE IInv'
<1> USE StompAssumption DEF IInv, flags, broker, control, threads, handler, topics, Rest, Beyond
<1>1. frames' \in Seq(Frames) /\ Len(frames') = 0
    BY EmptyFrames DEF EndProcess
<1>2. TypeOK'
    BY <1>1 DEF EndProcess, TypeOK
<1>3. Fresh' /\ Linked'
    BY <1>1 DEF EndProcess, TypeOK, Fresh, Linked, Opened, SubscribedIsHeard
<1>4. Opened' /\ Known' /\ Busy'
    BY <1>1 DEF EndProcess, TypeOK, Fresh, Linked, Opened, Known, Busy, SubscribedIsHeard
<1>5. SubscribedIsHeard'
    BY <1>1 DEF EndProcess, TypeOK, Fresh, Linked, Opened, Known, SubscribedIsHeard
<1> QED BY <1>1, <1>2, <1>3, <1>4, <1>5

(***************************************************************************)
(* Every step, and the theorems.                                            *)
(***************************************************************************)
THEOREM Inductive == IInv /\ [Next]_vars => IInv'
<1> SUFFICES ASSUME IInv, [Next]_vars PROVE IInv'
    OBVIOUS
<1>1. CASE Start
    BY <1>1, DialInv, SendConnectInv, SeeAuthenticatedInv, GiveUpInv, SubscribeInv
       DEF Start
<1>2. CASE ReadMessages
    BY <1>2, ReadConnectedInv, ReadCancelledInv, ReadSplitInv, ReadErrorInv,
       ReadMessageInv, ReadRestInv, EndProcessInv DEF ReadMessages, ReadOverlong
<1>3. CASE Handle
    BY <1>3, FetchInv, CheckConnectedInv, SendInv DEF Handle
<1>4. CASE RabbitMQ
    <2>1. toController \in SUBSET Requests
        BY DEF IInv, TypeOK
    <2> QED BY <1>4, <2>1, AcceptInv, PushInv DEF RabbitMQ
<1>5. CASE Agent
    <2>1. toAgents \in SUBSET Records
        BY DEF IInv, TypeOK
    <2> QED BY <1>5, <2>1, AskInv, TakeInv DEF Agent
<1>6. CASE CancelSubscription \/ LoseLink \/ Cancel \/ Close \/ Restart
    BY <1>6, CancelSubscriptionInv, LoseLinkInv, CancelInv, CloseInv, EndProcessInv
       DEF Restart
<1>7. CASE \E n \in inbound : Answer(n)
    BY <1>7, AnswerInv
<1>8. CASE UNCHANGED vars
    <2>1. TypeOK' /\ Busy'
        BY <1>8 DEF vars, control, threads, flags, broker, topics, handler, IInv, TypeOK,
                    Busy
    <2>2. UNCHANGED link
        BY <1>8 DEF vars, control, threads, flags, broker, link
    <2> QED BY <2>1, <2>2, Quiet
<1> QED BY <1>1, <1>2, <1>3, <1>4, <1>5, <1>6, <1>7, <1>8 DEF Next

LEMMA Invariant == Spec => []IInv
    BY InitInv, Inductive, PTL DEF Spec

\* Every variable keeps its type, for any number of agents, requests and
\* cancelled subscriptions, whatever the reads return.
THEOREM TypeCorrect == Spec => []TypeOK
<1>1. IInv => TypeOK
    BY DEF IInv
<1> QED BY <1>1, Invariant, PTL

\* readMessages and Start, in whatever order they run, subscribe only in an
\* open session that a goroutine reads.
THEOREM Subscriptions == Spec => []SubscribedIsHeard
<1>1. IInv => SubscribedIsHeard
    BY DEF IInv
<1> QED BY <1>1, Invariant, PTL

(***************************************************************************)
(* Where a request is between the controller's queue and Kafka.            *)
(***************************************************************************)
\* A request nobody has made is nowhere yet.
Asked ==
    \A n \in Requests : asker[n] = None =>
       n \notin toController /\ ~Incoming(n) /\ Unread(n)

\* With whole frames, and while the link holds, a request of a STOMP agent is
\* somewhere; whether anybody reads what is on its way is a matter of IInv.
Kept ==
    WholeFrames /\ ~Faulty /\ tcp \in {"none", "up"} =>
        \A n \in Requests : asker[n] \in Agents =>
            n \in toController \/ Incoming(n) \/ published[n] = n

Delivery == Asked /\ TakenOnce /\ Kept

way == <<toController, frames, buffer, published, asker>>

\* What does not touch the way of a request, nor makes a link good again.
LEMMA Elsewhere ==
    ASSUME Delivery, UNCHANGED way,
           tcp' \in {"none", "up"} => tcp \in {"none", "up"}
    PROVE  Delivery'
<1>1. /\ toController' = toController /\ frames' = frames /\ buffer' = buffer
      /\ published' = published /\ asker' = asker
      /\ \A n : Incoming(n)' <=> Incoming(n)
    BY DEF way, Incoming
<1>2. Asked'
    BY <1>1 DEF Delivery, Asked, Unread
<1>3. TakenOnce'
    BY <1>1 DEF Delivery, TakenOnce, Unread
<1>4. Kept'
    BY <1>1 DEF Delivery, Kept
<1> QED BY <1>2, <1>3, <1>4 DEF Delivery

LEMMA AskDelivery ==
    ASSUME NEW a \in Agents \cup Others, NEW n \in Requests, IInv, Delivery, Ask(a, n)
    PROVE  Delivery'
<1> USE StompAssumption DEF flags, threads, handler
<1>1. /\ asker[n] = None /\ asker' = [asker EXCEPT ![n] = a]
      /\ asker \in [Requests -> Agents \cup Others \cup {None}]
      /\ UNCHANGED <<frames, buffer, published, tcp>>
      /\ toController' = toController \cup {n} \/ UNCHANGED toController
      /\ a \in Agents => toController' = toController \cup {n}
      /\ published \in [Requests -> Records \cup {None}]
    BY DEF Ask, IInv, TypeOK
<1>2. \A m : Incoming(m)' <=> Incoming(m)
    BY <1>1 DEF Incoming
<1>3. ~Incoming(n) /\ Unread(n)
    BY <1>1 DEF Delivery, Asked
<1>4. \A m \in Requests : asker'[m] = IF m = n THEN a ELSE asker[m]
    BY <1>1
<1>5. Asked'
    BY <1>1, <1>2, <1>4 DEF Delivery, Asked, Unread
<1>6. TakenOnce'
    BY <1>1, <1>2, <1>3 DEF Delivery, TakenOnce, Unread
<1>7. Kept'
    BY <1>1, <1>2, <1>4 DEF Delivery, Kept
<1> QED BY <1>5, <1>6, <1>7 DEF Delivery

\* A frame that is appended is the only one that comes to be incoming.
LEMMA IncomingAppended ==
    ASSUME NEW e \in Frames, frames \in Seq(Frames), frames' = Append(frames, e)
    PROVE  /\ \A n : Incoming(n)' <=> Incoming(n) \/ n = e
           /\ DOMAIN frames' = DOMAIN frames \cup {Len(frames) + 1}
           /\ Len(frames) + 1 \notin DOMAIN frames
           /\ \A i \in DOMAIN frames : frames'[i] = frames[i]
           /\ frames'[Len(frames) + 1] = e
<1>1. /\ DOMAIN frames' = DOMAIN frames \cup {Len(frames) + 1}
      /\ Len(frames) + 1 \notin DOMAIN frames
      /\ \A i \in DOMAIN frames : frames'[i] = frames[i]
      /\ frames'[Len(frames) + 1] = e
    OBVIOUS
<1>2. \A n : Incoming(n)' <=> Incoming(n) \/ n = e
    BY <1>1 DEF Incoming
<1> QED BY <1>1, <1>2

LEMMA PushDelivery ==
    ASSUME NEW n \in Requests, IInv, Delivery, Push(n) PROVE Delivery'
<1> USE StompAssumption DEF flags, threads, handler, topics
<1>1. /\ n \in toController /\ toController' = toController \ {n}
      /\ frames' = Append(frames, n)
      /\ UNCHANGED <<asker, buffer, published, tcp>>
      /\ frames \in Seq(Frames) /\ n \in Frames
    BY DEF Push, IInv, TypeOK, Frames
<1>2. /\ \A m : Incoming(m)' <=> Incoming(m) \/ m = n
      /\ DOMAIN frames' = DOMAIN frames \cup {Len(frames) + 1}
      /\ Len(frames) + 1 \notin DOMAIN frames
      /\ \A i \in DOMAIN frames : frames'[i] = frames[i]
      /\ frames'[Len(frames) + 1] = n
    BY <1>1, IncomingAppended
<1>3. ~Incoming(n) /\ asker[n] # None
    BY <1>1 DEF Delivery, TakenOnce, Asked
<1>4. \A m : Unread(m)' <=> Unread(m)
    BY <1>1 DEF Unread
<1>5. Asked'
    BY <1>1, <1>2, <1>3, <1>4 DEF Delivery, Asked
<1>6. TakenOnce'
    <2>1. \A m \in toController' : ~Incoming(m)'
        BY <1>1, <1>2 DEF Delivery, TakenOnce
    <2>2. \A m \in Requests : m \in toController' \/ Incoming(m)' => Unread(m)'
        BY <1>1, <1>2, <1>4 DEF Delivery, TakenOnce
    <2>3. \A i \in DOMAIN frames : frames[i] # n
        BY <1>3 DEF Incoming
    <2>4. \A i, j \in DOMAIN frames' :
             frames'[i] \in Requests /\ frames'[i] = frames'[j] => i = j
        BY <1>2, <2>3 DEF Delivery, TakenOnce
    <2> QED BY <2>1, <2>2, <2>4 DEF TakenOnce
<1>7. Kept'
    BY <1>1, <1>2 DEF Delivery, Kept
<1> QED BY <1>5, <1>6, <1>7 DEF Delivery

\* CONNECTED and CANCELLED are no requests.
LEMMA ControlDelivery ==
    ASSUME NEW e \in {"CONNECTED", "CANCELLED"}, IInv, Delivery,
           frames' = Append(frames, e),
           UNCHANGED <<toController, buffer, published, asker, tcp>>
    PROVE  Delivery'
<1> USE StompAssumption
<1>1. frames \in Seq(Frames) /\ e \in Frames /\ e \notin Requests
    BY DEF IInv, TypeOK, Frames
<1>2. /\ \A m : Incoming(m)' <=> Incoming(m) \/ m = e
      /\ DOMAIN frames' = DOMAIN frames \cup {Len(frames) + 1}
      /\ Len(frames) + 1 \notin DOMAIN frames
      /\ \A i \in DOMAIN frames : frames'[i] = frames[i]
      /\ frames'[Len(frames) + 1] = e
    BY <1>1, IncomingAppended
<1>3. /\ \A m \in toController : m # e
      /\ \A m : Unread(m)' <=> Unread(m)
    BY <1>1 DEF IInv, TypeOK, Unread
<1>4. Asked'
    BY <1>1, <1>2, <1>3 DEF Delivery, Asked
<1>5. TakenOnce'
    BY <1>1, <1>2, <1>3 DEF Delivery, TakenOnce
<1>6. Kept'
    BY <1>1, <1>2 DEF Delivery, Kept
<1> QED BY <1>4, <1>5, <1>6 DEF Delivery

\* After a read the requests that are left are later ones, each at one place,
\* and those that come into the buffer are not left; with whole frames all but
\* the first are left.
LEMMA LeftAfterRead ==
    ASSUME IInv, TakenOnce, NEW f, Reads(f)
    PROVE  /\ Incoming(f) /\ \A m \in Requests : Incoming(m)' => Incoming(m)
           /\ f \in Requests => ~Incoming(f)'
           /\ \A m \in buffer' : m \in buffer \/ (Incoming(m) /\ ~Incoming(m)')
           /\ \A i, j \in DOMAIN frames' :
                 frames'[i] \in Requests /\ frames'[i] = frames'[j] => i = j
           /\ WholeFrames =>
                 \A m \in Requests : Incoming(m) => Incoming(m)' \/ m = f
<1>1. /\ frames \in Seq(Frames) /\ frames # <<>> /\ Head(frames) = f
      /\ Len(frames) \in Nat /\ DOMAIN frames = 1 .. Len(frames)
      /\ 1 \in DOMAIN frames /\ frames[1] = f
    BY DEF Reads, IInv, TypeOK
<1>2. PICK k \in 1 .. Len(frames), shift \in Nat :
          /\ frames' \in Seq(Frames)
          /\ Len(frames') = Len(frames) - shift
          /\ WholeFrames => k = 1 /\ shift = 1
          /\ buffer' = buffer \cup ({frames[i] : i \in 1 .. k} \cap Requests)
          /\ \A i \in 1 .. Len(frames') :
                \/ frames'[i] = "REST"
                \/ /\ i + shift \in 1 .. Len(frames) /\ i + shift > k
                   /\ frames'[i] = frames[i + shift]
    BY <1>1, LaterFrames
<1>3. DOMAIN frames' = 1 .. Len(frames') /\ k \in Nat /\ k >= 1
    BY <1>2
<1>4. ASSUME NEW i \in DOMAIN frames', frames'[i] \in Requests
      PROVE  /\ i + shift \in DOMAIN frames /\ i + shift > k
             /\ frames'[i] = frames[i + shift]
    <2>1. frames'[i] # "REST"
        BY <1>4, StompAssumption
    <2> QED BY <1>1, <1>2, <1>3, <2>1
<1>5. Incoming(f) /\ \A m \in Requests : Incoming(m)' => Incoming(m)
    BY <1>1, <1>4 DEF Incoming
\* What has been read stands before what is left.
<1>6. ASSUME NEW m \in Requests, NEW j \in 1 .. k, frames[j] = m
      PROVE  ~Incoming(m)'
    <2> SUFFICES ASSUME NEW i \in DOMAIN frames', frames'[i] = m PROVE FALSE
        BY DEF Incoming
    <2>1. i + shift \in DOMAIN frames /\ i + shift > k /\ frames[i + shift] = m
        BY <1>4
    <2>2. j \in DOMAIN frames /\ j # i + shift
        BY <1>1, <1>2, <2>1
    <2> QED BY <1>6, <2>1, <2>2 DEF TakenOnce
<1>7. f \in Requests => ~Incoming(f)'
    <2>1. 1 \in 1 .. k
        BY <1>3
    <2> QED BY <1>1, <1>6, <2>1
<1>8. ASSUME NEW m \in buffer', m \notin buffer PROVE Incoming(m) /\ ~Incoming(m)'
    <2>1. PICK j \in 1 .. k : frames[j] = m /\ m \in Requests
        BY <1>2, <1>8
    <2>2. j \in DOMAIN frames
        BY <1>1, <1>2
    <2> QED BY <1>6, <2>1, <2>2 DEF Incoming
<1>9. \A i, j \in DOMAIN frames' :
          frames'[i] \in Requests /\ frames'[i] = frames'[j] => i = j
    <2> SUFFICES ASSUME NEW i \in DOMAIN frames', NEW j \in DOMAIN frames',
                        frames'[i] \in Requests, frames'[i] = frames'[j]
                 PROVE  i = j
        OBVIOUS
    <2>1. i + shift = j + shift
        BY <1>4 DEF TakenOnce
    <2> QED BY <1>2, <1>3, <2>1
<1>10. ASSUME WholeFrames, NEW m \in Requests, Incoming(m)
       PROVE  Incoming(m)' \/ m = f
    <2>1. PICK i \in DOMAIN frames : frames[i] = m
        BY <1>10 DEF Incoming
    <2>2. CASE i = 1
        BY <1>1, <2>1, <2>2
    <2>3. CASE i # 1
        <3>1. shift = 1 /\ Reads(f)
            BY <1>2, <1>10
        <3>2. frames' = SubSeq(frames, 2, Len(frames))
            BY <1>10 DEF Reads, Left
        <3>3. i - 1 \in DOMAIN frames' /\ frames'[i - 1] = frames[i]
            BY <1>1, <2>3, <3>2
        <3> QED BY <2>1, <3>3 DEF Incoming
    <2> QED BY <2>2, <2>3
<1> QED BY <1>5, <1>7, <1>8, <1>9, <1>10

\* A read of a frame for which at most one record is published: its request,
\* one whose bytes are in the buffer, or a hybrid.
LEMMA ReadDelivery ==
    ASSUME NEW f, IInv, Delivery, Reads(f), UNCHANGED <<toController, asker, tcp>>,
           \/ UNCHANGED published
           \/ /\ f \in Requests
              /\ \E record \in buffer \cup {f, "HYBRID"} :
                    published' = [published EXCEPT ![f] = record],
           f \in Requests => Faulty \/ ~WholeFrames \/ published'[f] = f
    PROVE  Delivery'
<1>1. /\ Incoming(f) /\ \A m \in Requests : Incoming(m)' => Incoming(m)
      /\ f \in Requests => ~Incoming(f)'
      /\ \A m \in buffer' : m \in buffer \/ (Incoming(m) /\ ~Incoming(m)')
      /\ \A i, j \in DOMAIN frames' :
            frames'[i] \in Requests /\ frames'[i] = frames'[j] => i = j
      /\ WholeFrames =>
            \A m \in Requests : Incoming(m) => Incoming(m)' \/ m = f
    BY LeftAfterRead DEF Delivery
<1>2. published \in [Requests -> Records \cup {None}] /\ "HYBRID" \notin Requests
    BY StompAssumption DEF IInv, TypeOK
<1>3. ASSUME NEW m \in Requests, m # f
      PROVE  published'[m] = published[m]
    BY <1>2, <1>3
<1>4. ASSUME NEW n \in Requests, Unread(n), n # f, n \notin buffer' PROVE Unread(n)'
    <2>1. \A m \in Requests : published'[m] # n
        BY <1>2, <1>3, <1>4 DEF Unread
    <2> QED BY <1>3, <1>4, <2>1 DEF Unread
<1>5. Asked'
    <2> SUFFICES ASSUME NEW n \in Requests, asker[n] = None
                 PROVE  n \notin toController' /\ ~Incoming(n)' /\ Unread(n)'
        BY DEF Asked
    <2>1. n \notin toController /\ ~Incoming(n) /\ Unread(n)
        BY DEF Delivery, Asked
    <2>2. n # f /\ n \notin buffer'
        BY <1>1, <2>1 DEF Unread
    <2> QED BY <1>1, <1>4, <2>1, <2>2
<1>6. TakenOnce'
    <2>1. \A n \in toController : n \in Requests
        BY DEF IInv, TypeOK
    <2>2. \A n \in toController' : ~Incoming(n)'
        BY <1>1, <2>1 DEF Delivery, TakenOnce
    <2>3. ASSUME NEW n \in Requests, n \in toController' \/ Incoming(n)'
          PROVE  Unread(n)'
        <3>1. (n \in toController /\ ~Incoming(n)) \/ (Incoming(n) /\ Incoming(n)')
            BY <1>1, <2>3 DEF Delivery, TakenOnce
        <3>2. Unread(n)
            BY <3>1 DEF Delivery, TakenOnce
        <3>3. n # f /\ n \notin buffer'
            BY <1>1, <3>1, <3>2 DEF Unread
        <3> QED BY <1>4, <3>2, <3>3
    <2> QED BY <1>1, <2>2, <2>3 DEF TakenOnce
<1>7. Kept'
    <2> SUFFICES ASSUME WholeFrames, ~Faulty, tcp \in {"none", "up"},
                        NEW n \in Requests, asker[n] \in Agents
                 PROVE  n \in toController \/ Incoming(n)' \/ published'[n] = n
        BY DEF Kept
    <2>1. n \in toController \/ Incoming(n) \/ published[n] = n
        BY DEF Delivery, Kept
    <2>2. CASE n = f
        BY <2>2
    <2>3. CASE n # f
        BY <1>1, <1>3, <2>1, <2>3
    <2> QED BY <2>2, <2>3
<1> QED BY <1>5, <1>6, <1>7 DEF Delivery

LEMMA ReadMessageDelivery ==
    ASSUME NEW n \in Requests, IInv, Delivery, ReadMessage(n) PROVE Delivery'
<1>1. Reads(n) /\ UNCHANGED <<toController, asker, tcp>>
    BY DEF ReadMessage
<1>2. CASE published' = [published EXCEPT ![n] = n]
    <2>1. published'[n] = n
        BY <1>2 DEF IInv, TypeOK
    <2> QED BY <1>1, <1>2, <2>1, ReadDelivery
<1>3. CASE Faulty /\ UNCHANGED published
    BY <1>1, <1>3, ReadDelivery
<1> QED BY <1>2, <1>3 DEF ReadMessage, Publish

\* A lost link and the end of the process may only take frames away, and the
\* end of the process what is in the buffer.
LEMMA LossDelivery ==
    ASSUME IInv, Delivery, frames' \in {frames, <<>>}, buffer' \in {buffer, {}},
           UNCHANGED <<toController, published, asker>>,
           Faulty \/ ~WholeFrames \/ tcp' \notin {"none", "up"}
    PROVE  Delivery'
<1>1. \A m : Unread(m) => Unread(m)'
    BY DEF Unread
<1>2. /\ \A m : Incoming(m)' => Incoming(m)
      /\ \A i, j \in DOMAIN frames' :
            frames'[i] \in Requests /\ frames'[i] = frames'[j] => i = j
    <2>1. CASE frames' = frames
        BY <2>1 DEF Incoming, Delivery, TakenOnce
    <2>2. CASE frames' = <<>>
        <3>1. DOMAIN frames' = {}
            BY <2>2
        <3> QED BY <3>1 DEF Incoming
    <2> QED BY <2>1, <2>2
<1>3. Asked' /\ TakenOnce'
    BY <1>1, <1>2 DEF Delivery, Asked, TakenOnce
<1>4. Kept'
    BY DEF Kept
<1> QED BY <1>3, <1>4 DEF Delivery

LEMMA EndDelivery == ASSUME IInv, Delivery, EndProcess, Faulty \/ ~WholeFrames PROVE Delivery'
    BY LossDelivery DEF EndProcess

LEMMA InitDelivery == Init => Delivery
<1> SUFFICES ASSUME Init PROVE Delivery
    OBVIOUS
<1>1. frames = <<>> /\ DOMAIN frames = {} /\ \A m : ~Incoming(m)
    BY DEF Init, Incoming
<1>2. \A n \in Requests : Unread(n) /\ asker[n] = None
    BY StompAssumption DEF Init, Unread
<1> QED BY <1>1, <1>2, StompAssumption DEF Init, Delivery, Asked, TakenOnce, Kept

LEMMA StepDelivery == IInv /\ Delivery /\ [Next]_vars => Delivery'
<1> SUFFICES ASSUME IInv, Delivery, [Next]_vars PROVE Delivery'
    OBVIOUS
<1> USE DEF flags, broker, control, threads, handler, topics, Rest, Beyond
<1>1. CASE Start
    <2>1. UNCHANGED way
        BY <1>1 DEF Start, Dial, SendConnect, SeeAuthenticated, GiveUp, Subscribe, way
    <2>2. tcp' \in {"none", "up"} => tcp \in {"none", "up"}
        BY <1>1 DEF Start, Dial, SendConnect, SeeAuthenticated, GiveUp, Subscribe, IInv, Fresh
    <2> QED BY <2>1, <2>2, Elsewhere
<1>2. CASE ReadMessages
    <2>1. CASE ReadConnected \/ ReadCancelled \/ ReadRest
        <3>1. PICK f \in {"CONNECTED", "CANCELLED", "REST"} : Reads(f)
            BY <2>1 DEF ReadConnected, ReadCancelled, ReadRest
        <3>2. f \notin Requests
            BY StompAssumption
        <3>3. UNCHANGED <<toController, published, asker, tcp>>
            BY <2>1 DEF ReadConnected, ReadCancelled, ReadRest
        <3> QED BY <3>1, <3>2, <3>3, ReadDelivery
    <2>2. CASE ReadSplit
        <3>1. PICK f \in Frames :
                 /\ Reads(f)
                 /\ \/ UNCHANGED published
                    \/ /\ f \in Requests
                       /\ \E record \in buffer \cup {f, "HYBRID"} :
                             published' = [published EXCEPT ![f] = record]
            BY <2>2 DEF ReadSplit, Publish
        <3>2. UNCHANGED <<toController, asker, tcp>> /\ ~WholeFrames
            BY <2>2 DEF ReadSplit
        <3> QED BY <3>1, <3>2, ReadDelivery
    <2>3. CASE ReadError
        BY <2>3, Elsewhere DEF ReadError, way
    <2>4. CASE ReadOverlong
        BY <2>4, EndDelivery DEF ReadOverlong
    <2> QED BY <1>2, <2>1, <2>2, <2>3, <2>4, ReadMessageDelivery DEF ReadMessages
<1>3. CASE Handle
    <2>1. UNCHANGED <<way, tcp>>
        BY <1>3 DEF Handle, Fetch, CheckConnected, Send, way
    <2> QED BY <2>1, Elsewhere
<1>4. CASE RabbitMQ
    <2>1. CASE Accept
        BY <2>1, ControlDelivery DEF Accept
    <2>2. toController \in SUBSET Requests
        BY DEF IInv, TypeOK
    <2> QED BY <1>4, <2>1, <2>2, PushDelivery DEF RabbitMQ
<1>5. CASE Agent
    <2>1. CASE \E a \in Agents, n \in toAgents : Take(a, n)
        BY <2>1, Elsewhere DEF Take, way
    <2> QED BY <1>5, <2>1, AskDelivery DEF Agent
<1>6. CASE CancelSubscription
    BY <1>6, ControlDelivery DEF CancelSubscription
<1>7. CASE LoseLink
    BY <1>7, LossDelivery DEF LoseLink
<1>8. CASE Cancel
    BY <1>8, Elsewhere DEF Cancel, way
<1>9. CASE Close
    BY <1>9, Elsewhere DEF Close, way
<1>10. CASE Restart
    BY <1>10, EndDelivery DEF Restart
<1>11. CASE \E n \in inbound : Answer(n)
    BY <1>11, Elsewhere DEF Answer, way
<1>12. CASE UNCHANGED vars
    BY <1>12, Elsewhere DEF vars, way
<1> QED BY <1>1, <1>2, <1>3, <1>4, <1>5, <1>6, <1>7, <1>8, <1>9, <1>10, <1>11, <1>12 DEF Next

LEMMA InvariantDelivery == Spec => []Delivery
    BY Invariant, InitDelivery, StepDelivery, PTL DEF Spec

\* However the reads cut the frames, the link behaves and often the process
\* restarts: a frame is read once, for one record at most, and of a request in
\* the queue or on its way nothing is published or in the buffer yet.
THEOREM ReadOnce == Spec => []TakenOnce
<1>1. Delivery => TakenOnce
    BY DEF Delivery
<1> QED BY <1>1, InvariantDelivery, PTL

\* The safety core of Published: with whole frames, a link that holds and no
\* shutdown, what is on its way has a reader, and no step drops a request.
THEOREM NoRequestIsLost == Spec => []Accounted
<1>1. ASSUME IInv, Delivery PROVE Accounted
    <2> SUFFICES ASSUME WholeFrames, ~Faulty, stop = "no", tcp \in {"none", "up"},
                        NEW n \in Requests, asker[n] \in Agents, Incoming(n)
                 PROVE  reader = "reading"
        BY <1>1 DEF Accounted, Delivery, Kept
    <2>1. frames # <<>>
        BY DEF Incoming
    <2>2. tcp = "up" /\ starter \notin {"dial", "connect"}
        BY <1>1, <2>1 DEF IInv, Fresh
    <2> QED BY <1>1, <2>2 DEF IInv, Linked
<1> QED BY <1>1, Invariant, InvariantDelivery, PTL
=============================================================================
