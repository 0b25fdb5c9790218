---------------------------- MODULE UspAgent_proofs ----------------------------
(***************************************************************************)
(* Proofs about UspAgent: types, the order of the messages, the single     *)
(* close of the channel closed, and the error a reader leaves behind.      *)
(***************************************************************************)
EXTENDS UspAgent, SequenceTheorems, TLAPS

(***************************************************************************)
(* What the properties rest on.                                            *)
(***************************************************************************)
Ended == {"done", "fatal", "panic"}
Connecting == {"dial", "connect", "accept", "subscribe"}

\* closeOnce is used up exactly when the channel has been closed.
Once == closed = once

\* The controller gets nothing but Boot! events and Gets.
Asked == \A rec \in received : rec.type \in {"NOTIFY", "GET"}

\* The broker pushes on a link that holds only.
Open == session = "open" => link = "up"

\* Before there is a link nothing has been pushed.
Fresh ==
    /\ main = "dial" => link = "none"
    /\ link = "none" => /\ got = <<>> /\ inbox = <<>> /\ held = None
                        /\ wire = <<>> /\ pushed = <<>>

\* readLoop runs between Subscribe and the end of the process, and holds a
\* message exactly when it is about to put one into inbox.
Hands ==
    /\ main \in Connecting \cup Ended => reader = "off"
    /\ reader = "holding" => held # None
    /\ held # None => reader = "holding" \/ main \in Ended

\* Over WebSocket there is no reader and no inbox.
Direct ==
    transport = "websocket" =>
        /\ reader = "off" /\ held = None /\ inbox = <<>>
        /\ main \notin {"connect", "accept", "subscribe"}

Control == Once /\ Asked /\ Open /\ Fresh /\ Hands /\ Direct

IInv == TypeOK /\ Control /\ Conserved /\ ClosedOnce /\ ErrorIsKnown

(***************************************************************************)
(* Answers are records.                                                    *)
(***************************************************************************)
LEMMA AnswersTyped ==
    ASSUME TypeOK, Asked
    PROVE  Answers \cup Strays \subseteq Record
<1>1. ASSUME NEW rec \in received PROVE ProcessUSPMessage(rec) \in Record
  <2>1. rec \in Record /\ rec.type \in {"NOTIFY", "GET"}
    BY <1>1 DEF TypeOK, Asked
  <2>2. DetectUSPVersion(rec) \in Versions
    BY DEF DetectUSPVersion, Versions
  <2>3. rec.from \in Ids /\ rec.to \in Ids
    BY <2>1 DEF Record
  <2>4. CASE rec.type = "NOTIFY"
    <3>1. createResponse(rec) = [type |-> "NOTIFY_RESP", id |-> "notify-resp-boot"]
      BY <2>4 DEF createResponse
    <3>2. QED BY <2>2, <2>3, <3>1 DEF ProcessUSPMessage, Record, Types
  <2>5. CASE rec.type = "GET"
    <3>1. createResponse(rec) = [type |-> "GET_RESP", id |-> "get-resp-msg"]
      BY <2>5 DEF createResponse
    <3>2. QED BY <2>2, <2>3, <3>1 DEF ProcessUSPMessage, Record, Types
  <2>6. QED BY <2>1, <2>4, <2>5
<1>2. Strays \subseteq Record
  BY DEF Strays, Record, Versions, Ids, Types
<1>3. QED BY <1>1, <1>2 DEF Answers

LEMMA RecordsTyped ==
    ASSUME TypeOK
    PROVE  /\ createOnboardingMessage \in Record /\ createGetMessage \in Record
           /\ createOnboardingMessage.type = "NOTIFY"
           /\ createGetMessage.type = "GET"
BY DEF TypeOK, createOnboardingMessage, createGetMessage, Record, Ids, Types

(***************************************************************************)
(* Moving a message along the path does not change it.                     *)
(***************************************************************************)
LEMMA PathTyped ==
    ASSUME TypeOK
    PROVE  /\ InHand \in Seq(Record)
           /\ got \o inbox \in Seq(Record)
           /\ got \o inbox \o InHand \in Seq(Record)
           /\ Path \in Seq(Record)
<1>1. InHand \in Seq(Record)
  BY EmptySeq DEF TypeOK, InHand
<1>2. got \o inbox \in Seq(Record)
  BY ConcatProperties DEF TypeOK
<1>3. got \o inbox \o InHand \in Seq(Record)
  BY <1>1, <1>2, ConcatProperties
<1>4. Path \in Seq(Record)
  BY <1>3, ConcatProperties DEF TypeOK, Path
<1>5. QED BY <1>1, <1>2, <1>3, <1>4

\* The head of t goes over to the end of s.
LEMMA MoveHead ==
    ASSUME NEW S, NEW s \in Seq(S), NEW t \in Seq(S), t # <<>>
    PROVE  Append(s, Head(t)) \o Tail(t) = s \o t
<1>1. Head(t) \in S /\ Tail(t) \in Seq(S)
  BY HeadTailProperties
<1>2. Append(s, Head(t)) = s \o <<Head(t)>>
  BY <1>1, AppendIsConcat
<1>3. <<Head(t)>> \in Seq(S)
  BY <1>1
<1>4. Append(s, Head(t)) \o Tail(t) = s \o (<<Head(t)>> \o Tail(t))
  BY <1>1, <1>2, <1>3, ConcatAssociative
<1>5. <<Head(t)>> \o Tail(t) = t
  <2> DEFINE u == <<Head(t)>> \o Tail(t)
  <2>1. u \in Seq(S) /\ Len(u) = 1 + Len(Tail(t))
        /\ \A i \in 1 .. 1 + Len(Tail(t)) :
              u[i] = IF i <= 1 THEN Head(t) ELSE Tail(t)[i - 1]
    BY <1>1, <1>3, ConcatProperties
  <2>2. Len(t) \in Nat \ {0} /\ Len(Tail(t)) = Len(t) - 1
        /\ \A i \in 1 .. Len(Tail(t)) : Tail(t)[i] = t[i + 1]
    BY HeadTailProperties, EmptySeq
  <2>3. Head(t) = t[1]
    OBVIOUS
  <2>4. Len(u) = Len(t) /\ \A i \in 1 .. Len(u) : u[i] = t[i]
    BY <2>1, <2>2, <2>3
  <2> HIDE DEF u
  <2>5. u = t
    BY <2>1, <2>4, SeqEqual
  <2>6. QED BY <2>5 DEF u
<1>6. QED BY <1>4, <1>5

\* Read takes the head of inbox.
LEMMA InboxRead ==
    ASSUME TypeOK, inbox # <<>>,
           got' = Append(got, Head(inbox)), inbox' = Tail(inbox),
           held' = held, wire' = wire
    PROVE  Path' = Path
<1>1. got' \o inbox' = got \o inbox
  BY MoveHead DEF TypeOK
<1>2. InHand' = InHand
  BY DEF InHand
<1>3. QED BY <1>1, <1>2 DEF Path

\* Read takes the head of the wire.
LEMMA WireRead ==
    ASSUME TypeOK, wire # <<>>, inbox = <<>>, held = None,
           got' = Append(got, Head(wire)), wire' = Tail(wire),
           inbox' = inbox, held' = held
    PROVE  Path' = Path
<1>1. InHand = <<>> /\ InHand' = <<>>
  BY DEF InHand
<1>2. Head(wire) \in Record
  BY HeadTailProperties DEF TypeOK
<1>3. got' \in Seq(Record)
  BY <1>2, AppendProperties DEF TypeOK
<1>4. got \o inbox \o InHand = got /\ got' \o inbox' \o InHand' = got'
  BY <1>1, <1>3, ConcatEmptySeq DEF TypeOK
<1>5. got' \o wire' = got \o wire
  BY MoveHead DEF TypeOK
<1>6. QED BY <1>4, <1>5 DEF Path

\* readLoop takes the head of the wire into its hand.
LEMMA WireTaken ==
    ASSUME TypeOK, wire # <<>>, held = None,
           held' = Head(wire), wire' = Tail(wire),
           got' = got, inbox' = inbox
    PROVE  Path' = Path
<1> DEFINE s == got \o inbox
<1>1. s \in Seq(Record)
  BY PathTyped
<1>2. Head(wire) \in Record
  BY HeadTailProperties DEF TypeOK
<1>3. InHand = <<>> /\ InHand' = <<Head(wire)>>
  BY <1>2, NoneAssumption DEF InHand
<1>4. s \o InHand = s
  BY <1>1, <1>3, ConcatEmptySeq
<1>5. s \o InHand' = Append(s, Head(wire))
  BY <1>1, <1>2, <1>3, AppendIsConcat
<1>6. Append(s, Head(wire)) \o Tail(wire) = s \o wire
  BY <1>1, MoveHead DEF TypeOK
<1>7. QED BY <1>4, <1>5, <1>6 DEF Path

\* readLoop puts what it holds into inbox.
LEMMA HandPut ==
    ASSUME TypeOK, held # None,
           inbox' = Append(inbox, held), held' = None,
           got' = got, wire' = wire
    PROVE  Path' = Path
<1>1. held \in Record /\ <<held>> \in Seq(Record)
  BY DEF TypeOK
<1>2. InHand = <<held>> /\ InHand' = <<>>
  BY DEF InHand
<1>3. inbox' = inbox \o <<held>> /\ inbox' \in Seq(Record)
  BY <1>1, AppendIsConcat, AppendProperties DEF TypeOK
<1>4. got \o inbox' = (got \o inbox) \o <<held>>
  BY <1>1, <1>3, ConcatAssociative DEF TypeOK
<1>5. (got \o inbox') \o <<>> = got \o inbox'
  BY <1>3, ConcatProperties, ConcatEmptySeq DEF TypeOK
<1>6. QED BY <1>2, <1>4, <1>5 DEF Path

\* What is not touched stays.
LEMMA Untouched ==
    ASSUME UNCHANGED <<got, inbox, held, wire>>
    PROVE  Path' = Path
BY DEF Path, InHand

LEMMA SamePath ==
    ASSUME Conserved, Path' = Path, pushed' = pushed,
           link' = "up" => link = "up"
    PROVE  Conserved'
BY DEF Conserved

(***************************************************************************)
(* Every step keeps the invariant.                                         *)
(***************************************************************************)
LEMMA InitInv == ASSUME Init PROVE IInv
<1>1. TypeOK
  <2>1. <<>> \in Seq(Record) /\ Len(<<>>) = 0
    OBVIOUS
  <2>2. InboxSize >= 0 /\ MaxFrames >= 0
    BY AgentAssumption
  <2>3. /\ inbox \in Seq(Record) /\ Len(inbox) <= InboxSize
        /\ wire \in Seq(Record) /\ got \in Seq(Record)
        /\ pushed \in Seq(Record) /\ Len(pushed) <= MaxFrames
    BY <2>1, <2>2 DEF Init
  <2>4. QED BY <2>3 DEF Init, TypeOK
<1>2. Control
  BY DEF Init, Control, Once, Asked, Open, Fresh, Hands, Direct, Connecting, Ended
<1>3. Path = <<>> /\ pushed = <<>>
  <2>1. InHand = <<>>
    BY DEF Init, InHand
  <2>2. QED BY <2>1, ConcatEmptySeq, EmptySeq DEF Init, Path
<1>4. Conserved
  BY <1>3 DEF Conserved
<1>5. QED BY <1>1, <1>2, <1>4 DEF IInv, Init, ClosedOnce, ErrorIsKnown

LEMMA AcceptInv == ASSUME IInv, Accept PROVE IInv'
<1> USE DEF IInv, Accept, config, channels, socket, history
<1>1. TypeOK'
  BY DEF TypeOK
<1>2. Control'
  BY DEF Control, Once, Asked, Open, Fresh, Hands, Direct
<1>3. Conserved'
  BY Untouched, SamePath
<1>4. QED BY <1>1, <1>2, <1>3 DEF ClosedOnce, ErrorIsKnown

LEMMA PushInv == ASSUME IInv, Push PROVE IInv'
<1> USE DEF IInv, Push, config, channels, socket, history
<1>1. PICK m \in Answers \cup Strays :
         pushed' = Append(pushed, m) /\ wire' = Append(wire, m)
  OBVIOUS
<1>2. m \in Record
  BY AnswersTyped DEF Control
<1>3. TypeOK'
  <2>1. pushed' \in Seq(Record) /\ Len(pushed') = Len(pushed) + 1
        /\ wire' \in Seq(Record)
    BY <1>1, <1>2, AppendProperties DEF TypeOK
  <2>2. Len(pushed) \in Nat /\ Len(pushed) < MaxFrames /\ MaxFrames \in Nat
    BY AgentAssumption, LenProperties DEF TypeOK
  <2>3. Len(pushed') <= MaxFrames
    BY <2>1, <2>2
  <2>4. QED BY <2>1, <2>3 DEF TypeOK
<1>4. Control'
  BY DEF Control, Once, Asked, Open, Fresh, Hands, Direct
<1>5. Path' = Append(Path, m)
  <2> DEFINE s == got \o inbox \o InHand
  <2>1. s \in Seq(Record) /\ wire \in Seq(Record) /\ <<m>> \in Seq(Record)
    BY <1>2, PathTyped DEF TypeOK
  <2>2. InHand' = InHand
    BY DEF InHand
  <2>3. Path' = s \o Append(wire, m)
    BY <1>1, <2>2 DEF Path
  <2>4. Append(wire, m) = wire \o <<m>>
    BY <1>2, <2>1, AppendIsConcat
  <2> HIDE DEF s
  <2>5. s \o (wire \o <<m>>) = (s \o wire) \o <<m>>
    BY <2>1, ConcatAssociative
  <2>6. Path \in Seq(Record) /\ Path = s \o wire
    BY PathTyped DEF Path, s
  <2>7. QED BY <1>2, <2>3, <2>4, <2>5, <2>6, AppendIsConcat
<1>6. Conserved'
  <2>1. link = "up" /\ Len(Path) = Len(pushed)
        /\ \A n \in 1 .. Len(Path) : Path[n] = pushed[n]
    BY DEF Control, Open, Conserved
  <2>2. Path \in Seq(Record) /\ pushed \in Seq(Record)
    BY PathTyped DEF TypeOK
  <2>3. QED BY <1>1, <1>2, <1>5, <2>1, <2>2, AppendProperties DEF Conserved
<1>7. QED BY <1>3, <1>4, <1>6 DEF ClosedOnce, ErrorIsKnown

LEMMA LoseLinkInv == ASSUME IInv, LoseLink PROVE IInv'
<1> USE DEF IInv, LoseLink, config, channels, socket, history
<1>1. PICK k \in 0 .. Len(wire) : wire' = SubSeq(wire, 1, k)
  OBVIOUS
<1> DEFINE s == got \o inbox \o InHand
<1>2. s \in Seq(Record) /\ wire \in Seq(Record) /\ Len(wire) \in Nat
  BY PathTyped, LenProperties DEF TypeOK
<1>3. /\ wire' \in Seq(Record) /\ Len(wire') = k
      /\ \A i \in 1 .. k : wire'[i] = wire[i]
  <2>1. \A i \in 1 .. k : wire[i] \in Record
    BY <1>2, ElementOfSeq
  <2>2. QED BY <1>1, <1>2, <2>1, SubSeqProperties
<1>4. TypeOK'
  BY <1>3 DEF TypeOK
<1>5. Control'
  BY DEF Control, Once, Asked, Open, Fresh, Hands, Direct
<1>6. Conserved'
  <2>1. Path = s \o wire /\ Path' = s \o wire'
    BY DEF Path, InHand
  <2> HIDE DEF s
  <2>2. /\ Len(Path) = Len(s) + Len(wire) /\ Len(Path') = Len(s) + k
        /\ Len(s) \in Nat
        /\ \A i \in 1 .. Len(s) + k : Path'[i] = Path[i]
    <3>1. Len(s) \in Nat
      BY <1>2, LenProperties
    <3>2. /\ Len(Path) = Len(s) + Len(wire)
          /\ \A i \in 1 .. Len(s) + Len(wire) :
                Path[i] = IF i <= Len(s) THEN s[i] ELSE wire[i - Len(s)]
      BY <1>2, <2>1, ConcatProperties
    <3>3. /\ Len(Path') = Len(s) + k
          /\ \A i \in 1 .. Len(s) + k :
                Path'[i] = IF i <= Len(s) THEN s[i] ELSE wire'[i - Len(s)]
      <4>1. wire' \in Seq(Record) /\ Len(wire') = k
        BY <1>3
      <4>2. /\ Len(s \o wire') = Len(s) + Len(wire')
            /\ \A i \in 1 .. Len(s) + Len(wire') : (s \o wire')[i] =
                  IF i <= Len(s) THEN s[i] ELSE wire'[i - Len(s)]
        BY ONLY <1>2, <4>1, ConcatProperties
      <4>3. QED BY ONLY <2>1, <4>1, <4>2
    <3>4. ASSUME NEW i \in 1 .. Len(s) + k PROVE Path'[i] = Path[i]
      <4>1. i \in 1 .. Len(s) + Len(wire)
        BY <1>2, <3>1
      <4>2. CASE i <= Len(s)
        BY <3>2, <3>3, <4>1, <4>2
      <4>3. CASE ~(i <= Len(s))
        <5>1. i - Len(s) \in 1 .. k
          BY <3>1, <4>3
        <5>2. QED BY <1>3, <3>2, <3>3, <4>1, <4>3, <5>1
      <4>4. QED BY <4>2, <4>3
    <3>5. QED BY <3>1, <3>2, <3>3, <3>4
  <2>3. pushed \in Seq(Record) /\ Len(pushed) \in Nat
    BY LenProperties DEF TypeOK
  <2>4. /\ Len(Path) <= Len(pushed)
        /\ \A n \in 1 .. Len(Path) : Path[n] = pushed[n]
    BY DEF Conserved
  <2>5. Len(Path') <= Len(Path) /\ Len(Path) \in Nat /\ Len(Path') \in Nat
    BY <1>2, <2>2
  <2>6. pushed' = pushed /\ link' = "lost"
    OBVIOUS
  <2>7. Len(Path') <= Len(pushed')
    BY <2>3, <2>4, <2>5, <2>6
  <2>8. ASSUME NEW n \in 1 .. Len(Path') PROVE Path'[n] = pushed'[n]
    <3>1. n \in 1 .. Len(s) + k /\ n \in 1 .. Len(Path)
      BY <2>2, <2>5
    <3>2. QED BY <2>2, <2>4, <2>6, <3>1
  <2>9. QED BY <2>6, <2>7, <2>8 DEF Conserved
<1>7. QED BY <1>4, <1>5, <1>6 DEF ClosedOnce, ErrorIsKnown

LEMMA ExitInv ==
    ASSUME IInv, NEW how \in {"done", "fatal"}, Exit(how),
           UNCHANGED <<config, held, channels, failed, transit, history>>
    PROVE  IInv'
<1> USE DEF IInv, Exit, config, channels, transit, history
<1>1. TypeOK'
  BY DEF TypeOK
<1>2. Control'
  BY DEF Control, Once, Asked, Open, Fresh, Hands, Direct, Connecting, Ended
<1>3. Conserved'
  BY Untouched, SamePath
<1>4. QED BY <1>1, <1>2, <1>3 DEF ClosedOnce, ErrorIsKnown

LEMMA FatalInv == ASSUME IInv, Fatal PROVE IInv'
BY ExitInv DEF Fatal

LEMMA ReturnInv == ASSUME IInv, Return PROVE IInv'
BY ExitInv DEF Return

LEMMA DialInv == ASSUME IInv, Dial PROVE IInv'
<1>1. CASE Fatal
  BY <1>1, FatalInv
<1>2. CASE ~Fatal
  <2> USE <1>2 DEF IInv, Dial, config, channels, transit, history
  <2>1. TypeOK'
    BY DEF TypeOK
  <2>2. Control'
    BY DEF Control, Once, Asked, Open, Fresh, Hands, Direct, Connecting, Ended
  <2>3. Conserved'
    <3>1. main = "dial" /\ link = "none" /\ pushed' = <<>>
      BY DEF Control, Fresh
    <3>2. Path' = <<>>
      <4>1. got' = <<>> /\ inbox' = <<>> /\ wire' = <<>> /\ InHand' = <<>>
        BY <3>1 DEF Control, Fresh, InHand
      <4>2. QED BY <4>1, ConcatEmptySeq, EmptySeq DEF Path
    <3>3. QED BY <3>1, <3>2 DEF Conserved
  <2>4. QED BY <2>1, <2>2, <2>3 DEF ClosedOnce, ErrorIsKnown
<1>3. QED BY <1>1, <1>2

LEMMA SendConnectInv == ASSUME IInv, SendConnect PROVE IInv'
<1>1. CASE Fatal
  BY <1>1, FatalInv
<1>2. CASE ~Fatal
  <2> USE <1>2 DEF IInv, SendConnect, config, channels, socket, transit, history
  <2>1. TypeOK'
    BY DEF TypeOK
  <2>2. Control'
    BY DEF Control, Once, Asked, Open, Fresh, Hands, Direct, Connecting, Ended
  <2>3. Conserved'
    BY Untouched, SamePath
  <2>4. QED BY <2>1, <2>2, <2>3 DEF ClosedOnce, ErrorIsKnown
<1>3. QED BY <1>1, <1>2

LEMMA ReadConnectedInv == ASSUME IInv, ReadConnected PROVE IInv'
<1> USE DEF IInv, ReadConnected, config, channels, socket, outside, transit, history
<1>1. TypeOK'
  BY DEF TypeOK
<1>2. Control'
  BY DEF Control, Once, Asked, Open, Fresh, Hands, Direct, Connecting, Ended
<1>3. Conserved'
  BY Untouched, SamePath
<1>4. QED BY <1>1, <1>2, <1>3 DEF ClosedOnce, ErrorIsKnown

LEMMA SubscribeInv == ASSUME IInv, Subscribe PROVE IInv'
<1>1. CASE Fatal
  BY <1>1, FatalInv
<1>2. CASE ~Fatal
  <2> USE <1>2 DEF IInv, Subscribe, config, channels, socket, transit, history
  <2>1. TypeOK'
    BY DEF TypeOK
  <2>2. Control'
    BY DEF Control, Once, Asked, Open, Fresh, Hands, Direct, Connecting, Ended
  <2>3. Conserved'
    BY Untouched, SamePath
  <2>4. QED BY <2>1, <2>2, <2>3 DEF ClosedOnce, ErrorIsKnown
<1>3. QED BY <1>1, <1>2

LEMMA SendInv ==
    ASSUME IInv, NEW rec \in Record, rec.type \in {"NOTIFY", "GET"},
           NEW next \in {"bootResp", "getResp"}, main \in {"boot", "get"},
           SendRecord(rec, next)
    PROVE  IInv'
<1>1. CASE Fatal
  BY <1>1, FatalInv
<1>2. CASE ~Fatal
  <2> USE <1>2 DEF IInv, SendRecord, config, channels, history
  <2>1. TypeOK'
    BY DEF TypeOK
  <2>2. Control'
    BY DEF Control, Once, Asked, Open, Fresh, Hands, Direct, Connecting, Ended
  <2>3. Conserved'
    BY Untouched, SamePath
  <2>4. QED BY <2>1, <2>2, <2>3 DEF ClosedOnce, ErrorIsKnown
<1>3. QED BY <1>1, <1>2

LEMMA SendsInv == ASSUME IInv, SendBoot \/ SendGet PROVE IInv'
<1>1. CASE SendBoot
  BY <1>1, SendInv, RecordsTyped DEF SendBoot, IInv
<1>2. CASE SendGet
  BY <1>2, SendInv, RecordsTyped DEF SendGet, IInv
<1>3. QED BY <1>1, <1>2

LEMMA ReadInboxInv == ASSUME IInv, ReadInbox PROVE IInv'
<1> USE DEF IInv, ReadInbox, Reading, GoOn, config, channels, socket, outside, transit, history
<1>1. TypeOK'
  <2>1. Head(inbox) \in Record /\ inbox' \in Seq(Record)
        /\ Len(inbox') = Len(inbox) - 1
    BY HeadTailProperties DEF TypeOK
  <2>2. got' \in Seq(Record)
    BY <2>1, AppendProperties DEF TypeOK
  <2>3. Len(inbox) \in Nat /\ Len(inbox) <= InboxSize /\ InboxSize \in Nat
    BY AgentAssumption, LenProperties DEF TypeOK
  <2>4. Len(inbox') <= InboxSize
    BY <2>1, <2>3
  <2>5. QED BY <2>1, <2>2, <2>4 DEF TypeOK
<1>2. Control'
  BY DEF Control, Once, Asked, Open, Fresh, Hands, Direct, Connecting, Ended
<1>3. Conserved'
  BY InboxRead, SamePath
<1>4. QED BY <1>1, <1>2, <1>3 DEF ClosedOnce, ErrorIsKnown

LEMMA ReadErrsInv == ASSUME IInv, ReadErrs PROVE IInv'
<1> USE DEF IInv, ReadErrs, Reading, GoOn, config, channels, socket, outside, transit, history
<1>1. TypeOK'
  <2>1. Tail(<<"read">>) = <<>> /\ Tail(<<"beat">>) = <<>>
    OBVIOUS
  <2>2. errs' = <<>>
    BY <2>1 DEF TypeOK
  <2>3. QED BY <2>2 DEF TypeOK
<1>2. Control'
  BY DEF Control, Once, Asked, Open, Fresh, Hands, Direct, Connecting, Ended
<1>3. Conserved'
  BY Untouched, SamePath
<1>4. QED BY <1>1, <1>2, <1>3 DEF ClosedOnce, ErrorIsKnown

LEMMA ReadTimeoutInv == ASSUME IInv, ReadTimeout PROVE IInv'
<1> USE DEF IInv, ReadTimeout, Reading, GoOn, config, channels, socket, outside, transit, history
<1>1. TypeOK'
  BY DEF TypeOK
<1>2. Control'
  BY DEF Control, Once, Asked, Open, Fresh, Hands, Direct, Connecting, Ended
<1>3. Conserved'
  BY Untouched, SamePath
<1>4. QED BY <1>1, <1>2, <1>3 DEF ClosedOnce, ErrorIsKnown

LEMMA ReadWebSocketInv == ASSUME IInv, ReadWebSocket PROVE IInv'
<1> USE DEF IInv, ReadWebSocket, Reading, GoOn, config, channels, socket, history
<1>1. TypeOK'
  BY HeadTailProperties, AppendProperties DEF TypeOK
<1>2. Control'
  BY DEF Control, Once, Asked, Open, Fresh, Hands, Direct, Connecting, Ended
<1>3. inbox = <<>> /\ held = None
  BY DEF Control, Direct
<1>4. Conserved'
  BY <1>3, WireRead, SamePath
<1>5. QED BY <1>1, <1>2, <1>4 DEF ClosedOnce, ErrorIsKnown

LEMMA WebSocketReadFailsInv == ASSUME IInv, WebSocketReadFails PROVE IInv'
<1> USE DEF IInv, WebSocketReadFails, Reading, GoOn, config, channels, outside, transit, history
<1>1. TypeOK'
  BY DEF TypeOK
<1>2. Control'
  BY DEF Control, Once, Asked, Open, Fresh, Hands, Direct, Connecting, Ended
<1>3. Conserved'
  BY Untouched, SamePath
<1>4. QED BY <1>1, <1>2, <1>3 DEF ClosedOnce, ErrorIsKnown

LEMMA CloseInv == ASSUME IInv, Close PROVE IInv'
<1> USE DEF IInv, Close, config, transit, history
<1>1. closed = once
  BY DEF Control, Once
<1>2. CASE transport = "stomp" /\ once
  <2>1. TypeOK'
    BY <1>2 DEF TypeOK
  <2>2. Control'
    BY <1>2 DEF Control, Once, Asked, Open, Fresh, Hands, Direct, Connecting, Ended
  <2>3. Conserved'
    BY <1>2, Untouched, SamePath
  <2>4. QED BY <1>2, <2>1, <2>2, <2>3 DEF ClosedOnce, ErrorIsKnown
<1>3. CASE ~(transport = "stomp" /\ once)
  <2>1. /\ link' = "closed" /\ session' = "none" /\ main' = "return"
        /\ UNCHANGED <<reader, beat>>
        /\ closed' = once' /\ closed' \in BOOLEAN
    BY <1>1, <1>3 DEF CloseChannel, TypeOK
  <2>2. TypeOK'
    BY <2>1 DEF TypeOK
  <2>3. Control'
    BY <2>1 DEF Control, Once, Asked, Open, Fresh, Hands, Direct, Connecting, Ended
  <2>4. Conserved'
    BY <2>1, Untouched, SamePath
  <2>5. QED BY <2>1, <2>2, <2>3, <2>4 DEF ClosedOnce, ErrorIsKnown
<1>4. QED BY <1>2, <1>3

LEMMA TakeFrameInv == ASSUME IInv, TakeFrame PROVE IInv'
<1> USE DEF IInv, TakeFrame, config, channels, socket, history
<1>1. held = None /\ main \notin Ended \cup Connecting
  BY DEF Control, Hands
<1>2. Head(wire) \in Record /\ Head(wire) # None /\ Tail(wire) \in Seq(Record)
  BY HeadTailProperties, NoneAssumption DEF TypeOK
<1>3. TypeOK'
  BY <1>2 DEF TypeOK
<1>4. Control'
  BY <1>1, <1>2 DEF Control, Once, Asked, Open, Fresh, Hands, Direct, Connecting, Ended
<1>5. Conserved'
  BY <1>1, WireTaken, SamePath
<1>6. QED BY <1>3, <1>4, <1>5 DEF ClosedOnce, ErrorIsKnown

LEMMA PutInboxInv == ASSUME IInv, PutInbox PROVE IInv'
<1> USE DEF IInv, PutInbox, config, channels, socket, outside, transit, history
<1>1. held # None /\ held \in Record
  BY DEF Control, Hands, TypeOK
<1>2. TypeOK'
  BY <1>1, AgentAssumption, AppendProperties, LenProperties DEF TypeOK
<1>3. Control'
  BY <1>1 DEF Control, Once, Asked, Open, Fresh, Hands, Direct, Connecting, Ended
<1>4. Conserved'
  BY <1>1, HandPut, SamePath
<1>5. QED BY <1>2, <1>3, <1>4 DEF ClosedOnce, ErrorIsKnown

LEMMA ReadFailsInv == ASSUME IInv, ReadFails PROVE IInv'
<1> USE DEF IInv, ReadFails, config, channels, socket, outside, transit, history
<1>1. TypeOK'
  BY DEF TypeOK
<1>2. Control'
  BY DEF Control, Once, Asked, Open, Fresh, Hands, Direct, Connecting, Ended
<1>3. Conserved'
  BY Untouched, SamePath
<1>4. QED BY <1>1, <1>2, <1>3 DEF ClosedOnce, ErrorIsKnown

LEMMA ReportErrorInv == ASSUME IInv, ReportError PROVE IInv'
<1> USE DEF IInv, ReportError, config, channels, socket, outside, transit, history
<1>1. TypeOK'
  BY DEF TypeOK
<1>2. Control'
  BY DEF Control, Once, Asked, Open, Fresh, Hands, Direct, Connecting, Ended
<1>3. Conserved'
  BY Untouched, SamePath
<1>4. QED BY <1>1, <1>2, <1>3 DEF ClosedOnce, ErrorIsKnown

LEMMA EndReaderInv == ASSUME IInv, EndReader PROVE IInv'
<1> USE DEF IInv, EndReader, config, transit, history
<1>1. /\ reader' = "gone" /\ UNCHANGED <<main, beat, link, session>>
      /\ closed' = once' /\ closed' \in BOOLEAN
  BY DEF CloseChannel, Control, Once, TypeOK
<1>2. TypeOK'
  BY <1>1 DEF TypeOK
<1>3. Control'
  BY <1>1 DEF Control, Once, Asked, Open, Fresh, Hands, Direct, Connecting, Ended
<1>4. Conserved'
  BY <1>1, Untouched, SamePath
<1>5. QED BY <1>1, <1>2, <1>3, <1>4 DEF ClosedOnce, ErrorIsKnown

LEMMA HeartbeatInv == ASSUME IInv, heartbeatLoop PROVE IInv'
<1> USE DEF IInv, heartbeatLoop, Beat, ReportBeat, StopBeat, config, channels, socket, outside,
        transit, history
<1>1. TypeOK'
  BY DEF TypeOK
<1>2. Control'
  BY DEF Control, Once, Asked, Open, Fresh, Hands, Direct, Connecting, Ended
<1>3. Conserved'
  BY Untouched, SamePath
<1>4. QED BY <1>1, <1>2, <1>3 DEF ClosedOnce, ErrorIsKnown

LEMMA StutterInv == ASSUME IInv, UNCHANGED vars PROVE IInv'
<1> USE DEF IInv, vars, config, channels, socket, outside, transit, history
<1>1. TypeOK'
  BY DEF TypeOK
<1>2. Control'
  BY DEF Control, Once, Asked, Open, Fresh, Hands, Direct
<1>3. Conserved'
  BY Untouched, SamePath
<1>4. QED BY <1>1, <1>2, <1>3 DEF ClosedOnce, ErrorIsKnown

LEMMA NextInv == ASSUME IInv, [Next]_vars PROVE IInv'
<1>1. CASE World
  BY <1>1, AcceptInv, PushInv, LoseLinkInv DEF World
<1>2. CASE Main
  <2>1. CASE ConnectFails
    BY <2>1, FatalInv DEF ConnectFails
  <2>2. CASE ~ConnectFails
    BY <1>2, <2>2, DialInv, SendConnectInv, ReadConnectedInv, SubscribeInv, SendsInv,
       ReadInboxInv, ReadErrsInv, ReadTimeoutInv, ReadWebSocketInv, WebSocketReadFailsInv,
       CloseInv, ReturnInv DEF Main
  <2>3. QED BY <2>1, <2>2
<1>3. CASE readLoop
  BY <1>3, TakeFrameInv, PutInboxInv, ReadFailsInv, ReportErrorInv, EndReaderInv DEF readLoop
<1>4. CASE heartbeatLoop
  BY <1>4, HeartbeatInv
<1>5. CASE UNCHANGED vars
  BY <1>5, StutterInv
<1>6. QED BY <1>1, <1>2, <1>3, <1>4, <1>5 DEF Next

THEOREM Invariance == Spec => []IInv
<1>1. Init => IInv
  BY InitInv
<1>2. IInv /\ [Next]_vars => IInv'
  BY NextInv
<1>3. QED BY <1>1, <1>2, PTL DEF Spec

(***************************************************************************)
(* The theorems.                                                           *)
(***************************************************************************)
\* Whatever the network, the controller and the goroutines do, every variable
\* of the agent keeps its type: inbox never exceeds its capacity.
THEOREM TypeCorrect == Spec => []TypeOK
<1>1. IInv => TypeOK
  BY DEF IInv
<1>2. QED BY <1>1, Invariance, PTL

\* Between the socket and the program no message is lost or overtaken, for
\* every capacity of inbox and any number of messages.
THEOREM MessagesConserved == Spec => []Conserved
<1>1. IInv => Conserved
  BY DEF IInv
<1>2. QED BY <1>1, Invariance, PTL

\* The reader and Close never both close the channel closed.
THEOREM ClosedByOne == Spec => []ClosedOnce
<1>1. IInv => ClosedOnce
  BY DEF IInv
<1>2. QED BY <1>1, Invariance, PTL

\* A reader that has ended has left an error behind, unless Read has taken it.
THEOREM ErrorReported == Spec => []ErrorIsKnown
<1>1. IInv => ErrorIsKnown
  BY DEF IInv
<1>2. QED BY <1>1, Invariance, PTL

\* Nothing but Read adds to what has been read.
LEMMA OnlyReads ==
    ASSUME [Next]_vars, got' # got
    PROVE  ReadInbox \/ ReadWebSocket
<1> USE DEF history
<1>1. CASE World
  BY <1>1 DEF World, Accept, Push, LoseLink
<1>2. CASE Main
  BY <1>2 DEF Main, Dial, SendConnect, ReadConnected, ConnectFails, Subscribe, SendBoot, SendGet,
         SendRecord, ReadErrs, ReadTimeout, WebSocketReadFails, Close, Return, Fatal
<1>3. CASE readLoop
  BY <1>3 DEF readLoop, TakeFrame, PutInbox, ReadFails, ReportError, EndReader
<1>4. CASE heartbeatLoop
  BY <1>4 DEF heartbeatLoop, Beat, ReportBeat, StopBeat
<1>5. CASE UNCHANGED vars
  BY <1>5 DEF vars
<1>6. QED BY <1>1, <1>2, <1>3, <1>4, <1>5 DEF Next

\* What Read returns next is what was put on the wire next.
THEOREM ReadInOrder == Spec => ReadsInOrder
<1>1. ASSUME IInv, [Next]_vars, got' # got
      PROVE  got' = Append(got, pushed[Len(got) + 1])
  <2>1. got \in Seq(Record) /\ Len(got) \in Nat
    BY <1>1, LenProperties DEF IInv, TypeOK
  <2>2. CASE ReadInbox
    <3>1. inbox # <<>> /\ got' = Append(got, Head(inbox)) /\ inbox \in Seq(Record)
      BY <1>1, <2>2 DEF ReadInbox, IInv, TypeOK
    <3>2. Head(inbox) = inbox[1] /\ Len(inbox) \in Nat \ {0}
      BY <3>1, EmptySeq
    <3>3. Len(got \o inbox) = Len(got) + Len(inbox)
          /\ (got \o inbox)[Len(got) + 1] = inbox[1]
      BY <2>1, <3>1, <3>2, ConcatProperties
    <3>4. /\ got \o inbox \in Seq(Record) /\ InHand \in Seq(Record)
          /\ got \o inbox \o InHand \in Seq(Record) /\ wire \in Seq(Record)
      BY <1>1, PathTyped DEF IInv, TypeOK
    <3>5. Len(InHand) \in Nat /\ Len(wire) \in Nat
      BY <3>4, LenProperties
    <3>6. /\ Len(got \o inbox \o InHand) = Len(got) + Len(inbox) + Len(InHand)
          /\ (got \o inbox \o InHand)[Len(got) + 1] = inbox[1]
      BY <2>1, <3>2, <3>3, <3>4, <3>5, ConcatProperties
    <3>7. Len(got) + 1 \in 1 .. Len(Path) /\ Path[Len(got) + 1] = inbox[1]
      BY <2>1, <3>2, <3>4, <3>5, <3>6, ConcatProperties DEF Path
    <3>8. QED BY <1>1, <3>1, <3>2, <3>7 DEF IInv, Conserved
  <2>3. CASE ReadWebSocket
    <3>1. /\ wire # <<>> /\ got' = Append(got, Head(wire)) /\ wire \in Seq(Record)
          /\ inbox = <<>> /\ held = None
      BY <1>1, <2>3 DEF ReadWebSocket, IInv, TypeOK, Control, Direct
    <3>2. Head(wire) = wire[1] /\ Len(wire) \in Nat \ {0}
      BY <3>1, EmptySeq
    <3>3. Path = got \o wire
      <4>1. got \o <<>> = got
        BY <2>1, ConcatEmptySeq
      <4>2. QED BY <3>1, <4>1 DEF Path, InHand
    <3>4. Len(Path) = Len(got) + Len(wire) /\ Path[Len(got) + 1] = wire[1]
      BY <2>1, <3>1, <3>2, <3>3, ConcatProperties
    <3>5. QED BY <1>1, <2>1, <3>1, <3>2, <3>4 DEF IInv, Conserved
  <2>4. QED BY <1>1, <2>2, <2>3, OnlyReads
<1>2. QED BY <1>1, Invariance, PTL DEF Spec, ReadsInOrder

(***************************************************************************)
(* The refinement of Stream.                                               *)
(***************************************************************************)
\* Taking the head of s \o t takes the head of s.
LEMMA HeadOfConcat ==
    ASSUME NEW S, NEW s \in Seq(S), NEW t \in Seq(S), s # <<>>
    PROVE  /\ s \o t # <<>>
           /\ Head(s \o t) = Head(s)
           /\ Tail(s \o t) = Tail(s) \o t
<1>1. /\ s \o t \in Seq(S) /\ Len(s \o t) = Len(s) + Len(t)
      /\ Len(s) \in Nat \ {0} /\ Len(t) \in Nat
      /\ \A i \in 1 .. Len(s) + Len(t) :
            (s \o t)[i] = IF i <= Len(s) THEN s[i] ELSE t[i - Len(s)]
  BY ConcatProperties, EmptySeq, LenProperties
<1>2. s \o t # <<>> /\ Head(s \o t) = Head(s)
  BY <1>1, EmptySeq
<1>3. /\ Tail(s) \in Seq(S) /\ Len(Tail(s)) = Len(s) - 1
      /\ \A i \in 1 .. Len(Tail(s)) : Tail(s)[i] = s[i + 1]
  BY HeadTailProperties
<1>4. /\ Tail(s \o t) \in Seq(S) /\ Len(Tail(s \o t)) = Len(s) + Len(t) - 1
      /\ \A i \in 1 .. Len(Tail(s \o t)) : Tail(s \o t)[i] = (s \o t)[i + 1]
  BY <1>1, <1>2, HeadTailProperties
<1>5. /\ Tail(s) \o t \in Seq(S) /\ Len(Tail(s) \o t) = Len(s) - 1 + Len(t)
      /\ \A i \in 1 .. Len(s) - 1 + Len(t) : (Tail(s) \o t)[i] =
            IF i <= Len(s) - 1 THEN Tail(s)[i] ELSE t[i - (Len(s) - 1)]
  BY <1>3, ConcatProperties
<1>6. ASSUME NEW i \in 1 .. Len(Tail(s \o t))
      PROVE  Tail(s \o t)[i] = (Tail(s) \o t)[i]
  <2>1. i \in 1 .. Len(s) - 1 + Len(t) /\ i + 1 \in 1 .. Len(s) + Len(t)
    BY <1>1, <1>4
  <2>2. CASE i <= Len(s) - 1
    BY <1>1, <1>3, <1>4, <1>5, <2>1, <2>2
  <2>3. CASE ~(i <= Len(s) - 1)
    <3>1. i - (Len(s) - 1) = i + 1 - Len(s) /\ ~(i + 1 <= Len(s))
      BY <1>1, <2>1, <2>3
    <3>2. QED BY <1>1, <1>4, <1>5, <2>1, <2>3, <3>1
  <2>4. QED BY <2>2, <2>3
<1>7. Tail(s \o t) = Tail(s) \o t
  <2>1. Len(Tail(s \o t)) = Len(Tail(s) \o t)
    BY <1>1, <1>4, <1>5
  <2>2. QED BY <1>4, <1>5, <1>6, <2>1, SeqEqual
<1>8. QED BY <1>2, <1>7

\* Cutting t short cuts s \o t short.
LEMMA CutConcat ==
    ASSUME NEW S, NEW s \in Seq(S), NEW t \in Seq(S), NEW k \in 0 .. Len(t)
    PROVE  /\ Len(s) + k \in 0 .. Len(s \o t)
           /\ s \o SubSeq(t, 1, k) = SubSeq(s \o t, 1, Len(s) + k)
<1> DEFINE u == SubSeq(t, 1, k)
           v == SubSeq(s \o t, 1, Len(s) + k)
<1>1. Len(s) \in Nat /\ Len(t) \in Nat /\ k \in Nat /\ k <= Len(t)
  BY LenProperties
<1>2. /\ s \o t \in Seq(S) /\ Len(s \o t) = Len(s) + Len(t)
      /\ \A i \in 1 .. Len(s) + Len(t) :
            (s \o t)[i] = IF i <= Len(s) THEN s[i] ELSE t[i - Len(s)]
  BY ConcatProperties
<1>3. Len(s) + k \in 0 .. Len(s \o t)
  BY <1>1, <1>2
<1>4. u \in Seq(S) /\ Len(u) = k /\ \A i \in 1 .. k : u[i] = t[i]
  <2>1. \A i \in 1 .. k : t[i] \in S
    BY <1>1, ElementOfSeq
  <2>2. QED BY <1>1, <2>1, SubSeqProperties
<1>5. v \in Seq(S) /\ Len(v) = Len(s) + k
      /\ \A i \in 1 .. Len(s) + k : v[i] = (s \o t)[i]
  <2>1. \A i \in 1 .. Len(s) + k : (s \o t)[i] \in S
    BY <1>1, <1>2, ElementOfSeq
  <2>2. QED BY <1>1, <1>2, <2>1, SubSeqProperties
<1> HIDE DEF u, v
<1>6. /\ s \o u \in Seq(S) /\ Len(s \o u) = Len(s) + k
      /\ \A i \in 1 .. Len(s) + k :
            (s \o u)[i] = IF i <= Len(s) THEN s[i] ELSE u[i - Len(s)]
  BY <1>4, ConcatProperties
<1>7. ASSUME NEW i \in 1 .. Len(s) + k PROVE (s \o u)[i] = v[i]
  <2>1. i \in 1 .. Len(s) + Len(t)
    BY <1>1
  <2>2. CASE i <= Len(s)
    BY <1>2, <1>5, <1>6, <2>1, <2>2
  <2>3. CASE ~(i <= Len(s))
    <3>1. i - Len(s) \in 1 .. k
      BY <1>1, <2>3
    <3>2. QED BY <1>2, <1>4, <1>5, <1>6, <2>1, <2>3, <3>1
  <2>4. QED BY <2>2, <2>3
<1>8. s \o u = v
  BY <1>5, <1>6, <1>7, SeqEqual
<1>9. QED BY <1>3, <1>8 DEF u, v

LEMMA PendingTyped ==
    ASSUME TypeOK
    PROVE  inbox \o InHand \in Seq(Record) /\ Pending \in Seq(Record)
<1>1. inbox \o InHand \in Seq(Record)
  BY PathTyped, ConcatProperties DEF TypeOK
<1>2. QED BY <1>1, ConcatProperties DEF TypeOK, Pending

\* A step that moves no message at most ends the stream.
LEMMA QuietStep ==
    ASSUME TypeOK, UNCHANGED <<got, inbox, held, wire>>, MayCome' => MayCome
    PROVE  Messages!Cut \/ UNCHANGED <<MayCome, Pending, got>>
<1>1. Pending' = Pending
  BY DEF Pending, InHand
<1>2. CASE MayCome' = MayCome
  BY <1>1, <1>2
<1>3. CASE MayCome' # MayCome
  <2>1. MayCome /\ MayCome' = FALSE
    BY <1>3 DEF MayCome
  <2>2. Len(Pending) \in 0 .. Len(Pending) /\ Pending' = SubSeq(Pending, 1, Len(Pending))
    <3>1. Pending \in Seq(Record) /\ Len(Pending) \in Nat
      BY PendingTyped, LenProperties
    <3>2. Pending = SubSeq(Pending, 1, Len(Pending))
      BY <3>1
    <3>3. QED BY <1>1, <3>1, <3>2
  <2>3. QED BY <2>1, <2>2 DEF Messages!Cut
<1>4. QED BY <1>2, <1>3

LEMMA PushIsPut == ASSUME IInv, Push PROVE Messages!Next
<1> USE DEF IInv, Push, config, channels, socket, history
<1>1. PICK m \in Answers \cup Strays : wire' = Append(wire, m)
  OBVIOUS
<1>2. m \in Record /\ MayCome /\ UNCHANGED <<MayCome, got>>
  BY AnswersTyped DEF Control, Open, MayCome
<1>3. Pending' = Append(Pending, m)
  <2> DEFINE s == inbox \o InHand
  <2>1. s \in Seq(Record) /\ wire \in Seq(Record) /\ <<m>> \in Seq(Record)
    BY <1>2, PendingTyped DEF TypeOK
  <2>2. InHand' = InHand
    BY DEF InHand
  <2>3. Pending' = s \o Append(wire, m)
    BY <1>1, <2>2 DEF Pending
  <2>4. Append(wire, m) = wire \o <<m>>
    BY <1>2, <2>1, AppendIsConcat
  <2>5. Pending \in Seq(Record) /\ Pending = s \o wire
    BY PendingTyped DEF Pending
  <2> HIDE DEF s
  <2>6. s \o (wire \o <<m>>) = (s \o wire) \o <<m>>
    BY <2>1, ConcatAssociative
  <2>7. QED BY <1>2, <2>3, <2>4, <2>5, <2>6, AppendIsConcat
<1>4. QED BY <1>2, <1>3 DEF Messages!Next, Messages!Put

LEMMA LoseLinkIsCut == ASSUME IInv, LoseLink PROVE Messages!Cut
<1> USE DEF IInv, LoseLink, config, channels, history
<1>1. PICK k \in 0 .. Len(wire) : wire' = SubSeq(wire, 1, k)
  OBVIOUS
<1> DEFINE s == inbox \o InHand
<1>2. s \in Seq(Record) /\ wire \in Seq(Record)
  BY PendingTyped DEF TypeOK
<1>3. Pending = s \o wire /\ Pending' = s \o SubSeq(wire, 1, k)
  BY <1>1 DEF Pending, InHand
<1>4. MayCome /\ MayCome' = FALSE /\ got' = got
  BY DEF MayCome
<1> HIDE DEF s
<1>5. /\ Len(s) + k \in 0 .. Len(Pending)
      /\ Pending' = SubSeq(Pending, 1, Len(s) + k)
  BY <1>2, <1>3, CutConcat
<1>6. QED BY <1>4, <1>5 DEF Messages!Cut

LEMMA ReadInboxIsTake == ASSUME IInv, ReadInbox PROVE Messages!Take
<1> USE DEF IInv, ReadInbox, config, channels, socket
<1>1. inbox # <<>> /\ inbox \in Seq(Record) /\ InHand \in Seq(Record) /\ wire \in Seq(Record)
  BY PathTyped DEF TypeOK
<1>2. InHand' = InHand /\ wire' = wire /\ MayCome' = MayCome
  BY DEF InHand, MayCome, outside, transit
<1> DEFINE s == inbox \o InHand
<1>3. s \in Seq(Record) /\ s # <<>> /\ Head(s) = Head(inbox) /\ Tail(s) = Tail(inbox) \o InHand
  BY <1>1, HeadOfConcat, ConcatProperties
<1>4. Pending = s \o wire /\ Pending' = Tail(s) \o wire
  BY <1>2, <1>3 DEF Pending
<1> HIDE DEF s
<1>5. Pending # <<>> /\ Head(Pending) = Head(s) /\ Tail(Pending) = Tail(s) \o wire
  BY <1>1, <1>3, <1>4, HeadOfConcat
<1>6. QED BY <1>2, <1>3, <1>4, <1>5 DEF Messages!Take

LEMMA ReadWebSocketIsTake == ASSUME IInv, ReadWebSocket PROVE Messages!Take
<1> USE DEF IInv, ReadWebSocket, config, channels, socket
<1>1. wire # <<>> /\ wire \in Seq(Record) /\ Tail(wire) \in Seq(Record)
  BY HeadTailProperties DEF TypeOK
<1>2. inbox = <<>> /\ InHand = <<>> /\ inbox' = <<>> /\ InHand' = <<>>
  BY DEF Control, Direct, InHand
<1>3. Pending = wire /\ Pending' = Tail(wire)
  BY <1>1, <1>2, ConcatEmptySeq, EmptySeq DEF Pending
<1>4. QED BY <1>1, <1>3 DEF Messages!Take, MayCome

LEMMA TakeFrameIsInvisible ==
    ASSUME IInv, TakeFrame PROVE UNCHANGED <<MayCome, Pending, got>>
<1> USE DEF IInv, TakeFrame, config, channels, socket, history
<1>1. held = None /\ inbox \in Seq(Record) /\ wire \in Seq(Record) /\ wire # <<>>
  BY DEF Control, Hands, TypeOK
<1>2. Head(wire) \in Record /\ Head(wire) # None
  BY <1>1, HeadTailProperties, NoneAssumption
<1>3. InHand = <<>> /\ InHand' = <<Head(wire)>>
  BY <1>1, <1>2 DEF InHand
<1>4. inbox \o InHand = inbox /\ inbox \o InHand' = Append(inbox, Head(wire))
  BY <1>1, <1>2, <1>3, ConcatEmptySeq, AppendIsConcat
<1>5. Append(inbox, Head(wire)) \o Tail(wire) = inbox \o wire
  BY <1>1, MoveHead
<1>6. Pending' = Pending
  BY <1>4, <1>5 DEF Pending
<1>7. QED BY <1>6 DEF MayCome

LEMMA PutInboxIsInvisible ==
    ASSUME IInv, PutInbox PROVE UNCHANGED <<MayCome, Pending, got>>
<1> USE DEF IInv, PutInbox, config, channels, socket, outside, transit, history
<1>1. held # None /\ held \in Record /\ inbox \in Seq(Record)
  BY DEF Control, Hands, TypeOK
<1>2. InHand = <<held>> /\ InHand' = <<>>
  BY <1>1 DEF InHand
<1>3. inbox' = inbox \o <<held>> /\ inbox' \in Seq(Record)
  BY <1>1, AppendIsConcat, AppendProperties
<1>4. inbox' \o InHand' = inbox \o InHand
  BY <1>2, <1>3, ConcatEmptySeq
<1>5. Pending' = Pending
  BY <1>4 DEF Pending
<1>6. QED BY <1>5 DEF MayCome

LEMMA StepOfStream ==
    ASSUME IInv, [Next]_vars
    PROVE  Messages!Next \/ UNCHANGED <<MayCome, Pending, got>>
<1> DEFINE Quiet == UNCHANGED <<got, inbox, held, wire>> /\ (MayCome' => MayCome)
<1>1. CASE Push \/ LoseLink
  BY <1>1, PushIsPut, LoseLinkIsCut DEF Messages!Next
<1>2. CASE ReadInbox \/ ReadWebSocket
  BY <1>2, ReadInboxIsTake, ReadWebSocketIsTake DEF Messages!Next
<1>3. CASE TakeFrame \/ PutInbox
  BY <1>3, TakeFrameIsInvisible, PutInboxIsInvisible
<1> USE DEF config, channels, socket, outside, transit, history, MayCome
<1>4. ASSUME Accept PROVE Quiet
  BY <1>4 DEF Accept
<1>5. ASSUME Fatal PROVE Quiet
  BY <1>5 DEF Fatal, Exit
<1>6. ASSUME Dial PROVE Quiet
  BY <1>5, <1>6 DEF Dial, IInv, Control, Fresh
<1>7. ASSUME \/ SendConnect \/ ReadConnected \/ ConnectFails \/ Subscribe
             \/ SendBoot \/ SendGet
      PROVE  Quiet
  BY <1>5, <1>7 DEF SendConnect, ReadConnected, ConnectFails, Subscribe, SendBoot, SendGet,
         SendRecord
<1>8. ASSUME ReadErrs \/ ReadTimeout \/ WebSocketReadFails PROVE Quiet
  BY <1>8 DEF ReadErrs, ReadTimeout, WebSocketReadFails
<1>9. ASSUME Close \/ Return PROVE Quiet
  BY <1>9 DEF Close, CloseChannel, Return, Exit
<1>10. ASSUME ReadFails \/ ReportError \/ EndReader PROVE Quiet
  BY <1>10 DEF ReadFails, ReportError, EndReader, CloseChannel, Exit
<1>11. ASSUME heartbeatLoop PROVE Quiet
  BY <1>11 DEF heartbeatLoop, Beat, ReportBeat, StopBeat
<1>12. ASSUME UNCHANGED vars PROVE Quiet
  BY <1>12 DEF vars
<1>13. Quiet => Messages!Next \/ UNCHANGED <<MayCome, Pending, got>>
  <2> USE DEF MayCome
  <2>1. QED BY QuietStep DEF IInv, Messages!Next
<1> HIDE DEF Quiet
<1>14. QED BY <1>1, <1>2, <1>3, <1>4, <1>6, <1>7, <1>8, <1>9, <1>10, <1>11, <1>12, <1>13
           DEF Next, World, Main, readLoop

\* Socket, reader and inbox are together one stream: whatever their capacity
\* and whenever the link, the heartbeat or the agent ends, the program gets a
\* beginning of what was sent, in order.
THEOREM StreamOfMessages == Spec => ImplementsStream
<1>1. Init => Messages!Init
  <2> SUFFICES ASSUME Init PROVE Messages!Init
    OBVIOUS
  <2>1. InHand = <<>> /\ inbox = <<>> /\ wire = <<>> /\ got = <<>> /\ MayCome = TRUE
    BY DEF Init, InHand, MayCome
  <2>2. Pending = <<>>
    BY <2>1, ConcatEmptySeq, EmptySeq DEF Pending
  <2>3. QED BY <2>1, <2>2 DEF Messages!Init
<1>2. IInv /\ [Next]_vars => [Messages!Next]_<<MayCome, Pending, got>>
  BY StepOfStream
<1>3. QED BY <1>1, <1>2, Invariance, PTL DEF Spec, ImplementsStream, Messages!Spec
=============================================================================
