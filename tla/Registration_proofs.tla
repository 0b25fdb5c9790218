------------------------- MODULE Registration_proofs -------------------------
(***************************************************************************)
(* Proofs about Registration: types, the rows history refers to, and that  *)
(* nothing on its way to the table is lost while nothing fails.            *)
(***************************************************************************)
EXTENDS Registration, TLAPS

(***************************************************************************)
(* What the properties rest on.                                            *)
(***************************************************************************)
\* A consumer has a report exactly when its handler has a next step, and each
\* service has steps of its own.
Handlers ==
    /\ \A s \in Consumers : (task[s] = None) <=> (pc[s] = "idle")
    /\ pc["cwmp"] \in {"idle", "handle"}
    /\ pc["data"] \in {"idle", "handle", "save", "upsert"}
    /\ pc["usp"] \notin {"save", "upsert"}

\* What usp-service has looked up or created stays the agent's row.
Found ==
    pc["usp"] \in {"online", "route", "history"} =>
       RowOf("usp") # None /\ RowOf("usp").id = found["usp"]

\* What data-service has looked up stays the device's row.
FoundByData ==
    IF pc["data"] = "save"
    THEN RowOf("data") # None /\ RowOf("data").id = found["data"]
    ELSE found["data"] = 0

\* The sequence is ahead of every id.
Ahead == \A k \in Keys : rows[k] # None => rows[k].id <= lastId

\* No report is of later than now, and no store is out of reach after a report
\* that found all of them in reach, until the next fault.
Calm ==
    \A n \in DOMAIN reports :
       /\ reports[n].at <= faults
       /\ reports[n].calm /\ reports[n].at = faults => down = {}

\* usp-service reads only what agents send, and handles a Connect or a
\* Disconnect step by step.
Inbox ==
    /\ \A n \in topic["uspIn"] \cup read["usp"] : reports[n].op \in AgentOps
    /\ task["usp"] # None => reports[task["usp"]].op \in AgentOps
    /\ pc["usp"] \notin {"idle", "handle"} =>
          reports[task["usp"]].op \in {"connect", "disconnect"}

IInv ==
    /\ TypeOK /\ Handlers /\ Found /\ FoundByData /\ Ahead /\ Calm /\ Inbox
    /\ HistoryRefers /\ NothingIsLost

(***************************************************************************)
(* Facts about reports and rows.                                           *)
(***************************************************************************)
LEMMA ElementOf == ASSUME NEW S, NEW q \in Seq(S), NEW i \in DOMAIN q PROVE q[i] \in S
OBVIOUS

LEMMA Reported ==
    ASSUME TypeOK, NEW n \in DOMAIN reports
    PROVE  /\ reports[n].dev \in Devices /\ KeyOf(n) \in Keys
           /\ rows[KeyOf(n)] \in Row \cup {None}
<1>1. reports[n] \in [dev : Devices, op : AgentOps \cup BoxOps,
                     at : 0..MaxFaults, calm : BOOLEAN]
    BY ElementOf, Zenon DEF TypeOK
<1>2. reports[n].dev \in Devices
    BY <1>1
<1> QED BY <1>2 DEF TypeOK, KeyOf, Keys

LEMMA Handled ==
    ASSUME IInv, NEW s \in Consumers, pc[s] # "idle"
    PROVE  /\ task[s] \in DOMAIN reports /\ KeyOf(task[s]) \in Keys
           /\ RowOf(s) \in Row \cup {None}
<1>1. task[s] \in DOMAIN reports
    BY DEF IInv, TypeOK, Handlers
<1> QED BY <1>1, Reported DEF IInv, RowOf

\* Every row there is stays, with its id.
Kept == \A l \in Keys : rows[l] # None => rows'[l] # None /\ rows'[l].id = rows[l].id

\* A write that keeps the id of the row, or takes the next one for a new row.
LEMMA Written ==
    ASSUME IInv, NEW k \in Keys, NEW r \in Row,
           rows' = [rows EXCEPT ![k] = r],
           lastId' \in Nat, lastId <= lastId', r.id <= lastId',
           IF rows[k] = None THEN lastId < r.id ELSE r.id = rows[k].id,
           UNCHANGED history
    PROVE  /\ rows' \in [Keys -> Row \cup {None}]
           /\ Kept /\ Ahead' /\ HistoryRefers'
<1> USE NoneAssumption
<1>1. rows \in [Keys -> Row \cup {None}] /\ lastId \in Nat /\ r.id \in Nat
    BY DEF IInv, TypeOK, Row
<1>2. \A l \in Keys : rows[l] # None => rows[l].id \in Nat /\ rows[l].id <= lastId
    BY <1>1 DEF Row, IInv, Ahead
<1>3. /\ rows' \in [Keys -> Row \cup {None}]
      /\ rows'[k] = r /\ r # None
      /\ \A l \in Keys \ {k} : rows'[l] = rows[l]
    BY <1>1
<1>4. Kept
    BY <1>3 DEF Kept
<1>5. Ahead'
    BY <1>1, <1>2, <1>3 DEF Ahead
<1>6. \A h \in history' : rows'[h.key] # None /\ rows'[h.key].id = h.device
    <2>1. \A h \in history : h.key \in Keys
        BY DEF IInv, TypeOK
    <2>2. \A h \in history : rows[h.key] # None /\ rows[h.key].id = h.device
        BY DEF IInv, HistoryRefers
    <2> QED BY <2>1, <2>2, <1>4 DEF Kept
<1>7. ASSUME NEW l \in Keys, NEW m \in Keys, l # m, rows'[l] # None, rows'[m] # None
      PROVE  rows'[l].id # rows'[m].id
    <2>1. rows[l] # None /\ rows[m] # None => rows[l].id # rows[m].id
        BY <1>7 DEF IInv, HistoryRefers
    <2>2. rows[k] = None => \A x \in Keys : rows[x] # None => rows[x].id # r.id
        BY <1>1, <1>2
    <2>3. CASE l = k
        BY <1>3, <1>7, <2>1, <2>2, <2>3
    <2>4. CASE m = k
        BY <1>3, <1>7, <2>1, <2>2, <2>4
    <2> QED BY <1>3, <1>7, <2>1, <2>3, <2>4
<1> QED BY <1>3, <1>4, <1>5, <1>6, <1>7 DEF HistoryRefers

LEMMA Untouched == ASSUME IInv, UNCHANGED <<rows, lastId, history>>
                   PROVE  Kept /\ Ahead' /\ HistoryRefers'
BY DEF IInv, Kept, Ahead, HistoryRefers

\* What a service has found remains found while the other writes.
LEMMA FoundKept ==
    ASSUME IInv, Kept, UNCHANGED <<reports, task["usp"], pc["usp"], found["usp"]>>
    PROVE  Found'
<1>1. CASE pc["usp"] \in {"online", "route", "history"}
    <2>1. KeyOf(task["usp"]) \in Keys /\ RowOf("usp") # None /\ RowOf("usp").id = found["usp"]
        BY <1>1, Handled DEF IInv, Found, Consumers
    <2> QED BY <2>1 DEF Kept, Found, RowOf, KeyOf
<1> QED BY <1>1 DEF Found

LEMMA FoundByDataKept ==
    ASSUME IInv, Kept, UNCHANGED <<reports, task["data"], pc["data"], found["data"]>>
    PROVE  FoundByData'
<1>1. CASE pc["data"] = "save"
    <2>1. KeyOf(task["data"]) \in Keys /\ RowOf("data") # None /\ RowOf("data").id = found["data"]
        BY <1>1, Handled DEF IInv, FoundByData, Consumers
    <2> QED BY <1>1, <2>1 DEF Kept, FoundByData, RowOf, KeyOf
<1> QED BY <1>1 DEF FoundByData, IInv

(***************************************************************************)
(* Each action keeps the invariant.                                        *)
(***************************************************************************)
LEMMA DeliverInv ==
    ASSUME IInv, NEW s \in Producers, Deliver(s) PROVE IInv'
<1> USE RegistrationAssumption, NoneAssumption
        DEF world, outages, messages, threads, table, memory, Consumers, Producers, In, Out, Topics
<1>1. TypeOK'
    BY SMTT(60) DEF Deliver, IInv, TypeOK, Handlers, Row, Reachable, RowOf
<1>2. Handlers'
    BY <1>1 DEF Deliver, IInv, TypeOK, Handlers
<1>3. Inbox'
    BY <1>1 DEF Deliver, IInv, TypeOK, Handlers, Inbox
<1>4. Found' /\ FoundByData'
    BY <1>1 DEF Deliver, IInv, TypeOK, Handlers, Found, FoundByData, RowOf, KeyOf, Row
<1>5. Ahead' /\ HistoryRefers'
    BY <1>1, Untouched DEF Deliver
<1>6. Calm'
    BY DEF Deliver, IInv, Calm
<1>7. NothingIsLost'
    BY <1>1 DEF Deliver, IInv, TypeOK, Handlers, Calm, Inbox, NothingIsLost, Safe, OnItsWay,
        Registering, Reachable, KeyOf, AgentOps
<1> QED BY <1>1, <1>2, <1>3, <1>4, <1>5, <1>6, <1>7 DEF IInv

LEMMA DeliveryFailsInv ==
    ASSUME IInv, NEW s \in Producers, DeliveryFails(s) PROVE IInv'
<1> USE RegistrationAssumption, NoneAssumption
        DEF world, outages, messages, threads, table, memory, Consumers, Producers, In, Out, Topics
<1>1. TypeOK'
    BY SMTT(60) DEF DeliveryFails, IInv, TypeOK, Handlers, Row, Reachable, RowOf
<1>2. Handlers'
    BY <1>1 DEF DeliveryFails, IInv, TypeOK, Handlers
<1>3. Inbox'
    BY <1>1 DEF DeliveryFails, IInv, TypeOK, Handlers, Inbox
<1>4. Found' /\ FoundByData'
    BY <1>1 DEF DeliveryFails, IInv, TypeOK, Handlers, Found, FoundByData, RowOf, KeyOf, Row
<1>5. Ahead' /\ HistoryRefers'
    BY <1>1, Untouched DEF DeliveryFails
<1>6. Calm'
    BY DEF DeliveryFails, IInv, Calm
<1>7. NothingIsLost'
    BY <1>1 DEF DeliveryFails, IInv, TypeOK, Handlers, Calm, Inbox, NothingIsLost, Safe, OnItsWay,
        Registering, Reachable, KeyOf, AgentOps
<1> QED BY <1>1, <1>2, <1>3, <1>4, <1>5, <1>6, <1>7 DEF IInv

LEMMA ReadMessageInv ==
    ASSUME IInv, NEW s \in Consumers, ReadMessage(s) PROVE IInv'
<1> USE RegistrationAssumption, NoneAssumption
        DEF world, outages, messages, threads, table, memory, Consumers, Producers, In, Out, Topics
<1>0. PICK n \in topic[In[s]] :
         /\ topic' = [topic EXCEPT ![In[s]] = @ \ {n}]
         /\ read' = [read EXCEPT ![s] = @ \cup {n}]
         /\ task' = [task EXCEPT ![s] = n]
         /\ pc' = [pc EXCEPT ![s] = FirstStep(s, n)]
    BY DEF ReadMessage
<1>8. /\ n \in DOMAIN reports /\ n # None
      /\ FirstStep(s, n) \in {"handle", "lookup", "offline"}
      /\ s # "usp" => FirstStep(s, n) = "handle"
      /\ FirstStep(s, n) # "handle" => reports[n].op \in {"connect", "disconnect"}
    <2>1. n \in DOMAIN reports
        BY DEF IInv, TypeOK
    <2>2. n # None
        BY <2>1 DEF Numbers, IInv, TypeOK
    <2>3. CASE s # "usp"
        BY <2>1, <2>2, <2>3 DEF FirstStep
    <2>4. CASE s = "usp" /\ reports[n].op = "connect"
        BY <2>1, <2>2, <2>4 DEF FirstStep
    <2>5. CASE s = "usp" /\ reports[n].op = "disconnect"
        BY <2>1, <2>2, <2>5 DEF FirstStep
    <2>6. CASE s = "usp" /\ reports[n].op \notin {"connect", "disconnect"}
        BY <2>1, <2>2, <2>6 DEF FirstStep
    <2> QED BY <2>3, <2>4, <2>5, <2>6
<1>1. TypeOK'
    BY <1>0, <1>8, SMTT(60) DEF ReadMessage, IInv, TypeOK, Reachable
<1>2. Handlers'
    BY <1>0, <1>8 DEF IInv, TypeOK, Handlers
<1>3. Inbox'
    BY <1>0, <1>8 DEF ReadMessage, IInv, TypeOK, Handlers, Inbox
<1>4. Found' /\ FoundByData'
    BY <1>0, <1>8 DEF ReadMessage, IInv, TypeOK, Handlers, Found, FoundByData, RowOf, KeyOf
<1>5. Ahead' /\ HistoryRefers'
    BY <1>1, Untouched DEF ReadMessage
<1>6. Calm'
    BY DEF ReadMessage, IInv, Calm
<1>7. NothingIsLost'
    BY <1>1 DEF ReadMessage, IInv, TypeOK, Handlers, Calm, Inbox, NothingIsLost, Safe, OnItsWay,
        Registering, Reachable, KeyOf, AgentOps
<1> QED BY <1>1, <1>2, <1>3, <1>4, <1>5, <1>6, <1>7 DEF IInv

LEMMA AutoCommitInv ==
    ASSUME IInv, NEW s \in Consumers, AutoCommit(s) PROVE IInv'
<1> USE RegistrationAssumption, NoneAssumption
        DEF world, outages, messages, threads, table, memory, Consumers, Producers, In, Out, Topics
<1>1. TypeOK'
    BY SMTT(60) DEF AutoCommit, IInv, TypeOK, Handlers, Row, Reachable, RowOf
<1>2. Handlers'
    BY <1>1 DEF AutoCommit, IInv, TypeOK, Handlers
<1>3. Inbox'
    BY <1>1 DEF AutoCommit, IInv, TypeOK, Handlers, Inbox
<1>4. Found' /\ FoundByData'
    BY <1>1 DEF AutoCommit, IInv, TypeOK, Handlers, Found, FoundByData, RowOf, KeyOf, Row
<1>5. Ahead' /\ HistoryRefers'
    BY <1>1, Untouched DEF AutoCommit
<1>6. Calm'
    BY DEF AutoCommit, IInv, Calm
<1>7. NothingIsLost'
    BY <1>1 DEF AutoCommit, IInv, TypeOK, Handlers, Calm, Inbox, NothingIsLost, Safe, OnItsWay,
        Registering, Reachable, KeyOf, AgentOps
<1> QED BY <1>1, <1>2, <1>3, <1>4, <1>5, <1>6, <1>7 DEF IInv

LEMMA LookupInv ==
    ASSUME IInv, Lookup PROVE IInv'
<1> USE RegistrationAssumption, NoneAssumption
        DEF world, outages, messages, threads, table, memory, Consumers, Producers, In, Out, Topics
<1>0. /\ task["usp"] \in DOMAIN reports /\ KeyOf(task["usp"]) \in Keys
      /\ RowOf("usp") \in Row \cup {None}
    BY Handled DEF Lookup, At
<1>8. \/ /\ RowOf("usp") = None /\ task' = task /\ pc' = [pc EXCEPT !["usp"] = "create"]
         /\ found' = found
      \/ /\ ~(RowOf("usp") = None) /\ task' = task /\ pc' = [pc EXCEPT !["usp"] = "online"]
         /\ found' = [found EXCEPT !["usp"] = RowOf("usp").id]
      \/ /\ down # {} /\ task' = [task EXCEPT !["usp"] = None]
         /\ pc' = [pc EXCEPT !["usp"] = "idle"] /\ found' = [found EXCEPT !["usp"] = 0]
    BY Zenon DEF Lookup, Go, Return, Reachable
<1>1. TypeOK'
    BY <1>0, <1>8, SMTT(60) DEF Lookup, IInv, TypeOK, Row
<1>2. Handlers'
    BY <1>0, <1>8 DEF IInv, TypeOK, Handlers, Lookup, At
<1>3. Inbox'
    BY <1>0, <1>8 DEF IInv, TypeOK, Handlers, Inbox, Lookup, At
<1>4. Found' /\ FoundByData'
    BY <1>0, <1>8 DEF IInv, TypeOK, Handlers, Found, FoundByData, RowOf, KeyOf, Lookup, At
<1>5. Ahead' /\ HistoryRefers'
    BY Untouched DEF Lookup
<1>6. Calm'
    BY DEF Lookup, IInv, Calm
<1>7. NothingIsLost'
    BY <1>0, <1>8 DEF IInv, TypeOK, Handlers, Calm, Inbox, NothingIsLost, Safe, OnItsWay, Registering,
        KeyOf, AgentOps, Lookup, At
<1> QED BY <1>1, <1>2, <1>3, <1>4, <1>5, <1>6, <1>7 DEF IInv

LEMMA FirstInv ==
    ASSUME IInv, First PROVE IInv'
<1> USE RegistrationAssumption, NoneAssumption
        DEF world, outages, messages, threads, table, memory, Consumers, Producers, In, Out, Topics
<1>0. /\ task["data"] \in DOMAIN reports /\ KeyOf(task["data"]) \in Keys
      /\ RowOf("data") \in Row \cup {None}
    BY Handled DEF First, At
<1>8. \/ /\ RowOf("data") = None /\ task' = task /\ pc' = [pc EXCEPT !["data"] = "upsert"]
         /\ found' = [found EXCEPT !["data"] = 0]
      \/ /\ ~(RowOf("data") = None) /\ task' = task /\ pc' = [pc EXCEPT !["data"] = "save"]
         /\ found' = [found EXCEPT !["data"] = RowOf("data").id]
      \/ /\ down # {} /\ task' = [task EXCEPT !["data"] = None]
         /\ pc' = [pc EXCEPT !["data"] = "idle"] /\ found' = [found EXCEPT !["data"] = 0]
    BY Zenon DEF First, Go, Return, Reachable
<1>1. TypeOK'
    BY <1>0, <1>8, SMTT(60) DEF First, IInv, TypeOK, Row
<1>2. Handlers'
    BY <1>0, <1>8 DEF IInv, TypeOK, Handlers, First, At
<1>3. Inbox'
    BY <1>0, <1>8 DEF IInv, TypeOK, Handlers, Inbox, First, At
<1>4. Found' /\ FoundByData'
    BY <1>0, <1>8 DEF IInv, TypeOK, Handlers, Found, FoundByData, RowOf, KeyOf, First, At
<1>5. Ahead' /\ HistoryRefers'
    BY Untouched DEF First
<1>6. Calm'
    BY DEF First, IInv, Calm
<1>7. NothingIsLost'
    BY <1>0, <1>8 DEF IInv, TypeOK, Handlers, Calm, Inbox, NothingIsLost, Safe, OnItsWay, Registering,
        KeyOf, AgentOps, First, At
<1> QED BY <1>1, <1>2, <1>3, <1>4, <1>5, <1>6, <1>7 DEF IInv

LEMMA MarkOnlineInv ==
    ASSUME IInv, MarkOnline PROVE IInv' /\ Kept
<1> USE RegistrationAssumption, NoneAssumption
        DEF world, outages, messages, threads, table, memory, Consumers, Producers, In, Out, Topics
<1>0. /\ task["usp"] \in DOMAIN reports /\ KeyOf(task["usp"]) \in Keys
      /\ RowOf("usp") \in Row \cup {None}
    BY Handled DEF MarkOnline, At
<1> DEFINE r == [RowOf("usp") EXCEPT !.status = "online"]
<1>8. /\ r \in Row /\ rows[KeyOf(task["usp"])] # None
      /\ r.id = rows[KeyOf(task["usp"])].id
    BY <1>0 DEF IInv, Found, MarkOnline, At, RowOf, Row
<1>9. rows' \in [Keys -> Row \cup {None}] /\ Kept /\ Ahead' /\ HistoryRefers'
    <2>1. lastId \in Nat /\ r.id \in Nat /\ r.id <= lastId
        BY <1>0, <1>8 DEF IInv, TypeOK, Ahead, Row
    <2>2. CASE rows' = [rows EXCEPT ![KeyOf(task["usp"])] = r]
        <3> HIDE DEF r
        <3>1. UNCHANGED <<lastId, history>>
            BY DEF MarkOnline
        <3>2. lastId' \in Nat /\ lastId <= lastId' /\ r.id <= lastId'
            BY <2>1, <3>1
        <3> QED BY <1>0, <1>8, <2>2, <3>1, <3>2, Written
    <2>3. CASE UNCHANGED rows
        BY <2>3, Untouched DEF MarkOnline, IInv, TypeOK
    <2> QED BY <2>2, <2>3, Zenon DEF MarkOnline, SetRow
<1>1. TypeOK'
    BY <1>0, <1>9, SMTT(60) DEF MarkOnline, At, Go, IInv, TypeOK
<1>2. Handlers'
    BY <1>0, <1>1 DEF MarkOnline, At, Go, IInv, TypeOK, Handlers
<1>3. Inbox'
    BY <1>0, <1>1 DEF MarkOnline, At, Go, IInv, TypeOK, Handlers, Inbox
<1>4. Found' /\ FoundByData'
    <2>1. FoundByData'
        BY <1>9, FoundByDataKept DEF MarkOnline, Go, IInv, TypeOK
    <2> QED BY <1>0, <1>9, <2>1 DEF MarkOnline, At, Go, IInv, TypeOK, Found, Kept, RowOf, KeyOf
<1>5. Ahead' /\ HistoryRefers'
    BY <1>9
<1>6. Calm'
    BY DEF MarkOnline, At, Go, IInv, Calm
<1>7. NothingIsLost'
    BY <1>0, <1>1 DEF MarkOnline, At, Go, IInv, TypeOK, Handlers, Calm, Inbox, NothingIsLost, Safe,
        OnItsWay, Registering, Reachable, AgentOps
<1> QED BY <1>1, <1>2, <1>3, <1>4, <1>5, <1>6, <1>7, <1>9 DEF IInv

LEMMA UpdateRouteInv ==
    ASSUME IInv, UpdateRoute PROVE IInv' /\ Kept
<1> USE RegistrationAssumption, NoneAssumption
        DEF world, outages, messages, threads, table, memory, Consumers, Producers, In, Out, Topics
<1>0. /\ task["usp"] \in DOMAIN reports /\ KeyOf(task["usp"]) \in Keys
      /\ RowOf("usp") \in Row \cup {None}
    BY Handled DEF UpdateRoute, At
<1> DEFINE r == [RowOf("usp") EXCEPT !.routed = TRUE]
<1>8. /\ r \in Row /\ rows[KeyOf(task["usp"])] # None
      /\ r.id = rows[KeyOf(task["usp"])].id
    BY <1>0 DEF IInv, Found, UpdateRoute, At, RowOf, Row
<1>9. rows' \in [Keys -> Row \cup {None}] /\ Kept /\ Ahead' /\ HistoryRefers'
    <2>1. lastId \in Nat /\ r.id \in Nat /\ r.id <= lastId
        BY <1>0, <1>8 DEF IInv, TypeOK, Ahead, Row
    <2>2. CASE rows' = [rows EXCEPT ![KeyOf(task["usp"])] = r]
        <3> HIDE DEF r
        <3>1. UNCHANGED <<lastId, history>>
            BY DEF UpdateRoute
        <3>2. lastId' \in Nat /\ lastId <= lastId' /\ r.id <= lastId'
            BY <2>1, <3>1
        <3> QED BY <1>0, <1>8, <2>2, <3>1, <3>2, Written
    <2>3. CASE UNCHANGED rows
        BY <2>3, Untouched DEF UpdateRoute, IInv, TypeOK
    <2> QED BY <2>2, <2>3, Zenon DEF UpdateRoute, SetRow
<1>1. TypeOK'
    BY <1>0, <1>9, SMTT(60) DEF UpdateRoute, At, Go, IInv, TypeOK
<1>2. Handlers'
    BY <1>0, <1>1 DEF UpdateRoute, At, Go, IInv, TypeOK, Handlers
<1>3. Inbox'
    BY <1>0, <1>1 DEF UpdateRoute, At, Go, IInv, TypeOK, Handlers, Inbox
<1>4. Found' /\ FoundByData'
    <2>1. FoundByData'
        BY <1>9, FoundByDataKept DEF UpdateRoute, Go, IInv, TypeOK
    <2> QED BY <1>0, <1>9, <2>1 DEF UpdateRoute, At, Go, IInv, TypeOK, Found, Kept, RowOf, KeyOf
<1>5. Ahead' /\ HistoryRefers'
    BY <1>9
<1>6. Calm'
    BY DEF UpdateRoute, At, Go, IInv, Calm
<1>7. NothingIsLost'
    BY <1>0, <1>1 DEF UpdateRoute, At, Go, IInv, TypeOK, Handlers, Calm, Inbox, NothingIsLost, Safe,
        OnItsWay, Registering, Reachable, AgentOps
<1> QED BY <1>1, <1>2, <1>3, <1>4, <1>5, <1>6, <1>7, <1>9 DEF IInv

LEMMA MarkOfflineInv ==
    ASSUME IInv, MarkOffline PROVE IInv' /\ Kept
<1> USE RegistrationAssumption, NoneAssumption
        DEF world, outages, messages, threads, table, memory, Consumers, Producers, In, Out, Topics
<1>0. /\ task["usp"] \in DOMAIN reports /\ KeyOf(task["usp"]) \in Keys
      /\ RowOf("usp") \in Row \cup {None}
    BY Handled DEF MarkOffline, At
<1> DEFINE r == [RowOf("usp") EXCEPT !.status = "offline"]
<1>9. rows' \in [Keys -> Row \cup {None}] /\ Kept /\ Ahead' /\ HistoryRefers'
    <2>1. CASE RowOf("usp") # None /\ rows' = [rows EXCEPT ![KeyOf(task["usp"])] = r]
        <3>1. r \in Row /\ r.id = RowOf("usp").id /\ r.id \in Nat /\ r.id <= lastId /\ lastId \in Nat
            BY <1>0, <2>1 DEF IInv, TypeOK, Ahead, Row, RowOf
        <3> HIDE DEF r
        <3>2. UNCHANGED <<lastId, history>> /\ rows[KeyOf(task["usp"])] = RowOf("usp")
            BY DEF MarkOffline, RowOf
        <3>3. lastId' \in Nat /\ lastId <= lastId' /\ r.id <= lastId'
            BY <3>1, <3>2
        <3> QED BY <1>0, <2>1, <3>1, <3>2, <3>3, Written
    <2>2. CASE UNCHANGED rows
        BY <2>2, Untouched DEF MarkOffline, IInv, TypeOK
    <2> QED BY <2>1, <2>2, Zenon DEF MarkOffline, SetRow
<1>1. TypeOK'
    BY <1>0, <1>9, SMTT(60) DEF MarkOffline, At, Return, IInv, TypeOK
<1>2. Handlers'
    BY <1>0, <1>1 DEF MarkOffline, At, Return, IInv, TypeOK, Handlers
<1>3. Inbox'
    BY <1>0, <1>1 DEF MarkOffline, At, Return, IInv, TypeOK, Handlers, Inbox
<1>4. Found' /\ FoundByData'
    <2>1. FoundByData'
        BY <1>9, FoundByDataKept DEF MarkOffline, Return, IInv, TypeOK
    <2> QED BY <2>1 DEF MarkOffline, Return, IInv, TypeOK, Found
<1>5. Ahead' /\ HistoryRefers'
    BY <1>9
<1>6. Calm'
    BY DEF MarkOffline, At, Return, IInv, Calm
<1>7. NothingIsLost'
    BY <1>0, <1>1 DEF MarkOffline, At, Return, IInv, TypeOK, Handlers, Calm, Inbox,
        NothingIsLost, Safe, OnItsWay, Registering, Reachable, AgentOps
<1> QED BY <1>1, <1>2, <1>3, <1>4, <1>5, <1>6, <1>7, <1>9 DEF IInv

LEMMA RecordHistoryInv ==
    ASSUME IInv, RecordHistory PROVE IInv'
<1> USE RegistrationAssumption, NoneAssumption
        DEF world, outages, messages, threads, table, memory, Consumers, Producers, In, Out, Topics
<1>0. /\ task["usp"] \in DOMAIN reports /\ KeyOf(task["usp"]) \in Keys
      /\ RowOf("usp") \in Row \cup {None}
    BY Handled DEF RecordHistory, At
<1>8. RowOf("usp") # None /\ RowOf("usp").id = found["usp"]
    BY DEF RecordHistory, At, IInv, Found
<1>9. Kept /\ Ahead' /\ HistoryRefers'
    BY <1>8 DEF RecordHistory, RowOf, IInv, Ahead, HistoryRefers, Kept
<1>1. TypeOK'
    BY <1>0, <1>9, SMTT(60) DEF RecordHistory, At, Return, IInv, TypeOK
<1>2. Handlers'
    BY <1>0, <1>1 DEF RecordHistory, At, Return, IInv, TypeOK, Handlers
<1>3. Inbox'
    BY <1>0, <1>1 DEF RecordHistory, At, Return, IInv, TypeOK, Handlers, Inbox
<1>4. Found' /\ FoundByData'
    <2>1. FoundByData'
        BY <1>9, FoundByDataKept DEF RecordHistory, Return, IInv, TypeOK
    <2> QED BY <2>1 DEF RecordHistory, Return, IInv, TypeOK, Found
<1>5. Ahead' /\ HistoryRefers'
    BY <1>9
<1>6. Calm'
    BY DEF RecordHistory, At, Return, IInv, Calm
<1>7. NothingIsLost'
    BY <1>0, <1>1 DEF RecordHistory, At, Return, IInv, TypeOK, Handlers, Calm, Inbox,
        NothingIsLost, Safe, OnItsWay, Registering, Reachable, AgentOps
<1> QED BY <1>1, <1>2, <1>3, <1>4, <1>5, <1>6, <1>7 DEF IInv

LEMMA CreateInv ==
    ASSUME IInv, Create PROVE IInv' /\ Kept
<1> USE RegistrationAssumption, NoneAssumption
        DEF world, outages, messages, threads, table, memory, Consumers, Producers, In, Out, Topics
<1>0. /\ task["usp"] \in DOMAIN reports /\ KeyOf(task["usp"]) \in Keys
      /\ RowOf("usp") \in Row \cup {None}
    BY Handled DEF Create, At
<1> DEFINE r == [id |-> lastId + 1, by |-> 0, routed |-> TRUE, status |-> "provisioning"]
<1>7. lastId \in Nat /\ r \in Row
    BY DEF IInv, TypeOK, Row
<1>8. \/ /\ RowOf("usp") = None /\ rows' = [rows EXCEPT ![KeyOf(task["usp"])] = r]
         /\ lastId' = lastId + 1 /\ task' = task
         /\ pc' = [pc EXCEPT !["usp"] = "history"]
         /\ found' = [found EXCEPT !["usp"] = lastId + 1]
      \/ /\ UNCHANGED <<rows, lastId>>
         /\ task' = [task EXCEPT !["usp"] = None]
         /\ pc' = [pc EXCEPT !["usp"] = "idle"] /\ found' = [found EXCEPT !["usp"] = 0]
    BY Zenon DEF Create, Go, Return, SetRow
<1>9. rows' \in [Keys -> Row \cup {None}] /\ Kept /\ Ahead' /\ HistoryRefers'
    <2>1. CASE RowOf("usp") = None /\ rows' = [rows EXCEPT ![KeyOf(task["usp"])] = r] /\ lastId' = lastId + 1
        <3>1. UNCHANGED history /\ rows[KeyOf(task["usp"])] = None
            BY <2>1 DEF Create, RowOf
        <3>2. r.id = lastId + 1
            OBVIOUS
        <3> HIDE DEF r
        <3>3. lastId < r.id /\ r.id <= lastId' /\ lastId <= lastId' /\ lastId' \in Nat
            BY <1>7, <2>1, <3>2
        <3> QED BY <1>0, <1>7, <2>1, <3>1, <3>3, Written
    <2>2. CASE UNCHANGED <<rows, lastId>>
        BY <2>2, Untouched DEF Create, IInv, TypeOK
    <2> QED BY <1>8, <2>1, <2>2
<1>1. TypeOK'
    BY <1>0, <1>7, <1>8, <1>9, SMTT(60) DEF Create, IInv, TypeOK
<1>2. Handlers'
    <2>1. /\ task \in [Consumers -> DOMAIN reports \cup {None}] /\ task["usp"] # None
          /\ pc["usp"] = "create" /\ DOMAIN pc = Consumers
        BY DEF Create, At, IInv, TypeOK, Handlers
    <2>2. CASE task' = task /\ pc' = [pc EXCEPT !["usp"] = "history"]
        BY <2>1, <2>2 DEF IInv, Handlers
    <2>3. CASE task' = [task EXCEPT !["usp"] = None] /\ pc' = [pc EXCEPT !["usp"] = "idle"]
        BY <2>1, <2>3 DEF IInv, Handlers
    <2> HIDE DEF r
    <2> QED BY <1>8, <2>2, <2>3
<1>3. Inbox'
    BY <1>0, <1>8 DEF Create, At, IInv, TypeOK, Handlers, Inbox
<1>4. Found' /\ FoundByData'
    <2>1. FoundByData'
        BY <1>8, <1>9, FoundByDataKept DEF Create, IInv, TypeOK
    <2> QED BY <1>0, <1>7, <1>8, <2>1 DEF Create, IInv, TypeOK, Found, RowOf, KeyOf
<1>5. Calm'
    BY DEF Create, IInv, Calm
<1>6. NothingIsLost'
    BY <1>0, <1>8 DEF Create, At, IInv, TypeOK, Handlers, Inbox, NothingIsLost, Safe, OnItsWay,
        Registering
<1> QED BY <1>1, <1>2, <1>3, <1>4, <1>5, <1>6, <1>9 DEF IInv

LEMMA SaveInv ==
    ASSUME IInv, Save PROVE IInv' /\ Kept
<1> USE RegistrationAssumption, NoneAssumption
        DEF world, outages, messages, threads, table, memory, Consumers, Producers, In, Out, Topics
<1>0. /\ task["data"] \in DOMAIN reports /\ KeyOf(task["data"]) \in Keys
      /\ RowOf("data") \in Row \cup {None}
    BY Handled DEF Save, At
<1> DEFINE r == [id |-> found["data"], by |-> task["data"], routed |-> FALSE, status |-> "online"]
<1>7. /\ lastId \in Nat /\ r \in Row /\ task["data"] \in Numbers
      /\ RowOf("data") # None /\ r.id = RowOf("data").id
    <2>1. task["data"] \in Numbers
        BY <1>0 DEF IInv, TypeOK, Numbers
    <2> QED BY <1>0, <2>1 DEF Save, At, IInv, TypeOK, FoundByData, Row
<1>8. \/ rows' = [rows EXCEPT ![KeyOf(task["data"])] = r] /\ saved' = saved \cup {task["data"]}
      \/ UNCHANGED <<rows, saved>> /\ down # {}
    BY Zenon DEF Save, SetRow, Reachable
<1>9. rows' \in [Keys -> Row \cup {None}] /\ Kept /\ Ahead' /\ HistoryRefers'
    <2>1. r.id \in Nat /\ r.id <= lastId
        BY <1>0, <1>7 DEF IInv, Ahead, RowOf, Row
    <2>2. CASE rows' = [rows EXCEPT ![KeyOf(task["data"])] = r]
        <3> HIDE DEF r
        <3>1. UNCHANGED <<lastId, history>> /\ rows[KeyOf(task["data"])] = RowOf("data")
            BY DEF Save, RowOf
        <3>2. lastId' \in Nat /\ lastId <= lastId' /\ r.id <= lastId'
            BY <1>7, <2>1, <3>1
        <3> QED BY <1>0, <1>7, <2>2, <3>1, <3>2, Written
    <2>3. CASE UNCHANGED rows
        BY <2>3, Untouched DEF Save, IInv, TypeOK
    <2> QED BY <1>8, <2>2, <2>3
<1>1. TypeOK'
    <2>1. lastId' \in Nat /\ saved' \subseteq DOMAIN reports /\ rows' \in [Keys -> Row \cup {None}]
        BY <1>0, <1>7, <1>8, <1>9 DEF Save, IInv, TypeOK
    <2> QED BY <2>1, SMTT(60) DEF Save, Return, IInv, TypeOK
<1>2. Handlers'
    BY <1>0, <1>1 DEF Save, At, Return, IInv, TypeOK, Handlers
<1>3. Inbox'
    BY <1>0, <1>1 DEF Save, At, Return, IInv, TypeOK, Handlers, Inbox
<1>4. Found' /\ FoundByData'
    <2>1. Found'
        BY <1>9, FoundKept DEF Save, Return, IInv, TypeOK
    <2> QED BY <2>1 DEF Save, Return, IInv, TypeOK, FoundByData
<1>5. Calm'
    BY DEF Save, IInv, Calm
<1>6. NothingIsLost'
    BY <1>0, <1>8 DEF Save, At, Return, IInv, TypeOK, Handlers, Calm, NothingIsLost, Safe, OnItsWay,
        Registering
<1> QED BY <1>1, <1>2, <1>3, <1>4, <1>5, <1>6, <1>9 DEF IInv

LEMMA UpsertInv ==
    ASSUME IInv, Upsert PROVE IInv' /\ Kept
<1> USE RegistrationAssumption, NoneAssumption
        DEF world, outages, messages, threads, table, memory, Consumers, Producers, In, Out, Topics
<1>0. /\ task["data"] \in DOMAIN reports /\ KeyOf(task["data"]) \in Keys
      /\ RowOf("data") \in Row \cup {None}
    BY Handled DEF Upsert, At
<1> DEFINE r == IF RowOf("data") = None
                THEN [id |-> lastId + 1, by |-> task["data"], routed |-> FALSE, status |-> "online"]
                ELSE [RowOf("data") EXCEPT !.by = task["data"], !.status = "online"]
<1>7. /\ lastId \in Nat /\ r \in Row /\ task["data"] \in Numbers
      /\ IF RowOf("data") = None THEN r.id = lastId + 1
         ELSE r.id = RowOf("data").id /\ r.id <= lastId
    <2>1. task["data"] \in Numbers /\ lastId \in Nat
        BY <1>0 DEF IInv, TypeOK, Numbers
    <2>2. CASE RowOf("data") = None
        BY <2>1, <2>2 DEF Row
    <2>3. CASE RowOf("data") # None
        BY <1>0, <2>1, <2>3 DEF Row, IInv, Ahead, RowOf
    <2> QED BY <2>1, <2>2, <2>3
<1>8. \/ /\ rows' = [rows EXCEPT ![KeyOf(task["data"])] = r] /\ saved' = saved \cup {task["data"]}
         /\ lastId' = lastId + 1
      \/ UNCHANGED <<rows, saved, lastId>> /\ down # {}
    BY Zenon DEF Upsert, SetRow, Reachable
<1>9. rows' \in [Keys -> Row \cup {None}] /\ Kept /\ Ahead' /\ HistoryRefers'
    <2>1. CASE rows' = [rows EXCEPT ![KeyOf(task["data"])] = r] /\ lastId' = lastId + 1
        <3> HIDE DEF r
        <3>1. r.id \in Nat /\ r.id <= lastId' /\ (RowOf("data") = None => lastId < r.id)
            BY <1>7, <2>1 DEF Row
        <3>2. UNCHANGED history /\ rows[KeyOf(task["data"])] = RowOf("data")
            BY DEF Upsert, RowOf
        <3>3. lastId' \in Nat /\ lastId <= lastId'
            BY <1>7, <2>1
        <3> QED BY <1>0, <1>7, <2>1, <3>1, <3>2, <3>3, Written
    <2>2. CASE UNCHANGED <<rows, lastId>>
        BY <2>2, Untouched DEF Upsert, IInv, TypeOK
    <2> QED BY <1>8, <2>1, <2>2
<1>1. TypeOK'
    <2>1. lastId' \in Nat /\ saved' \subseteq DOMAIN reports /\ rows' \in [Keys -> Row \cup {None}]
        BY <1>0, <1>7, <1>8, <1>9 DEF Upsert, IInv, TypeOK
    <2> QED BY <2>1, SMTT(60) DEF Upsert, Return, IInv, TypeOK
<1>2. Handlers'
    BY <1>0, <1>1 DEF Upsert, At, Return, IInv, TypeOK, Handlers
<1>3. Inbox'
    BY <1>0, <1>1 DEF Upsert, At, Return, IInv, TypeOK, Handlers, Inbox
<1>4. Found' /\ FoundByData'
    <2>1. Found'
        BY <1>9, FoundKept DEF Upsert, Return, IInv, TypeOK
    <2> QED BY <2>1 DEF Upsert, Return, IInv, TypeOK, FoundByData
<1>5. Calm'
    BY DEF Upsert, IInv, Calm
<1>6. NothingIsLost'
    BY <1>0, <1>8 DEF Upsert, At, Return, IInv, TypeOK, Handlers, Calm, NothingIsLost, Safe, OnItsWay,
        Registering
<1> QED BY <1>1, <1>2, <1>3, <1>4, <1>5, <1>6, <1>9 DEF IInv

LEMMA NotifyInv ==
    ASSUME IInv, Notify PROVE IInv'
<1> USE RegistrationAssumption, NoneAssumption
        DEF world, outages, messages, threads, table, memory, Consumers, Producers, In, Out, Topics
<1>0. /\ task["usp"] \in DOMAIN reports /\ KeyOf(task["usp"]) \in Keys
      /\ RowOf("usp") \in Row \cup {None}
    BY Handled DEF Notify, At
<1>1. TypeOK'
    BY <1>0, SMTT(60) DEF Notify, At, Return, IInv, TypeOK, Handlers, Row, Reachable, RowOf
<1>2. Handlers'
    BY <1>0, <1>1 DEF Notify, At, Return, IInv, TypeOK, Handlers
<1>3. Inbox'
    BY <1>0, <1>1 DEF Notify, At, Return, IInv, TypeOK, Handlers, Inbox
<1>4. Found' /\ FoundByData'
    BY <1>0, <1>1 DEF Notify, At, Return, IInv, TypeOK, Handlers, Found, FoundByData, RowOf,
        KeyOf, Row
<1>5. Ahead' /\ HistoryRefers'
    BY <1>0, <1>1, Untouched DEF Notify, At, Return
<1>6. Calm'
    BY DEF Notify, At, Return, IInv, Calm
<1>7. NothingIsLost'
    BY <1>0, <1>1 DEF Notify, At, Return, IInv, TypeOK, Handlers, Calm, Inbox, NothingIsLost, Safe,
        OnItsWay, Registering, Reachable, KeyOf, AgentOps
<1> QED BY <1>1, <1>2, <1>3, <1>4, <1>5, <1>6, <1>7 DEF IInv

LEMMA RegisterInv ==
    ASSUME IInv, registerDeviceFromBootParams PROVE IInv'
<1> USE RegistrationAssumption, NoneAssumption
        DEF world, outages, messages, threads, table, memory, Consumers, Producers, In, Out, Topics
<1>1. TypeOK'
    BY SMTT(60) DEF registerDeviceFromBootParams, Produce, IInv, TypeOK, Handlers, Row,
        Reachable, RowOf
<1>2. Handlers'
    BY <1>1 DEF registerDeviceFromBootParams, Produce, IInv, TypeOK, Handlers
<1>3. Inbox'
    BY <1>1 DEF registerDeviceFromBootParams, Produce, IInv, TypeOK, Handlers, Inbox
<1>4. Found' /\ FoundByData'
    BY <1>1 DEF registerDeviceFromBootParams, Produce, IInv, TypeOK, Handlers, Found,
        FoundByData, RowOf, KeyOf, Row
<1>5. Ahead' /\ HistoryRefers'
    BY <1>1, Untouched DEF registerDeviceFromBootParams, Produce
<1>6. Calm'
    BY DEF registerDeviceFromBootParams, Produce, IInv, Calm
<1>7. NothingIsLost'
    BY <1>1 DEF registerDeviceFromBootParams, Produce, IInv, TypeOK, Handlers, Calm, Inbox,
        NothingIsLost, Safe, OnItsWay, Registering, Reachable, KeyOf, AgentOps
<1> QED BY <1>1, <1>2, <1>3, <1>4, <1>5, <1>6, <1>7 DEF IInv

LEMMA HandleInformInv ==
    ASSUME IInv, HandleInform PROVE IInv'
<1> USE RegistrationAssumption, NoneAssumption
        DEF world, outages, messages, threads, table, memory, Consumers, Producers, In, Out, Topics
<1>0. /\ task["cwmp"] \in DOMAIN reports /\ KeyOf(task["cwmp"]) \in Keys
      /\ RowOf("cwmp") \in Row \cup {None}
    BY Handled DEF HandleInform, At
<1>1. TypeOK'
    BY <1>0, SMTT(60) DEF HandleInform, At, Return, IInv, TypeOK, Handlers, Row, Reachable, RowOf
<1>2. Handlers'
    BY <1>0, <1>1 DEF HandleInform, At, Return, IInv, TypeOK, Handlers
<1>3. Inbox'
    BY <1>0, <1>1 DEF HandleInform, At, Return, IInv, TypeOK, Handlers, Inbox
<1>4. Found' /\ FoundByData'
    BY <1>0, <1>1 DEF HandleInform, At, Return, IInv, TypeOK, Handlers, Found, FoundByData,
        RowOf, KeyOf, Row
<1>5. Ahead' /\ HistoryRefers'
    BY <1>0, <1>1, Untouched DEF HandleInform, At, Return
<1>6. Calm'
    BY DEF HandleInform, At, Return, IInv, Calm
<1>7. NothingIsLost'
    BY <1>0, <1>1 DEF HandleInform, At, Return, IInv, TypeOK, Handlers, Calm, Inbox,
        NothingIsLost, Safe, OnItsWay, Registering, Reachable, KeyOf, AgentOps
<1> QED BY <1>1, <1>2, <1>3, <1>4, <1>5, <1>6, <1>7 DEF IInv

LEMMA OnboardInv ==
    ASSUME IInv, ProcessInformForOnboarding PROVE IInv'
<1> USE RegistrationAssumption, NoneAssumption
        DEF world, outages, messages, threads, table, memory, Consumers, Producers, In, Out, Topics
<1>0. PICK n \in jobs["cwmp"] :
         /\ jobs' = [jobs EXCEPT !["cwmp"] = @ \ {n}]
         /\ \/ /\ queue' = [queue EXCEPT !["cwmp"] = @ \cup {n}]
               /\ onboarded' = [onboarded EXCEPT ![KeyOf(n)] = n]
            \/ ~Identified(n) /\ UNCHANGED <<queue, onboarded>>
    BY DEF ProcessInformForOnboarding, Produce
<1>8. n \in DOMAIN reports /\ KeyOf(n) \in Keys
    BY Reported DEF IInv, TypeOK
<1>1. TypeOK'
    <2>0. /\ queue \in [Producers -> SUBSET DOMAIN reports]
          /\ jobs \in [{"usp", "cwmp"} -> SUBSET DOMAIN reports]
          /\ onboarded \in [Keys -> DOMAIN reports \cup {None}]
        BY DEF IInv, TypeOK
    <2>1. /\ queue' \in [Producers -> SUBSET DOMAIN reports]
          /\ jobs' \in [{"usp", "cwmp"} -> SUBSET DOMAIN reports]
        <3>1. jobs' \in [{"usp", "cwmp"} -> SUBSET DOMAIN reports]
            BY <1>0, <2>0
        <3>2. queue' \in [Producers -> SUBSET DOMAIN reports]
            BY <1>0, <1>8, <2>0
        <3> QED BY <3>1, <3>2
    <2>2. onboarded' \in [Keys -> DOMAIN reports \cup {None}]
        BY <1>0, <1>8, <2>0
    <2> QED BY <2>1, <2>2, Zenon DEF ProcessInformForOnboarding, IInv, TypeOK
<1>2. Handlers'
    BY <1>1 DEF ProcessInformForOnboarding, IInv, TypeOK, Handlers
<1>3. Inbox'
    BY <1>1 DEF ProcessInformForOnboarding, IInv, TypeOK, Handlers, Inbox
<1>4. Found' /\ FoundByData'
    BY <1>1 DEF ProcessInformForOnboarding, IInv, TypeOK, Handlers, Found, FoundByData, RowOf,
        KeyOf, Row
<1>5. Ahead' /\ HistoryRefers'
    BY <1>1, Untouched DEF ProcessInformForOnboarding
<1>6. Calm'
    BY DEF ProcessInformForOnboarding, IInv, Calm
<1>7. NothingIsLost'
    <2> SUFFICES ASSUME NEW x \in Numbers, Safe(x)'
                 PROVE  OnItsWay(x)' \/ x \in saved'
        BY DEF NothingIsLost
    <2>1. Safe(x)
        BY DEF ProcessInformForOnboarding, Safe, Registering
    <2>2. CASE x = n
        BY <1>0, <1>8, <2>1, <2>2 DEF ProcessInformForOnboarding, Identified, Safe, Registering,
            OnItsWay, IInv, TypeOK, Producers
    <2>3. CASE x # n
        <3>1. OnItsWay(x) \/ x \in saved
            BY <2>1 DEF IInv, NothingIsLost
        <3> QED BY <1>0, <2>3, <3>1 DEF ProcessInformForOnboarding, OnItsWay, IInv, TypeOK
    <2> QED BY <2>2, <2>3
<1> QED BY <1>1, <1>2, <1>3, <1>4, <1>5, <1>6, <1>7 DEF IInv

\* What a new report adds, and what it leaves as it is.
LEMMA Appended ==
    ASSUME IInv, NEW d \in Devices, NEW op \in AgentOps \cup BoxOps, Report(d, op)
    PROVE  /\ reports' \in Seq([dev : Devices, op : AgentOps \cup BoxOps,
                                at : 0..MaxFaults, calm : BOOLEAN])
           /\ Len(reports') <= MaxReports
           /\ DOMAIN reports' = DOMAIN reports \cup {Len(reports) + 1}
           /\ Len(reports) + 1 \notin DOMAIN reports
           /\ Len(reports) + 1 # None
           /\ \A n \in DOMAIN reports : n # None /\ reports'[n] = reports[n]
           /\ reports'[Len(reports) + 1].op = op
           /\ reports'[Len(reports) + 1].at = faults
           /\ reports'[Len(reports) + 1].calm <=> down = {}
<1> DEFINE R == [dev : Devices, op : AgentOps \cup BoxOps, at : 0..MaxFaults, calm : BOOLEAN]
           e == [dev |-> d, op |-> op, at |-> faults, calm |-> down = {}]
<1>1. e \in R /\ e.op = op /\ e.at = faults /\ (e.calm <=> down = {})
    BY DEF IInv, TypeOK
<1>2. reports \in Seq(R) /\ Len(reports) \in Nat /\ Len(reports) < MaxReports
      /\ reports' = Append(reports, e) /\ MaxReports \in Nat
    BY RegistrationAssumption DEF IInv, TypeOK, Report
<1>3. DOMAIN reports = 1..Len(reports) /\ DOMAIN reports \subseteq Numbers
      /\ Len(reports) + 1 \in Numbers
    BY <1>2 DEF Numbers
<1>4. None \notin Numbers
    BY NoneAssumption
<1> HIDE DEF e, R
<1>5. reports' \in Seq(R) /\ Len(reports') = Len(reports) + 1
      /\ \A n \in 1..Len(reports) : reports'[n] = reports[n]
      /\ reports'[Len(reports) + 1] = e
    BY <1>1, <1>2
<1>6. DOMAIN reports' = 1..(Len(reports) + 1)
    BY <1>5
<1> QED BY <1>1, <1>2, <1>3, <1>4, <1>5, <1>6 DEF R

LEMMA AgentSendsInv ==
    ASSUME IInv, NEW a \in Agents, NEW op \in AgentOps, AgentSends(a, op) PROVE IInv'
<1> USE RegistrationAssumption, NoneAssumption
        DEF world, outages, messages, threads, table, memory, Consumers, Producers, In, Out, Topics
<1>0. a \in Devices /\ op \in AgentOps \cup BoxOps
    BY DEF Devices
<1> DEFINE new == Len(reports) + 1
<1>1. /\ reports' \in Seq([dev : Devices, op : AgentOps \cup BoxOps,
                           at : 0..MaxFaults, calm : BOOLEAN])
      /\ Len(reports') <= MaxReports
      /\ DOMAIN reports' = DOMAIN reports \cup {new}
      /\ new \notin DOMAIN reports /\ new # None
      /\ \A n \in DOMAIN reports : n # None /\ reports'[n] = reports[n]
      /\ reports'[new].op = op /\ reports'[new].at = faults
      /\ reports'[new].calm <=> down = {}
    BY <1>0, Appended, Zenon DEF AgentSends
<1>2. \A n \in DOMAIN reports : KeyOf(n)' = KeyOf(n) /\ (Safe(n)' => Safe(n))
    BY <1>1 DEF AgentSends, KeyOf, Safe, Registering
<1>3. topic' = [topic EXCEPT !.uspIn = @ \cup {new}] /\ answered' = answered /\ queue' = queue
    BY DEF AgentSends
<1> HIDE DEF new
<1>4. TypeOK'
    <2>1. topic' \in [Topics -> SUBSET DOMAIN reports']
        BY <1>1, <1>3 DEF IInv, TypeOK
    <2>2. DOMAIN reports \subseteq DOMAIN reports'
        BY <1>1
    <2>3. /\ queue \in [Producers -> SUBSET DOMAIN reports']
          /\ read \in [Consumers -> SUBSET DOMAIN reports']
          /\ jobs \in [{"usp", "cwmp"} -> SUBSET DOMAIN reports']
        BY <2>2 DEF IInv, TypeOK
    <2>4. /\ task \in [Consumers -> DOMAIN reports' \cup {None}]
          /\ onboarded \in [Keys -> DOMAIN reports' \cup {None}]
        BY <2>2 DEF IInv, TypeOK
    <2> QED BY <1>1, <2>1, <2>2, <2>3, <2>4 DEF AgentSends, IInv, TypeOK
<1>5. Handlers'
    BY DEF AgentSends, IInv, Handlers
<1>6. Inbox'
    <2>1. read' = read /\ task' = task /\ pc' = pc
        BY DEF AgentSends
    <2>2. \A n \in topic["uspIn"] \cup read["usp"] : n \in DOMAIN reports
        BY DEF IInv, TypeOK
    <2>3. topic'["uspIn"] \subseteq topic["uspIn"] \cup {new} /\ (topic' = topic \/ op \in AgentOps)
        BY <1>3 DEF IInv, TypeOK
    <2>4. \A n \in topic'["uspIn"] \cup read'["usp"] : reports'[n].op \in AgentOps
        BY <1>1, <2>1, <2>2, <2>3 DEF IInv, Inbox
    <2>5. task["usp"] # None => reports'[task["usp"]] = reports[task["usp"]]
        BY <1>1 DEF IInv, TypeOK
    <2>6. pc["usp"] \notin {"idle", "handle"} => task["usp"] # None
        BY DEF IInv, Handlers
    <2> QED BY <2>1, <2>4, <2>5, <2>6 DEF IInv, Inbox
<1>7. Kept /\ Ahead' /\ HistoryRefers'
    BY Untouched DEF AgentSends
<1>8. Found' /\ FoundByData'
    <2>1. pc["usp"] # "idle" => KeyOf(task["usp"])' = KeyOf(task["usp"])
        BY <1>1, Handled DEF AgentSends, KeyOf
    <2>2. pc["data"] # "idle" => KeyOf(task["data"])' = KeyOf(task["data"])
        BY <1>1, Handled DEF AgentSends, KeyOf
    <2> QED BY <2>1, <2>2 DEF AgentSends, IInv, Found, FoundByData, RowOf
<1>9. Calm'
    <2>1. UNCHANGED <<faults, down>> /\ faults <= faults
        BY RegistrationAssumption DEF AgentSends, IInv, TypeOK
    <2> QED BY <1>1, <2>1 DEF IInv, Calm
<1>10. NothingIsLost'
    <2> SUFFICES ASSUME NEW x \in Numbers, Safe(x)'
                 PROVE  OnItsWay(x)' \/ x \in saved'
        BY DEF NothingIsLost
    <2>1. saved' = saved /\ task' = task /\ jobs' = jobs
        BY DEF AgentSends
    <2>2. x = new \/ x \in DOMAIN reports
        BY <1>1 DEF Safe
    <2>3. CASE x = new
        BY <1>3, <2>3 DEF OnItsWay, IInv, TypeOK
    <2>4. CASE x \in DOMAIN reports
        <3>1. OnItsWay(x) \/ x \in saved
            BY <1>2, <2>4 DEF IInv, NothingIsLost
        <3> QED BY <1>3, <2>1, <3>1 DEF OnItsWay, IInv, TypeOK
    <2> QED BY <2>2, <2>3, <2>4
<1> QED BY <1>4, <1>5, <1>6, <1>7, <1>8, <1>9, <1>10 DEF IInv

LEMMA BoxPostsInv ==
    ASSUME IInv, NEW b \in Boxes, NEW op \in BoxOps, BoxPosts(b, op) PROVE IInv'
<1> USE RegistrationAssumption, NoneAssumption
        DEF world, outages, messages, threads, table, memory, Consumers, Producers, In, Out, Topics
<1>0. b \in Devices /\ op \in AgentOps \cup BoxOps
    BY DEF Devices
<1> DEFINE new == Len(reports) + 1
<1>1. /\ reports' \in Seq([dev : Devices, op : AgentOps \cup BoxOps,
                           at : 0..MaxFaults, calm : BOOLEAN])
      /\ Len(reports') <= MaxReports
      /\ DOMAIN reports' = DOMAIN reports \cup {new}
      /\ new \notin DOMAIN reports /\ new # None
      /\ \A n \in DOMAIN reports : n # None /\ reports'[n] = reports[n]
      /\ reports'[new].op = op /\ reports'[new].at = faults
      /\ reports'[new].calm <=> down = {}
    BY <1>0, Appended, Zenon DEF BoxPosts
<1>2. \A n \in DOMAIN reports : KeyOf(n)' = KeyOf(n) /\ (Safe(n)' => Safe(n))
    BY <1>1 DEF BoxPosts, KeyOf, Safe, Registering
<1>3. queue' = [queue EXCEPT !["http"] = @ \cup {new}] /\ answered' = answered \cup {new} /\ topic' = topic
    BY DEF BoxPosts
<1> HIDE DEF new
<1>4. TypeOK'
    BY <1>1, <1>3, SMTT(60) DEF BoxPosts, IInv, TypeOK
<1>5. Handlers'
    BY DEF BoxPosts, IInv, Handlers
<1>6. Inbox'
    <2>1. read' = read /\ task' = task /\ pc' = pc
        BY DEF BoxPosts
    <2>2. \A n \in topic["uspIn"] \cup read["usp"] : n \in DOMAIN reports
        BY DEF IInv, TypeOK
    <2>3. topic'["uspIn"] \subseteq topic["uspIn"] \cup {new} /\ (topic' = topic \/ op \in AgentOps)
        BY <1>3 DEF IInv, TypeOK
    <2>4. \A n \in topic'["uspIn"] \cup read'["usp"] : reports'[n].op \in AgentOps
        BY <1>1, <2>1, <2>2, <2>3 DEF IInv, Inbox
    <2>5. task["usp"] # None => reports'[task["usp"]] = reports[task["usp"]]
        BY <1>1 DEF IInv, TypeOK
    <2>6. pc["usp"] \notin {"idle", "handle"} => task["usp"] # None
        BY DEF IInv, Handlers
    <2> QED BY <2>1, <2>4, <2>5, <2>6 DEF IInv, Inbox
<1>7. Kept /\ Ahead' /\ HistoryRefers'
    BY Untouched DEF BoxPosts
<1>8. Found' /\ FoundByData'
    <2>1. pc["usp"] # "idle" => KeyOf(task["usp"])' = KeyOf(task["usp"])
        BY <1>1, Handled DEF BoxPosts, KeyOf
    <2>2. pc["data"] # "idle" => KeyOf(task["data"])' = KeyOf(task["data"])
        BY <1>1, Handled DEF BoxPosts, KeyOf
    <2> QED BY <2>1, <2>2 DEF BoxPosts, IInv, Found, FoundByData, RowOf
<1>9. Calm'
    <2>1. UNCHANGED <<faults, down>> /\ faults <= faults
        BY RegistrationAssumption DEF BoxPosts, IInv, TypeOK
    <2> QED BY <1>1, <2>1 DEF IInv, Calm
<1>10. NothingIsLost'
    <2> SUFFICES ASSUME NEW x \in Numbers, Safe(x)'
                 PROVE  OnItsWay(x)' \/ x \in saved'
        BY DEF NothingIsLost
    <2>1. saved' = saved /\ task' = task /\ jobs' = jobs
        BY DEF BoxPosts
    <2>2. x = new \/ x \in DOMAIN reports
        BY <1>1 DEF Safe
    <2>3. CASE x = new
        BY <1>3, <2>3 DEF OnItsWay, IInv, TypeOK
    <2>4. CASE x \in DOMAIN reports
        <3>1. OnItsWay(x) \/ x \in saved
            BY <1>2, <2>4 DEF IInv, NothingIsLost
        <3> QED BY <1>3, <2>1, <3>1 DEF OnItsWay, IInv, TypeOK
    <2> QED BY <2>2, <2>3, <2>4
<1> QED BY <1>4, <1>5, <1>6, <1>7, <1>8, <1>9, <1>10 DEF IInv

\* A fault leaves no report safe.
LEMMA Aged ==
    ASSUME IInv, UNCHANGED reports, faults' \in 0..MaxFaults, faults' > faults
    PROVE  Calm' /\ \A n \in Numbers : ~Safe(n)'
<1>1. \A n \in DOMAIN reports : reports[n].at \in Nat /\ reports[n].at <= faults
    <2> TAKE n \in DOMAIN reports
    <2>1. reports[n] \in [dev : Devices, op : AgentOps \cup BoxOps,
                         at : 0..MaxFaults, calm : BOOLEAN]
        BY ElementOf, Zenon DEF IInv, TypeOK
    <2> QED BY <2>1, RegistrationAssumption DEF IInv, Calm
<1>2. faults \in Nat /\ faults' \in Nat
    BY RegistrationAssumption DEF IInv, TypeOK
<1> QED BY <1>1, <1>2 DEF Calm, Safe

\* A process that ends forgets what it was handling; the rest stays.
LEMMA Forgotten ==
    ASSUME IInv, NEW s \in Services, Forget(s),
           faults' \in 0..MaxFaults, faults' > faults,
           topic' \in [Topics -> SUBSET DOMAIN reports],
           topic'["uspIn"] \subseteq topic["uspIn"] \cup read["usp"]
    PROVE  IInv'
<1> USE RegistrationAssumption, NoneAssumption
        DEF world, outages, messages, threads, table, memory, Consumers, Producers, In, Out,
        Topics, Services
<1>1. /\ queue' = Without(queue, s, {}) /\ read' = Without(read, s, {})
      /\ task' = Without(task, s, None) /\ pc' = Without(pc, s, "idle")
      /\ found' = Without(found, s, 0) /\ jobs' = Without(jobs, s, {})
      /\ UNCHANGED <<reports, answered, rows, lastId, history, saved, down>>
      /\ up' = up \ {s}
      /\ onboarded' = onboarded \/ onboarded' = [k \in Keys |-> None]
    BY Zenon DEF Forget
<1>2. TypeOK'
    <2>1. queue' \in [Producers -> SUBSET DOMAIN reports]
        BY <1>1 DEF Without, IInv, TypeOK
    <2>2. read' \in [Consumers -> SUBSET DOMAIN reports]
        BY <1>1 DEF Without, IInv, TypeOK
    <2>3. task' \in [Consumers -> DOMAIN reports \cup {None}]
        BY <1>1 DEF Without, IInv, TypeOK
    <2>4. pc' \in [Consumers -> {"idle", "handle", "lookup", "create", "online",
                                "route", "history", "offline", "save", "upsert"}]
        BY <1>1 DEF Without, IInv, TypeOK
    <2>5. found' \in [Consumers -> Nat]
        BY <1>1 DEF Without, IInv, TypeOK
    <2>6. jobs' \in [{"usp", "cwmp"} -> SUBSET DOMAIN reports]
        BY <1>1 DEF Without, IInv, TypeOK
    <2>7. onboarded' \in [Keys -> DOMAIN reports \cup {None}]
        BY <1>1 DEF IInv, TypeOK
    <2> QED BY <1>1, <2>1, <2>2, <2>3, <2>4, <2>5, <2>6, <2>7 DEF IInv, TypeOK
<1>3. /\ \A c \in Consumers \ {s} : /\ task'[c] = task[c] /\ pc'[c] = pc[c]
                                     /\ found'[c] = found[c] /\ read'[c] = read[c]
      /\ s \in Consumers => /\ task'[s] = None /\ pc'[s] = "idle"
                            /\ found'[s] = 0 /\ read'[s] = {}
    BY <1>1 DEF Without, IInv, TypeOK
<1>4. Handlers'
    BY <1>3 DEF IInv, Handlers
<1>5. Inbox'
    BY <1>1, <1>3 DEF IInv, Inbox
<1>6. Kept /\ Ahead' /\ HistoryRefers'
    BY <1>1, Untouched
<1>7. Found' /\ FoundByData'
    BY <1>1, <1>3 DEF IInv, Found, FoundByData, RowOf, KeyOf
<1>8. Calm' /\ NothingIsLost'
    BY <1>1, Aged DEF NothingIsLost
<1> QED BY <1>2, <1>4, <1>5, <1>6, <1>7, <1>8 DEF IInv

LEMMA FaultCounts == ASSUME TypeOK, Fault PROVE faults' \in 0..MaxFaults /\ faults' > faults
BY RegistrationAssumption DEF TypeOK, Fault

LEMMA CrashInv ==
    ASSUME IInv, NEW s \in Services, Crash(s) PROVE IInv'
<1>1. faults' \in 0..MaxFaults /\ faults' > faults
    BY FaultCounts DEF IInv, Crash
<1>2. /\ topic' \in [Topics -> SUBSET DOMAIN reports]
      /\ topic'["uspIn"] \subseteq topic["uspIn"] \cup read["usp"]
    <2>1. CASE s = "http"
        BY <2>1 DEF Crash, IInv, TypeOK
    <2>2. CASE s \in Consumers
        BY <2>2 DEF Crash, IInv, TypeOK, Consumers, Topics, In
    <2> QED BY <2>1, <2>2 DEF Services, Consumers
<1> QED BY <1>1, <1>2, Forgotten DEF Crash

LEMMA StopInv ==
    ASSUME IInv, NEW s \in {"usp", "data", "http"}, Stop(s) PROVE IInv'
<1>1. faults' \in 0..MaxFaults /\ faults' > faults
    BY FaultCounts DEF IInv, Stop
<1>2. /\ topic' \in [Topics -> SUBSET DOMAIN reports]
      /\ topic'["uspIn"] \subseteq topic["uspIn"] \cup read["usp"]
    <2>1. CASE s = "data"
        BY <2>1 DEF Stop, IInv, TypeOK
    <2>2. CASE s \in Producers
        BY <2>2 DEF Stop, IInv, TypeOK, Producers, Topics, Out
    <2> QED BY <2>1, <2>2 DEF Producers
<1>3. s \in Services
    BY DEF Services
<1> QED BY <1>1, <1>2, <1>3, Forgotten DEF Stop

LEMMA StartInv ==
    ASSUME IInv, NEW s \in Services, Start(s) PROVE IInv'
<1> USE RegistrationAssumption, NoneAssumption
        DEF world, outages, messages, threads, table, memory, Consumers, Producers, In, Out, Topics
<1>1. TypeOK'
    BY DEF Start, IInv, TypeOK
<1>2. Handlers' /\ Inbox'
    BY DEF Start, IInv, Handlers, Inbox
<1>3. Kept /\ Ahead' /\ HistoryRefers'
    BY Untouched DEF Start
<1>4. Found' /\ FoundByData'
    BY DEF Start, IInv, Found, FoundByData, RowOf, KeyOf
<1>5. Calm' /\ NothingIsLost'
    BY DEF Start, IInv, Calm, NothingIsLost, Safe, OnItsWay, Registering
<1> QED BY <1>1, <1>2, <1>3, <1>4, <1>5 DEF IInv

LEMMA FailInv ==
    ASSUME IInv, NEW i \in Stores, Fail(i) PROVE IInv'
<1> USE RegistrationAssumption, NoneAssumption
        DEF world, outages, messages, threads, table, memory, Consumers, Producers, In, Out, Topics
<1>0. faults' \in 0..MaxFaults /\ faults' > faults
    BY FaultCounts DEF IInv, Fail
<1>1. TypeOK'
    BY <1>0 DEF Fail, IInv, TypeOK
<1>2. Handlers' /\ Inbox'
    BY DEF Fail, IInv, Handlers, Inbox
<1>3. Kept /\ Ahead' /\ HistoryRefers'
    BY Untouched DEF Fail
<1>4. Found' /\ FoundByData'
    BY DEF Fail, IInv, Found, FoundByData, RowOf, KeyOf
<1>5. Calm' /\ NothingIsLost'
    BY <1>0, Aged DEF Fail, NothingIsLost
<1> QED BY <1>1, <1>2, <1>3, <1>4, <1>5 DEF IInv

LEMMA RecoverInv ==
    ASSUME IInv, NEW i \in Stores, Recover(i) PROVE IInv'
<1> USE RegistrationAssumption, NoneAssumption
        DEF world, outages, messages, threads, table, memory, Consumers, Producers, In, Out, Topics
<1>1. TypeOK'
    BY DEF Recover, IInv, TypeOK
<1>2. Handlers' /\ Inbox'
    BY DEF Recover, IInv, Handlers, Inbox
<1>3. Kept /\ Ahead' /\ HistoryRefers'
    BY Untouched DEF Recover
<1>4. Found' /\ FoundByData'
    BY DEF Recover, IInv, Found, FoundByData, RowOf, KeyOf
<1>5. Calm' /\ NothingIsLost'
    BY DEF Recover, Reachable, IInv, Calm, NothingIsLost, Safe, OnItsWay, Registering
<1> QED BY <1>1, <1>2, <1>3, <1>4, <1>5 DEF IInv

LEMMA InitInv == Init => IInv
<1> SUFFICES ASSUME Init PROVE IInv
    OBVIOUS
<1>1. <<>> \in Seq([dev : Devices, op : AgentOps \cup BoxOps, at : 0..MaxFaults, calm : BOOLEAN])
    OBVIOUS
<1>2. TypeOK
    BY <1>1, RegistrationAssumption DEF Init, TypeOK, Stores, Services, Producers, Topics, Consumers
<1>3. Handlers /\ Found /\ FoundByData /\ Ahead /\ Calm /\ Inbox
    BY DEF Init, Handlers, Found, FoundByData, Ahead, Calm, Inbox, Consumers, Topics
<1>4. HistoryRefers
    BY DEF Init, HistoryRefers
<1>5. NothingIsLost
    BY DEF Init, NothingIsLost, Safe
<1> QED BY <1>2, <1>3, <1>4, <1>5 DEF IInv

\* Every step keeps the invariant, and every row there is with its id.
LEMMA StepInv == IInv /\ [Next]_vars => IInv' /\ Kept
<1> SUFFICES ASSUME IInv, [Next]_vars PROVE IInv' /\ Kept
    OBVIOUS
<1>1. CASE Outside
    <2>1. IInv'
        BY <1>1, AgentSendsInv, BoxPostsInv DEF Outside
    <2>2. rows' = rows
        BY <1>1 DEF Outside, AgentSends, BoxPosts, table
    <2> QED BY <2>1, <2>2 DEF Kept
<1>2. CASE Client
    <2>1. IInv'
        BY <1>2, DeliverInv, DeliveryFailsInv, ReadMessageInv, AutoCommitInv DEF Client
    <2>2. rows' = rows
        BY <1>2 DEF Client, Deliver, DeliveryFails, ReadMessage, AutoCommit, table
    <2> QED BY <2>1, <2>2 DEF Kept
<1>3. CASE USPService
    <2>1. CASE MarkOnline \/ UpdateRoute \/ MarkOffline \/ Create
        BY <2>1, MarkOnlineInv, UpdateRouteInv, MarkOfflineInv, CreateInv
    <2>2. CASE Lookup \/ RecordHistory \/ Notify \/ registerDeviceFromBootParams
        <3>1. IInv'
            BY <2>2, LookupInv, RecordHistoryInv, NotifyInv, RegisterInv
        <3>2. rows' = rows
            BY <2>2 DEF Lookup, RecordHistory, Notify, registerDeviceFromBootParams, table
        <3> QED BY <3>1, <3>2 DEF Kept
    <2> QED BY <1>3, <2>1, <2>2 DEF USPService, USPHandler
<1>4. CASE CWMPService
    <2>1. IInv'
        BY <1>4, HandleInformInv, OnboardInv DEF CWMPService
    <2>2. rows' = rows
        BY <1>4 DEF CWMPService, HandleInform, ProcessInformForOnboarding, table
    <2> QED BY <2>1, <2>2 DEF Kept
<1>5. CASE DataService
    <2>1. CASE Save \/ Upsert
        BY <2>1, SaveInv, UpsertInv
    <2>2. CASE First
        <3>1. rows' = rows
            BY <2>2 DEF First, table
        <3> QED BY <2>2, <3>1, FirstInv DEF Kept
    <2> QED BY <1>5, <2>1, <2>2 DEF DataService
<1>6. CASE Processes
    <2>1. CASE \E s \in Services : Crash(s)
        <3>1. rows' = rows
            BY <2>1 DEF Crash, Forget, table
        <3> QED BY <2>1, <3>1, CrashInv DEF Kept
    <2>2. CASE StopUsp \/ StopData \/ StopHttp
        <3>1. rows' = rows
            BY <2>2 DEF StopUsp, StopData, StopHttp, Stop, Forget, table
        <3> QED BY <2>2, <3>1, StopInv DEF Kept, StopUsp, StopData, StopHttp
    <2>3. CASE StopCwmp
        <3>1. rows' = rows
            BY <2>3 DEF StopCwmp, Crash, Forget, table
        <3> QED BY <2>3, <3>1, CrashInv DEF Kept, StopCwmp, Services
    <2>4. CASE StartUsp \/ StartData \/ StartCwmp \/ StartHttp
        <3>1. \E s \in Services : Start(s)
            BY <2>4 DEF StartUsp, StartData, StartCwmp, StartHttp, Services
        <3>2. rows' = rows
            BY <3>1 DEF Start, table
        <3> QED BY <3>1, <3>2, StartInv DEF Kept
    <2>5. CASE \E i \in Stores : Fail(i) \/ Recover(i)
        <3>1. rows' = rows
            BY <2>5 DEF Fail, Recover, table
        <3> QED BY <2>5, <3>1, FailInv, RecoverInv DEF Kept
    <2> QED BY <1>6, <2>1, <2>2, <2>3, <2>4, <2>5 DEF Processes
<1>7. CASE UNCHANGED vars
    <2>1. Kept /\ Ahead' /\ HistoryRefers'
        BY <1>7, Untouched DEF vars, table
    <2>2. TypeOK' /\ Handlers' /\ Inbox'
        BY <1>7, Zenon DEF vars, world, outages, messages, threads, table, memory, IInv, TypeOK,
            Handlers, Inbox, KeyOf
    <2>3. Found' /\ FoundByData'
        BY <1>7 DEF vars, world, threads, table, IInv, Found, FoundByData, RowOf, KeyOf
    <2>4. Calm' /\ NothingIsLost'
        BY <1>7 DEF vars, world, outages, messages, threads, table, memory, IInv, Calm,
                    NothingIsLost, Safe, OnItsWay, Registering
    <2> QED BY <2>1, <2>2, <2>3, <2>4 DEF IInv
<1> QED BY <1>1, <1>2, <1>3, <1>4, <1>5, <1>6, <1>7 DEF Next

LEMMA Invariant == Spec => []IInv
BY InitInv, StepInv, PTL DEF Spec

(***************************************************************************)
(* The theorems.                                                           *)
(***************************************************************************)
\* Every variable keeps its type.
THEOREM TypeCorrect == Spec => []TypeOK
<1>1. IInv => TypeOK
    BY DEF IInv
<1> QED BY <1>1, Invariant, PTL

\* The unique index and the handlers' early returns are enough: history always
\* refers to the row of its own endpoint, whoever wins the race for the row
\* and whatever crashes.
THEOREM HistoryIsSound == Spec => []HistoryRefers
<1>1. IInv => HistoryRefers
    BY DEF IInv
<1> QED BY <1>1, Invariant, PTL

\* No handler drops a Boot! or an Inform that came while everything was in
\* reach, until something crashes, stops or fails again.
THEOREM NoReportIsDropped == Spec => []NothingIsLost
<1>1. IInv => NothingIsLost
    BY DEF IInv
<1> QED BY <1>1, Invariant, PTL

\* No writer of the devices table ever changes the id of a row.
THEOREM IdsAreStable == Spec => IdIsStable
<1>1. IInv /\ [Next]_vars =>
        [\A k \in Keys : rows[k] # None => rows'[k] # None /\ rows'[k].id = rows[k].id]_vars
    BY StepInv DEF Kept
<1> QED BY <1>1, Invariant, PTL DEF Spec, IdIsStable

\* Only a Save empties the routing columns: no other writer of a row does.
THEOREM UpsertKeepsRoutes == Spec => RouteSurvivesUpsert
<1> DEFINE Keeps == \A k \in Keys :
              (rows[k] # None /\ rows[k].routed /\ found["data"] = 0) => rows'[k].routed
<1>1. ASSUME IInv, Next PROVE Keeps
    <2> SUFFICES ASSUME NEW k \in Keys, rows[k] # None, rows[k].routed, found["data"] = 0
                 PROVE  rows'[k].routed
        OBVIOUS
    <2>1. CASE rows' = rows
        BY <2>1
    <2>2. rows[k] \in Row /\ rows \in [Keys -> Row \cup {None}]
        BY <1>1 DEF IInv, TypeOK
    <2>3. CASE MarkOnline \/ UpdateRoute \/ MarkOffline \/ Upsert
        <3>1. \/ rows' = rows
              \/ \E l \in Keys : \E r \in Row : /\ rows' = [rows EXCEPT ![l] = r]
                                                /\ rows[l] # None /\ rows[l].routed => r.routed
            <4>1. CASE MarkOnline
                BY <1>1, <4>1, Handled DEF MarkOnline, At, SetRow, IInv, Found, RowOf, Row,
                    Consumers
            <4>2. CASE UpdateRoute
                <5> DEFINE r == [RowOf("usp") EXCEPT !.routed = TRUE]
                <5>1. KeyOf(task["usp"]) \in Keys /\ r \in Row /\ r.routed = TRUE
                    BY <1>1, <4>2, Handled DEF UpdateRoute, At, IInv, Found, RowOf, Row, Consumers
                <5>2. rows' = rows \/ rows' = [rows EXCEPT ![KeyOf(task["usp"])] = r]
                    BY <4>2, Zenon DEF UpdateRoute, SetRow
                <5> HIDE DEF r
                <5> QED BY <5>1, <5>2, Zenon
            <4>3. CASE MarkOffline
                BY <1>1, <4>3, Handled DEF MarkOffline, At, SetRow, RowOf, Row, Consumers
            <4>4. CASE Upsert
                <5>1. CASE rows' = rows
                    BY <5>1
                <5>2. CASE rows' # rows
                    <6> DEFINE l == KeyOf(task["data"])
                    <6>1. /\ l \in Keys /\ rows[l] \in Row \cup {None} /\ task["data"] \in Numbers
                          /\ lastId + 1 \in Nat \ {0}
                        <7>1. /\ task["data"] \in DOMAIN reports /\ l \in Keys
                              /\ rows[l] \in Row \cup {None}
                            BY <1>1, <4>4, Handled DEF Upsert, At, RowOf, Consumers
                        <7>2. DOMAIN reports \subseteq Numbers /\ lastId \in Nat
                            BY <1>1, RegistrationAssumption DEF IInv, TypeOK, Numbers
                        <7> QED BY <7>1, <7>2
                    <6>2. CASE rows[l] = None
                        <7> DEFINE r == [id |-> lastId + 1, by |-> task["data"], routed |-> FALSE,
                                         status |-> "online"]
                        <7>1. r \in Row
                            BY <6>1 DEF Row
                        <7>2. rows' = [rows EXCEPT ![l] = r]
                            BY <4>4, <5>2, <6>2 DEF Upsert, SetRow, RowOf
                        <7> QED BY <6>1, <6>2, <7>1, <7>2
                    <6>3. CASE rows[l] # None
                        <7> DEFINE r == [rows[l] EXCEPT !.by = task["data"], !.status = "online"]
                        <7>1. r \in Row /\ r.routed = rows[l].routed
                            BY <6>1, <6>3 DEF Row
                        <7>2. rows' = [rows EXCEPT ![l] = r]
                            BY <4>4, <5>2, <6>3 DEF Upsert, SetRow, RowOf
                        <7> QED BY <6>1, <7>1, <7>2
                    <6> QED BY <6>2, <6>3
                <5> QED BY <5>1, <5>2
            <4> QED BY <2>3, <4>1, <4>2, <4>3, <4>4
        <3>2. CASE rows' # rows
            <4>1. PICK l \in Keys, r \in Row : /\ rows' = [rows EXCEPT ![l] = r]
                                               /\ rows[l] # None /\ rows[l].routed => r.routed
                BY <3>1, <3>2
            <4>2. CASE k = l
                <5>1. rows'[k] = r
                    BY <2>2, <4>1, <4>2
                <5> QED BY <4>1, <4>2, <5>1, Zenon
            <4>3. CASE k # l
                <5>1. rows'[k] = rows[k]
                    BY <2>2, <4>1, <4>3
                <5> QED BY <5>1, Zenon
            <4> QED BY <4>2, <4>3
        <3> QED BY <2>1, <3>2
    <2>4. CASE Create
        BY <2>1, <2>2, <2>4 DEF Create, SetRow, RowOf
    <2>5. CASE Save
        <3>1. RowOf("data") \in Row /\ RowOf("data").id = 0
            BY <1>1, <2>5, Handled DEF Save, At, IInv, FoundByData, Consumers
        <3> QED BY <3>1 DEF Row
    <2> QED BY <1>1, <2>1, <2>3, <2>4, <2>5
          DEF Next, Outside, AgentSends, BoxPosts, Client, Deliver, DeliveryFails, ReadMessage,
              AutoCommit, USPService, USPHandler, Lookup, RecordHistory, Notify,
              registerDeviceFromBootParams, CWMPService, HandleInform, ProcessInformForOnboarding,
              DataService, First, Processes, Crash, Stop, StopUsp, StopData, StopHttp, StopCwmp,
              Forget, Start, StartUsp, StartData, StartCwmp, StartHttp, Fail, Recover, table
<1>2. IInv /\ [Next]_vars => [Keeps]_vars
    BY <1>1
<1> QED BY <1>2, Invariant, PTL DEF Spec, RouteSurvivesUpsert

=============================================================================
