------------------------ MODULE ConnectionState_proofs ------------------------
(***************************************************************************)
(* Proofs about AgentConnections under the conditions of the runs orderly  *)
(* and degraded: the database follows the last record handled, whatever    *)
(* the monitor does meanwhile, and usp-service lives without Redis.        *)
(***************************************************************************)
EXTENDS AgentConnections_proofs, FiniteSetTheorems

(***************************************************************************)
(* The conditions of the runs orderly and degraded.                        *)
(***************************************************************************)
\* One process, whose database answers and which is not killed.
Alone(i) == Instances = {i} /\ DBMode = "up" /\ MaxRestarts = 0

\* Its records are in one partition, and agents announce every disconnect.
Orderly(i, p) == Alone(i) /\ Partitions = {p} /\ ~Drops

\* Redis is down after the start; any number of processes.
Degraded == RedisMode = "down" /\ DBMode = "up" /\ MaxRestarts = 0

(***************************************************************************)
(* What OneOpenRow, GoneIsOffline and RouteFollowsConnect rest on.         *)
(***************************************************************************)
C(i) == <<i, "consumer">>
M(i) == <<i, "monitor">>

InRedis == {"get", "set", "activity"}
OnConnect == {"lookup", "create", "online", "route", "history", "established"}
OnDisconnect == {"offline", "active", "close", "closed"}

\* The consumer handles the last record of its agent, the monitor never a
\* Connect, and nobody else registers the device the consumer is to create.
Ops(i) ==
    /\ pc[C(i)] \in {"idle"} \cup InRedis \cup OnConnect \cup OnDisconnect
    /\ pc[C(i)] # "idle" =>
          task[C(i)] \in Record /\ last[task[C(i)].ep] = task[C(i)]
    /\ pc[C(i)] \in OnConnect => task[C(i)].op = "connect"
    /\ pc[C(i)] \in OnDisconnect \cup {"get"} => task[C(i)].op = "disconnect"
    /\ pc[C(i)] = "create" => device[task[C(i)].ep] = None
    /\ pc[M(i)] \notin OnConnect
    /\ pc[M(i)] \in InRedis => task[M(i)].op # "connect"

\* After a Connect the row has its MTP, once the handler has come so far.
Routed(i) ==
    \A e \in Endpoints :
        up[i] /\ last[e] # None /\ last[e].op = "connect" =>
        \/ /\ pc[C(i)] \in InRedis \cup {"lookup", "create", "online", "route"}
           /\ task[C(i)].ep = e
        \/ device[e] # None /\ device[e].mtp = last[e].mtp

\* After a Disconnect the device is offline, once the handler has come so far.
Off(i) ==
    \A e \in Endpoints :
        up[i] /\ last[e] # None /\ last[e].op = "disconnect" /\ device[e] # None =>
        \/ pc[C(i)] \in InRedis \cup {"offline"} /\ task[C(i)].ep = e
        \/ device[e].status = "offline"

\* At most one row of an agent is open, and where the consumer stands when one
\* may be.
Rows(i) ==
    \A e \in Endpoints :
        /\ \A m, n \in OpenRows(e) : m = n
        /\ up[i] =>
              IF pc[C(i)] # "idle" /\ task[C(i)].ep = e
              THEN /\ task[C(i)].op = "connect" /\ pc[C(i)] # "established" =>
                         OpenRows(e) = {}
                   /\ pc[C(i)] = "close" => OpenRows(e) \subseteq {row[C(i)]}
                   /\ pc[C(i)] = "closed" => OpenRows(e) = {}
              ELSE last[e] = None \/ last[e].op = "disconnect" =>
                         OpenRows(e) = {}

\* Record k of the partition is a Connect (Disconnect) of e.
IsConnect(p, e, k) == log[p][k].op = "connect" /\ log[p][k].ep = e
IsDisconnect(p, e, k) == log[p][k].op = "disconnect" /\ log[p][k].ep = e

\* Between two Connects of an agent there is a Disconnect, and after the last
\* one if the agent is not connected; last is the last record read.
Order(i, p) ==
    \A e \in Endpoints :
        /\ \A k, l \in DOMAIN log[p] :
              k < l /\ IsConnect(p, e, k) /\ IsConnect(p, e, l) =>
              \E m \in DOMAIN log[p] : k < m /\ m < l /\ IsDisconnect(p, e, m)
        /\ \A k \in DOMAIN log[p] :
              session[e] = None /\ IsConnect(p, e, k) =>
              \E m \in DOMAIN log[p] : k < m /\ IsDisconnect(p, e, m)
        /\ up[i] /\ last[e] # None =>
              \E k \in DOMAIN log[p] :
                 /\ k <= pos[p] /\ log[p][k] = last[e] /\ last[e].ep = e
                 /\ \A m \in DOMAIN log[p] :
                       k < m /\ m <= pos[p] => log[p][m].ep # e

AloneInv(i) == Ops(i) /\ Routed(i) /\ Off(i)
OrderlyInv(i, p) == AloneInv(i) /\ Rows(i) /\ Order(i, p)

(***************************************************************************)
(* The threads of one process.                                             *)
(***************************************************************************)
LEMMA TwoThreads ==
    ASSUME NEW i \in Instances, Alone(i)
    PROVE  /\ C(i) \in Threads /\ M(i) \in Threads /\ C(i) # M(i)
           /\ \A t \in Threads : t = C(i) \/ t = M(i)
           /\ Host(C(i)) = i /\ Host(M(i)) = i
           /\ ~IsMonitor(C(i)) /\ IsMonitor(M(i))
BY DEF Threads, Alone, C, M, Host, IsMonitor

LEMMA InitState ==
    ASSUME NEW i \in Instances, NEW p \in Partitions, Alone(i), Init
    PROVE  OrderlyInv(i, p)
<1>1. /\ C(i) \in Threads /\ M(i) \in Threads
  BY TwoThreads
<1>2. Ops(i) /\ Routed(i) /\ Off(i)
  BY <1>1 DEF Init, Nobody, Ops, Routed, Off, InRedis, OnConnect,
                  OnDisconnect
<1>3. Rows(i)
  BY <1>1 DEF Init, Nobody, Rows, OpenRows
<1>4. Order(i, p)
  BY DEF Init, Nobody, Order
<1> QED
  BY <1>2, <1>3, <1>4 DEF AloneInv, OrderlyInv

(***************************************************************************)
(* Ops, Routed and Off.                                                    *)
(***************************************************************************)
\* The consumer stands still, and the monitor runs no step of a Connect.
LEMMA MonitorMoves ==
    ASSUME NEW i \in Instances, Alone(i), AloneInv(i),
           UNCHANGED <<up, device, last, pc[C(i)], task[C(i)]>>,
           pc'[M(i)] \notin OnConnect,
           pc'[M(i)] \in InRedis => task'[M(i)].op # "connect"
    PROVE  AloneInv(i)'
BY DEF AloneInv, Ops, Routed, Off

\* The consumer takes a step with the record it works for.
LEMMA ConsumerMoves ==
    ASSUME NEW i \in Instances, Alone(i), AloneInv(i), IInv,
           UNCHANGED <<up, last, pc[M(i)], task[M(i)]>>,
           pc[C(i)] # "idle", pc'[C(i)] # "idle" => task'[C(i)] = task[C(i)],
           pc'[C(i)] \in {"idle"} \cup InRedis \cup OnConnect \cup OnDisconnect,
           pc'[C(i)] \in OnConnect => task[C(i)].op = "connect",
           pc'[C(i)] \in OnDisconnect \cup {"get"} => task[C(i)].op = "disconnect",
           NEW e \in Endpoints, e = task[C(i)].ep,
           pc'[C(i)] = "create" => device'[e] = None,
           \A f \in Endpoints \ {e} : device'[f] = device[f],
           task[C(i)].op = "connect" =>
              \/ pc'[C(i)] \in InRedis \cup {"lookup", "create", "online", "route"}
              \/ device'[e] # None /\ device'[e].mtp = task[C(i)].mtp,
           task[C(i)].op = "disconnect" /\ device'[e] # None =>
              \/ pc'[C(i)] \in InRedis \cup {"offline"}
              \/ device'[e].status = "offline"
    PROVE  AloneInv(i)'
<1>1. last[e] = task[C(i)] /\ last'[e] = task[C(i)] /\ task[C(i)] \in Record
  BY DEF AloneInv, Ops
<1>2. Ops(i)'
  BY <1>1 DEF AloneInv, Ops, OnConnect, OnDisconnect
<1>3. Routed(i)'
  BY <1>1 DEF AloneInv, Routed, InRedis
<1>4. Off(i)'
  BY <1>1 DEF AloneInv, Off, InRedis
<1> QED
  BY <1>2, <1>3, <1>4 DEF AloneInv

\* The steps of StoreAgentConnection and UpdateConnectionStatus, until they
\* hand control back.
LEMMA RedisEffect ==
    ASSUME IInv, NEW t \in Threads,
           RedisGet(t) \/ RedisSet(t) \/ RefreshActivity(t)
    PROVE  /\ UNCHANGED <<session, log, pos, up, device, history, last, row>>
           /\ pc[t] \in InRedis
           /\ \A u \in Threads \ {t} : pc'[u] = pc[u] /\ task'[u] = task[u]
           /\ \/ pc'[t] \in {"set", "activity"} /\ task'[t] = task[t]
              \/ /\ task[t].op = "connect"
                 /\ pc'[t] = "lookup" /\ task'[t] = task[t]
              \/ /\ task[t].op = "disconnect"
                 /\ pc'[t] = "offline" /\ task'[t] = task[t]
              \/ task[t].op = "inactive" /\ pc'[t] = "each"
<1>1. pc[t] \in InRedis
  BY DEF RedisGet, RedisSet, RefreshActivity, At, InRedis
<1>2. task[t] \in Task
  BY <1>1, BusyTask DEF InRedis, Busy, Labels
<1>3. UNCHANGED <<session, log, pos, up, device, history, last, row>>
  BY DEF RedisGet, RedisSet, RefreshActivity, outer, kafka, process, stores,
         database, ghosts
<1>4. \/ LeaveRedis(t)
      \/ /\ Go(t, "set") \/ Go(t, "activity")
         /\ UNCHANGED task
  BY DEF RedisGet, RedisSet, RefreshActivity
<1>5. CASE LeaveRedis(t)
  <2>1. task[t].op \in {"connect", "disconnect", "inactive"}
    BY <1>2 DEF Task
  <2> QED
    BY <1>1, <1>3, <1>5, <2>1 DEF LeaveRedis, Go, AfterRedis, IInv, TypeOK,
       ThreadsOK
<1>6. CASE (Go(t, "set") \/ Go(t, "activity")) /\ UNCHANGED task
  BY <1>1, <1>3, <1>6 DEF Go, IInv, TypeOK, ThreadsOK
<1> QED
  BY <1>4, <1>5, <1>6

LEMMA RedisAlone ==
    ASSUME NEW i \in Instances, Alone(i), AloneInv(i), IInv,
           NEW t \in Threads,
           RedisGet(t) \/ RedisSet(t) \/ RefreshActivity(t)
    PROVE  AloneInv(i)'
<1>1. UNCHANGED <<up, device, last>>
  BY RedisEffect
<1>2. CASE t = M(i)
  <2>1. UNCHANGED <<pc[C(i)], task[C(i)]>>
    BY <1>2, RedisEffect, TwoThreads
  <2>2. pc[t] \in InRedis /\ task[t].op # "connect"
    BY <1>2, RedisEffect DEF AloneInv, Ops
  <2>3. /\ pc'[M(i)] \in {"set", "activity", "offline", "each"}
        /\ pc'[M(i)] \in InRedis => task'[M(i)] = task[M(i)]
    BY <1>2, <2>2, RedisEffect DEF InRedis
  <2> QED
    BY <1>1, <1>2, <2>1, <2>2, <2>3, MonitorMoves DEF OnConnect, InRedis
<1>3. CASE t = C(i)
  <2>1. UNCHANGED <<pc[M(i)], task[M(i)]>>
    BY <1>3, RedisEffect, TwoThreads
  <2>2. /\ pc[C(i)] \in InRedis /\ pc[C(i)] # "idle"
        /\ task[C(i)] \in Record
    BY <1>3, RedisEffect DEF AloneInv, Ops, InRedis
  <2>3. /\ task[C(i)].ep \in Endpoints
        /\ task[C(i)].op \in {"connect", "disconnect"}
    BY <2>2 DEF Record
  <2>4. /\ task'[C(i)] = task[C(i)]
        /\ \/ pc'[C(i)] \in {"set", "activity"}
           \/ task[C(i)].op = "connect" /\ pc'[C(i)] = "lookup"
           \/ task[C(i)].op = "disconnect" /\ pc'[C(i)] = "offline"
    BY <1>3, <2>3, RedisEffect
  <2> QED
    BY <1>1, <2>1, <2>2, <2>3, <2>4, ConsumerMoves
    DEF InRedis, OnConnect, OnDisconnect
<1> QED
  BY <1>2, <1>3, TwoThreads

\* What a step of handleAgentConnect does to its agent's device and rows.
LEMMA ConnectEffect ==
    ASSUME IInv, DBMode = "up", NEW t \in Threads, ConnectStep(t)
    PROVE  /\ UNCHANGED <<session, log, pos, up, last, row>>
           /\ pc[t] \in OnConnect
           /\ \A u \in Threads \ {t} : pc'[u] = pc[u] /\ task'[u] = task[u]
           /\ pc'[t] # "idle" => task'[t] = task[t]
           /\ \A f \in Endpoints \ {task[t].ep} : device'[f] = device[f]
           /\ \/ /\ pc[t] = "lookup" /\ pc'[t] = "create"
                 /\ device[task[t].ep] = None /\ UNCHANGED <<device, history>>
              \/ /\ pc[t] = "lookup" /\ pc'[t] = "online"
                 /\ UNCHANGED <<device, history>>
              \/ /\ pc[t] = "create" /\ pc'[t] = "history"
                 /\ device'[task[t].ep] # None
                 /\ device'[task[t].ep].mtp = task[t].mtp
                 /\ UNCHANGED history
              \/ /\ pc[t] = "create" /\ pc'[t] = "idle"
                 /\ device[task[t].ep] # None /\ UNCHANGED <<device, history>>
              \/ /\ pc[t] = "online" /\ pc'[t] = "route"
                 /\ UNCHANGED history
              \/ /\ pc[t] = "route" /\ pc'[t] = "history"
                 /\ device'[task[t].ep] # None
                 /\ device'[task[t].ep].mtp = task[t].mtp
                 /\ UNCHANGED history
              \/ /\ pc[t] = "history" /\ pc'[t] = "established"
                 /\ history' = Append(history, [ep |-> task[t].ep,
                                   mtp |-> task[t].mtp, open |-> TRUE])
                 /\ UNCHANGED device
              \/ /\ pc[t] = "established" /\ pc'[t] = "idle"
                 /\ UNCHANGED <<device, history>>
<1>1. pc[t] \in OnConnect
  BY DEF ConnectStep, Lookup, CreateDevice, MarkOnline, UpdateRoute,
         RecordConnection, AnnounceConnected, At, OnConnect
<1>2. task[t] \in Task /\ task[t].ep \in Endpoints /\ task[t].mtp \in Protocols
  BY <1>1, BusyTask DEF OnConnect, Busy, Labels
<1> DEFINE e == task[t].ep
<1>3. e \in Endpoints /\ device \in [Endpoints -> Device \cup {None}]
      /\ pc \in [Threads -> Labels] /\ task \in [Threads -> Task \cup {None}]
  BY <1>2 DEF IInv, TypeOK, StoresOK, ThreadsOK
<1>4. pc[t] \in PastLookup => device[e] \in Device
  BY <1>3 DEF IInv, ControlOK, Control
<1> USE DEF outer, kafka, process, stores, database, ghosts, local, At, Go,
            Finish, DBFails
<1>5. CASE Lookup(t)
  BY <1>1, <1>3, <1>5 DEF Lookup
<1>6. CASE CreateDevice(t)
  <2>1. CASE device[e] = None
    <3>1. /\ device' = [device EXCEPT ![e] =
                           [status |-> "provisioning", mtp |-> task[t].mtp]]
          /\ pc[t] = "create" /\ pc' = [pc EXCEPT ![t] = "history"]
          /\ UNCHANGED <<task, history, session, log, pos, up, last, row>>
      BY <1>6, <2>1 DEF CreateDevice
    <3>2. [status |-> "provisioning", mtp |-> task[t].mtp] # None
      BY <1>2, NoneAssumption DEF Device
    <3> QED
      BY <1>1, <1>3, <3>1, <3>2
  <2>2. CASE device[e] # None
    BY <1>1, <1>3, <1>6, <2>2 DEF CreateDevice
  <2> QED
    BY <2>1, <2>2
<1>7. CASE MarkOnline(t)
  <2>1. /\ device' = [device EXCEPT ![e].status = "online"]
        /\ pc[t] = "online" /\ pc' = [pc EXCEPT ![t] = "route"]
        /\ UNCHANGED <<task, history, session, log, pos, up, last, row>>
    BY <1>7 DEF MarkOnline
  <2> QED
    BY <1>1, <1>3, <2>1
<1>8. CASE UpdateRoute(t)
  <2>1. /\ device' = [device EXCEPT ![e].mtp = task[t].mtp]
        /\ pc[t] = "route" /\ pc' = [pc EXCEPT ![t] = "history"]
        /\ UNCHANGED <<task, history, session, log, pos, up, last, row>>
    BY <1>8 DEF UpdateRoute
  <2>2. device[e] \in Device
    BY <1>4, <2>1 DEF PastLookup
  <2>3. /\ [device[e] EXCEPT !.mtp = task[t].mtp] \in Device
        /\ [device[e] EXCEPT !.mtp = task[t].mtp].mtp = task[t].mtp
    BY <1>2, <2>2 DEF Device
  <2>4. device'[e] # None /\ device'[e].mtp = task[t].mtp
    BY <1>3, <2>1, <2>3, NoneAssumption
  <2> QED
    BY <1>1, <1>3, <2>1, <2>4
<1>9. CASE RecordConnection(t)
  BY <1>1, <1>3, <1>9 DEF RecordConnection
<1>10. CASE AnnounceConnected(t)
  BY <1>1, <1>3, <1>10 DEF AnnounceConnected
<1> QED
  BY <1>5, <1>6, <1>7, <1>8, <1>9, <1>10 DEF ConnectStep

LEMMA ConnectAlone ==
    ASSUME NEW i \in Instances, Alone(i), AloneInv(i), IInv,
           NEW t \in Threads, ConnectStep(t)
    PROVE  AloneInv(i)'
<1> USE DEF Alone
<1>1. t = C(i)
  BY ConnectEffect, TwoThreads DEF AloneInv, Ops
<1>2. /\ pc[C(i)] \in OnConnect /\ pc[C(i)] # "idle"
      /\ task[C(i)] \in Record /\ task[C(i)].op = "connect"
      /\ last[task[C(i)].ep] = task[C(i)]
      /\ pc[C(i)] = "create" => device[task[C(i)].ep] = None
  BY <1>1, ConnectEffect DEF AloneInv, Ops, OnConnect
<1>3. task[C(i)].ep \in Endpoints
  BY <1>2 DEF Record
<1>4. UNCHANGED <<up, last, pc[M(i)], task[M(i)]>>
  BY <1>1, ConnectEffect, TwoThreads
<1>5. pc'[C(i)] \in {"idle"} \cup OnConnect
  BY <1>1, ConnectEffect DEF OnConnect
<1>6. pc[C(i)] = "established" => device[task[C(i)].ep] # None
                /\ device[task[C(i)].ep].mtp = task[C(i)].mtp
  <2> SUFFICES ASSUME pc[C(i)] = "established" PROVE device[task[C(i)].ep] # None
                /\ device[task[C(i)].ep].mtp = task[C(i)].mtp
    OBVIOUS
  <2>1. up[i]
    BY <1>1, TwoThreads DEF ConnectStep, Lookup, CreateDevice, MarkOnline,
       UpdateRoute, RecordConnection, AnnounceConnected, At
  <2>2. last[task[C(i)].ep] # None
    BY <1>2, RecordIsTask
  <2> QED
    BY <1>2, <1>3, <2>1, <2>2 DEF AloneInv, Routed, InRedis
<1>7. pc[C(i)] = "history" => device[task[C(i)].ep] # None
                /\ device[task[C(i)].ep].mtp = task[C(i)].mtp
  <2> SUFFICES ASSUME pc[C(i)] = "history" PROVE device[task[C(i)].ep] # None
                /\ device[task[C(i)].ep].mtp = task[C(i)].mtp
    OBVIOUS
  <2>1. up[i]
    BY <1>1, TwoThreads DEF ConnectStep, Lookup, CreateDevice, MarkOnline,
       UpdateRoute, RecordConnection, AnnounceConnected, At
  <2>2. last[task[C(i)].ep] # None
    BY <1>2, RecordIsTask
  <2> QED
    BY <1>2, <1>3, <2>1, <2>2 DEF AloneInv, Routed, InRedis
<1>8. /\ pc'[C(i)] = "create" => device'[task[C(i)].ep] = None
      /\ \/ pc'[C(i)] \in InRedis \cup {"lookup", "create", "online", "route"}
         \/ /\ device'[task[C(i)].ep] # None
            /\ device'[task[C(i)].ep].mtp = task[C(i)].mtp
      /\ \A f \in Endpoints \ {task[C(i)].ep} : device'[f] = device[f]
      /\ pc'[C(i)] # "idle" => task'[C(i)] = task[C(i)]
  BY <1>1, <1>2, <1>6, <1>7, ConnectEffect
<1> QED
  BY <1>2, <1>3, <1>4, <1>5, <1>8, ConsumerMoves DEF OnConnect, OnDisconnect

\* What a step of handleAgentDisconnect does to its agent's device and rows.
LEMMA DisconnectEffect ==
    ASSUME IInv, DBMode = "up", NEW t \in Threads, DisconnectStep(t)
    PROVE  /\ UNCHANGED <<session, log, pos, up, last>>
           /\ pc[t] \in OnDisconnect
           /\ task[t].ep \in Endpoints
           /\ \A u \in Threads \ {t} :
                 pc'[u] = pc[u] /\ task'[u] = task[u] /\ row'[u] = row[u]
           /\ pc'[t] # "idle" => task'[t] = task[t]
           /\ \A f \in Endpoints \ {task[t].ep} : device'[f] = device[f]
           /\ \/ /\ pc[t] = "offline" /\ pc'[t] = "active"
                 /\ \/ device[task[t].ep] = None /\ device'[task[t].ep] = None
                    \/ /\ device[task[t].ep] # None
                       /\ device'[task[t].ep] # None
                       /\ device'[task[t].ep].mtp = device[task[t].ep].mtp
                       /\ device'[task[t].ep].status = "offline"
                 /\ UNCHANGED <<history, row>>
              \/ /\ pc[t] = "active" /\ pc'[t] = "close"
                 /\ row'[t] \in OpenRows(task[t].ep)
                 /\ UNCHANGED <<device, history>>
              \/ /\ pc[t] = "active" /\ pc'[t] = "closed"
                 /\ OpenRows(task[t].ep) = {}
                 /\ UNCHANGED <<device, history>>
              \/ /\ pc[t] = "close" /\ pc'[t] = "closed"
                 /\ history' = [history EXCEPT ![row[t]].open = FALSE]
                 /\ UNCHANGED device
              \/ /\ pc[t] = "closed" /\ ~IsMonitor(t) /\ pc'[t] = "idle"
                 /\ UNCHANGED <<device, history>>
              \/ /\ pc[t] = "closed" /\ IsMonitor(t) /\ pc'[t] = "remove"
                 /\ UNCHANGED <<device, history>>
<1>1. pc[t] \in OnDisconnect
  BY DEF DisconnectStep, MarkOffline, FindActive, CloseRow,
         AnnounceDisconnected, At, OnDisconnect
<1>2. task[t] \in Task /\ task[t].ep \in Endpoints
  BY <1>1, BusyTask DEF OnDisconnect, Busy, Labels
<1> DEFINE e == task[t].ep
<1>3. e \in Endpoints /\ device \in [Endpoints -> Device \cup {None}]
      /\ pc \in [Threads -> Labels] /\ task \in [Threads -> Task \cup {None}]
      /\ row \in [Threads -> Nat]
  BY <1>2 DEF IInv, TypeOK, StoresOK, ThreadsOK
<1> USE DEF outer, kafka, process, stores, database, ghosts, local, At, Go,
            Finish, DBFails
<1>4. CASE MarkOffline(t)
  <2>1. CASE device[e] = None
    BY <1>1, <1>2, <1>3, <1>4, <2>1 DEF MarkOffline
  <2>2. CASE device[e] # None
    <3>1. /\ device' = [device EXCEPT ![e].status = "offline"]
          /\ pc[t] = "offline" /\ pc' = [pc EXCEPT ![t] = "active"]
          /\ UNCHANGED <<task, history, row, session, log, pos, up, last>>
      BY <1>4, <2>2 DEF MarkOffline
    <3>2. /\ [device[e] EXCEPT !.status = "offline"] \in Device
          /\ [device[e] EXCEPT !.status = "offline"].status = "offline"
          /\ [device[e] EXCEPT !.status = "offline"].mtp = device[e].mtp
      BY <1>3, <2>2 DEF Device
    <3>3. /\ device'[e] # None /\ device'[e].mtp = device[e].mtp
          /\ device'[e].status = "offline"
      BY <1>3, <3>1, <3>2, NoneAssumption
    <3> QED
      BY <1>1, <1>2, <1>3, <2>2, <3>1, <3>3
  <2> QED
    BY <2>1, <2>2
<1>5. CASE FindActive(t)
  BY <1>1, <1>2, <1>3, <1>5 DEF FindActive
<1>6. CASE CloseRow(t)
  BY <1>1, <1>2, <1>3, <1>6 DEF CloseRow
<1>7. CASE AnnounceDisconnected(t)
  BY <1>1, <1>2, <1>3, <1>7 DEF AnnounceDisconnected
<1> QED
  BY <1>4, <1>5, <1>6, <1>7 DEF DisconnectStep

LEMMA DisconnectAlone ==
    ASSUME NEW i \in Instances, Alone(i), AloneInv(i), IInv,
           NEW t \in Threads, DisconnectStep(t)
    PROVE  AloneInv(i)'
<1>0. DBMode = "up"
  BY DEF Alone
<1>1. CASE t = M(i)
  <2>1. UNCHANGED <<up, last, pc[C(i)], task[C(i)]>>
    BY <1>0, <1>1, DisconnectEffect, TwoThreads
  <2>2. pc'[M(i)] \notin OnConnect \cup InRedis
    BY <1>0, <1>1, DisconnectEffect, TwoThreads DEF OnConnect, InRedis
  <2>3. \A f \in Endpoints :
           \/ device'[f] = device[f]
           \/ /\ device[f] # None /\ device'[f] # None
              /\ device'[f].mtp = device[f].mtp
              /\ device'[f].status = "offline"
    BY <1>0, DisconnectEffect
  <2>4. Ops(i)'
    <3>1. pc[C(i)] = "create" => task[C(i)].ep \in Endpoints
      BY DEF AloneInv, Ops, Record
    <3> QED
      BY <2>1, <2>2, <2>3, <3>1 DEF AloneInv, Ops
  <2>5. Routed(i)'
    BY <2>1, <2>3 DEF AloneInv, Routed
  <2>6. Off(i)'
    BY <2>1, <2>3 DEF AloneInv, Off
  <2> QED
    BY <2>4, <2>5, <2>6 DEF AloneInv
<1>2. CASE t = C(i)
  <2>1. UNCHANGED <<up, last, pc[M(i)], task[M(i)]>>
    BY <1>0, <1>2, DisconnectEffect, TwoThreads
  <2>2. /\ pc[C(i)] \in OnDisconnect /\ pc[C(i)] # "idle"
        /\ task[C(i)].op = "disconnect" /\ task[C(i)].ep \in Endpoints
        /\ last[task[C(i)].ep] = task[C(i)] /\ task[C(i)] \in Record
    BY <1>0, <1>2, DisconnectEffect DEF AloneInv, Ops, OnDisconnect
  <2>3. up[i]
    BY <1>2, TwoThreads DEF DisconnectStep, MarkOffline, FindActive, CloseRow,
       AnnounceDisconnected, At
  <2>4. last[task[C(i)].ep] # None
    BY <2>2, RecordIsTask
  <2>5. device[task[C(i)].ep] # None /\ pc[C(i)] # "offline" =>
           device[task[C(i)].ep].status = "offline"
    BY <2>2, <2>3, <2>4 DEF AloneInv, Off, OnDisconnect, InRedis
  <2>6. pc'[C(i)] \in {"idle", "active", "close", "closed"}
    BY <1>0, <1>2, DisconnectEffect, TwoThreads
  <2>7. device'[task[C(i)].ep] # None => device'[task[C(i)].ep].status = "offline"
    BY <1>0, <1>2, <2>5, DisconnectEffect
  <2>8. /\ \A f \in Endpoints \ {task[C(i)].ep} : device'[f] = device[f]
        /\ pc'[C(i)] # "idle" => task'[C(i)] = task[C(i)]
    BY <1>0, <1>2, DisconnectEffect
  <2> QED
    BY <2>1, <2>2, <2>6, <2>7, <2>8, ConsumerMoves
    DEF OnConnect, OnDisconnect, InRedis
<1> QED
  BY <1>1, <1>2, TwoThreads
LEMMA ConsumeEffect ==
    ASSUME NEW i \in Instances, NEW p \in Partitions, IInv, Consume(i, p)
    PROVE  /\ UNCHANGED <<session, log, up, device, history, row>>
           /\ pc[C(i)] = "idle" /\ up[i]
           /\ \A u \in Threads \ {C(i)} : pc'[u] = pc[u] /\ task'[u] = task[u]
           /\ pos[p] + 1 \in DOMAIN log[p]
           /\ pos' = [pos EXCEPT ![p] = @ + 1]
           /\ log[p][pos[p] + 1] \in Record
           /\ task'[C(i)] = log[p][pos[p] + 1]
           /\ last' = [last EXCEPT ![log[p][pos[p] + 1].ep] =
                                       log[p][pos[p] + 1]]
           /\ \/ task'[C(i)].op = "connect" /\ pc'[C(i)] = "set"
              \/ task'[C(i)].op = "disconnect" /\ pc'[C(i)] = "get"
<1> DEFINE rec == log[p][pos[p] + 1]
<1>1. C(i) \in Threads /\ Host(C(i)) = i
  BY DEF C, Threads, Host
<1>2. pos[p] \in Nat /\ log[p] \in Seq(Record) /\ pos[p] < Len(log[p])
  BY DEF Consume, IInv, TypeOK, KafkaOK
<1>3. pos[p] + 1 \in DOMAIN log[p] /\ rec \in Record
  BY <1>2
<1>4. pc \in [Threads -> Labels] /\ task \in [Threads -> Task \cup {None}]
  BY DEF IInv, TypeOK, ThreadsOK
<1>5. /\ up[i] /\ pc[C(i)] = "idle"
      /\ pos' = [pos EXCEPT ![p] = @ + 1]
      /\ task' = [task EXCEPT ![C(i)] = rec]
      /\ last' = [last EXCEPT ![rec.ep] = rec]
      /\ \/ rec.op = "connect" /\ pc' = [pc EXCEPT ![C(i)] = "set"]
         \/ rec.op = "disconnect" /\ pc' = [pc EXCEPT ![C(i)] = "get"]
      /\ UNCHANGED <<session, log, up, device, history, row>>
  BY <1>1 DEF Consume, C, At, Go, stores, database, process
<1> QED
  BY <1>1, <1>3, <1>4, <1>5

LEMMA ConsumeAlone ==
    ASSUME NEW i \in Instances, Alone(i), AloneInv(i), IInv,
           NEW p \in Partitions, Consume(i, p)
    PROVE  AloneInv(i)'
<1> DEFINE rec == log[p][pos[p] + 1]
<1>1. rec \in Record /\ rec.ep \in Endpoints
  BY ConsumeEffect DEF Record
<1>2. last \in [Endpoints -> Record \cup {None}]
  BY DEF IInv, TypeOK, GhostsOK
<1>3. /\ UNCHANGED <<up, device, pc[M(i)], task[M(i)]>>
      /\ pc[C(i)] = "idle" /\ task'[C(i)] = rec
      /\ \A f \in Endpoints \ {rec.ep} : last'[f] = last[f]
      /\ last'[rec.ep] = rec
      /\ \/ rec.op = "connect" /\ pc'[C(i)] = "set"
         \/ rec.op = "disconnect" /\ pc'[C(i)] = "get"
  BY <1>1, <1>2, ConsumeEffect, TwoThreads
<1>4. Ops(i)'
  BY <1>1, <1>3 DEF AloneInv, Ops, InRedis, OnConnect, OnDisconnect
<1>5. Routed(i)'
  BY <1>1, <1>3 DEF AloneInv, Routed, InRedis
<1>6. Off(i)'
  BY <1>1, <1>3 DEF AloneInv, Off, InRedis
<1> QED
  BY <1>4, <1>5, <1>6 DEF AloneInv

\* The monitor's own steps.
LEMMA SweepEffect ==
    ASSUME NEW i \in Instances, IInv, SweepStep(i)
    PROVE  /\ UNCHANGED <<session, log, pos, up, device, history, last, row>>
           /\ \A u \in Threads \ {M(i)} : pc'[u] = pc[u] /\ task'[u] = task[u]
           /\ pc[M(i)] \in {"idle", "scan", "each", "remove"}
           /\ \/ pc'[M(i)] \in {"idle", "scan", "each"}
              \/ pc'[M(i)] = "get" /\ task'[M(i)].op # "connect"
<1>1. M(i) \in Threads /\ Host(M(i)) = i
  BY DEF M, Threads, Host
<1>2. pc \in [Threads -> Labels] /\ task \in [Threads -> Task \cup {None}]
  BY DEF IInv, TypeOK, ThreadsOK
<1> USE DEF outer, kafka, process, stores, database, ghosts, local, At, Go,
            Finish
<1>3. CASE ListKeys(i)
  BY <1>1, <1>2, <1>3 DEF ListKeys, M
<1>4. CASE KeepInactive(i)
  BY <1>1, <1>2, <1>4 DEF KeepInactive, M
<1>5. CASE SweepDone(i)
  BY <1>1, <1>2, <1>5 DEF SweepDone, M
<1>6. CASE RemoveKey(<<i, "monitor">>)
  BY <1>1, <1>2, <1>6 DEF RemoveKey, M
<1>7. ASSUME NEW e \in Endpoints, ReadKey(i, e) PROVE
           /\ UNCHANGED <<session, log, pos, up, device, history, last, row>>
           /\ UNCHANGED <<pc, task>> /\ pc[M(i)] = "scan"
  BY <1>7 DEF ReadKey, M
<1>8. ASSUME NEW e \in Endpoints, CheckAgent(i, e) PROVE
           /\ UNCHANGED <<session, log, pos, up, device, history, last, row>>
           /\ \A u \in Threads \ {M(i)} : pc'[u] = pc[u] /\ task'[u] = task[u]
           /\ pc[M(i)] = "each" /\ pc'[M(i)] = "get"
           /\ task'[M(i)].op # "connect"
  BY <1>1, <1>2, <1>8 DEF CheckAgent, M
<1> QED
  BY <1>3, <1>4, <1>5, <1>6, <1>7, <1>8 DEF SweepStep

LEMMA SweepAlone ==
    ASSUME NEW i \in Instances, Alone(i), AloneInv(i), IInv, SweepStep(i)
    PROVE  AloneInv(i)'
<1>1. UNCHANGED <<up, device, last, pc[C(i)], task[C(i)]>>
  BY SweepEffect, TwoThreads
<1>2. pc'[M(i)] \notin OnConnect
  BY SweepEffect DEF OnConnect
<1>3. pc'[M(i)] \in InRedis => task'[M(i)].op # "connect"
  BY SweepEffect DEF InRedis
<1> QED
  BY <1>1, <1>2, <1>3, MonitorMoves

\* The steps that touch no goroutine and nothing in the database.
Quiet == \/ Agents
         \/ Tick
         \/ \E e \in Endpoints : Expire(e)
         \/ \E p \in Partitions : AutoCommit(p)
         \/ UNCHANGED vars

LEMMA QuietEffect ==
    ASSUME Quiet
    PROVE  /\ UNCHANGED <<up, device, history, last, pc, task, row, pos>>
           /\ Agents \/ UNCHANGED <<session, log>>
BY DEF Quiet, Agents, AgentConnect, AgentDisconnect, AgentDropped, Publish,
       Tick, Expire, AutoCommit, vars, outer, kafka, process, stores, database,
       ghosts, local

LEMMA DieEffect ==
    ASSUME NEW i \in Instances, Alone(i), IInv, Die(i)
    PROVE  /\ UNCHANGED <<session, log, device, history, last>>
           /\ ~up'[i] /\ pc'[C(i)] = "idle" /\ pc'[M(i)] = "idle"
BY TwoThreads DEF Die, stores, database, ghosts, IInv, TypeOK, ProcessOK

\* With MaxRestarts = 0 nobody kills a process or starts it again.
LEMMA NeverKilled ==
    ASSUME IInv, MaxRestarts = 0, NEW i \in Instances
    PROVE  ~Kill(i) /\ ~Restart(i)
BY DEF IInv, TypeOK, ProcessOK, Kill, Restart
\* The steps of usp-service, and of its environment, one by one.
LEMMA Cases ==
    ASSUME IInv, MaxRestarts = 0, [Next]_vars
    PROVE  \/ Quiet
           \/ \E t \in Threads :
                 \/ RedisGet(t) \/ RedisSet(t) \/ RefreshActivity(t)
                 \/ ConnectStep(t) \/ DisconnectStep(t)
           \/ \E t \in Threads : StackOverflow(t)
           \/ \E i \in Instances :
                 SweepStep(i) \/ \E p \in Partitions : Consume(i, p)
<1>1. CASE Environment
  BY <1>1, NeverKilled DEF Environment, Quiet
<1>2. ASSUME NEW i \in Instances, Consumer(i) \/ Monitor(i)
      PROVE  \/ SweepStep(i) \/ \E p \in Partitions : Consume(i, p)
             \/ \E t \in Threads : HandlerStep(t)
  BY <1>2 DEF Consumer, Monitor, Threads
<1>3. CASE UNCHANGED vars
  BY <1>3 DEF Quiet
<1> QED
  BY <1>1, <1>2, <1>3 DEF Next, HandlerStep, StoreStep

LEMMA AloneNext ==
    ASSUME NEW i \in Instances, Alone(i), AloneInv(i), IInv, [Next]_vars
    PROVE  AloneInv(i)'
<1>1. CASE Quiet
  <2>1. UNCHANGED <<up, device, last, pc, task>>
    BY <1>1, QuietEffect
  <2> QED
    BY <2>1 DEF AloneInv, Ops, Routed, Off
<1>2. ASSUME NEW t \in Threads, StackOverflow(t) PROVE AloneInv(i)'
  <2>1. /\ UNCHANGED <<device, last>>
        /\ ~up'[i] /\ pc'[C(i)] = "idle" /\ pc'[M(i)] = "idle"
    <3>1. Die(i)
      BY <1>2, TwoThreads DEF StackOverflow
    <3> QED
      BY <3>1, DieEffect
  <2> QED
    BY <2>1 DEF AloneInv, Ops, Routed, Off, InRedis, OnConnect, OnDisconnect
<1>3. ASSUME NEW j \in Instances, SweepStep(j) PROVE AloneInv(i)'
  BY <1>3, SweepAlone DEF Alone
<1>4. ASSUME NEW j \in Instances, NEW p \in Partitions, Consume(j, p)
      PROVE  AloneInv(i)'
  BY <1>4, ConsumeAlone DEF Alone
<1> QED
  BY <1>1, <1>2, <1>3, <1>4, Cases, RedisAlone, ConnectAlone, DisconnectAlone
  DEF Alone

LEMMA AloneInvariant ==
    ASSUME NEW i \in Instances, Alone(i)
    PROVE  Spec => []AloneInv(i)
<1>1. Init => AloneInv(i)
  <2> SUFFICES ASSUME Init PROVE AloneInv(i)
    OBVIOUS
  <2> QED
    BY TwoThreads DEF Init, Nobody, AloneInv, Ops, Routed, Off, InRedis,
                      OnConnect, OnDisconnect
<1>2. AloneInv(i) /\ IInv /\ [Next]_vars => AloneInv(i)'
  BY AloneNext
<1> QED
  BY <1>1, <1>2, Inductive, PTL DEF Spec

\* With one process and a database that answers, the devices row of an agent
\* whose Connect has been handled routes to that Connect's MTP, whatever Redis
\* answers and the monitor does, and however many partitions there are.
THEOREM RouteIsLast ==
    ASSUME NEW i \in Instances, Alone(i)
    PROVE  Spec => []RouteFollowsConnect
<1>1. AloneInv(i) /\ IInv => RouteFollowsConnect
  <2> SUFFICES ASSUME AloneInv(i), IInv, NEW e \in Endpoints, last[e] # None,
                      Settled(e), last[e].op = "connect"
               PROVE  device[e] # None /\ device[e].mtp = last[e].mtp
    BY DEF RouteFollowsConnect
  <2>1. up[i] /\ (task[C(i)] # None => task[C(i)].ep # e)
    BY DEF Settled, C
  <2>2. pc[C(i)] # "idle" => task[C(i)] # None
    BY RecordIsTask DEF AloneInv, Ops
  <2> QED
    BY <2>1, <2>2 DEF AloneInv, Routed, InRedis
<1> QED
  BY <1>1, AloneInvariant, Inductive, PTL

(***************************************************************************)
(* Rows.                                                                   *)
(***************************************************************************)
\* The consumer stands still, and no row is opened.
LEMMA RowsShrink ==
    ASSUME NEW i \in Instances, Rows(i),
           UNCHANGED <<up, last, pc[C(i)], task[C(i)], row[C(i)]>>,
           \A e \in Endpoints : OpenRows(e)' \subseteq OpenRows(e)
    PROVE  Rows(i)'
BY DEF Rows

\* Closing a row opens none.
LEMMA CloseShrinks ==
    ASSUME IInv, NEW n \in Nat,
           history' = [history EXCEPT ![n].open = FALSE] \/ UNCHANGED history
    PROVE  /\ \A e \in Endpoints : OpenRows(e)' \subseteq OpenRows(e)
           /\ history' = [history EXCEPT ![n].open = FALSE] =>
                 \A e \in Endpoints : n \notin OpenRows(e)'
<1>1. history \in Seq(Row)
  BY DEF IInv, TypeOK, StoresOK
<1>2. UNCHANGED history => \A e \in Endpoints : OpenRows(e)' \subseteq OpenRows(e)
  BY DEF OpenRows
<1>3. CASE history' = [history EXCEPT ![n].open = FALSE]
  <2>1. /\ DOMAIN history' = DOMAIN history
        /\ \A k \in DOMAIN history : k # n => history'[k] = history[k]
    BY <1>1, <1>3
  <2>2. \A k \in DOMAIN history : k = n => ~history'[k].open
    <3> SUFFICES ASSUME n \in DOMAIN history PROVE ~history'[n].open
      OBVIOUS
    <3>1. /\ history[n] \in Row
          /\ history'[n] = [history[n] EXCEPT !.open = FALSE]
      BY <1>1, <1>3
    <3> QED
      BY <3>1 DEF Row
  <2> QED
    BY <2>1, <2>2 DEF OpenRows
<1> QED
  BY <1>2, <1>3

\* A new row is the only one of its agent that is open, if none was.
LEMMA OpenOne ==
    ASSUME IInv, NEW r \in Row, NEW e \in Endpoints, r.ep = e,
           history' = Append(history, r), OpenRows(e) = {}
    PROVE  /\ \A m, n \in OpenRows(e)' : m = n
           /\ \A f \in Endpoints \ {e} : OpenRows(f)' \subseteq OpenRows(f)
<1>1. history \in Seq(Row)
  BY DEF IInv, TypeOK, StoresOK
<1>2. /\ DOMAIN history' = DOMAIN history \cup {Len(history) + 1}
      /\ \A k \in DOMAIN history : history'[k] = history[k]
      /\ history'[Len(history) + 1] = r
  BY <1>1
<1>3. OpenRows(e)' \subseteq {Len(history) + 1}
  BY <1>2 DEF OpenRows
<1>4. \A f \in Endpoints \ {e} : OpenRows(f)' \subseteq OpenRows(f)
  BY <1>2 DEF OpenRows
<1> QED
  BY <1>3, <1>4

\* The consumer takes a step with its record.
LEMMA RowsStep ==
    ASSUME NEW i \in Instances, AloneInv(i), Rows(i), up[i],
           UNCHANGED <<up, last>>,
           pc[C(i)] # "idle", pc'[C(i)] # "idle" => task'[C(i)] = task[C(i)],
           NEW e \in Endpoints, e = task[C(i)].ep,
           \A f \in Endpoints \ {e} : OpenRows(f)' \subseteq OpenRows(f),
           \A m, n \in OpenRows(e)' : m = n,
           task[C(i)].op = "connect" /\ pc'[C(i)] \notin {"idle", "established"}
              => OpenRows(e)' = {},
           pc'[C(i)] = "close" => OpenRows(e)' \subseteq {row'[C(i)]},
           pc'[C(i)] = "closed" => OpenRows(e)' = {},
           task[C(i)].op = "disconnect" /\ pc'[C(i)] = "idle"
              => OpenRows(e)' = {}
    PROVE  Rows(i)'
<1>1. last[e] = task[C(i)] /\ task[C(i)] \in Record
  BY DEF AloneInv, Ops
<1>2. last[e] # None /\ last[e].op \in {"connect", "disconnect"}
  BY <1>1, RecordIsTask DEF Record
<1>3. ASSUME NEW f \in Endpoints \ {e} PROVE
        /\ \A m, n \in OpenRows(f)' : m = n
        /\ last'[f] = None \/ last'[f].op = "disconnect" => OpenRows(f)' = {}
  BY <1>3 DEF Rows
<1> QED
  BY <1>1, <1>2, <1>3 DEF Rows
LEMMA ConnectRows ==
    ASSUME NEW i \in Instances, Alone(i), AloneInv(i), Rows(i), IInv,
           NEW t \in Threads, ConnectStep(t)
    PROVE  Rows(i)'
<1>0. DBMode = "up"
  BY DEF Alone
<1>1. t = C(i)
  BY <1>0, ConnectEffect, TwoThreads DEF AloneInv, Ops
<1>2. /\ pc[C(i)] \in OnConnect /\ pc[C(i)] # "idle"
      /\ task[C(i)] \in Record /\ task[C(i)].op = "connect"
  BY <1>0, <1>1, ConnectEffect DEF AloneInv, Ops, OnConnect
<1>3. task[C(i)].ep \in Endpoints /\ task[C(i)].mtp \in Protocols
  BY <1>2 DEF Record
<1> PICK e \in Endpoints : e = task[C(i)].ep
  BY <1>3
<1>4. up[i]
  BY <1>1, TwoThreads DEF ConnectStep, Lookup, CreateDevice, MarkOnline,
     UpdateRoute, RecordConnection, AnnounceConnected, At
<1>5. /\ \A m, n \in OpenRows(e) : m = n
      /\ pc[C(i)] # "established" => OpenRows(e) = {}
  BY <1>2, <1>3, <1>4 DEF Rows
<1>6. /\ UNCHANGED <<up, last>>
      /\ pc'[C(i)] # "idle" => task'[C(i)] = task[C(i)]
      /\ pc'[C(i)] \notin {"close", "closed"}
  BY <1>0, <1>1, ConnectEffect
<1>7. CASE UNCHANGED history
  <2>1. \A f \in Endpoints : OpenRows(f)' = OpenRows(f)
    BY <1>7 DEF OpenRows
  <2>2. pc[C(i)] = "established" => pc'[C(i)] = "idle"
    BY <1>0, <1>1, ConnectEffect
  <2> QED
    BY <1>2, <1>3, <1>4, <1>5, <1>6, <2>1, <2>2, RowsStep
<1>8. CASE /\ pc[C(i)] = "history" /\ pc'[C(i)] = "established"
           /\ history' = Append(history, [ep |-> e, mtp |-> task[C(i)].mtp,
                                          open |-> TRUE])
  <2> DEFINE r == [ep |-> e, mtp |-> task[C(i)].mtp, open |-> TRUE]
  <2>1. r \in Row /\ r.ep = e /\ history' = Append(history, r)
    BY <1>3, <1>8 DEF Row
  <2> HIDE DEF r
  <2>2. OpenRows(e) = {}
    BY <1>5, <1>8
  <2>3. /\ \A m, n \in OpenRows(e)' : m = n
        /\ \A f \in Endpoints \ {e} : OpenRows(f)' \subseteq OpenRows(f)
    BY <2>1, <2>2, OpenOne
  <2> QED
    BY <1>2, <1>3, <1>4, <1>6, <1>8, <2>3, RowsStep
<1> QED
  BY <1>0, <1>1, <1>7, <1>8, ConnectEffect

LEMMA DisconnectRows ==
    ASSUME NEW i \in Instances, Alone(i), AloneInv(i), Rows(i), IInv,
           NEW t \in Threads, DisconnectStep(t)
    PROVE  Rows(i)'
<1>0. DBMode = "up"
  BY DEF Alone
<1>1. row[t] \in Nat
  BY DEF IInv, TypeOK, ThreadsOK
<1>2. history' = [history EXCEPT ![row[t]].open = FALSE] \/ UNCHANGED history
  BY <1>0, DisconnectEffect
<1>3. \A f \in Endpoints : OpenRows(f)' \subseteq OpenRows(f)
  BY <1>1, <1>2, CloseShrinks
<1>4. CASE t = M(i)
  <2>1. UNCHANGED <<up, last, pc[C(i)], task[C(i)], row[C(i)]>>
    BY <1>0, <1>4, DisconnectEffect, TwoThreads
  <2> QED
    BY <1>3, <2>1, RowsShrink
<1>5. CASE t = C(i)
  <2> PICK e \in Endpoints : e = task[C(i)].ep
    BY <1>0, <1>5, DisconnectEffect
  <2>1. /\ UNCHANGED <<up, last>> /\ pc[C(i)] # "idle"
        /\ pc'[C(i)] # "idle" => task'[C(i)] = task[C(i)]
        /\ task[C(i)].op = "disconnect"
    BY <1>0, <1>5, DisconnectEffect DEF OnDisconnect, AloneInv, Ops
  <2>2. up[i]
    BY <1>5, TwoThreads DEF DisconnectStep, MarkOffline, FindActive, CloseRow,
       AnnounceDisconnected, At
  <2>3. /\ \A m, n \in OpenRows(e) : m = n
        /\ pc[C(i)] = "close" => OpenRows(e) \subseteq {row[C(i)]}
        /\ pc[C(i)] = "closed" => OpenRows(e) = {}
    BY <2>1, <2>2 DEF Rows
  <2>4. CASE pc[C(i)] = "offline" /\ pc'[C(i)] = "active"
    BY <1>3, <2>1, <2>2, <2>3, <2>4, RowsStep
  <2>5. CASE /\ pc[C(i)] = "active" /\ pc'[C(i)] = "close"
             /\ row'[C(i)] \in OpenRows(e) /\ UNCHANGED history
    <3>1. OpenRows(e)' \subseteq {row'[C(i)]}
      BY <1>3, <2>1, <2>3, <2>5
    <3> QED
      BY <1>3, <2>1, <2>2, <2>3, <2>5, <3>1, RowsStep
  <2>6. CASE /\ pc[C(i)] = "active" /\ pc'[C(i)] = "closed"
             /\ OpenRows(e) = {}
    <3>1. OpenRows(e)' = {}
      BY <1>3, <2>1, <2>6
    <3> QED
      BY <1>3, <2>1, <2>2, <2>6, <3>1, RowsStep
  <2>7. CASE /\ pc[C(i)] = "close" /\ pc'[C(i)] = "closed"
             /\ history' = [history EXCEPT ![row[C(i)]].open = FALSE]
    <3>1. row[C(i)] \notin OpenRows(e)'
      BY <1>1, <1>5, <2>1, <2>7, CloseShrinks
    <3>2. OpenRows(e)' = {}
      BY <1>3, <2>1, <2>3, <2>7, <3>1
    <3> QED
      BY <1>3, <2>1, <2>2, <2>7, <3>2, RowsStep
  <2>8. CASE pc[C(i)] = "closed" /\ pc'[C(i)] = "idle"
    <3>1. OpenRows(e)' = {}
      BY <1>3, <2>1, <2>3, <2>8
    <3> QED
      BY <1>3, <2>1, <2>2, <2>8, <3>1, RowsStep
  <2> QED
    BY <1>0, <1>5, <2>4, <2>5, <2>6, <2>7, <2>8, DisconnectEffect, TwoThreads
<1> QED
  BY <1>4, <1>5, TwoThreads

LEMMA RedisRows ==
    ASSUME NEW i \in Instances, Alone(i), AloneInv(i), Rows(i), IInv,
           NEW t \in Threads,
           RedisGet(t) \/ RedisSet(t) \/ RefreshActivity(t)
    PROVE  Rows(i)'
<1>1. \A f \in Endpoints : OpenRows(f)' = OpenRows(f)
  BY RedisEffect DEF OpenRows
<1>2. CASE t = M(i)
  <2>1. UNCHANGED <<up, last, pc[C(i)], task[C(i)], row[C(i)]>>
    BY <1>2, RedisEffect, TwoThreads
  <2> QED
    BY <1>1, <2>1, RowsShrink
<1>3. CASE t = C(i)
  <2>1. /\ UNCHANGED <<up, last>> /\ pc[C(i)] \in InRedis
        /\ pc[C(i)] # "idle" /\ task[C(i)] \in Record
    BY <1>3, RedisEffect DEF AloneInv, Ops, InRedis
  <2>2. /\ task[C(i)].ep \in Endpoints
        /\ task[C(i)].op \in {"connect", "disconnect"}
    BY <2>1 DEF Record
  <2>3. /\ task'[C(i)] = task[C(i)]
        /\ pc'[C(i)] \in {"set", "activity", "lookup", "offline"}
    BY <1>3, <2>2, RedisEffect
  <2>4. up[i]
    BY <1>3, TwoThreads DEF RedisGet, RedisSet, RefreshActivity, At
  <2>5. /\ \A m, n \in OpenRows(task[C(i)].ep) : m = n
        /\ task[C(i)].op = "connect" => OpenRows(task[C(i)].ep) = {}
    BY <2>1, <2>2, <2>4 DEF Rows, InRedis
  <2> QED
    BY <1>1, <2>1, <2>2, <2>3, <2>4, <2>5, RowsStep
<1> QED
  BY <1>2, <1>3, TwoThreads
LEMMA ConsumeRows ==
    ASSUME NEW i \in Instances, NEW p \in Partitions, Alone(i), Rows(i),
           Order(i, p), IInv, Consume(i, p)
    PROVE  Rows(i)'
<1> DEFINE k0 == pos[p] + 1
           rec == log[p][k0]
<1>1. rec \in Record /\ rec.ep \in Endpoints /\ k0 \in DOMAIN log[p]
  BY ConsumeEffect DEF Record
<1>2. last \in [Endpoints -> Record \cup {None}] /\ pos[p] \in Nat
  BY DEF IInv, TypeOK, GhostsOK, KafkaOK
<1>3. /\ UNCHANGED up /\ up[i]
      /\ pc[C(i)] = "idle" /\ task'[C(i)] = rec
      /\ \A f \in Endpoints \ {rec.ep} : last'[f] = last[f]
      /\ pc'[C(i)] \in {"set", "get"}
  BY <1>1, <1>2, ConsumeEffect, TwoThreads
<1>4. \A f \in Endpoints : OpenRows(f)' = OpenRows(f)
  BY ConsumeEffect DEF OpenRows
<1>5. ASSUME rec.op = "connect", last[rec.ep] # None,
             last[rec.ep].op # "disconnect"
      PROVE  FALSE
  <2>1. last[rec.ep].op = "connect"
    BY <1>1, <1>2, <1>5 DEF Record
  <2>2. PICK k \in DOMAIN log[p] :
           /\ k <= pos[p] /\ log[p][k] = last[rec.ep] /\ last[rec.ep].ep = rec.ep
           /\ \A m \in DOMAIN log[p] :
                 k < m /\ m <= pos[p] => log[p][m].ep # rec.ep
    BY <1>1, <1>3, <1>5 DEF Order
  <2>3. k < k0 /\ IsConnect(p, rec.ep, k) /\ IsConnect(p, rec.ep, k0)
    <3>1. k \in Nat
      BY DEF IInv, TypeOK, KafkaOK
    <3> QED
      BY <1>2, <1>5, <2>1, <2>2, <3>1 DEF IsConnect
  <2>4. PICK m \in DOMAIN log[p] :
           k < m /\ m < k0 /\ IsDisconnect(p, rec.ep, m)
    BY <1>1, <2>3 DEF Order
  <2>5. m <= pos[p]
    BY <1>2, <2>4 DEF IInv, TypeOK, KafkaOK
  <2> QED
    BY <2>2, <2>4, <2>5 DEF IsDisconnect
<1>6. rec.op = "connect" => OpenRows(rec.ep) = {}
  BY <1>1, <1>3, <1>5 DEF Rows
<1> QED
  BY <1>1, <1>3, <1>4, <1>6 DEF Rows

(***************************************************************************)
(* Order.                                                                  *)
(***************************************************************************)
LEMMA ConsumeOrder ==
    ASSUME NEW i \in Instances, NEW p \in Partitions, Alone(i), Order(i, p),
           IInv, Consume(i, p)
    PROVE  Order(i, p)'
<1> DEFINE rec == log[p][pos[p] + 1]
<1>1. rec \in Record /\ rec.ep \in Endpoints /\ pos[p] + 1 \in DOMAIN log[p]
  BY ConsumeEffect DEF Record
<1>2. last \in [Endpoints -> Record \cup {None}] /\ pos \in [Partitions -> Nat]
  BY DEF IInv, TypeOK, GhostsOK, KafkaOK
<1>3. /\ UNCHANGED <<session, log, up>> /\ up[i]
      /\ pos'[p] = pos[p] + 1
      /\ \A f \in Endpoints \ {rec.ep} : last'[f] = last[f]
      /\ last'[rec.ep] = rec
  BY <1>1, <1>2, ConsumeEffect
<1>4. ASSUME NEW e \in Endpoints, last'[e] # None PROVE
              \E k \in DOMAIN log[p] :
                 /\ k <= pos'[p] /\ log[p][k] = last'[e] /\ last'[e].ep = e
                 /\ \A m \in DOMAIN log[p] :
                       k < m /\ m <= pos'[p] => log[p][m].ep # e
  <2>0. \A m \in DOMAIN log[p] : m \in Nat
    BY DEF IInv, TypeOK, KafkaOK
  <2>1. CASE e = rec.ep
    BY <1>1, <1>2, <1>3, <2>0, <2>1
  <2>2. CASE e # rec.ep
    <3>1. PICK k \in DOMAIN log[p] :
                 /\ k <= pos[p] /\ log[p][k] = last[e] /\ last[e].ep = e
                 /\ \A m \in DOMAIN log[p] :
                       k < m /\ m <= pos[p] => log[p][m].ep # e
      BY <1>3, <1>4, <2>2 DEF Order
    <3>2. \A m \in DOMAIN log[p] : m <= pos'[p] => m <= pos[p] \/ m = pos[p] + 1
      BY <1>2, <1>3, <2>0
    <3> QED
      BY <1>2, <1>3, <2>0, <2>2, <3>1, <3>2
  <2> QED
    BY <2>1, <2>2
<1> QED
  BY <1>3, <1>4 DEF Order, IsConnect, IsDisconnect

\* An agent publishes a Connect when it has no session, and a Disconnect when
\* it has one.
LEMMA PublishOrder ==
    ASSUME NEW i \in Instances, NEW p \in Partitions, Partitions = {p},
           Order(i, p), IInv, UNCHANGED <<up, last, pos>>,
           NEW rec \in Record,
           log' = [log EXCEPT ![p] = Append(@, rec)],
           rec.op = "connect" => session[rec.ep] = None,
           \A e \in Endpoints \ {rec.ep} : session'[e] = session[e],
           session'[rec.ep] = None => rec.op = "disconnect"
    PROVE  Order(i, p)'
<1> DEFINE n == Len(log[p]) + 1
<1>1. log[p] \in Seq(Record) /\ pos[p] \in Nat /\ pos[p] <= Len(log[p])
      /\ log \in [Partitions -> Seq(Record)]
  BY DEF IInv, TypeOK, KafkaOK
<1>2. /\ DOMAIN log'[p] = DOMAIN log[p] \cup {n}
      /\ \A k \in DOMAIN log[p] : log'[p][k] = log[p][k] /\ k < n /\ k \in Nat
      /\ log'[p][n] = rec /\ n \in Nat /\ pos[p] < n
  BY <1>1
<1> HIDE DEF n
<1>3. ASSUME NEW e \in Endpoints PROVE
        \A k, l \in DOMAIN log'[p] :
              k < l /\ IsConnect(p, e, k)' /\ IsConnect(p, e, l)' =>
              \E m \in DOMAIN log'[p] : k < m /\ m < l /\ IsDisconnect(p, e, m)'
  <2> SUFFICES ASSUME NEW k \in DOMAIN log'[p], NEW l \in DOMAIN log'[p],
                      k < l, IsConnect(p, e, k)', IsConnect(p, e, l)'
               PROVE  \E m \in DOMAIN log'[p] :
                         k < m /\ m < l /\ IsDisconnect(p, e, m)'
    OBVIOUS
  <2>1. k \in DOMAIN log[p] /\ IsConnect(p, e, k)
    BY <1>2 DEF IsConnect
  <2>2. CASE l \in DOMAIN log[p]
    BY <1>2, <2>1, <2>2 DEF Order, IsConnect, IsDisconnect
  <2>3. CASE l = n
    <3>1. session[e] = None
      BY <1>2, <2>3 DEF IsConnect
    <3> QED
      BY <1>2, <2>1, <2>3, <3>1 DEF Order, IsDisconnect
  <2> QED
    BY <1>2, <2>2, <2>3
<1>4. ASSUME NEW e \in Endpoints PROVE
        \A k \in DOMAIN log'[p] :
              session'[e] = None /\ IsConnect(p, e, k)' =>
              \E m \in DOMAIN log'[p] : k < m /\ IsDisconnect(p, e, m)'
  <2> SUFFICES ASSUME NEW k \in DOMAIN log'[p],
                      session'[e] = None, IsConnect(p, e, k)'
               PROVE  \E m \in DOMAIN log'[p] : k < m /\ IsDisconnect(p, e, m)'
    OBVIOUS
  <2>1. CASE e = rec.ep
    <3>1. rec.op = "disconnect"
      BY <2>1
    <3>2. k # n
      BY <1>2, <3>1 DEF IsConnect
    <3> QED
      BY <1>2, <2>1, <3>1, <3>2 DEF IsDisconnect
  <2>2. CASE e # rec.ep
    <3>1. session[e] = None /\ k # n
      BY <1>2, <2>2 DEF IsConnect
    <3> QED
      BY <1>2, <3>1 DEF Order, IsConnect, IsDisconnect
  <2> QED
    BY <2>1, <2>2
<1>5. ASSUME NEW e \in Endpoints, up[i], last[e] # None PROVE
              \E k \in DOMAIN log'[p] :
                 /\ k <= pos[p] /\ log'[p][k] = last[e] /\ last[e].ep = e
                 /\ \A m \in DOMAIN log'[p] :
                       k < m /\ m <= pos[p] => log'[p][m].ep # e
  <2>1. PICK k \in DOMAIN log[p] :
                 /\ k <= pos[p] /\ log[p][k] = last[e] /\ last[e].ep = e
                 /\ \A m \in DOMAIN log[p] :
                       k < m /\ m <= pos[p] => log[p][m].ep # e
    BY <1>5 DEF Order
  <2>2. \A m \in DOMAIN log'[p] : m <= pos[p] => m \in DOMAIN log[p]
    BY <1>1, <1>2
  <2> QED
    BY <1>2, <2>1, <2>2
<1> QED
  BY <1>3, <1>4, <1>5 DEF Order
LEMMA AgentsOrder ==
    ASSUME NEW i \in Instances, NEW p \in Partitions, Orderly(i, p),
           Order(i, p), IInv, Agents
    PROVE  Order(i, p)'
<1>1. Partitions = {p} /\ ~Drops
  BY DEF Orderly
<1>2. session \in [Endpoints -> Protocols \cup {None}]
  BY DEF IInv, TypeOK, GhostsOK
<1>3. UNCHANGED <<up, last, pos>>
  BY QuietEffect DEF Quiet
<1>4. ASSUME NEW e \in Endpoints, NEW m \in Protocols, AgentConnect(e, m)
      PROVE  Order(i, p)'
  <2> DEFINE rec == [op |-> "connect", ep |-> e, mtp |-> m]
  <2>1. rec \in Record /\ rec.op = "connect" /\ rec.ep = e
    BY DEF Record
  <2>2. log' = [log EXCEPT ![p] = Append(@, rec)]
    BY <1>1, <1>4 DEF AgentConnect, Publish
  <2>3. /\ session[e] = None /\ session'[e] # None
        /\ \A f \in Endpoints \ {e} : session'[f] = session[f]
    BY <1>2, <1>4, NoneAssumption DEF AgentConnect
  <2> HIDE DEF rec
  <2> QED
    BY <1>1, <1>3, <2>1, <2>2, <2>3, PublishOrder
<1>5. ASSUME NEW e \in Endpoints, AgentDisconnect(e) PROVE Order(i, p)'
  <2> DEFINE rec == [op |-> "disconnect", ep |-> e, mtp |-> session[e]]
  <2>1. rec \in Record /\ rec.op = "disconnect" /\ rec.ep = e
    BY <1>2, <1>5 DEF Record, AgentDisconnect
  <2>2. log' = [log EXCEPT ![p] = Append(@, rec)]
    BY <1>1, <1>5 DEF AgentDisconnect, Publish
  <2>3. \A f \in Endpoints \ {e} : session'[f] = session[f]
    BY <1>2, <1>5 DEF AgentDisconnect
  <2> HIDE DEF rec
  <2> QED
    BY <1>1, <1>3, <2>1, <2>2, <2>3, PublishOrder
<1> QED
  BY <1>1, <1>4, <1>5 DEF Agents, AgentDropped

\* A step that publishes and reads nothing.
LEMMA SameOrder ==
    ASSUME NEW i \in Instances, NEW p \in Partitions, Order(i, p),
           UNCHANGED <<session, log, last>>,
           ~up'[i] \/ UNCHANGED <<up, pos>>
    PROVE  Order(i, p)'
BY DEF Order, IsConnect, IsDisconnect

LEMMA OrderlyNext ==
    ASSUME NEW i \in Instances, NEW p \in Partitions, Orderly(i, p),
           OrderlyInv(i, p), IInv, [Next]_vars
    PROVE  OrderlyInv(i, p)'
<1> USE DEF OrderlyInv
<1>0. Alone(i) /\ Instances = {i} /\ Partitions = {p} /\ DBMode = "up"
      /\ MaxRestarts = 0
  BY DEF Orderly, Alone
<1>1. AloneInv(i)'
  BY <1>0, AloneNext
<1>2. CASE Quiet
  <2>1. UNCHANGED <<up, history, last, pc, task, row, pos>>
    BY <1>2, QuietEffect
  <2>2. Rows(i)'
    BY <2>1, RowsShrink DEF OpenRows
  <2>3. Order(i, p)'
    <3>1. CASE Agents
      BY <3>1, AgentsOrder
    <3>2. CASE UNCHANGED <<session, log>>
      BY <2>1, <3>2, SameOrder
    <3> QED
      BY <1>2, <3>1, <3>2, QuietEffect
  <2> QED
    BY <1>1, <2>2, <2>3
<1>3. ASSUME NEW t \in Threads,
             RedisGet(t) \/ RedisSet(t) \/ RefreshActivity(t)
      PROVE  OrderlyInv(i, p)'
  BY <1>0, <1>1, <1>3, RedisRows, RedisEffect, SameOrder
<1>4. ASSUME NEW t \in Threads, ConnectStep(t) PROVE OrderlyInv(i, p)'
  BY <1>0, <1>1, <1>4, ConnectRows, ConnectEffect, SameOrder
<1>5. ASSUME NEW t \in Threads, DisconnectStep(t) PROVE OrderlyInv(i, p)'
  BY <1>0, <1>1, <1>5, DisconnectRows, DisconnectEffect, SameOrder
<1>6. ASSUME NEW t \in Threads, StackOverflow(t) PROVE OrderlyInv(i, p)'
  <2>1. Die(i)
    BY <1>0, <1>6, TwoThreads DEF StackOverflow
  <2>2. /\ UNCHANGED <<session, log, device, history, last>>
        /\ ~up'[i] /\ pc'[C(i)] = "idle"
    BY <1>0, <2>1, DieEffect
  <2>3. Rows(i)'
    BY <2>2 DEF Rows, OpenRows
  <2> QED
    BY <1>1, <2>2, <2>3, SameOrder
<1>7. ASSUME SweepStep(i) PROVE OrderlyInv(i, p)'
  <2>1. /\ UNCHANGED <<session, log, pos, up, history, last, row>>
        /\ UNCHANGED <<pc[C(i)], task[C(i)]>>
    BY <1>0, <1>7, SweepEffect, TwoThreads
  <2>2. Rows(i)'
    BY <2>1, RowsShrink DEF OpenRows
  <2> QED
    BY <1>1, <2>1, <2>2, SameOrder
<1>8. ASSUME Consume(i, p) PROVE OrderlyInv(i, p)'
  BY <1>0, <1>1, <1>8, ConsumeRows, ConsumeOrder
<1> QED
  BY <1>0, <1>2, <1>3, <1>4, <1>5, <1>6, <1>7, <1>8, Cases

LEMMA OrderlyInvariant ==
    ASSUME NEW i \in Instances, NEW p \in Partitions, Orderly(i, p)
    PROVE  Spec => []OrderlyInv(i, p)
<1>1. Init => OrderlyInv(i, p)
  BY InitState DEF Orderly
<1>2. OrderlyInv(i, p) /\ IInv /\ [Next]_vars => OrderlyInv(i, p)'
  BY OrderlyNext
<1> QED
  BY <1>1, <1>2, Inductive, PTL DEF Spec

\* With one process and one partition, and agents that announce every
\* disconnect, an agent never has two open rows in connection_histories,
\* whatever Redis answers and however the monitor, which closes rows too,
\* interleaves with the consumer.
THEOREM OneRow ==
    ASSUME NEW i \in Instances, NEW p \in Partitions, Orderly(i, p)
    PROVE  Spec => []OneOpenRow
<1>1. OrderlyInv(i, p) => OneOpenRow
  <2> SUFFICES ASSUME OrderlyInv(i, p), NEW e \in Endpoints
               PROVE  Cardinality(OpenRows(e)) <= 1
    BY DEF OneOpenRow
  <2>1. \A m, n \in OpenRows(e) : m = n
    BY DEF OrderlyInv, Rows
  <2>2. CASE OpenRows(e) = {}
    BY <2>2, FS_EmptySet
  <2>3. ASSUME NEW n \in OpenRows(e) PROVE Cardinality(OpenRows(e)) <= 1
    <3>1. OpenRows(e) = {n}
      BY <2>1, <2>3
    <3>2. Cardinality({n}) = 1
      BY FS_Singleton
    <3> QED
      BY <3>1, <3>2
  <2> QED
    BY <2>2, <2>3
<1> QED
  BY <1>1, OrderlyInvariant, PTL

\* Under the same conditions, once a Disconnect is handled its agent is
\* offline in the database and has no open row.
THEOREM OfflineWhenGone ==
    ASSUME NEW i \in Instances, NEW p \in Partitions, Orderly(i, p)
    PROVE  Spec => []GoneIsOffline
<1>1. OrderlyInv(i, p) => GoneIsOffline
  <2> SUFFICES ASSUME OrderlyInv(i, p), NEW e \in Endpoints, last[e] # None,
                      Settled(e), last[e].op = "disconnect", device[e] # None
               PROVE  device[e].status = "offline" /\ OpenRows(e) = {}
    BY DEF GoneIsOffline
  <2>1. up[i] /\ (task[C(i)] # None => task[C(i)].ep # e)
    BY DEF Settled, C
  <2>2. pc[C(i)] # "idle" => task[C(i)] # None
    BY RecordIsTask DEF OrderlyInv, AloneInv, Ops
  <2>3. device[e].status = "offline"
    BY <2>1, <2>2 DEF OrderlyInv, AloneInv, Off, InRedis
  <2>4. OpenRows(e) = {}
    BY <2>1, <2>2 DEF OrderlyInv, Rows
  <2> QED
    BY <2>3, <2>4
<1> QED
  BY <1>1, OrderlyInvariant, PTL
(***************************************************************************)
(* Without Redis.                                                          *)
(***************************************************************************)
LEMMA NoOverflow ==
    ASSUME Degraded, NEW t \in Threads
    PROVE  ~StackOverflow(t)
BY DEF Degraded, StackOverflow, RedisAnswers

\* The two halves of AuditTrail.
Registering ==
    \A e \in Endpoints :
        last[e] # None /\ last[e].op = "connect" =>
            device[e] # None \/ DueToRegister(e)
Recorded ==
    \A e \in Endpoints :
        device[e] # None => \/ \E n \in DOMAIN history : history[n].ep = e
                           \/ DueToRecord(e)

\* A step that registers nobody, deletes no row, and lets whoever is about to
\* record a connection do so.
LEMMA AuditStep ==
    ASSUME Recorded,
           \A e \in Endpoints : device'[e] # None => device[e] # None,
           \A n \in DOMAIN history :
               n \in DOMAIN history' /\ history'[n].ep = history[n].ep,
           \A t \in Threads :
               pc[t] = "history" => pc'[t] = "history" /\ task'[t] = task[t]
    PROVE  Recorded'
BY DEF Recorded, DueToRecord

LEMMA ConnectAudit ==
    ASSUME Recorded, DBMode = "up", IInv, NEW t \in Threads, ConnectStep(t)
    PROVE  Recorded'
<1>1. task[t].ep \in Endpoints
  <2>1. pc[t] \in Busy
    BY ConnectEffect DEF OnConnect, Busy, Labels
  <2> QED
    BY <2>1, BusyTask
<1>2. history \in Seq(Row)
  BY DEF IInv, TypeOK, StoresOK
<1>3. \A u \in Threads \ {t} : pc'[u] = pc[u] /\ task'[u] = task[u]
  BY ConnectEffect
<1>4. \A f \in Endpoints \ {task[t].ep} : device'[f] = device[f]
  BY ConnectEffect
<1>5. CASE pc'[t] = "history"
  <2>1. task'[t] = task[t] /\ UNCHANGED history
    BY <1>5, ConnectEffect
  <2>2. pc[t] # "history"
    BY <1>5, ConnectEffect
  <2> QED
    BY <1>1, <1>3, <1>4, <1>5, <2>1, <2>2 DEF Recorded, DueToRecord
<1>6. CASE /\ pc[t] = "history" /\ pc'[t] = "established"
           /\ history' = Append(history, [ep |-> task[t].ep,
                             mtp |-> task[t].mtp, open |-> TRUE])
           /\ UNCHANGED device
  <2>1. /\ \A n \in DOMAIN history :
              n \in DOMAIN history' /\ history'[n].ep = history[n].ep
        /\ Len(history) + 1 \in DOMAIN history'
        /\ history'[Len(history) + 1].ep = task[t].ep
    BY <1>2, <1>6
  <2> QED
    BY <1>3, <1>6, <2>1 DEF Recorded, DueToRecord
<1>7. CASE pc[t] # "history" /\ pc'[t] # "history"
  <2>1. UNCHANGED history
    BY <1>7, ConnectEffect
  <2>2. device'[task[t].ep] # None => device[task[t].ep] # None
    <3>1. pc[t] \in PastLookup => device[task[t].ep] # None
      BY DEF IInv, ControlOK, Control
    <3> QED
      BY <1>7, <3>1, ConnectEffect DEF PastLookup
  <2> QED
    BY <1>3, <1>4, <1>7, <2>1, <2>2, AuditStep
<1> QED
  BY <1>5, <1>6, <1>7, ConnectEffect

LEMMA AuditNext ==
    ASSUME Degraded, Recorded, IInv, [Next]_vars
    PROVE  Recorded'
<1>1. DBMode = "up" /\ MaxRestarts = 0
  BY DEF Degraded
<1>2. history \in Seq(Row) /\ row \in [Threads -> Nat]
  BY DEF IInv, TypeOK, StoresOK, ThreadsOK
<1>3. CASE Quiet
  <2>1. UNCHANGED <<device, history, pc, task>>
    BY <1>3, QuietEffect
  <2> QED
    BY <2>1, AuditStep
<1>4. ASSUME NEW t \in Threads,
             RedisGet(t) \/ RedisSet(t) \/ RefreshActivity(t)
      PROVE  Recorded'
  <2>1. /\ UNCHANGED <<device, history>> /\ pc[t] # "history"
        /\ \A u \in Threads \ {t} : pc'[u] = pc[u] /\ task'[u] = task[u]
    BY <1>4, RedisEffect DEF InRedis
  <2> QED
    BY <2>1, AuditStep
<1>5. ASSUME NEW t \in Threads, DisconnectStep(t) PROVE Recorded'
  <2>1. /\ pc[t] # "history"
        /\ \A u \in Threads \ {t} : pc'[u] = pc[u] /\ task'[u] = task[u]
        /\ \A e \in Endpoints : device'[e] # None => device[e] # None
    BY <1>1, <1>5, DisconnectEffect DEF OnDisconnect
  <2>2. \A n \in DOMAIN history :
            n \in DOMAIN history' /\ history'[n].ep = history[n].ep
    <3>1. CASE UNCHANGED history
      BY <3>1
    <3>2. CASE history' = [history EXCEPT ![row[t]].open = FALSE]
      <4> SUFFICES ASSUME NEW n \in DOMAIN history
                   PROVE  n \in DOMAIN history' /\ history'[n].ep = history[n].ep
        OBVIOUS
      <4>1. history[n] \in Row
        BY <1>2
      <4>2. n = row[t] => history'[n] = [history[n] EXCEPT !.open = FALSE]
        BY <1>2, <3>2
      <4>3. n # row[t] => history'[n] = history[n]
        BY <1>2, <3>2
      <4> QED
        BY <1>2, <3>2, <4>1, <4>2, <4>3 DEF Row
    <3> QED
      BY <1>1, <1>5, <3>1, <3>2, DisconnectEffect
  <2> QED
    BY <2>1, <2>2, AuditStep
<1>6. ASSUME NEW i \in Instances, SweepStep(i) PROVE Recorded'
  <2>1. /\ UNCHANGED <<device, history>> /\ pc[M(i)] # "history"
        /\ \A u \in Threads \ {M(i)} : pc'[u] = pc[u] /\ task'[u] = task[u]
    BY <1>6, SweepEffect
  <2> QED
    BY <2>1, AuditStep
<1>7. ASSUME NEW i \in Instances, NEW p \in Partitions, Consume(i, p)
      PROVE  Recorded'
  <2>1. /\ UNCHANGED <<device, history>> /\ pc[C(i)] # "history"
        /\ \A u \in Threads \ {C(i)} : pc'[u] = pc[u] /\ task'[u] = task[u]
    BY <1>7, ConsumeEffect
  <2> QED
    BY <2>1, AuditStep
<1> QED
  BY <1>1, <1>3, <1>4, <1>5, <1>6, <1>7, ConnectAudit, NoOverflow, Cases

\* A step of t that handles no new record and keeps the devices: if t was to
\* register its agent, it still is, or has.
LEMMA RegisterStep ==
    ASSUME Registering, NEW t \in Threads, UNCHANGED last,
           \A u \in Threads \ {t} : pc'[u] = pc[u] /\ task'[u] = task[u],
           \A e \in Endpoints : device[e] # None => device'[e] # None,
           pc[t] \in {"set", "activity", "lookup", "create"}
              /\ task[t].op = "connect" /\ task[t].ep \in Endpoints =>
                 \/ device'[task[t].ep] # None
                 \/ /\ pc'[t] \in {"set", "activity", "lookup", "create"}
                    /\ task'[t] = task[t]
    PROVE  Registering'
BY DEF Registering, DueToRegister

LEMMA ConnectRegisters ==
    ASSUME Registering, DBMode = "up", IInv, IInv', NEW t \in Threads,
           ConnectStep(t)
    PROVE  Registering'
<1>1. task[t].ep \in Endpoints /\ task[t] \in Task
  <2>1. pc[t] \in Busy
    BY ConnectEffect DEF OnConnect, Busy, Labels
  <2> QED
    BY <2>1, BusyTask
<1>2. /\ UNCHANGED last
      /\ \A u \in Threads \ {t} : pc'[u] = pc[u] /\ task'[u] = task[u]
      /\ pc'[t] # "idle" => task'[t] = task[t]
      /\ \A f \in Endpoints \ {task[t].ep} : device'[f] = device[f]
  BY ConnectEffect
<1>3. pc'[t] \in PastLookup =>
         task'[t] = task[t] /\ device'[task[t].ep] # None
  BY <1>2 DEF IInv, ControlOK, Control, PastLookup
<1>4. \/ pc'[t] \in PastLookup
      \/ /\ pc[t] = "lookup" /\ pc'[t] = "create" /\ UNCHANGED device
      \/ /\ pc[t] = "create" /\ pc'[t] = "idle"
         /\ device[task[t].ep] # None /\ UNCHANGED device
      \/ pc[t] = "established" /\ pc'[t] = "idle" /\ UNCHANGED device
  BY ConnectEffect DEF PastLookup
<1> QED
  BY <1>1, <1>2, <1>3, <1>4, RegisterStep

LEMMA RegisteringNext ==
    ASSUME Degraded, Registering, IInv, [Next]_vars
    PROVE  Registering'
<1>1. DBMode = "up" /\ MaxRestarts = 0
  BY DEF Degraded
<1>2. IInv'
  BY NextInv
<1>3. CASE Quiet
  <2>1. UNCHANGED <<device, last, pc, task>>
    BY <1>3, QuietEffect
  <2> QED
    BY <2>1 DEF Registering, DueToRegister
<1>4. ASSUME NEW t \in Threads,
             RedisGet(t) \/ RedisSet(t) \/ RefreshActivity(t)
      PROVE  Registering'
  <2>1. /\ UNCHANGED <<device, last>>
        /\ \A u \in Threads \ {t} : pc'[u] = pc[u] /\ task'[u] = task[u]
        /\ task[t].op = "connect" =>
              pc'[t] \in {"set", "activity", "lookup"} /\ task'[t] = task[t]
    BY <1>4, RedisEffect
  <2> QED
    BY <2>1, RegisterStep
<1>5. ASSUME NEW t \in Threads, DisconnectStep(t) PROVE Registering'
  <2>1. /\ UNCHANGED last /\ pc[t] \in OnDisconnect
        /\ \A u \in Threads \ {t} : pc'[u] = pc[u] /\ task'[u] = task[u]
        /\ \A e \in Endpoints : device[e] # None => device'[e] # None
    BY <1>1, <1>5, DisconnectEffect
  <2> QED
    BY <2>1, RegisterStep DEF OnDisconnect
<1>6. ASSUME NEW i \in Instances, SweepStep(i) PROVE Registering'
  <2>1. /\ UNCHANGED <<device, last>> /\ M(i) \in Threads
        /\ pc[M(i)] \in {"idle", "scan", "each", "remove"}
        /\ \A u \in Threads \ {M(i)} : pc'[u] = pc[u] /\ task'[u] = task[u]
    BY <1>6, SweepEffect DEF Threads, M
  <2> QED
    BY <2>1, RegisterStep
<1>7. ASSUME NEW i \in Instances, NEW p \in Partitions, Consume(i, p)
      PROVE  Registering'
  <2> DEFINE rec == log[p][pos[p] + 1]
  <2>1. /\ UNCHANGED device /\ pc[C(i)] = "idle" /\ task'[C(i)] = rec
        /\ last' = [last EXCEPT ![rec.ep] = rec] /\ rec \in Record
        /\ rec.op = "connect" => pc'[C(i)] = "set"
        /\ \A u \in Threads \ {C(i)} : pc'[u] = pc[u] /\ task'[u] = task[u]
    BY <1>7, ConsumeEffect
  <2>2. C(i) \in Threads /\ last \in [Endpoints -> Record \cup {None}]
    BY DEF Threads, C, IInv, TypeOK, GhostsOK
  <2> SUFFICES ASSUME NEW e \in Endpoints, last'[e] # None,
                      last'[e].op = "connect", device[e] = None
               PROVE  DueToRegister(e)'
    BY <2>1 DEF Registering
  <2> HIDE DEF rec
  <2>3. CASE rec.ep = e
    <3>1. last'[e] = rec
      BY <2>1, <2>2, <2>3
    <3>2. /\ pc'[C(i)] = "set" /\ task'[C(i)].op = "connect"
          /\ task'[C(i)].ep = e
      BY <2>1, <2>3, <3>1
    <3> QED
      BY <2>2, <3>2 DEF DueToRegister
  <2>4. CASE rec.ep # e
    <3>1. last'[e] = last[e]
      BY <2>1, <2>2, <2>4
    <3>2. DueToRegister(e)
      BY <3>1 DEF Registering
    <3> QED
      BY <2>1, <3>2 DEF DueToRegister
  <2> QED
    BY <2>3, <2>4
<1> QED
  BY <1>1, <1>2, <1>3, <1>4, <1>5, <1>6, <1>7, ConnectRegisters, NoOverflow,
     Cases

\* With Redis down, every agent that connects is registered, or its handler
\* is on its way to do so, and every device handleAgentConnect registers has a
\* connection_histories row, or its handler is about to write it: however many
\* processes handle the agent's records, and in whatever order.
THEOREM Audited == ASSUME Degraded PROVE Spec => []AuditTrail
<1>1. Init => Registering /\ Recorded
  BY DEF Init, Registering, Recorded, Nobody
<1>2. Registering /\ Recorded /\ IInv /\ [Next]_vars =>
         (Registering /\ Recorded)'
  BY AuditNext, RegisteringNext
<1>3. Registering /\ Recorded => AuditTrail
  BY DEF Registering, Recorded, AuditTrail
<1> QED
  BY <1>1, <1>2, <1>3, Inductive, PTL DEF Spec

(***************************************************************************)
(* The refinement of Visits, under the conditions of the run orderly.      *)
(***************************************************************************)
\* The consumer's Connect is the only one that is taken up.
LEMMA OnlyConsumer ==
    ASSUME NEW i \in Instances, Alone(i), AloneInv(i), NEW e \in Endpoints
    PROVE  Arriving[e] = IF Announcing(C(i)) /\ task[C(i)].ep = e
                         THEN {task[C(i)].mtp} ELSE {}
<1>1. ~Announcing(M(i))
  BY DEF Announcing, AloneInv, Ops, InRedis, OnConnect
<1>2. C(i) \in Threads /\ \A t \in Threads : t = C(i) \/ t = M(i)
  BY TwoThreads
<1>3. {u \in Threads : Announcing(u) /\ task[u].ep = e} =
         IF Announcing(C(i)) /\ task[C(i)].ep = e THEN {C(i)} ELSE {}
  BY <1>1, <1>2
<1> QED
  BY <1>3 DEF Arriving

\* The same after a step.
LEMMA OnlyConsumerThen ==
    ASSUME NEW i \in Instances, Alone(i), AloneInv(i)', NEW e \in Endpoints
    PROVE  Arriving'[e] = IF Announcing(C(i))' /\ task'[C(i)].ep = e
                          THEN {task'[C(i)].mtp} ELSE {}
<1>1. ~Announcing(M(i))'
  BY DEF Announcing, AloneInv, Ops, InRedis, OnConnect
<1>2. C(i) \in Threads /\ \A t \in Threads : t = C(i) \/ t = M(i)
  BY TwoThreads
<1>3. {u \in Threads : Announcing(u)' /\ task'[u].ep = e} =
         IF Announcing(C(i))' /\ task'[C(i)].ep = e THEN {C(i)} ELSE {}
  BY <1>1, <1>2
<1> QED
  BY <1>3 DEF Arriving

\* A step that leaves what the consumer announces, and the rows, alone.
LEMMA VisitsStutter ==
    ASSUME NEW i \in Instances, Alone(i), AloneInv(i), AloneInv(i)',
           UNCHANGED <<up, history>>,
           Announcing(C(i))' <=> Announcing(C(i)),
           Announcing(C(i)) => task'[C(i)] = task[C(i)]
    PROVE  UNCHANGED <<Running, Arriving, history>>
<1> USE DEF Running
<1>1. ASSUME NEW e \in Endpoints PROVE Arriving'[e] = Arriving[e]
  <2>1. Arriving[e] = IF Announcing(C(i)) /\ task[C(i)].ep = e
                      THEN {task[C(i)].mtp} ELSE {}
    BY OnlyConsumer
  <2>2. Arriving'[e] = IF Announcing(C(i))' /\ task'[C(i)].ep = e
                       THEN {task'[C(i)].mtp} ELSE {}
    BY OnlyConsumerThen
  <2> QED
    BY <2>1, <2>2
<1>2. Arriving' = Arriving
  BY <1>1 DEF Arriving
<1> QED
  BY <1>2

\* The consumer is idle or past its Connect: nothing is arriving.
LEMMA NothingArrives ==
    ASSUME NEW i \in Instances, Alone(i)
    PROVE  /\ AloneInv(i) /\ ~Announcing(C(i)) =>
                 \A e \in Endpoints : Arriving[e] = {}
           /\ AloneInv(i)' /\ ~Announcing(C(i))' =>
                 Arriving' = [e \in Endpoints |-> {}]
<1>1. ASSUME AloneInv(i), ~Announcing(C(i)), NEW e \in Endpoints
      PROVE  Arriving[e] = {}
  BY <1>1, OnlyConsumer
<1>2. ASSUME AloneInv(i)', ~Announcing(C(i))'
      PROVE  Arriving' = [e \in Endpoints |-> {}]
  <2>1. ASSUME NEW e \in Endpoints PROVE Arriving'[e] = {}
    <3>1. Arriving'[e] = IF Announcing(C(i))' /\ task'[C(i)].ep = e
                         THEN {task'[C(i)].mtp} ELSE {}
      BY <1>2, OnlyConsumerThen
    <3> QED
      BY <1>2, <3>1
  <2> QED
    BY <2>1 DEF Arriving
<1> QED
  BY <1>1, <1>2

LEMMA ConsumeIsTakeUp ==
    ASSUME NEW i \in Instances, NEW p \in Partitions, Orderly(i, p),
           OrderlyInv(i, p), OrderlyInv(i, p)', IInv, Consume(i, p)
    PROVE  [Book!Next]_<<Running, Arriving, history>>
<1> USE DEF Running
<1>1. Alone(i) /\ AloneInv(i) /\ AloneInv(i)' /\ Rows(i)'
  BY DEF Orderly, OrderlyInv
<1>2. /\ UNCHANGED <<up, history>> /\ up[i] /\ pc[C(i)] = "idle"
      /\ task'[C(i)] \in Record
      /\ \/ task'[C(i)].op = "connect" /\ pc'[C(i)] = "set"
         \/ task'[C(i)].op = "disconnect" /\ pc'[C(i)] = "get"
  BY ConsumeEffect
<1>3. ~Announcing(C(i))
  BY <1>2 DEF Announcing
<1>4. CASE task'[C(i)].op = "disconnect"
  <2>1. ~Announcing(C(i))'
    BY <1>4 DEF Announcing
  <2> QED
    BY <1>1, <1>2, <1>3, <2>1, VisitsStutter
<1>5. CASE task'[C(i)].op = "connect"
  <2> PICK e \in Endpoints, m \in Protocols :
              e = task'[C(i)].ep /\ m = task'[C(i)].mtp
    BY <1>2 DEF Record
  <2>1. pc'[C(i)] = "set" /\ Announcing(C(i))'
    BY <1>2, <1>5 DEF Announcing, C
  <2>2. \A f \in Endpoints : Arriving[f] = {}
    BY <1>1, <1>3, NothingArrives
  <2>3. OpenRows(e)' = {}
    BY <1>1, <1>2, <1>5, <2>1 DEF Rows
  <2>4. Book!OpenEntries(e) = {}
    BY <1>2, <2>3 DEF OpenRows, Book!OpenEntries
  <2>5. ASSUME NEW f \in Endpoints
        PROVE  Arriving'[f] = IF f = e THEN {m} ELSE Arriving[f]
    <3>1. Arriving'[f] = IF Announcing(C(i))' /\ task'[C(i)].ep = f
                         THEN {task'[C(i)].mtp} ELSE {}
      BY <1>1, OnlyConsumerThen
    <3> QED
      BY <2>1, <2>2, <3>1
  <2>6. Arriving' = [Arriving EXCEPT ![e] = {m}]
    BY <2>5 DEF Arriving
  <2>7. \A j \in Instances : up[j]
    BY <1>1, <1>2 DEF Alone
  <2>8. Book!TakeUp(e, m)
    BY <1>2, <2>2, <2>4, <2>6, <2>7 DEF Book!TakeUp
  <2> QED
    BY <2>8 DEF Book!Next
<1> QED
  BY <1>2, <1>4, <1>5

LEMMA ConnectIsEnter ==
    ASSUME NEW i \in Instances, Alone(i), AloneInv(i), AloneInv(i)', IInv,
           NEW t \in Threads, ConnectStep(t)
    PROVE  [Book!Next]_<<Running, Arriving, history>>
<1> USE DEF Running
<1>0. DBMode = "up"
  BY DEF Alone
<1>1. t = C(i)
  BY <1>0, ConnectEffect, TwoThreads DEF AloneInv, Ops
<1>2. /\ pc[C(i)] \in OnConnect /\ task[C(i)] \in Record
      /\ task[C(i)].op = "connect" /\ UNCHANGED up
      /\ pc'[C(i)] # "idle" => task'[C(i)] = task[C(i)]
  BY <1>0, <1>1, ConnectEffect DEF AloneInv, Ops, OnConnect
<1>3. CASE /\ UNCHANGED history /\ pc[C(i)] # "established"
           /\ pc'[C(i)] \in {"create", "online", "route", "history"}
  <2>1. Announcing(C(i)) /\ Announcing(C(i))'
    BY <1>2, <1>3 DEF Announcing, OnConnect, C
  <2> QED
    BY <1>1, <1>2, <1>3, <2>1, VisitsStutter
<1>4. CASE UNCHANGED history /\ pc[C(i)] = "established" /\ pc'[C(i)] = "idle"
  <2>1. ~Announcing(C(i)) /\ ~Announcing(C(i))'
    BY <1>4 DEF Announcing
  <2> QED
    BY <1>2, <1>4, <2>1, VisitsStutter
<1>5. CASE /\ pc[C(i)] = "history" /\ pc'[C(i)] = "established"
           /\ history' = Append(history, [ep |-> task[C(i)].ep,
                                   mtp |-> task[C(i)].mtp, open |-> TRUE])
  <2> PICK e \in Endpoints, m \in Protocols :
              e = task[C(i)].ep /\ m = task[C(i)].mtp
    BY <1>2 DEF Record
  <2>1. Announcing(C(i)) /\ ~Announcing(C(i))'
    BY <1>2, <1>5 DEF Announcing
  <2>2. \A f \in Endpoints : Arriving[f] = IF f = e THEN {m} ELSE {}
    BY <2>1, OnlyConsumer
  <2>3. Arriving' = [f \in Endpoints |-> {}]
    BY <2>1, NothingArrives
  <2>4. Arriving' = [Arriving EXCEPT ![e] = {}]
    BY <2>2, <2>3 DEF Arriving
  <2>5. history' = Append(history, [ep |-> e, mtp |-> m, open |-> TRUE])
    BY <1>5
  <2>6. Book!Enter(e, m)
    BY <1>2, <2>2, <2>4, <2>5 DEF Book!Enter
  <2> QED
    BY <2>6 DEF Book!Next
<1>6. ~(pc[C(i)] = "create" /\ pc'[C(i)] = "idle")
  BY <1>0, <1>1, <1>2, ConnectEffect DEF AloneInv, Ops
<1> QED
  BY <1>0, <1>1, <1>3, <1>4, <1>5, <1>6, ConnectEffect

\* Whoever closes a row closes an open one, or leaves the rows as they are.
LEMMA CloseIsClose ==
    ASSUME IInv, NEW n \in Nat, Arriving' = Arriving, UNCHANGED up,
           history' = [history EXCEPT ![n].open = FALSE]
    PROVE  [Book!Next]_<<Running, Arriving, history>>
<1> USE DEF Running
<1>1. history \in Seq(Row)
  BY DEF IInv, TypeOK, StoresOK
<1>2. CASE n \in DOMAIN history /\ history[n].open
  BY <1>2 DEF Book!CloseEntry, Book!Next
<1>3. CASE n \notin DOMAIN history
  <2>1. history' = history
    BY <1>1, <1>3
  <2> QED
    BY <2>1
<1>4. CASE n \in DOMAIN history /\ ~history[n].open
  <2>1. history[n] \in Row
    BY <1>1, <1>4
  <2>2. [history[n] EXCEPT !.open = FALSE] = history[n]
    BY <1>4, <2>1 DEF Row
  <2>3. history' = history
    BY <1>1, <2>2
  <2> QED
    BY <2>3
<1> QED
  BY <1>2, <1>3, <1>4

\* A step of either goroutine that announces nothing, before or after.
LEMMA ArrivingStays ==
    ASSUME NEW i \in Instances, Alone(i), AloneInv(i), AloneInv(i)',
           \/ ~Announcing(C(i)) /\ ~Announcing(C(i))'
           \/ UNCHANGED <<pc[C(i)], task[C(i)]>>
    PROVE  Arriving' = Arriving
<1>1. Announcing(C(i))' <=> Announcing(C(i))
  BY DEF Announcing, C
<1>2. ASSUME NEW e \in Endpoints PROVE Arriving'[e] = Arriving[e]
  <2>1. Arriving[e] = IF Announcing(C(i)) /\ task[C(i)].ep = e
                      THEN {task[C(i)].mtp} ELSE {}
    BY OnlyConsumer
  <2>2. Arriving'[e] = IF Announcing(C(i))' /\ task'[C(i)].ep = e
                       THEN {task'[C(i)].mtp} ELSE {}
    BY OnlyConsumerThen
  <2> QED
    BY <1>1, <2>1, <2>2 DEF C
<1> QED
  BY <1>2 DEF Arriving

LEMMA DisconnectIsClose ==
    ASSUME NEW i \in Instances, Alone(i), AloneInv(i), AloneInv(i)', IInv,
           NEW t \in Threads, DisconnectStep(t)
    PROVE  [Book!Next]_<<Running, Arriving, history>>
<1> USE DEF Running
<1>1. /\ UNCHANGED up /\ pc[t] \in OnDisconnect
      /\ \A u \in Threads \ {t} : pc'[u] = pc[u] /\ task'[u] = task[u]
      /\ pc'[t] \in {"active", "close", "closed", "idle", "remove"}
      /\ \/ UNCHANGED history
         \/ history' = [history EXCEPT ![row[t]].open = FALSE]
  BY DisconnectEffect DEF Alone
<1>2. Arriving' = Arriving
  <2>1. CASE t = M(i)
    BY <1>1, <2>1, TwoThreads, ArrivingStays DEF C
  <2>2. CASE t = C(i)
    <3>1. ~Announcing(C(i)) /\ ~Announcing(C(i))'
      BY <1>1, <2>2 DEF Announcing, OnDisconnect, C
    <3> QED
      BY <3>1, ArrivingStays
  <2> QED
    BY <2>1, <2>2, TwoThreads
<1>3. row[t] \in Nat
  BY DEF IInv, TypeOK, ThreadsOK
<1> QED
  BY <1>1, <1>2, <1>3, CloseIsClose

LEMMA RedisIsStutter ==
    ASSUME NEW i \in Instances, Alone(i), AloneInv(i), AloneInv(i)', IInv,
           NEW t \in Threads,
           RedisGet(t) \/ RedisSet(t) \/ RefreshActivity(t)
    PROVE  UNCHANGED <<Running, Arriving, history>>
<1> USE DEF Running
<1>1. UNCHANGED <<up, history>>
  BY RedisEffect
<1>2. CASE t = M(i)
  <2>1. UNCHANGED <<pc[C(i)], task[C(i)]>>
    BY <1>2, RedisEffect, TwoThreads
  <2> QED
    BY <1>1, <2>1, ArrivingStays
<1>3. CASE t = C(i)
  <2>1. pc[C(i)] \in InRedis /\ task[C(i)] \in Record
        /\ (pc[C(i)] = "get" => task[C(i)].op = "disconnect")
    BY <1>3, RedisEffect DEF AloneInv, Ops, InRedis
  <2>2. /\ task'[C(i)] = task[C(i)]
        /\ task[C(i)].op \in {"connect", "disconnect"}
        /\ \/ pc'[C(i)] \in {"set", "activity"}
           \/ task[C(i)].op = "connect" /\ pc'[C(i)] = "lookup"
           \/ task[C(i)].op = "disconnect" /\ pc'[C(i)] = "offline"
    BY <1>3, <2>1, RedisEffect DEF Record
  <2>3. Announcing(C(i))' <=> Announcing(C(i))
    BY <2>1, <2>2 DEF Announcing, InRedis, C
  <2> QED
    BY <1>1, <2>2, <2>3, VisitsStutter
<1> QED
  BY <1>2, <1>3, TwoThreads

LEMMA StepIsVisit ==
    ASSUME NEW i \in Instances, NEW p \in Partitions, Orderly(i, p),
           OrderlyInv(i, p), IInv, [Next]_vars
    PROVE  [Book!Next]_<<Running, Arriving, history>>
<1> USE DEF Running
<1>0. /\ Alone(i) /\ Instances = {i} /\ Partitions = {p}
      /\ MaxRestarts = 0
      /\ AloneInv(i) /\ OrderlyInv(i, p)' /\ AloneInv(i)'
  BY OrderlyNext DEF Orderly, Alone, OrderlyInv
<1>1. CASE Quiet
  <2>1. UNCHANGED <<up, history, pc, task>>
    BY <1>1, QuietEffect
  <2> QED
    BY <2>1 DEF Arriving, Announcing
<1>2. ASSUME NEW t \in Threads, StackOverflow(t)
      PROVE  [Book!Next]_<<Running, Arriving, history>>
  <2>1. Die(i) /\ up[i]
    BY <1>0, <1>2, TwoThreads DEF StackOverflow, At
  <2>2. UNCHANGED history /\ ~up'[i] /\ pc'[C(i)] = "idle"
    BY <1>0, <2>1, DieEffect
  <2>3. ~Announcing(C(i))'
    BY <2>2 DEF Announcing
  <2>4. Arriving' = [e \in Endpoints |-> {}]
    BY <1>0, <2>3, NothingArrives
  <2>5. Book!Stop
    BY <1>0, <2>1, <2>2, <2>4 DEF Book!Stop
  <2> QED
    BY <2>5 DEF Book!Next
<1>3. ASSUME SweepStep(i)
      PROVE  UNCHANGED <<Running, Arriving, history>>
  <2>1. UNCHANGED <<up, history, pc[C(i)], task[C(i)]>>
    BY <1>0, <1>3, SweepEffect, TwoThreads
  <2> QED
    BY <1>0, <2>1, ArrivingStays
<1>4. ASSUME NEW t \in Threads, ConnectStep(t)
      PROVE  [Book!Next]_<<Running, Arriving, history>>
  BY <1>0, <1>4, ConnectIsEnter
<1>5. ASSUME NEW t \in Threads, DisconnectStep(t)
      PROVE  [Book!Next]_<<Running, Arriving, history>>
  BY <1>0, <1>5, DisconnectIsClose
<1>6. ASSUME NEW t \in Threads,
             RedisGet(t) \/ RedisSet(t) \/ RefreshActivity(t)
      PROVE  [Book!Next]_<<Running, Arriving, history>>
  BY <1>0, <1>6, RedisIsStutter
<1>7. ASSUME Consume(i, p)
      PROVE  [Book!Next]_<<Running, Arriving, history>>
  BY <1>0, <1>7, ConsumeIsTakeUp
<1> QED
  BY <1>0, <1>1, <1>2, <1>3, <1>4, <1>5, <1>6, <1>7, Cases

\* With one process and one partition, and agents that announce every
\* disconnect, connection_histories is the book of visits, for any number of
\* agents and records, whatever Redis answers, whichever of its two goroutines
\* closes a row, and also when the process ends in the middle of a Connect.
THEOREM BookOfVisits ==
    ASSUME NEW i \in Instances, NEW p \in Partitions, Orderly(i, p)
    PROVE  Spec => ImplementsVisits
<1>1. Init => Book!Init
  BY DEF Init, Nobody, Book!Init, Arriving, Announcing, Running
<1>2. OrderlyInv(i, p) /\ IInv /\ [Next]_vars =>
         [Book!Next]_<<Running, Arriving, history>>
  BY StepIsVisit
<1> QED
  BY <1>1, <1>2, OrderlyInvariant, Inductive, PTL
     DEF Spec, ImplementsVisits, Book!Spec
===============================================================================
