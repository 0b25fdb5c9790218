----------------------- MODULE AgentConnections_proofs -----------------------
(***************************************************************************)
(* Type correctness of AgentConnections, and the referential integrity of  *)
(* connection_histories and of the "connected" events, for any set of      *)
(* agents, processes and partitions and every failure mode.                *)
(***************************************************************************)
EXTENDS AgentConnections, TLAPS

\* The labels at which a goroutine is inside a handler call.
Busy == Labels \ {"idle", "keys", "scan", "each"}

\* The labels of handleAgentConnect past the registration of the device.
PastLookup == {"online", "route", "history", "established"}

\* What the program counter of a goroutine says of the values it holds.
Control(t) ==
    /\ pc[t] \in Busy => task[t] \in Task
    /\ pc[t] = "get" => task[t].op \in {"disconnect", "inactive"}
    /\ pc[t] = "set" => conn[t] \in Entry
    /\ pc[t] = "close" => row[t] \in DOMAIN history
    /\ pc[t] \in PastLookup => device[task[t].ep] # None

ControlOK == \A t \in Threads : Control(t)

IInv == TypeOK /\ ControlOK /\ HistoryHasDevice /\ EventHasDevice

-----------------------------------------------------------------------------
(***************************************************************************)
(* Values.                                                                 *)
(***************************************************************************)
LEMMA FreshEntry ==
    ASSUME NEW m \in Protocols
    PROVE  [mtp |-> m, age |-> 0, status |-> "connected"] \in Entry
BY ConnectionsAssumption DEF Entry, Ages

LEMMA TouchedEntry ==
    ASSUME NEW c \in Entry
    PROVE  [c EXCEPT !.age = 0] \in Entry
BY ConnectionsAssumption DEF Entry, Ages

LEMMA StampedEntry ==
    ASSUME NEW c \in Entry, NEW op
    PROVE  [c EXCEPT !.status = StatusOf(op), !.age = 0] \in Entry
<1>1. StatusOf(op) \in {"connected", "disconnected", "inactive"}
  BY DEF StatusOf
<1>2. 0 \in Ages
  BY ConnectionsAssumption DEF Ages
<1> QED
  BY <1>1, <1>2 DEF Entry

LEMMA OlderType ==
    ASSUME NEW c \in Entry \cup {None}
    PROVE  /\ Older(c) \in Entry \cup {None}
           /\ c \in Entry => Older(c) \in Entry
BY ConnectionsAssumption DEF Entry, Ages, Older

LEMMA NobodyType ==
    /\ Nobody \in [Endpoints -> Entry \cup {None}]
    /\ Nobody \in [Endpoints -> Protocols \cup {None}]
    /\ Nobody \in [Endpoints -> Record \cup {None}]
    /\ Nobody \in [Endpoints -> Device \cup {None}]
BY DEF Nobody

\* A record of the topic is a task of the consumer.
LEMMA RecordIsTask ==
    ASSUME NEW rec \in Record
    PROVE  rec \in Task /\ rec # None
BY NoneAssumption DEF Record, Task

-----------------------------------------------------------------------------
(***************************************************************************)
(* What a step of goroutine t has to show of the control state: the other  *)
(* goroutines keep their values, no device disappears, no row is deleted.  *)
(***************************************************************************)
LEMMA ThreadStep ==
    ASSUME ControlOK, NEW t \in Threads,
           \A u \in Threads \ {t} :
               /\ pc'[u] = pc[u] /\ task'[u] = task[u]
               /\ conn'[u] = conn[u] /\ row'[u] = row[u],
           \A u \in Threads : pc[u] \in PastLookup => task[u].ep \in Endpoints,
           \A e \in Endpoints : device[e] # None => device'[e] # None,
           DOMAIN history \subseteq DOMAIN history',
           Control(t)'
    PROVE  ControlOK'
BY DEF ControlOK, Control

LEMMA BusyTask ==
    ASSUME IInv, NEW t \in Threads, pc[t] \in Busy
    PROVE  task[t] \in Task /\ task[t].ep \in Endpoints
                /\ task[t].mtp \in Protocols
BY DEF IInv, ControlOK, Control, Task

\* A step that leaves the devices, the rows and the events alone keeps the
\* references between them.
LEMMA SameReferences ==
    ASSUME IInv, UNCHANGED <<device, history, published>>
    PROVE  HistoryHasDevice' /\ EventHasDevice'
BY DEF IInv, HistoryHasDevice, EventHasDevice

LEMMA InitInv == Init => IInv
<1> SUFFICES ASSUME Init PROVE IInv
  OBVIOUS
<1>1. TypeOK
  BY NobodyType, ConnectionsAssumption
  DEF Init, TypeOK, KafkaOK, ProcessOK, StoresOK, ThreadsOK, SweepOK,
      GhostsOK, Labels
<1>2. ControlOK
  BY DEF Init, ControlOK, Control, Busy, PastLookup
<1>3. HistoryHasDevice /\ EventHasDevice
  BY DEF Init, HistoryHasDevice, EventHasDevice
<1> QED
  BY <1>1, <1>2, <1>3 DEF IInv

-----------------------------------------------------------------------------
(***************************************************************************)
(* The agents, the broker and the process.                                 *)
(***************************************************************************)
LEMMA PublishInv ==
    ASSUME IInv, NEW rec \in Record, Publish(rec), GhostsOK'
    PROVE  IInv'
<1> PICK p \in Partitions : log' = [log EXCEPT ![p] = Append(@, rec)]
  BY DEF Publish
<1> USE DEF IInv, TypeOK
<1>1. log' \in [Partitions -> Seq(Record)]
  BY DEF KafkaOK
<1>2. \A q \in Partitions : Len(log[q]) <= Len(log'[q])
  BY DEF KafkaOK
<1>3. KafkaOK'
  <2>1. \A q \in Partitions : Len(log[q]) \in Nat /\ Len(log'[q]) \in Nat
    BY <1>1 DEF KafkaOK
  <2> QED
    BY <1>1, <1>2, <2>1 DEF Publish, KafkaOK
<1> QED
  BY <1>3 DEF Publish, process, stores, database, local, sweep, ProcessOK,
              StoresOK, ThreadsOK, SweepOK, ControlOK, Control,
              HistoryHasDevice, EventHasDevice

LEMMA AgentsInv == ASSUME IInv, Agents PROVE IInv'
<1>1. ASSUME NEW e \in Endpoints, NEW m \in Protocols, AgentConnect(e, m)
      PROVE  IInv'
  <2>1. [op |-> "connect", ep |-> e, mtp |-> m] \in Record
    BY DEF Record
  <2>2. GhostsOK'
    BY <1>1 DEF AgentConnect, Publish, ghosts, IInv, TypeOK, GhostsOK
  <2> QED
    BY <1>1, <2>1, <2>2, PublishInv DEF AgentConnect
<1>2. ASSUME NEW e \in Endpoints, AgentDisconnect(e)
      PROVE  IInv'
  <2>1. session[e] \in Protocols
    BY <1>2 DEF AgentDisconnect, IInv, TypeOK, GhostsOK
  <2>2. [op |-> "disconnect", ep |-> e, mtp |-> session[e]] \in Record
    BY <2>1 DEF Record
  <2>3. GhostsOK'
    BY <1>2 DEF AgentDisconnect, Publish, ghosts, IInv, TypeOK, GhostsOK
  <2> QED
    BY <1>2, <2>2, <2>3, PublishInv DEF AgentDisconnect
<1>3. ASSUME NEW e \in Endpoints, AgentDropped(e)
      PROVE  IInv'
  BY <1>3 DEF AgentDropped, kafka, process, stores, database, local, sweep,
              ghosts, IInv, TypeOK, KafkaOK, ProcessOK, StoresOK, ThreadsOK,
              SweepOK, GhostsOK, ControlOK, Control, HistoryHasDevice,
              EventHasDevice
<1> QED
  BY <1>1, <1>2, <1>3 DEF Agents

LEMMA AutoCommitInv ==
    ASSUME IInv, NEW p \in Partitions, AutoCommit(p) PROVE IInv'
<1>1. KafkaOK'
  BY DEF AutoCommit, IInv, TypeOK, KafkaOK
<1> QED
  BY <1>1 DEF AutoCommit, process, stores, database, local, sweep, ghosts,
              IInv, TypeOK, ProcessOK, StoresOK, ThreadsOK, SweepOK, GhostsOK,
              ControlOK, Control, HistoryHasDevice, EventHasDevice

LEMMA TickInv == ASSUME IInv, Tick PROVE IInv'
<1> USE DEF IInv, TypeOK
<1>1. StoresOK'
  BY OlderType DEF Tick, database, StoresOK
<1>2. SweepOK'
  BY OlderType DEF Tick, SweepOK
<1>3. ThreadsOK'
  BY OlderType DEF Tick, ThreadsOK
<1>4. ControlOK'
  BY OlderType DEF Tick, database, ThreadsOK, ControlOK, Control
<1> QED
  BY <1>1, <1>2, <1>3, <1>4
  DEF Tick, kafka, process, database, ghosts, KafkaOK, ProcessOK, GhostsOK,
      HistoryHasDevice, EventHasDevice

LEMMA ExpireInv ==
    ASSUME IInv, NEW e \in Endpoints, Expire(e) PROVE IInv'
<1>1. StoresOK'
  BY DEF Expire, database, IInv, TypeOK, StoresOK
<1> QED
  BY <1>1 DEF Expire, outer, kafka, process, database, local, sweep, ghosts,
              IInv, TypeOK, KafkaOK, ProcessOK, ThreadsOK, SweepOK, GhostsOK,
              ControlOK, Control, HistoryHasDevice, EventHasDevice

LEMMA DieInv ==
    ASSUME IInv, NEW i \in Instances, Die(i), ProcessOK' PROVE IInv'
<1> USE DEF IInv, TypeOK
<1>1. KafkaOK'
  <2>1. pos' \in [Partitions -> Nat]
    BY DEF Die, KafkaOK
  <2>2. ASSUME NEW p \in Partitions
        PROVE  committed'[p] <= pos'[p] /\ pos'[p] <= Len(log'[p])
    <3>1. /\ committed[p] \in Nat /\ pos[p] \in Nat /\ Len(log[p]) \in Nat
          /\ committed[p] <= pos[p] /\ pos[p] <= Len(log[p])
          /\ pos'[p] \in {committed[p], pos[p]}
          /\ committed' = committed /\ log' = log
      BY DEF Die, KafkaOK
    <3> QED
      BY <3>1
  <2> QED
    BY <2>1, <2>2 DEF Die, KafkaOK
<1>2. ThreadsOK'
  BY ConnectionsAssumption DEF Die, ThreadsOK, Labels
<1>3. SweepOK'
  BY NobodyType DEF Die, SweepOK
<1>4. ControlOK'
  <2> SUFFICES ASSUME NEW t \in Threads PROVE Control(t)'
    BY DEF ControlOK
  <2>1. CASE Host(t) = i
    BY <2>1 DEF Die, Control, Busy, PastLookup
  <2>2. CASE Host(t) # i
    BY <2>2 DEF Die, stores, database, ControlOK, Control
  <2> QED
    BY <2>1, <2>2
<1> QED
  BY <1>1, <1>2, <1>3, <1>4
  DEF Die, stores, database, ghosts, StoresOK, GhostsOK, HistoryHasDevice,
      EventHasDevice

LEMMA KillInv == ASSUME IInv, NEW i \in Instances, Kill(i) PROVE IInv'
<1>1. ProcessOK'
  BY DEF Kill, Die, IInv, TypeOK, ProcessOK
<1> QED
  BY <1>1, DieInv DEF Kill

LEMMA RestartInv == ASSUME IInv, NEW i \in Instances, Restart(i) PROVE IInv'
BY DEF Restart, kafka, stores, database, local, sweep, ghosts, IInv, TypeOK,
       KafkaOK, ProcessOK, StoresOK, ThreadsOK, SweepOK, GhostsOK, ControlOK,
       Control, HistoryHasDevice, EventHasDevice

-----------------------------------------------------------------------------
(***************************************************************************)
(* StoreAgentConnection and redis.UpdateConnectionStatus.                  *)
(***************************************************************************)

\* A handler step leaves the other goroutines, the broker and the sweep be.
LEMMA LeaveRedisStep ==
    ASSUME IInv, NEW t \in Threads, LeaveRedis(t), pc[t] \in Busy,
           UNCHANGED <<row, database, published>>
    PROVE  ThreadsOK' /\ ControlOK'
<1>1. task[t] \in Task
  BY BusyTask
<1>2. /\ AfterRedis(task[t].op) \in {"lookup", "offline", "each"}
      /\ task[t].op # "inactive" => AfterRedis(task[t].op) # "each"
      /\ task[t].op = "inactive" => AfterRedis(task[t].op) = "each"
  BY <1>1 DEF Task, AfterRedis
<1>3. ThreadsOK'
  BY <1>1, <1>2, ConnectionsAssumption
  DEF LeaveRedis, Go, IInv, TypeOK, ThreadsOK, Labels
<1>4. Control(t)'
  BY <1>1, <1>2 DEF LeaveRedis, Go, IInv, TypeOK, ThreadsOK, Control, Busy,
                    PastLookup
<1>5. ControlOK'
  BY <1>4 DEF LeaveRedis, Go, IInv, TypeOK, ThreadsOK, database, ControlOK,
              Control
<1> QED
  BY <1>3, <1>5

LEMMA RedisSetInv ==
    ASSUME IInv, NEW t \in Threads, RedisSet(t) PROVE IInv'
<1> USE DEF IInv, TypeOK
<1>1. pc[t] \in Busy /\ task[t] \in Task /\ task[t].ep \in Endpoints
  BY BusyTask DEF RedisSet, At, Busy, Labels
<1>2. UNCHANGED <<session, kafka, process, database, published, row, sweep,
                  last>>
  BY DEF RedisSet
<1>3. conn[t] \in Entry
  BY DEF RedisSet, At, ControlOK, Control
<1>4. redis' \in [Endpoints -> Entry \cup {None}]
  BY <1>1, <1>3 DEF RedisSet, StoresOK
<1>5. stored' \in [Endpoints -> Protocols \cup {None}]
  BY <1>1, <1>3 DEF RedisSet, GhostsOK, Entry
<1>6. ThreadsOK' /\ ControlOK'
  <2>1. CASE LeaveRedis(t)
    BY <1>1, <1>2, <2>1, LeaveRedisStep
  <2>2. CASE Go(t, "activity") /\ UNCHANGED <<task, conn, depth>>
    BY <1>1, <1>2, <2>2
    DEF Go, ThreadsOK, Labels, database, ControlOK, Control, Busy, PastLookup
  <2> QED
    BY <2>1, <2>2 DEF RedisSet
<1> QED
  BY <1>2, <1>4, <1>5, <1>6
  DEF kafka, process, database, sweep, KafkaOK, ProcessOK, StoresOK, SweepOK,
      GhostsOK, HistoryHasDevice, EventHasDevice

\* A step that changes nothing but the goroutine's own control state.
LEMMA LocalStep ==
    ASSUME IInv, UNCHANGED <<outer, stores>>, ThreadsOK', ControlOK'
    PROVE  IInv'
BY DEF outer, kafka, process, stores, database, sweep, ghosts, IInv, TypeOK,
       KafkaOK, ProcessOK, StoresOK, SweepOK, GhostsOK, HistoryHasDevice,
       EventHasDevice

LEMMA RefreshActivityInv ==
    ASSUME IInv, NEW t \in Threads, RefreshActivity(t) PROVE IInv'
<1>1. pc[t] \in Busy /\ task[t] \in Task /\ task[t].ep \in Endpoints
  BY BusyTask DEF RefreshActivity, At, Busy, Labels
<1>2. UNCHANGED <<outer, stores, row>>
  BY DEF RefreshActivity
<1>3. ThreadsOK' /\ ControlOK'
  <2>1. CASE LeaveRedis(t)
    BY <1>1, <1>2, <2>1, LeaveRedisStep DEF stores
  <2>2. CASE /\ redis[task[t].ep] # None
             /\ depth[t] < MaxDepth
             /\ conn' = [conn EXCEPT
                            ![t] = [redis[task[t].ep] EXCEPT !.age = 0]]
             /\ depth' = [depth EXCEPT ![t] = @ + 1]
             /\ Go(t, "set")
             /\ UNCHANGED task
    <3>1. [redis[task[t].ep] EXCEPT !.age = 0] \in Entry
      BY <1>1, <2>2, TouchedEntry DEF IInv, TypeOK, StoresOK
    <3>2. depth[t] + 1 \in 0 .. MaxDepth
      BY <2>2, ConnectionsAssumption DEF IInv, TypeOK, ThreadsOK
    <3> QED
      BY <1>1, <1>2, <2>2, <3>1, <3>2
      DEF Go, stores, database, IInv, TypeOK, ThreadsOK, Labels, ControlOK,
          Control, Busy, PastLookup
  <2> QED
    BY <2>1, <2>2 DEF RefreshActivity
<1> QED
  BY <1>2, <1>3, LocalStep

LEMMA StackOverflowInv ==
    ASSUME IInv, NEW t \in Threads, StackOverflow(t) PROVE IInv'
<1>1. Host(t) \in Instances
  BY DEF Host, Threads
<1>2. ProcessOK'
  BY <1>1 DEF StackOverflow, Die, IInv, TypeOK, ProcessOK
<1> QED
  BY <1>1, <1>2, DieInv DEF StackOverflow

LEMMA RedisGetInv ==
    ASSUME IInv, NEW t \in Threads, RedisGet(t) PROVE IInv'
<1>1. pc[t] \in Busy /\ task[t] \in Task /\ task[t].ep \in Endpoints
  BY BusyTask DEF RedisGet, At, Busy, Labels
<1>2. UNCHANGED <<outer, stores, row>>
  BY DEF RedisGet
<1>3. ThreadsOK' /\ ControlOK'
  <2>1. CASE LeaveRedis(t)
    BY <1>1, <1>2, <2>1, LeaveRedisStep DEF stores
  <2>2. CASE /\ redis[task[t].ep] # None
             /\ conn' = [conn EXCEPT ![t] = [redis[task[t].ep] EXCEPT
                            !.status = StatusOf(task[t].op), !.age = 0]]
             /\ depth' = [depth EXCEPT ![t] = 1]
             /\ Go(t, "set")
             /\ UNCHANGED task
    <3> DEFINE c == [redis[task[t].ep] EXCEPT
                        !.status = StatusOf(task[t].op), !.age = 0]
    <3>1. c \in Entry
      BY <1>1, <2>2, StampedEntry DEF IInv, TypeOK, StoresOK
    <3>2. conn' = [conn EXCEPT ![t] = c] /\ 1 \in 0 .. MaxDepth
      BY <2>2, ConnectionsAssumption
    <3> HIDE DEF c
    <3> QED
      BY <1>1, <1>2, <2>2, <3>1, <3>2
      DEF Go, stores, database, IInv, TypeOK, ThreadsOK, Labels, ControlOK,
          Control, Busy, PastLookup
  <2> QED
    BY <2>1, <2>2 DEF RedisGet
<1> QED
  BY <1>2, <1>3, LocalStep

-----------------------------------------------------------------------------
(***************************************************************************)
(* handleUSPMessage.                                                       *)
(***************************************************************************)

\* A step of t keeps IInv if the stores and t's own values come out right:
\* the other goroutines keep theirs, no device disappears and no row is
\* deleted.
LEMMA StoresStep ==
    ASSUME IInv, NEW t \in Threads, UNCHANGED outer,
           StoresOK', ThreadsOK', Control(t)', EventHasDevice',
           HistoryHasDevice',
           \A u \in Threads \ {t} :
               /\ pc'[u] = pc[u] /\ task'[u] = task[u]
               /\ conn'[u] = conn[u] /\ row'[u] = row[u],
           \A e \in Endpoints : device[e] # None => device'[e] # None,
           DOMAIN history \subseteq DOMAIN history'
    PROVE  IInv'
<1>1. \A u \in Threads : pc[u] \in PastLookup => task[u].ep \in Endpoints
  BY BusyTask DEF PastLookup, Busy, Labels
<1>2. ControlOK'
  BY <1>1, ThreadStep DEF IInv
<1> QED
  BY <1>2 DEF outer, kafka, process, sweep, ghosts, IInv, TypeOK, KafkaOK,
              ProcessOK, SweepOK, GhostsOK

LEMMA ConsumeInv ==
    ASSUME IInv, NEW i \in Instances, NEW p \in Partitions, Consume(i, p)
    PROVE  IInv'
<1> DEFINE t == <<i, "consumer">>
           rec == log[p][pos[p] + 1]
<1>1. t \in Threads
  BY DEF Threads
<1>2. rec \in Record
  BY DEF Consume, IInv, TypeOK, KafkaOK
<1>3. rec \in Task
  BY <1>2, RecordIsTask
<1>4. KafkaOK'
  <2>1. /\ pos \in [Partitions -> Nat] /\ committed \in [Partitions -> Nat]
        /\ log \in [Partitions -> Seq(Record)] /\ sent \in Nat
        /\ \A q \in Partitions : committed[q] <= pos[q]
                                   /\ pos[q] <= Len(log[q])
    BY DEF IInv, TypeOK, KafkaOK
  <2>2. /\ pos' = [pos EXCEPT ![p] = @ + 1] /\ pos[p] < Len(log[p])
        /\ UNCHANGED <<log, committed, sent>>
    BY DEF Consume
  <2>3. pos' \in [Partitions -> Nat]
    BY <2>1, <2>2
  <2>4. ASSUME NEW q \in Partitions
        PROVE  committed[q] <= pos'[q] /\ pos'[q] <= Len(log[q])
    <3>1. /\ committed[q] \in Nat /\ pos[q] \in Nat /\ Len(log[q]) \in Nat
          /\ committed[q] <= pos[q] /\ pos[q] <= Len(log[q])
          /\ pos'[q] = IF q = p THEN pos[q] + 1 ELSE pos[q]
      BY <2>1, <2>2
    <3> QED
      BY <2>2, <3>1
  <2> QED
    BY <2>1, <2>2, <2>3, <2>4 DEF KafkaOK
<1>5. GhostsOK'
  <2>1. last' = [last EXCEPT ![rec.ep] = rec] /\ UNCHANGED <<session, stored>>
    BY DEF Consume
  <2> QED
    BY <1>2, <2>1 DEF IInv, TypeOK, GhostsOK
<1>6. /\ task' = [task EXCEPT ![t] = rec]
      /\ UNCHANGED <<stores, process, row, sweep>>
  BY DEF Consume
<1>7. ThreadsOK' /\ Control(t)'
      /\ \A u \in Threads \ {t} : pc'[u] = pc[u] /\ conn'[u] = conn[u]
  <2>1. CASE rec.op = "connect"
    <3> DEFINE c == [mtp |-> rec.mtp, age |-> 0, status |-> "connected"]
    <3>1. c \in Entry
      BY <1>2, FreshEntry DEF Record
    <3>2. /\ conn' = [conn EXCEPT ![t] = c]
          /\ depth' = [depth EXCEPT ![t] = 1] /\ Go(t, "set")
      BY <2>1 DEF Consume
    <3>3. 1 \in 0 .. MaxDepth
      BY ConnectionsAssumption
    <3> HIDE DEF t, rec, c
    <3> QED
      BY <1>1, <1>3, <1>6, <3>1, <3>2, <3>3
      DEF Go, IInv, TypeOK, ThreadsOK, Labels, Control, Busy, PastLookup
  <2>2. CASE rec.op = "disconnect"
    <3>1. Go(t, "get") /\ UNCHANGED <<conn, depth>>
      BY <2>2 DEF Consume
    <3> HIDE DEF t, rec
    <3> QED
      BY <1>1, <1>3, <1>6, <2>2, <3>1
      DEF Go, IInv, TypeOK, ThreadsOK, Labels, Control, Busy, PastLookup
  <2> QED
    BY <1>2, <2>1, <2>2 DEF Record
<1>8. ControlOK'
  <2> HIDE DEF t, rec
  <2>1. \A u \in Threads : pc[u] \in PastLookup => task[u].ep \in Endpoints
    BY BusyTask DEF PastLookup, Busy, Labels
  <2>2. \A u \in Threads \ {t} : task'[u] = task[u] /\ row'[u] = row[u]
    BY <1>6 DEF IInv, TypeOK, ThreadsOK
  <2> QED
    BY <1>1, <1>6, <1>7, <2>1, <2>2, ThreadStep DEF stores, database, IInv
<1>9. HistoryHasDevice' /\ EventHasDevice'
  BY <1>6, SameReferences DEF stores, database
<1> QED
  BY <1>4, <1>5, <1>6, <1>7, <1>8, <1>9
  DEF stores, database, process, sweep, IInv, TypeOK, ProcessOK, StoresOK,
      SweepOK

-----------------------------------------------------------------------------
(***************************************************************************)
(* handleAgentConnect after Redis.                                         *)
(***************************************************************************)
LEMMA LookupInv == ASSUME IInv, NEW t \in Threads, Lookup(t) PROVE IInv'
<1>1. pc[t] \in Busy /\ task[t] \in Task /\ task[t].ep \in Endpoints
  BY BusyTask DEF Lookup, At, Busy, Labels
<1>2. UNCHANGED <<outer, stores, conn, depth, row>>
  BY DEF Lookup
<1>3. ThreadsOK' /\ ControlOK'
  BY <1>1, <1>2
  DEF Lookup, Go, Finish, stores, database, IInv, TypeOK, ThreadsOK, Labels,
      ControlOK, Control, Busy, PastLookup
<1> QED
  BY <1>2, <1>3, LocalStep

LEMMA NewDevice ==
    ASSUME NEW m \in Protocols
    PROVE  [status |-> "provisioning", mtp |-> m] \in Device
BY DEF Device

\* References stay good while no device disappears.
LEMMA MoreDevices ==
    ASSUME IInv, UNCHANGED <<redis, history, published>>,
           device' \in [Endpoints -> Device \cup {None}],
           \A e \in Endpoints : device[e] # None => device'[e] # None
    PROVE  StoresOK' /\ HistoryHasDevice' /\ EventHasDevice'
<1>1. StoresOK'
  BY DEF IInv, TypeOK, StoresOK
<1>2. HistoryHasDevice'
  <2>1. ASSUME NEW n \in DOMAIN history
        PROVE  history[n].ep \in Endpoints /\ device[history[n].ep] # None
    <3>1. history[n] \in Row
      BY DEF IInv, TypeOK, StoresOK
    <3> QED
      BY <3>1 DEF Row, IInv, HistoryHasDevice
  <2> QED
    BY <2>1 DEF HistoryHasDevice
<1>3. EventHasDevice'
  <2>1. \A ev \in published : ev.ep \in Endpoints
    BY DEF IInv, TypeOK, StoresOK, Event
  <2> QED
    BY <2>1 DEF IInv, EventHasDevice
<1> QED
  BY <1>1, <1>2, <1>3

LEMMA CreateDeviceInv ==
    ASSUME IInv, NEW t \in Threads, CreateDevice(t) PROVE IInv'
<1>1. /\ pc[t] \in Busy /\ task[t] \in Task /\ task[t].ep \in Endpoints
      /\ task[t].mtp \in Protocols
  BY BusyTask DEF CreateDevice, At, Busy, Labels
<1>2. UNCHANGED <<outer, redis, history, published, conn, depth, row>>
  BY DEF CreateDevice
<1>3. CASE Finish(t, "idle") /\ UNCHANGED device
  <2>1. ThreadsOK' /\ ControlOK'
    BY <1>1, <1>2, <1>3
    DEF Go, Finish, IInv, TypeOK, ThreadsOK, Labels, ControlOK, Control, Busy,
        PastLookup
  <2> QED
    BY <1>2, <1>3, <2>1, LocalStep DEF stores, database
<1>4. CASE /\ device' = [device EXCEPT ![task[t].ep] =
                            [status |-> "provisioning", mtp |-> task[t].mtp]]
           /\ Go(t, "history")
           /\ UNCHANGED task
  <2> DEFINE d == [status |-> "provisioning", mtp |-> task[t].mtp]
  <2>1. d \in Device /\ d # None
    BY <1>1, NewDevice, NoneAssumption
  <2>2. device' = [device EXCEPT ![task[t].ep] = d]
    BY <1>4
  <2> HIDE DEF d
  <2>3. device' \in [Endpoints -> Device \cup {None}]
    BY <2>1, <2>2 DEF IInv, TypeOK, StoresOK
  <2>4. /\ \A e \in Endpoints : device[e] # None => device'[e] # None
        /\ device'[task[t].ep] # None
    BY <1>1, <2>1, <2>2 DEF IInv, TypeOK, StoresOK
  <2>5. StoresOK' /\ HistoryHasDevice' /\ EventHasDevice'
    BY <1>2, <2>3, <2>4, MoreDevices
  <2>6. /\ ThreadsOK' /\ Control(t)'
        /\ \A u \in Threads \ {t} : pc'[u] = pc[u]
    BY <1>1, <1>2, <1>4, <2>4
    DEF Go, IInv, TypeOK, ThreadsOK, Labels, Control, Busy, PastLookup
  <2> QED
    BY <1>2, <1>4, <2>4, <2>5, <2>6, StoresStep
<1> QED
  BY <1>3, <1>4 DEF CreateDevice

\* An update of the row of a device that may or may not be registered.
LEMMA UpdateDeviceStep ==
    ASSUME IInv, NEW t \in Threads, NEW e \in Endpoints, NEW d \in Device,
           \/ UNCHANGED device
           \/ device[e] # None /\ device' = [device EXCEPT ![e] = d],
           UNCHANGED <<outer, redis, history, published, local>>,
           NEW l \in Labels, Go(t, l), Control(t)'
    PROVE  IInv'
<1>1. d # None
  BY NoneAssumption
<1>2. device' \in [Endpoints -> Device \cup {None}]
  BY DEF IInv, TypeOK, StoresOK
<1>3. \A f \in Endpoints : device[f] # None => device'[f] # None
  BY <1>1 DEF IInv, TypeOK, StoresOK
<1>4. StoresOK' /\ HistoryHasDevice' /\ EventHasDevice'
  BY <1>2, <1>3, MoreDevices
<1>5. ThreadsOK' /\ \A u \in Threads \ {t} : pc'[u] = pc[u]
  BY DEF Go, local, IInv, TypeOK, ThreadsOK
<1> QED
  BY <1>3, <1>4, <1>5, StoresStep DEF local

LEMMA MarkOnlineInv ==
    ASSUME IInv, NEW t \in Threads, MarkOnline(t) PROVE IInv'
<1>1. /\ task[t] \in Task /\ task[t].ep \in Endpoints
      /\ device[task[t].ep] # None
  BY BusyTask DEF MarkOnline, At, Busy, Labels, IInv, ControlOK, Control,
                  PastLookup
<1> DEFINE d == [device[task[t].ep] EXCEPT !.status = "online"]
<1>2. device[task[t].ep] \in Device
  BY <1>1 DEF IInv, TypeOK, StoresOK
<1>3. d \in Device
  BY <1>2 DEF Device
<1>4. \/ UNCHANGED device
      \/ device' = [device EXCEPT ![task[t].ep] = d]
  BY <1>1 DEF MarkOnline, IInv, TypeOK, StoresOK
<1>5. /\ UNCHANGED <<outer, redis, history, published, local>>
      /\ Go(t, "route")
  BY DEF MarkOnline
<1> HIDE DEF d
<1>6. device'[task[t].ep] # None
  BY <1>1, <1>3, <1>4, NoneAssumption DEF IInv, TypeOK, StoresOK
<1>7. Control(t)'
  BY <1>1, <1>5, <1>6
  DEF Go, local, IInv, TypeOK, ThreadsOK, Control, Busy, PastLookup
<1>8. "route" \in Labels
  BY DEF Labels
<1> QED
  BY <1>1, <1>3, <1>4, <1>5, <1>7, <1>8, UpdateDeviceStep

LEMMA UpdateRouteInv ==
    ASSUME IInv, NEW t \in Threads, UpdateRoute(t) PROVE IInv'
<1>1. /\ task[t] \in Task /\ task[t].ep \in Endpoints
      /\ task[t].mtp \in Protocols /\ device[task[t].ep] # None
  BY BusyTask DEF UpdateRoute, At, Busy, Labels, IInv, ControlOK, Control,
                  PastLookup
<1> DEFINE d == [device[task[t].ep] EXCEPT !.mtp = task[t].mtp]
<1>2. device[task[t].ep] \in Device
  BY <1>1 DEF IInv, TypeOK, StoresOK
<1>3. d \in Device
  BY <1>1, <1>2 DEF Device
<1>4. \/ UNCHANGED device
      \/ device' = [device EXCEPT ![task[t].ep] = d]
  BY <1>1 DEF UpdateRoute, IInv, TypeOK, StoresOK
<1>5. /\ UNCHANGED <<outer, redis, history, published, local>>
      /\ Go(t, "history")
  BY DEF UpdateRoute
<1> HIDE DEF d
<1>6. device'[task[t].ep] # None
  BY <1>1, <1>3, <1>4, NoneAssumption DEF IInv, TypeOK, StoresOK
<1>7. Control(t)'
  BY <1>1, <1>5, <1>6
  DEF Go, local, IInv, TypeOK, ThreadsOK, Control, Busy, PastLookup
<1>8. "history" \in Labels
  BY DEF Labels
<1> QED
  BY <1>1, <1>3, <1>4, <1>5, <1>7, <1>8, UpdateDeviceStep

LEMMA RecordConnectionInv ==
    ASSUME IInv, NEW t \in Threads, RecordConnection(t) PROVE IInv'
<1>1. /\ task[t] \in Task /\ task[t].ep \in Endpoints
      /\ task[t].mtp \in Protocols /\ device[task[t].ep] # None
  BY BusyTask DEF RecordConnection, At, Busy, Labels, IInv, ControlOK, Control,
                  PastLookup
<1> DEFINE r == [ep |-> task[t].ep, mtp |-> task[t].mtp, open |-> TRUE]
<1>2. r \in Row /\ r.ep = task[t].ep
  BY <1>1 DEF Row
<1>3. history' = Append(history, r) \/ UNCHANGED history
  BY DEF RecordConnection
<1>4. /\ UNCHANGED <<outer, redis, device, published, local>>
      /\ Go(t, "established")
  BY DEF RecordConnection
<1> HIDE DEF r
<1>5. /\ history' \in Seq(Row)
      /\ DOMAIN history \subseteq DOMAIN history'
      /\ \A n \in DOMAIN history' :
            (n \in DOMAIN history /\ history'[n] = history[n])
            \/ history'[n] = r
  <2>1. history \in Seq(Row)
    BY DEF IInv, TypeOK, StoresOK
  <2> QED
    BY <1>2, <1>3, <2>1
<1>6. StoresOK' /\ HistoryHasDevice' /\ EventHasDevice'
  BY <1>1, <1>2, <1>4, <1>5
  DEF IInv, TypeOK, StoresOK, HistoryHasDevice, EventHasDevice
<1>7. /\ ThreadsOK' /\ Control(t)'
      /\ \A u \in Threads \ {t} : pc'[u] = pc[u]
  BY <1>1, <1>4 DEF Go, local, IInv, TypeOK, ThreadsOK, Labels, Control, Busy,
                    PastLookup
<1> QED
  BY <1>4, <1>5, <1>6, <1>7, StoresStep DEF local

\* An announcement, after which t is at l with task k.
LEMMA AnnounceStep ==
    ASSUME IInv, NEW t \in Threads, NEW e \in Endpoints,
           NEW status \in {"connected", "disconnected"}, Announce(e, status),
           status = "connected" => device[e] # None,
           UNCHANGED <<outer, redis, database, conn, depth, row>>,
           NEW l \in Labels \ ({"get", "set", "close"} \cup PastLookup),
           Go(t, l),
           NEW k \in Task \cup {None}, task' = [task EXCEPT ![t] = k],
           l \in Busy => k \in Task
    PROVE  IInv'
<1>1. published' \subseteq published \cup {[ep |-> e, status |-> status]}
  BY DEF Announce
<1>2. [ep |-> e, status |-> status] \in Event
  BY DEF Event
<1>3. StoresOK' /\ HistoryHasDevice'
  BY <1>1, <1>2 DEF database, IInv, TypeOK, StoresOK, HistoryHasDevice
<1>4. EventHasDevice'
  BY <1>1 DEF database, IInv, EventHasDevice
<1>5. /\ ThreadsOK' /\ Control(t)'
      /\ \A u \in Threads \ {t} : pc'[u] = pc[u] /\ task'[u] = task[u]
  BY DEF Go, database, IInv, TypeOK, ThreadsOK, Control
<1> QED
  BY <1>3, <1>4, <1>5, StoresStep DEF database

LEMMA AnnounceConnectedInv ==
    ASSUME IInv, NEW t \in Threads, AnnounceConnected(t) PROVE IInv'
<1>1. task[t].ep \in Endpoints /\ device[task[t].ep] # None
  BY BusyTask DEF AnnounceConnected, At, Busy, Labels, IInv, ControlOK,
                  Control, PastLookup
<1>2. "idle" \in Labels \ ({"get", "set", "close"} \cup PastLookup)
      /\ "idle" \notin Busy
  BY DEF Labels, PastLookup, Busy
<1>3. /\ Announce(task[t].ep, "connected") /\ Go(t, "idle")
      /\ task' = [task EXCEPT ![t] = None]
      /\ UNCHANGED <<outer, redis, database, conn, depth, row>>
  BY DEF AnnounceConnected, Finish
<1> QED
  BY <1>1, <1>2, <1>3, AnnounceStep

-----------------------------------------------------------------------------
(***************************************************************************)
(* handleAgentDisconnect after Redis.                                      *)
(***************************************************************************)
LEMMA MarkOfflineInv ==
    ASSUME IInv, NEW t \in Threads, MarkOffline(t) PROVE IInv'
<1>1. task[t] \in Task /\ task[t].ep \in Endpoints
  BY BusyTask DEF MarkOffline, At, Busy, Labels
<1>2. /\ UNCHANGED <<outer, redis, history, published, local>>
      /\ Go(t, "active")
  BY DEF MarkOffline
<1>3. Control(t)'
  BY <1>1, <1>2
  DEF Go, local, IInv, TypeOK, ThreadsOK, Control, Busy, PastLookup
<1>4. "active" \in Labels
  BY DEF Labels
<1>5. CASE UNCHANGED device
  <2>1. ThreadsOK' /\ \A u \in Threads \ {t} : pc'[u] = pc[u]
    BY <1>2, <1>4 DEF Go, local, IInv, TypeOK, ThreadsOK
  <2>2. StoresOK' /\ HistoryHasDevice' /\ EventHasDevice'
    BY <1>2, <1>5, MoreDevices DEF IInv, TypeOK, StoresOK
  <2> QED
    BY <1>2, <1>3, <1>5, <2>1, <2>2, StoresStep DEF local
<1>6. CASE device[task[t].ep] # None
  <2> DEFINE d == [device[task[t].ep] EXCEPT !.status = "offline"]
  <2>1. d \in Device
    BY <1>1, <1>6 DEF IInv, TypeOK, StoresOK, Device
  <2>2. UNCHANGED device \/ device' = [device EXCEPT ![task[t].ep] = d]
    BY <1>1, <1>6 DEF MarkOffline, IInv, TypeOK, StoresOK
  <2> HIDE DEF d
  <2> QED
    BY <1>1, <1>2, <1>3, <1>4, <1>6, <2>1, <2>2, UpdateDeviceStep
<1> QED
  BY <1>5, <1>6 DEF MarkOffline

LEMMA FindActiveInv ==
    ASSUME IInv, NEW t \in Threads, FindActive(t) PROVE IInv'
<1>1. pc[t] \in Busy /\ task[t] \in Task
  BY BusyTask DEF FindActive, At, Busy, Labels
<1>2. UNCHANGED <<outer, stores, task, conn, depth>>
  BY DEF FindActive
<1>3. CASE Go(t, "closed") /\ UNCHANGED row
  BY <1>1, <1>2, <1>3, LocalStep
  DEF Go, stores, database, IInv, TypeOK, ThreadsOK, Labels, ControlOK,
      Control, Busy, PastLookup
<1>4. ASSUME NEW n \in OpenRows(task[t].ep), row' = [row EXCEPT ![t] = n],
             Go(t, "close")
      PROVE  IInv'
  <2>1. n \in DOMAIN history /\ n \in Nat
    BY DEF OpenRows, IInv, TypeOK, StoresOK
  <2>2. ThreadsOK' /\ ControlOK'
    BY <1>1, <1>2, <1>4, <2>1
    DEF Go, stores, database, IInv, TypeOK, ThreadsOK, Labels, ControlOK,
        Control, Busy, PastLookup
  <2> QED
    BY <1>2, <2>2, LocalStep
<1> QED
  BY <1>3, <1>4 DEF FindActive

LEMMA CloseRowInv ==
    ASSUME IInv, NEW t \in Threads, CloseRow(t) PROVE IInv'
<1>1. pc[t] \in Busy /\ task[t] \in Task /\ row[t] \in DOMAIN history
  BY BusyTask DEF CloseRow, At, Busy, Labels, IInv, ControlOK, Control
<1> DEFINE r == [history[row[t]] EXCEPT !.open = FALSE]
<1>2. history \in Seq(Row) /\ history[row[t]] \in Row
  BY <1>1 DEF IInv, TypeOK, StoresOK
<1>3. r \in Row /\ r.ep = history[row[t]].ep
  BY <1>2 DEF Row
<1>4. history' = [history EXCEPT ![row[t]] = r] \/ UNCHANGED history
  BY <1>1, <1>2 DEF CloseRow
<1>5. /\ UNCHANGED <<outer, redis, device, published, task, conn, depth>>
      /\ Go(t, "closed") /\ row' = [row EXCEPT ![t] = 0]
  BY DEF CloseRow
<1> HIDE DEF r
<1>6. /\ history' \in Seq(Row)
      /\ DOMAIN history' = DOMAIN history
      /\ \A n \in DOMAIN history : history'[n].ep = history[n].ep
  BY <1>1, <1>2, <1>3, <1>4
<1>7. StoresOK' /\ HistoryHasDevice' /\ EventHasDevice'
  BY <1>5, <1>6
  DEF IInv, TypeOK, StoresOK, HistoryHasDevice, EventHasDevice
<1>8. /\ ThreadsOK' /\ Control(t)'
      /\ \A u \in Threads \ {t} : pc'[u] = pc[u] /\ row'[u] = row[u]
  BY <1>1, <1>5 DEF Go, IInv, TypeOK, ThreadsOK, Labels, Control, Busy,
                    PastLookup
<1> QED
  BY <1>5, <1>6, <1>7, <1>8, StoresStep

LEMMA AnnounceDisconnectedInv ==
    ASSUME IInv, NEW t \in Threads, AnnounceDisconnected(t) PROVE IInv'
<1>1. task[t] \in Task /\ task[t].ep \in Endpoints
  BY BusyTask DEF AnnounceDisconnected, At, Busy, Labels
<1>2. {"idle", "remove"} \subseteq
          Labels \ ({"get", "set", "close"} \cup PastLookup)
      /\ "idle" \notin Busy
  BY DEF Labels, PastLookup, Busy
<1>3. /\ Announce(task[t].ep, "disconnected")
      /\ UNCHANGED <<outer, redis, database, conn, depth, row>>
  BY DEF AnnounceDisconnected
<1>4. CASE Go(t, "remove") /\ UNCHANGED task
  <2>1. task' = [task EXCEPT ![t] = task[t]]
    BY <1>4 DEF IInv, TypeOK, ThreadsOK
  <2> QED
    BY <1>1, <1>2, <1>3, <1>4, <2>1, AnnounceStep
<1>5. CASE Finish(t, "idle")
  BY <1>1, <1>2, <1>3, <1>5, AnnounceStep DEF Finish
<1> QED
  BY <1>4, <1>5 DEF AnnounceDisconnected

-----------------------------------------------------------------------------
(***************************************************************************)
(* monitorConnections.                                                     *)
(***************************************************************************)

\* The monitor moves to l, outside any handler unless it now has a task.
LEMMA SweepStepInv ==
    ASSUME IInv, NEW t \in Threads, NEW l \in Labels, Go(t, l),
           NEW k \in Task \cup {None}, task' = [task EXCEPT ![t] = k],
           \/ l \notin Busy
           \/ l = "get" /\ k \in Task /\ k.op # "connect",
           UNCHANGED <<session, kafka, process, database, published, ghosts>>,
           UNCHANGED <<conn, depth, row>>,
           redis' \in [Endpoints -> Entry \cup {None}], SweepOK'
    PROVE  IInv'
<1>1. StoresOK' /\ HistoryHasDevice' /\ EventHasDevice'
  BY SameReferences DEF database, IInv, TypeOK, StoresOK
<1>2. ThreadsOK'
  BY DEF Go, IInv, TypeOK, ThreadsOK
<1>3. Control(t)'
  BY DEF Go, IInv, TypeOK, ThreadsOK, Control, Busy, PastLookup, Task, Labels
<1>4. ControlOK'
  BY <1>3 DEF Go, database, IInv, TypeOK, ThreadsOK, ControlOK, Control
<1> QED
  BY <1>1, <1>2, <1>4
  DEF kafka, process, ghosts, IInv, TypeOK, KafkaOK, ProcessOK, GhostsOK

LEMMA MonitorThread ==
    ASSUME IInv, NEW i \in Instances
    PROVE  /\ <<i, "monitor">> \in Threads
           /\ task = [task EXCEPT ![<<i, "monitor">>] = task[<<i, "monitor">>]]
           /\ task[<<i, "monitor">>] \in Task \cup {None}
BY DEF Threads, IInv, TypeOK, ThreadsOK

LEMMA ListKeysInv == ASSUME IInv, NEW i \in Instances, ListKeys(i) PROVE IInv'
<1>1. SweepOK'
  BY DEF ListKeys, IInv, TypeOK, SweepOK
<1>2. "scan" \in Labels \ Busy
  BY DEF Labels, Busy
<1>3. /\ Go(<<i, "monitor">>, "scan")
      /\ UNCHANGED <<stores, session, kafka, process, local, ghosts>>
  BY DEF ListKeys
<1> QED
  BY <1>1, <1>2, <1>3, MonitorThread, SweepStepInv
  DEF stores, local, IInv, TypeOK, StoresOK

LEMMA ReadKeyInv ==
    ASSUME IInv, NEW i \in Instances, NEW e \in Endpoints, ReadKey(i, e)
    PROVE  IInv'
<1>1. SweepOK'
  <2>1. redis[e] \in Entry \cup {None}
    BY DEF IInv, TypeOK, StoresOK
  <2> QED
    BY <2>1 DEF ReadKey, IInv, TypeOK, SweepOK
<1> QED
  BY <1>1 DEF ReadKey, kafka, process, stores, database, local, ghosts, IInv,
              TypeOK, KafkaOK, ProcessOK, StoresOK, ThreadsOK, GhostsOK,
              ControlOK, Control, HistoryHasDevice, EventHasDevice

LEMMA KeepInactiveInv ==
    ASSUME IInv, NEW i \in Instances, KeepInactive(i) PROVE IInv'
<1>1. SweepOK'
  BY DEF KeepInactive, IInv, TypeOK, SweepOK
<1>2. "each" \in Labels \ Busy
  BY DEF Labels, Busy
<1>3. /\ Go(<<i, "monitor">>, "each")
      /\ UNCHANGED <<stores, session, kafka, process, local, ghosts>>
  BY DEF KeepInactive
<1> QED
  BY <1>1, <1>2, <1>3, MonitorThread, SweepStepInv
  DEF stores, local, IInv, TypeOK, StoresOK

LEMMA CheckAgentInv ==
    ASSUME IInv, NEW i \in Instances, NEW e \in Endpoints, CheckAgent(i, e)
    PROVE  IInv'
<1> DEFINE t == <<i, "monitor">>
           op == IF gathered[i][e].age > DisconnectAfter
                 THEN "disconnect" ELSE "inactive"
           k == [op |-> op, ep |-> e, mtp |-> gathered[i][e].mtp]
<1>1. gathered[i][e] \in Entry
  BY DEF CheckAgent, IInv, TypeOK, SweepOK
<1>2. k \in Task /\ k.op # "connect"
  BY <1>1 DEF Task, Entry
<1>3. task' = [task EXCEPT ![t] = k] /\ Go(t, "get")
  BY DEF CheckAgent
<1>4. UNCHANGED <<stores, session, kafka, process, conn, depth, row, ghosts>>
  BY DEF CheckAgent
<1>5. SweepOK'
  BY DEF CheckAgent, IInv, TypeOK, SweepOK
<1>6. "get" \in Labels
  BY DEF Labels
<1>7. t \in Threads
  BY DEF Threads
<1> HIDE DEF t, k
<1> QED
  BY <1>2, <1>3, <1>4, <1>5, <1>6, <1>7, SweepStepInv
  DEF stores, IInv, TypeOK, StoresOK

LEMMA SweepDoneInv ==
    ASSUME IInv, NEW i \in Instances, SweepDone(i) PROVE IInv'
<1>1. "idle" \in Labels \ Busy
  BY DEF Labels, Busy
<1>2. Go(<<i, "monitor">>, "idle") /\ UNCHANGED <<outer, stores, local>>
  BY DEF SweepDone
<1>3. UNCHANGED <<session, kafka, process, database, published, ghosts>>
      /\ UNCHANGED <<conn, depth, row>> /\ UNCHANGED <<redis, sweep, task>>
  BY <1>2 DEF outer, stores, local
<1>4. SweepOK' /\ redis' \in [Endpoints -> Entry \cup {None}]
  BY <1>3 DEF sweep, IInv, TypeOK, SweepOK, StoresOK
<1> QED
  BY <1>1, <1>2, <1>3, <1>4, MonitorThread, SweepStepInv

LEMMA RemoveKeyInv ==
    ASSUME IInv, NEW t \in Threads, RemoveKey(t) PROVE IInv'
<1>1. task[t].ep \in Endpoints
  BY BusyTask DEF RemoveKey, At, Busy, Labels
<1>2. redis' \in [Endpoints -> Entry \cup {None}]
  BY <1>1 DEF RemoveKey, IInv, TypeOK, StoresOK
<1>3. "each" \in Labels \ Busy
  BY DEF Labels, Busy
<1>4. /\ Go(t, "each") /\ task' = [task EXCEPT ![t] = None]
      /\ UNCHANGED <<outer, database, published, conn, depth, row>>
  BY DEF RemoveKey, Finish
<1>5. SweepOK' /\ UNCHANGED <<session, kafka, process, ghosts>>
  BY <1>4 DEF outer, sweep, IInv, TypeOK, SweepOK
<1> QED
  BY <1>2, <1>3, <1>4, <1>5, SweepStepInv

-----------------------------------------------------------------------------
(***************************************************************************)
(* The theorems.                                                           *)
(***************************************************************************)
LEMMA HandlerInv ==
    ASSUME IInv, NEW t \in Threads, HandlerStep(t) PROVE IInv'
<1>1. CASE StoreStep(t)
  BY <1>1, RedisGetInv, RedisSetInv, RefreshActivityInv, StackOverflowInv
  DEF StoreStep
<1>2. CASE ConnectStep(t)
  BY <1>2, LookupInv, CreateDeviceInv, MarkOnlineInv, UpdateRouteInv,
     RecordConnectionInv, AnnounceConnectedInv
  DEF ConnectStep
<1>3. CASE DisconnectStep(t)
  BY <1>3, MarkOfflineInv, FindActiveInv, CloseRowInv, AnnounceDisconnectedInv
  DEF DisconnectStep
<1> QED
  BY <1>1, <1>2, <1>3 DEF HandlerStep

LEMMA NextInv == IInv /\ [Next]_vars => IInv'
<1> SUFFICES ASSUME IInv, [Next]_vars PROVE IInv'
  OBVIOUS
<1>1. CASE Environment
  BY <1>1, AgentsInv, TickInv, ExpireInv, AutoCommitInv, KillInv, RestartInv
  DEF Environment
<1>2. ASSUME NEW i \in Instances, Consumer(i) PROVE IInv'
  <2>1. <<i, "consumer">> \in Threads
    BY DEF Threads
  <2> QED
    BY <1>2, <2>1, HandlerInv, ConsumeInv DEF Consumer
<1>3. ASSUME NEW i \in Instances, Monitor(i) PROVE IInv'
  <2>1. <<i, "monitor">> \in Threads
    BY DEF Threads
  <2>2. CASE HandlerStep(<<i, "monitor">>)
    BY <2>1, <2>2, HandlerInv
  <2>3. CASE SweepStep(i)
    BY <2>1, <2>3, ListKeysInv, KeepInactiveInv, SweepDoneInv, RemoveKeyInv,
       ReadKeyInv, CheckAgentInv
    DEF SweepStep
  <2> QED
    BY <1>3, <2>2, <2>3 DEF Monitor
<1>4. CASE UNCHANGED vars
  <2>1. UNCHANGED <<outer, stores>> /\ UNCHANGED <<pc, local>>
    BY <1>4 DEF vars
  <2>2. ThreadsOK' /\ ControlOK'
    BY <2>1 DEF stores, database, local, IInv, TypeOK, ThreadsOK, ControlOK,
                Control
  <2> QED
    BY <2>1, <2>2, LocalStep
<1> QED
  BY <1>1, <1>2, <1>3, <1>4 DEF Next

\* IInv is an inductive invariant of usp-service's connection tracking.
THEOREM Inductive == Spec => []IInv
BY InitInv, NextInv, PTL DEF Spec

\* Every store, offset, program counter and local of the handlers holds a
\* value of its kind in every run: in particular nothing is committed before
\* it is read.
THEOREM TypeCorrect == Spec => []TypeOK
<1>1. IInv => TypeOK
  BY DEF IInv
<1> QED
  BY <1>1, Inductive, PTL

\* handleAgentConnect never leaves a connection_histories row of an agent
\* that has no devices row, whatever fails, dies or is redelivered, and
\* however many processes handle the agent's records.
THEOREM HistoryIntegrity == Spec => []HistoryHasDevice
<1>1. IInv => HistoryHasDevice
  BY DEF IInv
<1> QED
  BY <1>1, Inductive, PTL

\* publishConnectionEvent never announces as connected an agent that has no
\* devices row.
THEOREM EventIntegrity == Spec => []EventHasDevice
<1>1. IInv => EventHasDevice
  BY DEF IInv
<1> QED
  BY <1>1, Inductive, PTL

=============================================================================
