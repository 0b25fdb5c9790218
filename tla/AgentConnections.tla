-------------------------- MODULE AgentConnections --------------------------
(***************************************************************************)
(* How usp-service keeps track of which agents are connected.              *)
(*                                                                         *)
(* Connect and Disconnect records travel over the Kafka topic              *)
(* usp.messages.inbound.  In every usp-service process one goroutine       *)
(* consumes that topic and runs handleAgentConnect/handleAgentDisconnect,  *)
(* and a second goroutine, monitorConnections, times silent agents out.    *)
(* The two share, without any lock, three stores: the agent:connection:*   *)
(* keys of Redis, the devices table and the connection_histories table.    *)
(*                                                                         *)
(* Every access to a store is one step, so the two goroutines interleave   *)
(* wherever the code lets them.  A program counter names the next access.  *)
(***************************************************************************)
EXTENDS Naturals, Sequences, FiniteSets

CONSTANTS
    Endpoints,       \* agent endpoint ids
    Protocols,       \* MTPs: "websocket", "stomp", "mqtt", "uds"
    Instances,       \* usp-service processes, one consumer group
    Partitions,      \* partitions of the inbound topic
    Owner,           \* Owner[p]: the instance partition p is assigned to
    InactiveAfter,   \* inactiveThreshold  (5 min), in ticks
    DisconnectAfter, \* disconnectThreshold (10 min), in ticks
    MaxDepth,        \* StoreAgentConnection frames a goroutine stack holds
    RedisMode,       \* "up", "down" (after start) or "flaky"
    DBMode,          \* "up" or "flaky"
    Drops,           \* may an agent lose its link without a Disconnect?
    MaxRecords,      \* bound: records published in all
    MaxRestarts,     \* bound: restarts, and with them kills
    None             \* no Redis key, no devices row, nothing held

ASSUME ConnectionsAssumption ==
    /\ Owner \in [Partitions -> Instances]
    /\ InactiveAfter \in Nat /\ DisconnectAfter \in Nat
    /\ InactiveAfter < DisconnectAfter
    /\ MaxDepth \in Nat \ {0}
    /\ MaxRecords \in Nat /\ MaxRestarts \in Nat
    /\ RedisMode \in {"up", "down", "flaky"}
    /\ DBMode \in {"up", "flaky"}
    /\ Drops \in BOOLEAN

\* Seconds since LastActivity, saturating once past the last threshold.
Ages == 0 .. DisconnectAfter + 1

\* redis.AgentConnection, without the fields nothing depends on.
Entry == [mtp : Protocols, age : Ages,
          status : {"connected", "disconnected", "inactive"}]

\* The Connect and Disconnect records of the inbound topic.
Record == [op : {"connect", "disconnect"}, ep : Endpoints, mtp : Protocols]

\* What a goroutine is doing, for which endpoint.
Task == [op : {"connect", "disconnect", "inactive"},
         ep : Endpoints, mtp : Protocols]

Device == [status : {"provisioning", "online", "offline"}, mtp : Protocols]

\* A connection_histories row; open is disconnected_at IS NULL.
Row == [ep : Endpoints, mtp : Protocols, open : BOOLEAN]

Event == [ep : Endpoints, status : {"connected", "disconnected"}]

Threads == Instances \X {"consumer", "monitor"}
Host(t) == t[1]
IsMonitor(t) == t[2] = "monitor"

Labels == {"idle", "get", "set", "activity", "lookup", "create", "online",
           "route", "history", "established", "offline", "active", "close",
           "closed", "remove", "keys", "scan", "each"}

ASSUME NoneAssumption ==
    None \notin Entry \cup Task \cup Device \cup Record \cup Protocols

VARIABLES
    session,    \* session[e]: the MTP the agent believes it is connected by
    sent,       \* records published so far
    log,        \* log[p]: records of partition p, never removed
    pos,        \* pos[p]: records of p the consumer has read
    committed,  \* committed[p]: offset the group restarts from
    up,         \* up[i]: the process is running
    restarts,   \* restarts so far
    redis,      \* redis[e]: the value of agent:connection:<e>, or None
    device,     \* device[e]: the devices row of e, or None
    history,    \* connection_histories, in order of id
    published,  \* events sent on mtp.connection.established and .closed
    pc,         \* pc[t]: the next access of goroutine t
    task,       \* task[t]: the handler call t is in
    conn,       \* conn[t]: the AgentConnection t is about to write
    depth,      \* depth[t]: StoreAgentConnection frames on t's stack
    row,        \* row[t]: activeConn.ID read by handleAgentDisconnect
    todo,       \* todo[i]: keys GetAllAgentConnections has still to read
    gathered,   \* gathered[i]: the connections it returned, per endpoint
    stored,     \* history variable: the MTP last stored by a Connect
    last        \* history variable: the last record consumed for e

kafka == <<sent, log, pos, committed>>
process == <<up, restarts>>
database == <<device, history>>
local == <<task, conn, depth, row>>
sweep == <<todo, gathered>>
ghosts == <<stored, last>>
outer == <<session, kafka, process, sweep, ghosts>>
stores == <<redis, database, published>>
vars == <<outer, stores, pc, local>>

-----------------------------------------------------------------------------
Nobody == [e \in Endpoints |-> None]

Init ==
    /\ session = Nobody
    /\ sent = 0
    /\ log = [p \in Partitions |-> <<>>]
    /\ pos = [p \in Partitions |-> 0]
    /\ committed = [p \in Partitions |-> 0]
    /\ up = [i \in Instances |-> TRUE]
    /\ restarts = 0
    /\ redis = Nobody
    /\ device = Nobody
    /\ history = <<>>
    /\ published = {}
    /\ pc = [t \in Threads |-> "idle"]
    /\ task = [t \in Threads |-> None]
    /\ conn = [t \in Threads |-> None]
    /\ depth = [t \in Threads |-> 0]
    /\ row = [t \in Threads |-> 0]
    /\ todo = [i \in Instances |-> {}]
    /\ gathered = [i \in Instances |-> Nobody]
    /\ stored = Nobody
    /\ last = Nobody

-----------------------------------------------------------------------------
(***************************************************************************)
(* The agents and the broker.                                              *)
(***************************************************************************)

\* PublishUSPMessageWithDestination sends records without a key, so a record
\* of an agent may land on any partition.
Publish(rec) ==
    /\ sent < MaxRecords
    /\ sent' = sent + 1
    /\ \E p \in Partitions : log' = [log EXCEPT ![p] = Append(@, rec)]
    /\ UNCHANGED <<stores, pos, committed, process, pc, local, sweep, ghosts>>

AgentConnect(e, m) ==
    /\ session[e] = None
    /\ session' = [session EXCEPT ![e] = m]
    /\ Publish([op |-> "connect", ep |-> e, mtp |-> m])

AgentDisconnect(e) ==
    /\ session[e] # None
    /\ session' = [session EXCEPT ![e] = None]
    /\ Publish([op |-> "disconnect", ep |-> e, mtp |-> session[e]])

\* The link breaks and the agent has no way to say so.
AgentDropped(e) ==
    /\ Drops
    /\ session[e] # None
    /\ session' = [session EXCEPT ![e] = None]
    /\ UNCHANGED <<stores, kafka, process, pc, local, sweep, ghosts>>

\* Mutant: commits the offset after the next record.
AutoCommitAhead(p) ==
    /\ up[Owner[p]]
    /\ committed' = [committed EXCEPT ![p] = pos[p] + 1]
    /\ UNCHANGED <<stores, session, sent, log, pos, process, pc, local, sweep,
                   ghosts>>

\* enable.auto.commit: in the background, what has been read, whether or not
\* its handler has returned.
AutoCommit(p) ==
    /\ up[Owner[p]]
    /\ committed' = [committed EXCEPT ![p] = pos[p]]
    /\ UNCHANGED <<stores, session, sent, log, pos, process, pc, local, sweep,
                   ghosts>>

\* A tick passes: every LastActivity, stored or held by a goroutine, is older.
Older(c) ==
    IF c # None /\ c.age <= DisconnectAfter
    THEN [c EXCEPT !.age = @ + 1]
    ELSE c

Tick ==
    /\ redis' = [e \in Endpoints |-> Older(redis[e])]
    /\ conn' = [t \in Threads |-> Older(conn[t])]
    /\ gathered' = [i \in Instances |->
                       [e \in Endpoints |-> Older(gathered[i][e])]]
    /\ UNCHANGED <<session, kafka, process, database, published, pc, task,
                   depth, row, todo, ghosts>>

\* DefaultConnectionTTL (24 h) is well past the last threshold.
Expire(e) ==
    /\ redis[e] # None /\ redis[e].age > DisconnectAfter
    /\ redis' = [redis EXCEPT ![e] = None]
    /\ UNCHANGED <<outer, database, published, pc, local>>

-----------------------------------------------------------------------------
(***************************************************************************)
(* The process: it ends with all its goroutines, and what it had read but  *)
(* not committed is read again.                                            *)
(***************************************************************************)
Die(i) ==
    /\ up' = [up EXCEPT ![i] = FALSE]
    /\ pc' = [t \in Threads |-> IF Host(t) = i THEN "idle" ELSE pc[t]]
    /\ task' = [t \in Threads |-> IF Host(t) = i THEN None ELSE task[t]]
    /\ conn' = [t \in Threads |-> IF Host(t) = i THEN None ELSE conn[t]]
    /\ depth' = [t \in Threads |-> IF Host(t) = i THEN 0 ELSE depth[t]]
    /\ row' = [t \in Threads |-> IF Host(t) = i THEN 0 ELSE row[t]]
    /\ todo' = [todo EXCEPT ![i] = {}]
    /\ gathered' = [gathered EXCEPT ![i] = Nobody]
    /\ pos' = [p \in Partitions |->
                  IF Owner[p] = i THEN committed[p] ELSE pos[p]]
    /\ UNCHANGED <<stores, session, sent, log, committed, ghosts>>

Kill(i) ==
    /\ up[i] /\ restarts < MaxRestarts
    /\ UNCHANGED restarts
    /\ Die(i)

\* NewUSPCoreService gives up if Redis does not answer its PING.
Restart(i) ==
    /\ ~up[i] /\ restarts < MaxRestarts
    /\ RedisMode # "down"
    /\ up' = [up EXCEPT ![i] = TRUE]
    /\ restarts' = restarts + 1
    /\ UNCHANGED <<stores, session, kafka, pc, local, sweep, ghosts>>

-----------------------------------------------------------------------------
(***************************************************************************)
(* Control flow shared by the two goroutines.                              *)
(***************************************************************************)
At(t, l) == up[Host(t)] /\ pc[t] = l
Go(t, l) == pc' = [pc EXCEPT ![t] = l]

\* The handler of t returns.  The monitor removes the key of an agent it has
\* disconnected, and turns to the next one.
Finish(t, l) ==
    /\ Go(t, l)
    /\ task' = [task EXCEPT ![t] = None]

\* Where StoreAgentConnection, or UpdateConnectionStatus, hands control back.
AfterRedis(op) == CASE op = "connect" -> "lookup"
                    [] op = "disconnect" -> "offline"
                    [] op = "inactive" -> "each"

LeaveRedis(t) ==
    /\ Go(t, AfterRedis(task[t].op))
    /\ task' = [task EXCEPT ![t] = IF @.op = "inactive" THEN None ELSE @]
    /\ conn' = [conn EXCEPT ![t] = None]
    /\ depth' = [depth EXCEPT ![t] = 0]

RedisAnswers == RedisMode \in {"up", "flaky"}
RedisFails == RedisMode \in {"down", "flaky"}
DBFails == DBMode = "flaky"

-----------------------------------------------------------------------------
(***************************************************************************)
(* StoreAgentConnection.  It calls UpdateAgentActivity, which reads the    *)
(* key back and calls StoreAgentConnection: the two call each other until  *)
(* an access fails or the stack is exhausted.  Only an error of the        *)
(* outermost Set is reported, and both callers carry on after it.          *)
(***************************************************************************)
RedisSet(t) ==
    /\ At(t, "set")
    /\ \/ /\ RedisAnswers
          /\ redis' = [redis EXCEPT ![task[t].ep] = conn[t]]
          /\ stored' = IF task[t].op = "connect" /\ depth[t] = 1
                       THEN [stored EXCEPT ![task[t].ep] = conn[t].mtp]
                       ELSE stored
          /\ Go(t, "activity")
          /\ UNCHANGED <<task, conn, depth>>
       \/ /\ RedisFails
          /\ LeaveRedis(t)
          /\ UNCHANGED <<redis, stored>>
    /\ UNCHANGED <<session, kafka, process, database, published, row, sweep,
                   last>>

\* UpdateAgentActivity reads the key and stores it back.
RefreshActivity(t) ==
    /\ At(t, "activity")
    /\ \/ /\ RedisAnswers /\ redis[task[t].ep] # None
          /\ depth[t] < MaxDepth
          /\ conn' = [conn EXCEPT ![t] = [redis[task[t].ep] EXCEPT !.age = 0]]
          /\ depth' = [depth EXCEPT ![t] = @ + 1]
          /\ Go(t, "set")
          /\ UNCHANGED task
       \/ /\ RedisFails \/ redis[task[t].ep] = None
          /\ LeaveRedis(t)
    /\ UNCHANGED <<outer, stores, row>>

\* "goroutine stack exceeds 1000000000-byte limit" ends the process.
StackOverflow(t) ==
    /\ At(t, "activity")
    /\ RedisAnswers /\ redis[task[t].ep] # None
    /\ depth[t] = MaxDepth
    /\ UNCHANGED restarts
    /\ Die(Host(t))

StatusOf(op) == IF op = "disconnect" THEN "disconnected" ELSE "inactive"

\* Mutant: handleAgentDisconnect returns when Redis has no connection.
RedisGetReturns(t) ==
    /\ At(t, "get")
    /\ \/ /\ RedisAnswers /\ redis[task[t].ep] # None
          /\ conn' = [conn EXCEPT ![t] = [redis[task[t].ep] EXCEPT
                          !.status = "disconnected", !.age = 0]]
          /\ depth' = [depth EXCEPT ![t] = 1]
          /\ Go(t, "set")
          /\ UNCHANGED task
       \/ /\ RedisFails \/ redis[task[t].ep] = None
          /\ Finish(t, IF IsMonitor(t) THEN "each" ELSE "idle")
          /\ UNCHANGED <<conn, depth>>
    /\ UNCHANGED <<outer, stores, row>>

\* redis.UpdateConnectionStatus: the read of its read-modify-write.
RedisGet(t) ==
    /\ At(t, "get")
    /\ \/ /\ RedisAnswers /\ redis[task[t].ep] # None
          /\ conn' = [conn EXCEPT ![t] = [redis[task[t].ep] EXCEPT
                          !.status = StatusOf(task[t].op), !.age = 0]]
          /\ depth' = [depth EXCEPT ![t] = 1]
          /\ Go(t, "set")
          /\ UNCHANGED task
       \/ /\ RedisFails \/ redis[task[t].ep] = None
          /\ LeaveRedis(t)
    /\ UNCHANGED <<outer, stores, row>>

-----------------------------------------------------------------------------
(***************************************************************************)
(* handleUSPMessage: the consumer takes the next record of a partition.    *)
(***************************************************************************)
Consume(i, p) ==
    LET t == <<i, "consumer">>
        rec == log[p][pos[p] + 1]
    IN  /\ At(t, "idle")
        /\ Owner[p] = i
        /\ pos[p] < Len(log[p])
        /\ pos' = [pos EXCEPT ![p] = @ + 1]
        /\ task' = [task EXCEPT ![t] = rec]
        /\ last' = [last EXCEPT ![rec.ep] = rec]
        /\ \/ /\ rec.op = "connect"
              /\ conn' = [conn EXCEPT ![t] =
                             [mtp |-> rec.mtp, age |-> 0,
                              status |-> "connected"]]
              /\ depth' = [depth EXCEPT ![t] = 1]
              /\ Go(t, "set")
           \/ /\ rec.op = "disconnect"
              /\ Go(t, "get")
              /\ UNCHANGED <<conn, depth>>
        /\ UNCHANGED <<stores, session, sent, log, committed, process, row,
                       sweep, stored>>

\* Mutant: ErrRecordNotFound is taken for any other error.
LookupFails(t) ==
    /\ At(t, "lookup")
    /\ IF device[task[t].ep] = None
       THEN Finish(t, "idle")
       ELSE Go(t, "online") /\ UNCHANGED task
    /\ UNCHANGED <<outer, stores, conn, depth, row>>

\* Mutant: a lookup that fails counts as one that has found the device.
LookupCarriesOn(t) ==
    /\ At(t, "lookup")
    /\ \/ device[task[t].ep] = None /\ Go(t, "create")
       \/ device[task[t].ep] # None /\ Go(t, "online")
       \/ DBFails /\ Go(t, "established")
    /\ UNCHANGED <<outer, stores, local>>

\* handleAgentConnect after Redis: GetByEndpointID decides.
Lookup(t) ==
    /\ At(t, "lookup")
    /\ \/ /\ device[task[t].ep] = None
          /\ Go(t, "create")
          /\ UNCHANGED task
       \/ /\ device[task[t].ep] # None
          /\ Go(t, "online")
          /\ UNCHANGED task
       \/ DBFails /\ Finish(t, "idle")
    /\ UNCHANGED <<outer, stores, conn, depth, row>>

\* Mutant: carries on when the agent could not be registered.
CreateDeviceCarriesOn(t) ==
    /\ At(t, "create")
    /\ \/ device' = [device EXCEPT ![task[t].ep] =
                        [status |-> "provisioning", mtp |-> task[t].mtp]]
       \/ DBFails /\ UNCHANGED device
    /\ Go(t, "history")
    /\ UNCHANGED <<outer, redis, history, published, local>>

\* Mutant: announces a new agent without recording its connection.
CreateDeviceOnly(t) ==
    /\ At(t, "create")
    /\ device' = [device EXCEPT ![task[t].ep] =
                     [status |-> "provisioning", mtp |-> task[t].mtp]]
    /\ Go(t, "established")
    /\ UNCHANGED <<outer, redis, history, published, local>>

\* Device.Create, which the unique index on endpoint_id refuses if another
\* process has registered the agent since the lookup.
CreateDevice(t) ==
    /\ At(t, "create")
    /\ \/ /\ device[task[t].ep] = None
          /\ device' = [device EXCEPT ![task[t].ep] =
                           [status |-> "provisioning", mtp |-> task[t].mtp]]
          /\ Go(t, "history")
          /\ UNCHANGED task
       \/ /\ DBFails \/ device[task[t].ep] # None
          /\ Finish(t, "idle")
          /\ UNCHANGED device
    /\ UNCHANGED <<outer, redis, history, published, conn, depth, row>>

\* Device.UpdateConnectionStatus(e, "online"); an error is only logged.
MarkOnline(t) ==
    /\ At(t, "online")
    /\ \/ device' = [device EXCEPT ![task[t].ep].status = "online"]
       \/ DBFails /\ UNCHANGED device
    /\ Go(t, "route")
    /\ UNCHANGED <<outer, redis, history, published, local>>

\* Mutant: keeps the MTP the row already has.
UpdateRouteKeeps(t) ==
    /\ At(t, "route")
    /\ Go(t, "history")
    /\ UNCHANGED <<outer, stores, local>>

\* Device.UpdateMTPInfo; an error is only logged.
UpdateRoute(t) ==
    /\ At(t, "route")
    /\ \/ device' = [device EXCEPT ![task[t].ep].mtp = task[t].mtp]
       \/ DBFails /\ UNCHANGED device
    /\ Go(t, "history")
    /\ UNCHANGED <<outer, redis, history, published, local>>

\* ConnectionHistory.Create; an error is only logged.
RecordConnection(t) ==
    /\ At(t, "history")
    /\ \/ history' = Append(history, [ep |-> task[t].ep, mtp |-> task[t].mtp,
                                      open |-> TRUE])
       \/ DBFails /\ UNCHANGED history
    /\ Go(t, "established")
    /\ UNCHANGED <<outer, redis, device, published, local>>

\* publishConnectionEvent produces asynchronously and nobody looks at the
\* delivery report, so the event may never reach the broker.
Announce(e, status) ==
    \/ published' = published \cup {[ep |-> e, status |-> status]}
    \/ UNCHANGED published

AnnounceConnected(t) ==
    /\ At(t, "established")
    /\ Announce(task[t].ep, "connected")
    /\ Finish(t, "idle")
    /\ UNCHANGED <<outer, redis, database, conn, depth, row>>

-----------------------------------------------------------------------------
(***************************************************************************)
(* handleAgentDisconnect after Redis, run by either goroutine.             *)
(***************************************************************************)

\* Mutant: only the monitor's timeout marks the device offline.
MarkOfflineOnTimeout(t) ==
    /\ At(t, "offline")
    /\ device' = IF IsMonitor(t) /\ device[task[t].ep] # None
                 THEN [device EXCEPT ![task[t].ep].status = "offline"]
                 ELSE device
    /\ Go(t, "active")
    /\ UNCHANGED <<outer, redis, history, published, local>>

\* An UPDATE of an endpoint without a row changes nothing and is no error.
MarkOffline(t) ==
    /\ At(t, "offline")
    /\ \/ device' = IF device[task[t].ep] = None
                    THEN device
                    ELSE [device EXCEPT ![task[t].ep].status = "offline"]
       \/ DBFails /\ UNCHANGED device
    /\ Go(t, "active")
    /\ UNCHANGED <<outer, redis, history, published, local>>

OpenRows(e) == {n \in DOMAIN history : history[n].ep = e /\ history[n].open}

\* GetActiveConnection: the open row with the latest connected_at.
FindActive(t) ==
    /\ At(t, "active")
    /\ \/ \E n \in OpenRows(task[t].ep) :
             /\ \A k \in OpenRows(task[t].ep) : k <= n
             /\ row' = [row EXCEPT ![t] = n]
             /\ Go(t, "close")
       \/ /\ DBFails \/ OpenRows(task[t].ep) = {}
          /\ Go(t, "closed")
          /\ UNCHANGED row
    /\ UNCHANGED <<outer, stores, task, conn, depth>>

\* UpdateDisconnection(activeConn.ID), whoever has closed the row meanwhile.
CloseRow(t) ==
    /\ At(t, "close")
    /\ \/ history' = [history EXCEPT ![row[t]].open = FALSE]
       \/ DBFails /\ UNCHANGED history
    /\ row' = [row EXCEPT ![t] = 0]
    /\ Go(t, "closed")
    /\ UNCHANGED <<outer, redis, device, published, task, conn, depth>>

AnnounceDisconnected(t) ==
    /\ At(t, "closed")
    /\ Announce(task[t].ep, "disconnected")
    /\ IF IsMonitor(t)
       THEN Go(t, "remove") /\ UNCHANGED task
       ELSE Finish(t, "idle")
    /\ UNCHANGED <<outer, redis, database, conn, depth, row>>

-----------------------------------------------------------------------------
(***************************************************************************)
(* monitorConnections.  GetAllAgentConnections lists the keys, then reads  *)
(* them one by one, skipping those it cannot read.                         *)
(***************************************************************************)
ListKeys(i) ==
    LET t == <<i, "monitor">>
    IN  /\ At(t, "idle")
        /\ RedisAnswers
        /\ todo' = [todo EXCEPT ![i] = {e \in Endpoints : redis[e] # None}]
        /\ Go(t, "scan")
        /\ UNCHANGED <<stores, session, kafka, process, local, gathered,
                       ghosts>>

ReadKey(i, e) ==
    /\ At(<<i, "monitor">>, "scan")
    /\ e \in todo[i]
    /\ todo' = [todo EXCEPT ![i] = @ \ {e}]
    /\ \/ /\ RedisAnswers
          /\ gathered' = [gathered EXCEPT ![i][e] = redis[e]]
       \/ RedisFails /\ UNCHANGED gathered
    /\ UNCHANGED <<stores, session, kafka, process, pc, local, ghosts>>

\* GetInactiveAgents keeps the connected agents whose activity is too old.
Inactive(c) ==
    c # None /\ c.age > InactiveAfter /\ c.status = "connected"

KeepInactive(i) ==
    LET t == <<i, "monitor">>
    IN  /\ At(t, "scan")
        /\ todo[i] = {}
        /\ gathered' = [gathered EXCEPT ![i] =
              [e \in Endpoints |-> IF Inactive(@[e]) THEN @[e] ELSE None]]
        /\ Go(t, "each")
        /\ UNCHANGED <<stores, session, kafka, process, local, todo, ghosts>>

\* The loop body, on what was read during the scan.
CheckAgent(i, e) ==
    LET t == <<i, "monitor">>
        c == gathered[i][e]
        op == IF c.age > DisconnectAfter THEN "disconnect" ELSE "inactive"
    IN  /\ At(t, "each")
        /\ c # None
        /\ task' = [task EXCEPT ![t] = [op |-> op, ep |-> e, mtp |-> c.mtp]]
        /\ gathered' = [gathered EXCEPT ![i][e] = None]
        /\ Go(t, "get")
        /\ UNCHANGED <<stores, session, kafka, process, conn, depth, row, todo,
                       ghosts>>

SweepDone(i) ==
    /\ At(<<i, "monitor">>, "each")
    /\ gathered[i] = Nobody
    /\ Go(<<i, "monitor">>, "idle")
    /\ UNCHANGED <<outer, stores, local>>

\* RemoveAgentConnection of the agent just disconnected.
RemoveKey(t) ==
    /\ At(t, "remove")
    /\ \/ RedisAnswers /\ redis' = [redis EXCEPT ![task[t].ep] = None]
       \/ RedisFails /\ UNCHANGED redis
    /\ Finish(t, "each")
    /\ UNCHANGED <<outer, database, published, conn, depth, row>>

-----------------------------------------------------------------------------
StoreStep(t) == RedisGet(t) \/ RedisSet(t) \/ RefreshActivity(t)
                    \/ StackOverflow(t)
ConnectStep(t) == Lookup(t) \/ CreateDevice(t) \/ MarkOnline(t)
                    \/ UpdateRoute(t) \/ RecordConnection(t)
                    \/ AnnounceConnected(t)
DisconnectStep(t) == MarkOffline(t) \/ FindActive(t) \/ CloseRow(t)
                    \/ AnnounceDisconnected(t)
HandlerStep(t) == StoreStep(t) \/ ConnectStep(t) \/ DisconnectStep(t)

SweepStep(i) ==
    \/ ListKeys(i) \/ KeepInactive(i) \/ SweepDone(i)
    \/ RemoveKey(<<i, "monitor">>)
    \/ \E e \in Endpoints : ReadKey(i, e) \/ CheckAgent(i, e)

Consumer(i) ==
    \/ HandlerStep(<<i, "consumer">>)
    \/ \E p \in Partitions : Consume(i, p)
Monitor(i) == HandlerStep(<<i, "monitor">>) \/ SweepStep(i)

Agents == \E e \in Endpoints : \/ \E m \in Protocols : AgentConnect(e, m)
                               \/ AgentDisconnect(e)
                               \/ AgentDropped(e)
Environment ==
    \/ Agents
    \/ Tick
    \/ \E e \in Endpoints : Expire(e)
    \/ \E p \in Partitions : AutoCommit(p)
    \/ \E i \in Instances : Kill(i) \/ Restart(i)

Next == Environment \/ \E i \in Instances : Consumer(i) \/ Monitor(i)

Spec == Init /\ [][Next]_vars

\* Goroutines are scheduled and time passes; agents, faults, commits and
\* operators promise nothing.
Fairness ==
    /\ WF_vars(Tick)
    /\ \A i \in Instances : WF_vars(Consumer(i)) /\ WF_vars(Monitor(i))

FairSpec == Spec /\ Fairness

-----------------------------------------------------------------------------
(***************************************************************************)
(* Properties.                                                             *)
(***************************************************************************)

KafkaOK ==
    /\ sent \in Nat
    /\ log \in [Partitions -> Seq(Record)]
    /\ pos \in [Partitions -> Nat]
    /\ committed \in [Partitions -> Nat]
    /\ \A p \in Partitions : committed[p] <= pos[p] /\ pos[p] <= Len(log[p])

ProcessOK == up \in [Instances -> BOOLEAN] /\ restarts \in Nat

StoresOK ==
    /\ redis \in [Endpoints -> Entry \cup {None}]
    /\ device \in [Endpoints -> Device \cup {None}]
    /\ history \in Seq(Row)
    /\ published \subseteq Event

ThreadsOK ==
    /\ pc \in [Threads -> Labels]
    /\ task \in [Threads -> Task \cup {None}]
    /\ conn \in [Threads -> Entry \cup {None}]
    /\ depth \in [Threads -> 0 .. MaxDepth]
    /\ row \in [Threads -> Nat]

SweepOK ==
    /\ todo \in [Instances -> SUBSET Endpoints]
    /\ gathered \in [Instances -> [Endpoints -> Entry \cup {None}]]

GhostsOK ==
    /\ session \in [Endpoints -> Protocols \cup {None}]
    /\ stored \in [Endpoints -> Protocols \cup {None}]
    /\ last \in [Endpoints -> Record \cup {None}]

\* Every variable holds a value of the kind the code keeps there; no offset
\* is committed before it is read, nor read before it is written.
TypeOK ==
    KafkaOK /\ ProcessOK /\ StoresOK /\ ThreadsOK /\ SweepOK /\ GhostsOK

\* A connection_histories row refers to a registered device, whatever has
\* failed, crashed or been redelivered: handleAgentConnect returns before
\* ConnectionHistory.Create when it could not register the agent.
HistoryHasDevice ==
    \A n \in DOMAIN history : device[history[n].ep] # None

\* Whoever receives a "connected" event can look the device up.
EventHasDevice ==
    \A ev \in published : ev.status = "connected" => device[ev.ep] # None

\* No handler of a live process is working on e.
Settled(e) ==
    /\ \A i \in Instances : up[i]
    /\ \A i \in Instances :
          task[<<i, "consumer">>] # None => task[<<i, "consumer">>].ep # e

\* While agents announce every disconnect and records stay in order, the two
\* goroutines that close rows never leave two of one agent open, and never
\* close one that a later Disconnect will miss.
OneOpenRow == \A e \in Endpoints : Cardinality(OpenRows(e)) <= 1

\* Once a Disconnect is handled its agent is offline in the database, and
\* its row closed, however the monitor's timeout of it interleaved.
GoneIsOffline ==
    \A e \in Endpoints :
        /\ last[e] # None /\ Settled(e)
        /\ last[e].op = "disconnect" /\ device[e] # None
        => device[e].status = "offline" /\ OpenRows(e) = {}

\* The devices row routes to the MTP of the last Connect handled, whether the
\* agent was new or known.
RouteFollowsConnect ==
    \A e \in Endpoints :
        last[e] # None /\ Settled(e) /\ last[e].op = "connect" =>
            device[e] # None /\ device[e].mtp = last[e].mtp

\* A Connect whose handler has not come to the devices row yet.
DueToRegister(e) ==
    \E t \in Threads : /\ pc[t] \in {"set", "activity", "lookup", "create"}
                       /\ task[t].op = "connect" /\ task[t].ep = e
DueToRecord(e) == \E t \in Threads : pc[t] = "history" /\ task[t].ep = e

\* An agent whose last record was a Connect is registered, or a handler is on
\* its way to do it; and who is registered has a connection history, or is
\* about to: whichever process handles which of the agent's records, none of
\* them may leave it to another that has already passed.
AuditTrail ==
    \A e \in Endpoints :
        /\ last[e] # None /\ last[e].op = "connect" =>
              device[e] # None \/ DueToRegister(e)
        /\ device[e] # None =>
              \/ \E n \in DOMAIN history : history[n].ep = e
              \/ DueToRecord(e)

\* handleAgentConnect "auto-registers device if new".
Registered ==
    \A e \in Endpoints :
        (last[e] # None /\ last[e].op = "connect") ~> device[e] # None

\* "If inactive > 10 minutes: Disconnects agent": what a scan that could read
\* everything keeps includes each agent silent for longer than that which is
\* not disconnected yet.
TimedOutIsKept ==
    [][\A i \in Instances : KeepInactive(i) =>
          \A e \in Endpoints :
              /\ gathered[i][e] # None
              /\ gathered[i][e].age > DisconnectAfter
              /\ gathered[i][e].status # "disconnected"
              => gathered'[i][e] # None]_vars

\* "DisconnectedAt: NULL if still connected": when nothing is in flight, an
\* agent the database calls offline has no open row.
OpenRowIsConnected ==
    \A e \in Endpoints :
        Settled(e) /\ last[e] # None /\ last[e].op = "disconnect" =>
            OpenRows(e) = {}

\* "If inactive > 10 minutes: Disconnects agent": the key the monitor removes
\* is that of the connection it timed out, not of one made since.
RemovesTimedOut ==
    [][\A i \in Instances :
          LET t == <<i, "monitor">>
          IN  RemoveKey(t) /\ redis[task[t].ep] # None /\ redis' # redis
              => redis[task[t].ep].mtp = task[t].mtp]_vars

\* "Redis is authoritative for connection state": the route it holds is the
\* one the last Connect stored.
RouteIsStored ==
    \A e \in Endpoints : redis[e] # None => redis[e].mtp = stored[e]

\* t handles a Connect that is not in connection_histories yet.
Announcing(t) ==
    /\ pc[t] \in {"set", "activity", "lookup", "create", "online", "route",
                   "history"}
    /\ task[t].op = "connect"

\* How Visits sees the processes, and the Connects that are being handled.
Running == \A i \in Instances : up[i]

Arriving ==
    [e \in Endpoints |-> {task[t].mtp :
        t \in {u \in Threads : Announcing(u) /\ task[u].ep = e}}]

Book == INSTANCE Visits WITH
    running <- Running, arriving <- Arriving,
    book <- history

\* Each Connect gets a row of connection_histories, one and with its MTP; no
\* Connect is taken up while a row of its agent is open, whichever goroutine
\* was to close it; and no goroutine opens or rewrites a row again.
ImplementsVisits == Book!Spec
=============================================================================
