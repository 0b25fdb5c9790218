----------------------------- MODULE Registration -----------------------------
(***************************************************************************)
(* How a device gets its row in the devices table.                         *)
(*                                                                         *)
(* A USP agent reports itself with Connect and Boot! records, a CWMP       *)
(* device by posting Informs to mtp-http.  The reports travel over Kafka   *)
(* to usp-service and cwmp-service, whose goroutines turn a Boot! or an    *)
(* Inform into a device event, and data-service writes the event into the  *)
(* table.  usp-service writes the same row when the agent connects and     *)
(* disconnects, so two processes race for it.                              *)
(*                                                                         *)
(* Producing only queues a message in the process; consuming commits what  *)
(* has been read, handled or not; topics have several partitions and the   *)
(* messages no key, so they are sets.  Processes crash, are stopped and    *)
(* start again, and Kafka, Redis and PostgreSQL go away and come back.     *)
(*                                                                         *)
(* A report is known by its position in reports; the values it carries     *)
(* (manufacturer, serial number, versions) are abstracted to that number.  *)
(* The accesses to Redis of a Connect, and the closing of history rows,    *)
(* are those of AgentConnections.                                          *)
(***************************************************************************)
EXTENDS Naturals, Sequences

CONSTANTS
    Agents,      \* USP agents; the key of an agent is its endpoint id
    Boxes,       \* CWMP devices
    Identity,    \* Identity[b]: the OUI, product class and serial number of b
    MaxReports,  \* bound: what the devices report
    MaxFaults,   \* bound: crashes, stops and outages
    None

Devices == Agents \cup Boxes

ASSUME RegistrationAssumption ==
    /\ Agents \cap Boxes = {}
    /\ MaxReports \in Nat /\ MaxFaults \in Nat
    /\ DOMAIN Identity = Boxes

\* "%s-%s-%s": each part may itself hold dashes, so it is a sequence of what
\* is between them.
deviceID(i) == i.OUI \o i.ProductClass \o i.SerialNumber

Key(d) == IF d \in Boxes THEN deviceID(Identity[d]) ELSE d

Keys == {Key(d) : d \in Devices}

Services == {"http", "usp", "cwmp", "data"}
Consumers == {"usp", "cwmp", "data"}
Producers == {"http", "usp", "cwmp"}
Stores == {"kafka", "redis", "postgres"}
Topics == {"uspIn", "cwmpIn", "created"}
In == [usp |-> "uspIn", cwmp |-> "cwmpIn", data |-> "created"]
Out == [http |-> "cwmpIn", usp |-> "created", cwmp |-> "created"]

AgentOps == {"connect", "disconnect", "boot13", "boot14"}
BoxOps == {"inform", "nameless", "other"}

Numbers == 1..MaxReports
Row == [id : Nat \ {0}, by : Numbers \cup {0}, routed : BOOLEAN,
        status : {"provisioning", "online", "offline"}]

ASSUME NoneAssumption == None \notin Row \cup Numbers

VARIABLES
    reports,   \* what the devices have reported, oldest first
    answered,  \* history variable: reports whose sender has been answered
    down,      \* what of Stores is out of reach
    faults,    \* crashes, stops and outages so far
    up,        \* the processes that run
    queue,     \* queue[s]: reports s has produced, not yet with Kafka
    topic,     \* topic[t]: reports in t not yet read
    read,      \* read[s]: read by s and not committed
    task,      \* task[s]: the report s is handling, or None
    pc,        \* pc[s]: the next step of its handler
    jobs,      \* jobs[s]: goroutines s has started for a report
    onboarded, \* onboarded[k]: cwmp-service's onboardedDevices
    rows,      \* rows[k]: the devices row of k, or None
    lastId,    \* the sequence of devices.id
    found,     \* found[s]: the id s has read, 0 for none
    history,   \* connection_histories
    saved      \* history variable: reports written to the table

world == <<reports, answered>>
outages == <<down, faults>>
messages == <<queue, topic, read>>
threads == <<task, pc, found>>
table == <<rows, lastId, history>>
memory == <<jobs, onboarded>>
vars == <<world, outages, up, messages, threads, memory, table, saved>>

Init ==
    /\ reports = <<>> /\ answered = {}
    /\ down = {} /\ faults = 0
    /\ up = Services
    /\ queue = [s \in Producers |-> {}]
    /\ topic = [t \in Topics |-> {}]
    /\ read = [s \in Consumers |-> {}]
    /\ task = [s \in Consumers |-> None]
    /\ pc = [s \in Consumers |-> "idle"]
    /\ jobs = [s \in {"usp", "cwmp"} |-> {}]
    /\ onboarded = [k \in Keys |-> None]
    /\ rows = [k \in Keys |-> None] /\ lastId = 0
    /\ found = [s \in Consumers |-> 0]
    /\ history = {}
    /\ saved = {}

KeyOf(n) == Key(reports[n].dev)
Registering(n) == reports[n].op \in {"boot13", "inform"}
Reachable(i) == i \notin down

-----------------------------------------------------------------------------
(***************************************************************************)
(* The devices.                                                            *)
(***************************************************************************)
Report(d, op) ==
    /\ Len(reports) < MaxReports
    /\ reports' = Append(reports, [dev |-> d, op |-> op, at |-> faults,
                                   calm |-> down = {}])

\* The MTP services, which have modules of their own, pass a record on.
AgentSends(a, op) ==
    /\ Report(a, op)
    /\ topic' = [topic EXCEPT !.uspIn = @ \cup {Len(reports) + 1}]
    /\ UNCHANGED <<answered, outages, up, queue, read, threads, memory, table,
                   saved>>

\* handleHTTPMessage answers with an InformResponse of its own once the body
\* is queued.  What it refuses changes nothing.
BoxPosts(b, op) ==
    /\ "http" \in up
    /\ Report(b, op)
    /\ queue' = [queue EXCEPT !["http"] = @ \cup {Len(reports) + 1}]
    /\ answered' = answered \cup {Len(reports) + 1}
    /\ UNCHANGED <<outages, up, topic, read, threads, memory, table, saved>>

-----------------------------------------------------------------------------
(***************************************************************************)
(* Kafka, and the producer and consumer every process has.                 *)
(***************************************************************************)
Deliver(s) ==
    /\ s \in up /\ Reachable("kafka")
    /\ \E n \in queue[s] :
          /\ queue' = [queue EXCEPT ![s] = @ \ {n}]
          /\ topic' = [topic EXCEPT ![Out[s]] = @ \cup {n}]
    /\ UNCHANGED <<world, outages, up, read, threads, memory, table, saved>>

\* A delivery that fails is only logged.
DeliveryFails(s) ==
    /\ s \in up /\ ~Reachable("kafka")
    /\ \E n \in queue[s] : queue' = [queue EXCEPT ![s] = @ \ {n}]
    /\ UNCHANGED <<world, outages, up, topic, read, threads, memory, table,
                   saved>>

\* Where the handler of a report begins.
FirstStep(s, n) ==
    IF s # "usp" THEN "handle"
    ELSE CASE reports[n].op = "connect" -> "lookup"
           [] reports[n].op = "disconnect" -> "offline"
           [] OTHER -> "handle"

ReadMessage(s) ==
    /\ s \in up /\ Reachable("kafka")
    /\ task[s] = None
    /\ \E n \in topic[In[s]] :
          /\ topic' = [topic EXCEPT ![In[s]] = @ \ {n}]
          /\ read' = [read EXCEPT ![s] = @ \cup {n}]
          /\ task' = [task EXCEPT ![s] = n]
          /\ pc' = [pc EXCEPT ![s] = FirstStep(s, n)]
    /\ UNCHANGED <<world, outages, up, queue, found, memory, table, saved>>

AutoCommit(s) ==
    /\ s \in up /\ Reachable("kafka")
    /\ read[s] # {}
    /\ read' = [read EXCEPT ![s] = {}]
    /\ UNCHANGED <<world, outages, up, queue, topic, threads, memory, table,
                   saved>>

At(s, l) == s \in up /\ pc[s] = l

\* The handler returns; an error is only logged.
Return(s) ==
    /\ task' = [task EXCEPT ![s] = None]
    /\ pc' = [pc EXCEPT ![s] = "idle"]
    /\ found' = [found EXCEPT ![s] = 0]

Go(s, l) ==
    /\ pc' = [pc EXCEPT ![s] = l]
    /\ UNCHANGED task

Produce(s, n) == queue' = [queue EXCEPT ![s] = @ \cup {n}]

-----------------------------------------------------------------------------
(***************************************************************************)
(* usp-service: Connect and Disconnect records, handled step by step.      *)
(***************************************************************************)
RowOf(s) == rows[KeyOf(task[s])]
SetRow(s, r) == rows' = [rows EXCEPT ![KeyOf(task[s])] = r]

\* GetByEndpointID; any error but "not found" ends the handler.
Lookup ==
    /\ At("usp", "lookup")
    /\ IF Reachable("postgres")
       THEN IF RowOf("usp") = None
            THEN Go("usp", "create") /\ UNCHANGED found
            ELSE /\ Go("usp", "online")
                 /\ found' = [found EXCEPT !["usp"] = RowOf("usp").id]
       ELSE Return("usp")
    /\ UNCHANGED <<world, outages, up, messages, memory, table, saved>>

\* Mutant: carries on when the agent could not be registered.
CreateCarriesOn ==
    /\ At("usp", "create")
    /\ IF Reachable("postgres") /\ RowOf("usp") = None
       THEN /\ SetRow("usp", [id |-> lastId + 1, by |-> 0, routed |-> TRUE,
                              status |-> "provisioning"])
            /\ lastId' = lastId + 1
            /\ found' = [found EXCEPT !["usp"] = lastId + 1]
       ELSE UNCHANGED <<rows, lastId, found>>
    /\ Go("usp", "history")
    /\ UNCHANGED <<world, outages, up, messages, memory, history, saved>>

\* Device.Create is a plain INSERT: the unique index refuses it if
\* data-service has been faster.
Create ==
    /\ At("usp", "create")
    /\ IF Reachable("postgres") /\ RowOf("usp") = None
       THEN /\ SetRow("usp", [id |-> lastId + 1, by |-> 0, routed |-> TRUE,
                              status |-> "provisioning"])
            /\ lastId' = lastId + 1
            /\ found' = [found EXCEPT !["usp"] = lastId + 1]
            /\ Go("usp", "history")
       ELSE Return("usp") /\ UNCHANGED <<rows, lastId>>
    /\ UNCHANGED <<world, outages, up, messages, memory, history, saved>>

\* UpdateConnectionStatus and UpdateMTPInfo change single columns, and their
\* errors are only logged.
MarkOnline ==
    /\ At("usp", "online")
    /\ IF Reachable("postgres")
       THEN SetRow("usp", [RowOf("usp") EXCEPT !.status = "online"])
       ELSE UNCHANGED rows
    /\ Go("usp", "route")
    /\ UNCHANGED <<world, outages, up, messages, found, memory, lastId,
                   history, saved>>

UpdateRoute ==
    /\ At("usp", "route")
    /\ IF Reachable("postgres")
       THEN SetRow("usp", [RowOf("usp") EXCEPT !.routed = TRUE])
       ELSE UNCHANGED rows
    /\ Go("usp", "history")
    /\ UNCHANGED <<world, outages, up, messages, found, memory, lastId,
                   history, saved>>

RecordHistory ==
    /\ At("usp", "history")
    /\ history' = IF Reachable("postgres")
                  THEN history \cup {[device |-> found["usp"],
                                      key |-> KeyOf(task["usp"])]}
                  ELSE history
    /\ Return("usp")
    /\ UNCHANGED <<world, outages, up, messages, memory, rows, lastId, saved>>

\* UPDATE ... WHERE endpoint_id = e: nothing happens to a row that is not
\* there.
MarkOffline ==
    /\ At("usp", "offline")
    /\ IF Reachable("postgres") /\ RowOf("usp") # None
       THEN SetRow("usp", [RowOf("usp") EXCEPT !.status = "offline"])
       ELSE UNCHANGED rows
    /\ Return("usp")
    /\ UNCHANGED <<world, outages, up, messages, memory, lastId, history,
                   saved>>

-----------------------------------------------------------------------------
(***************************************************************************)
(* usp-service: a Notify is answered; a Boot! of USP 1.3 also starts a     *)
(* goroutine that registers the agent two seconds later.                   *)
(***************************************************************************)
Notify ==
    LET n == task["usp"] IN
    /\ At("usp", "handle")
    /\ answered' = answered \cup {n}
    /\ jobs' = IF reports[n].op = "boot13"
               THEN [jobs EXCEPT !["usp"] = @ \cup {n}] ELSE jobs
    /\ Return("usp")
    /\ UNCHANGED <<reports, outages, up, messages, onboarded, table, saved>>

registerDeviceFromBootParams ==
    /\ "usp" \in up
    /\ \E n \in jobs["usp"] :
          /\ jobs' = [jobs EXCEPT !["usp"] = @ \ {n}]
          /\ Produce("usp", n)
    /\ UNCHANGED <<world, outages, up, topic, read, threads, onboarded, table,
                   saved>>

-----------------------------------------------------------------------------
(***************************************************************************)
(* cwmp-service: only an Inform is handled, its InformResponse goes to a   *)
(* topic mtp-http drops, and a goroutine onboards the device.              *)
(***************************************************************************)
HandleInform ==
    LET n == task["cwmp"] IN
    /\ At("cwmp", "handle")
    /\ jobs' = IF reports[n].op = "other" THEN jobs
               ELSE [jobs EXCEPT !["cwmp"] = @ \cup {n}]
    /\ Return("cwmp")
    /\ UNCHANGED <<world, outages, up, messages, onboarded, table, saved>>

\* A manufacturer, an OUI and a serial number are required; then the event is
\* produced and the device kept in memory.
Identified(n) == reports[n].op # "nameless"

ProcessInformForOnboarding ==
    /\ "cwmp" \in up
    /\ \E n \in jobs["cwmp"] :
          /\ jobs' = [jobs EXCEPT !["cwmp"] = @ \ {n}]
          /\ IF Identified(n)
             THEN /\ Produce("cwmp", n)
                  /\ onboarded' = [onboarded EXCEPT ![KeyOf(n)] = n]
             ELSE UNCHANGED <<queue, onboarded>>
    /\ UNCHANGED <<world, outages, up, topic, read, threads, table, saved>>

-----------------------------------------------------------------------------
(***************************************************************************)
(* data-service: handleDeviceCreatedEvent and CreateOrUpdate, which looks  *)
(* the row up and then either saves every column or upserts some.          *)
(***************************************************************************)
\* Mutant: leaves a device alone that has a row.
FirstKeeps ==
    /\ At("data", "handle")
    /\ IF Reachable("postgres") /\ RowOf("data") = None
       THEN Go("data", "upsert") /\ UNCHANGED found
       ELSE Return("data")
    /\ UNCHANGED <<world, outages, up, messages, memory, table, saved>>

\* Mutant: an error of the database ends the consumer loop.
FirstEndsLoop ==
    /\ At("data", "handle")
    /\ IF Reachable("postgres")
       THEN /\ Go("data", IF RowOf("data") = None THEN "upsert" ELSE "save")
            /\ found' = [found EXCEPT !["data"] =
                             IF RowOf("data") = None THEN 0
                             ELSE RowOf("data").id]
       ELSE Go("data", "idle") /\ UNCHANGED found
    /\ UNCHANGED <<world, outages, up, messages, memory, table, saved>>

First ==
    /\ At("data", "handle")
    /\ IF Reachable("postgres")
       THEN /\ Go("data", IF RowOf("data") = None THEN "upsert" ELSE "save")
            /\ found' = [found EXCEPT !["data"] =
                             IF RowOf("data") = None THEN 0
                             ELSE RowOf("data").id]
       ELSE Return("data")
    /\ UNCHANGED <<world, outages, up, messages, memory, table, saved>>

\* Mutant: device.ID is not set to the id that was found.
SaveForgetsId ==
    LET n == task["data"] IN
    /\ At("data", "save")
    /\ IF Reachable("postgres")
       THEN /\ SetRow("data", [id |-> 0, by |-> n, routed |-> FALSE,
                               status |-> "online"])
            /\ saved' = saved \cup {n}
       ELSE UNCHANGED <<rows, saved>>
    /\ Return("data")
    /\ UNCHANGED <<world, outages, up, messages, memory, lastId, history>>

\* Save writes all columns of a device made of the event: the routing columns
\* and last_seen become empty.
Save ==
    LET n == task["data"] IN
    /\ At("data", "save")
    /\ IF Reachable("postgres")
       THEN /\ SetRow("data", [id |-> found["data"], by |-> n,
                               routed |-> FALSE, status |-> "online"])
            /\ saved' = saved \cup {n}
       ELSE UNCHANGED <<rows, saved>>
    /\ Return("data")
    /\ UNCHANGED <<world, outages, up, messages, memory, lastId, history>>

\* Mutant: replaces the row on conflict.
UpsertReplaces ==
    LET n == task["data"] IN
    /\ At("data", "upsert")
    /\ IF Reachable("postgres")
       THEN /\ SetRow("data", [id |-> lastId + 1, by |-> n, routed |-> FALSE,
                               status |-> "online"])
            /\ lastId' = lastId + 1
            /\ saved' = saved \cup {n}
       ELSE UNCHANGED <<rows, lastId, saved>>
    /\ Return("data")
    /\ UNCHANGED <<world, outages, up, messages, memory, history>>

\* Mutant: updates every column on conflict.
UpsertAllColumns ==
    LET n == task["data"]
        row == [id |-> IF RowOf("data") = None THEN lastId + 1
                       ELSE RowOf("data").id,
                by |-> n, routed |-> FALSE, status |-> "online"]
    IN  /\ At("data", "upsert")
        /\ IF Reachable("postgres")
           THEN /\ SetRow("data", row)
                /\ lastId' = lastId + 1
                /\ saved' = saved \cup {n}
           ELSE UNCHANGED <<rows, lastId, saved>>
        /\ Return("data")
        /\ UNCHANGED <<world, outages, up, messages, memory, history>>

\* INSERT ... ON CONFLICT DO UPDATE of the columns an event has.
Upsert ==
    LET n == task["data"]
        fresh == [id |-> lastId + 1, by |-> n, routed |-> FALSE,
                  status |-> "online"]
        merged == [RowOf("data") EXCEPT !.by = n, !.status = "online"]
    IN  /\ At("data", "upsert")
        /\ IF Reachable("postgres")
           THEN /\ SetRow("data", IF RowOf("data") = None THEN fresh
                                  ELSE merged)
                /\ lastId' = lastId + 1
                /\ saved' = saved \cup {n}
           ELSE UNCHANGED <<rows, lastId, saved>>
        /\ Return("data")
        /\ UNCHANGED <<world, outages, up, messages, memory, history>>

-----------------------------------------------------------------------------
(***************************************************************************)
(* Processes and stores going and coming back.                             *)
(***************************************************************************)
Fault == faults < MaxFaults /\ faults' = faults + 1

\* What a process had in memory is gone: its handler, its goroutines and
\* what it had produced.
Without(f, s, nothing) == [x \in DOMAIN f |-> IF x = s THEN nothing ELSE f[x]]

Forget(s) ==
    /\ up' = up \ {s}
    /\ queue' = Without(queue, s, {})
    /\ read' = Without(read, s, {})
    /\ task' = Without(task, s, None)
    /\ pc' = Without(pc, s, "idle")
    /\ found' = Without(found, s, 0)
    /\ jobs' = Without(jobs, s, {})
    /\ onboarded' = IF s = "cwmp" THEN [k \in Keys |-> None] ELSE onboarded
    /\ UNCHANGED <<world, down, table, saved>>

\* What it had read and not committed is read again.
Crash(s) ==
    /\ s \in up
    /\ Fault
    /\ Forget(s)
    /\ topic' = IF s = "http" THEN topic
                ELSE [topic EXCEPT ![In[s]] = @ \cup read[s]]

\* main on SIGTERM: the consumer's Close commits what has been read, the
\* producer's Close flushes, and nobody waits for a handler or a goroutine.
Stop(s) ==
    /\ s \in up /\ Reachable("kafka")
    /\ Fault
    /\ Forget(s)
    /\ topic' = IF s = "data" THEN topic
                ELSE [topic EXCEPT ![Out[s]] = @ \cup queue[s]]

StopUsp == Stop("usp")
StopData == Stop("data")
StopHttp == Stop("http")

\* cwmp-service stops its consumer without closing it, and does not flush.
StopCwmp == Crash("cwmp")

Start(s) ==
    /\ s \notin up
    /\ up' = up \cup {s}
    /\ UNCHANGED <<world, outages, messages, threads, memory, table, saved>>

\* NewUSPCoreService gives up without the topics, Redis or the database,
\* NewDataService without the topics or the database, NewCWMPService without
\* the topics; NewHTTPMTPService only warns.
StartUsp == down = {} /\ Start("usp")
StartData == Reachable("kafka") /\ Reachable("postgres") /\ Start("data")
StartCwmp == Reachable("kafka") /\ Start("cwmp")
StartHttp == Start("http")

Fail(i) ==
    /\ Reachable(i)
    /\ Fault
    /\ down' = down \cup {i}
    /\ UNCHANGED <<world, up, messages, threads, memory, table, saved>>

Recover(i) ==
    /\ ~Reachable(i)
    /\ down' = down \ {i}
    /\ UNCHANGED <<world, faults, up, messages, threads, memory, table, saved>>

-----------------------------------------------------------------------------
Outside ==
    \/ \E a \in Agents, op \in AgentOps : AgentSends(a, op)
    \/ \E b \in Boxes, op \in BoxOps : BoxPosts(b, op)

Client ==
    \/ \E s \in Producers : Deliver(s) \/ DeliveryFails(s)
    \/ \E s \in Consumers : ReadMessage(s) \/ AutoCommit(s)

USPHandler ==
    \/ Lookup \/ Create \/ MarkOnline \/ UpdateRoute \/ RecordHistory
    \/ MarkOffline \/ Notify

USPService ==
    \/ USPHandler
    \/ registerDeviceFromBootParams

CWMPService ==
    \/ HandleInform
    \/ ProcessInformForOnboarding

DataService == First \/ Save \/ Upsert

Processes ==
    \/ \E s \in Services : Crash(s)
    \/ StopUsp \/ StopData \/ StopHttp \/ StopCwmp
    \/ StartUsp \/ StartData \/ StartCwmp \/ StartHttp
    \/ \E i \in Stores : Fail(i) \/ Recover(i)

Next == Outside \/ Client \/ USPService \/ CWMPService \/ DataService \/ Processes

Spec == Init /\ [][Next]_vars

\* Handlers and goroutines run on, Kafka delivers, what is restarted comes
\* up.  Devices need not report, and nothing need fail or stop.
Fairness ==
    /\ \A s \in Producers : WF_vars(Deliver(s))
    /\ \A s \in Consumers : WF_vars(ReadMessage(s))
    /\ WF_vars(USPHandler) /\ WF_vars(HandleInform) /\ WF_vars(DataService)
    /\ WF_vars(registerDeviceFromBootParams)
    /\ WF_vars(ProcessInformForOnboarding)
    /\ WF_vars(StartUsp) /\ WF_vars(StartData) /\ WF_vars(StartCwmp)
    /\ WF_vars(StartHttp)
    /\ \A i \in Stores : WF_vars(Recover(i))

FairSpec == Spec /\ Fairness

-----------------------------------------------------------------------------
(***************************************************************************)
(* Properties.                                                             *)
(***************************************************************************)
\* Type invariant.
TypeOK ==
    /\ reports \in Seq([dev : Devices, op : AgentOps \cup BoxOps,
                        at : 0..MaxFaults, calm : BOOLEAN])
    /\ Len(reports) <= MaxReports
    /\ answered \subseteq DOMAIN reports
    /\ down \subseteq Stores /\ faults \in 0..MaxFaults
    /\ up \subseteq Services
    /\ queue \in [Producers -> SUBSET DOMAIN reports]
    /\ topic \in [Topics -> SUBSET DOMAIN reports]
    /\ read \in [Consumers -> SUBSET DOMAIN reports]
    /\ task \in [Consumers -> DOMAIN reports \cup {None}]
    /\ pc \in [Consumers -> {"idle", "handle", "lookup", "create", "online",
                             "route", "history", "offline", "save", "upsert"}]
    /\ jobs \in [{"usp", "cwmp"} -> SUBSET DOMAIN reports]
    /\ onboarded \in [Keys -> DOMAIN reports \cup {None}]
    /\ rows \in [Keys -> Row \cup {None}] /\ lastId \in Nat
    /\ found \in [Consumers -> Nat]
    /\ history \subseteq [device : Nat, key : Keys]
    /\ saved \subseteq DOMAIN reports

\* Every history row points to the row of its endpoint, and no two endpoints
\* have the same id, however usp-service and data-service race to create a
\* row: the loser of the unique index must not go on with an id of its own.
HistoryRefers ==
    /\ \A h \in history : rows[h.key] # None /\ rows[h.key].id = h.device
    /\ \A k, l \in Keys : (/\ k # l
                            /\ rows[k] # None /\ rows[l] # None)
                           => rows[k].id # rows[l].id

\* Where report n is on its way to the table.
OnItsWay(n) ==
    \/ \E s \in Producers : n \in queue[s]
    \/ \E t \in Topics : n \in topic[t]
    \/ \E s \in Consumers : task[s] = n
    \/ \E s \in {"usp", "cwmp"} : n \in jobs[s]

\* A Boot! or Inform that came while everything was in reach, and nothing has
\* crashed, stopped or failed since.
Safe(n) ==
    /\ n \in DOMAIN reports /\ Registering(n)
    /\ reports[n].calm /\ reports[n].at = faults

\* Such a report is at every moment on its way to the table or written there,
\* whatever crashed or failed before it came and whoever races for its row:
\* no branch of the handlers on that way drops it.
NothingIsLost == \A n \in Numbers : Safe(n) => OnItsWay(n) \/ n \in saved

\* A row keeps its id through every writer: the upsert, the Save of all
\* columns and the updates of usp-service never replace the row that history
\* and parameters refer to.
IdIsStable ==
    [][\A k \in Keys : rows[k] # None =>
          rows'[k] # None /\ rows'[k].id = rows[k].id]_vars

\* The routing columns a Connect writes between data-service's lookup and its
\* write survive when the lookup found no row: only a Save, after a lookup
\* that found the row, empties them.
RouteSurvivesUpsert ==
    [][\A k \in Keys :
          (rows[k] # None /\ rows[k].routed /\ found["data"] = 0)
             => rows'[k].routed]_vars

\* A Boot! or Inform that came while everything was in reach reaches the
\* table, unless something crashes, stops or fails afterwards.
Registers ==
    \A n \in Numbers : Safe(n) ~> (n \in saved \/ ~Safe(n))

=============================================================================
