# OpenUSP: TLA+ specifications, model checking and proofs

OpenUSP is a TR-369 (USP) controller with CWMP support, written in Go as a set
of processes around Apache Kafka, PostgreSQL and Redis. This directory
specifies how those processes behave when they run at the same time and when
parts of them fail, checks the specifications with TLC on small instances, and
proves the most important invariants with TLAPS for every instance.

## 1. Inventory

| Part | State | Operations | Talks to |
|---|---|---|---|
| usp-service, connection tracking (`cmd/usp-service/connection_handler.go`) | none of its own; two goroutines share three stores | `handleAgentConnect`, `handleAgentDisconnect`, `monitorConnections` | Redis, PostgreSQL, Kafka events |
| Redis connection store (`pkg/redis`) | `agent:connection:<endpoint>` keys, TTL 24 h | store, refresh activity, change status, remove, scan | usp-service |
| database (`internal/database`) | `devices` (unique endpoint), `connection_histories`, parameters, alerts, sessions | create, create-or-update, status, route, history | usp-service, data-service |
| usp-service, messages (`cmd/usp-service/main.go`) | none | version detection, 1.3/1.4 dispatch, responses, Boot! registration | Kafka inbound/outbound/API topics |
| Kafka wrappers (`pkg/kafka/consumer.go`, `producer.go`, `client.go`) | offsets, handler table | consume loop, publish without key, auto commit | every service |
| Kafka request-response client (`pkg/kafka/request_response.go`) | `pendingRequests`, one channel per request, listener goroutine | `SendRequest`, `listenForResponses`, `Close` | api-gateway on one side, data-service on the other |
| api-gateway, data-service | HTTP requests in flight; device rows | REST to Kafka and back; device events | request-response client, database |
| WebSocket MTP (`cmd/mtp-services/websocket`) | `connections`, `endpointToClient` under one lock | a goroutine per connection registers, maps, publishes and cleans up; the outbound handler looks up and writes | agents, Kafka |
| STOMP MTP (`cmd/mtp-services/stomp`) | the socket, the reader's buffer, `connected`, `authenticated` | `Start` connects and subscribes, `readMessages` publishes, the outbound handler sends | RabbitMQ, Kafka |
| HTTP MTP (`cmd/mtp-services/http`) | its producer's queue | publishes an Inform and answers it at once, drops every outbound message | CPEs, Kafka |
| MQTT MTP | none | without a broker: only logs outbound messages | Kafka |
| cwmp-service (`cmd/cwmp-service`, `internal/cwmp`) | `onboardedDevices`; a session table nothing uses | Inform from Kafka, background onboarding | Kafka |
| USP agent (`cmd/agents/usp`) | one session: socket, and over STOMP `inbox`, `errs`, `closed` and two goroutines | connect, Boot!, Get, read, close | WebSocket MTP or STOMP broker |

Configuration, metrics, version, TR-181 tables, parser, generated protobuf and
API documents are sequential or pure I/O and are not modelled.

What is hard here: two goroutines of usp-service write the same Redis keys and
rows without a lock or a transaction; each access may fail and the code carries
on; records are redelivered after a crash and may be reordered, because they
are published without a key over three partitions; links drop without a
Disconnect; a gateway's response listener shares channels with the requests
that time out. `PROJECT.json` lists the hazards at their lines.

What makes each part correct:

- connection tracking: rows and events refer to registered devices; a database
  that reflects the last Connect or Disconnect handled, whatever the monitor did
  meanwhile; one open history row per connected agent; agents registered also
  without Redis; timeouts that take effect, on the connection they were meant for.
- request-response client: one answer or error per call, only the call's own
  answer, nothing left behind, a listener that never stops.
- device registration: a reported device reaches the table; one row per endpoint,
  whose id never changes although two services write it; routes that onboarding
  does not undo.
- WebSocket MTP: an answer reaches the agent that asked and no other; the maps
  follow the connections, also when one replaces another; an answer to every
  request on a connection that holds.
- STOMP MTP: subscribed only where somebody reads; what is queued is published;
  a lost link is noticed.
- USP agent: what the socket delivers is read, in order; the two goroutines that
  close one channel do it once; the agent ends whatever the network does.

## 2. Modules

| Module | What it is |
|---|---|
| `AgentConnections` | connection tracking of usp-service: consumer and monitor goroutines, Redis, devices, connection history, Kafka |
| `MCAgentConnections`, four `.cfg` | its instances |
| `AgentConnections_proofs` | its inductive invariant and three invariants proved |
| `Visits` | abstract: what a reader of connection_histories may expect |
| `ConnectionState_proofs` | what the database says of an agent, that it implements `Visits`, and life without Redis, proved under the conditions of their runs |
| `RemoteCalls` | abstract: what api-gateway may expect of an operation at data-service |
| `RequestResponse` | SendRequest, listenForResponses, Close, api-gateway's Stop, the broker and data-service |
| `MCRequestResponse`, two `.cfg` | its instances |
| `RequestResponse_proofs` | its invariants, and that it implements `RemoteCalls` |
| `Mailbox` | abstract: what an agent may expect of an MTP service |
| `WebSocketMTP` | connection goroutines, the two maps, the outbound handler, usp-service's answers |
| `MCWebSocketMTP`, two `.cfg` | its instances |
| `WebSocketMTP_proofs` | its registry, no leakage, that it implements `Mailbox`, and that a request is lost only with a connection |
| `StompMTP` | `Start`, `readMessages`, outbound handler, shutdown, RabbitMQ's session and queues |
| `MCStompMTP`, two `.cfg` | its instances |
| `StompMTP_proofs` | its types, that a subscription is heard, that a frame is read once and no request is lost |
| `Registration` | from a Boot! or an Inform to the devices row: mtp-http, Kafka, usp-service, cwmp-service, data-service and PostgreSQL |
| `MCRegistration`, one `.cfg` | its instance |
| `Registration_proofs` | its inductive invariant and five properties proved |
| `UspAgent` | the agent's main, STOMP reader and heartbeat; network, broker and controller |
| `MCUspAgent`, one `.cfg` | its instance |
| `Stream` | abstract: what one end of a connection promises the program that reads it |
| `UspAgent_proofs` | its inductive invariant, five properties, and that it implements `Stream` |

### AgentConnections

One goroutine per process runs `consumeLoop`, one runs `monitorConnections`; a
thread is a pair of a process and one of the two. `pc[t]` names the next access
to a store; `task[t]` is the record or agent it works for, `conn[t]` the Redis
entry it has read and not written back, `row[t]` the history row it has looked
up, `depth[t]` the frames of the mutual recursion between
`StoreAgentConnection` and `UpdateAgentActivity`. Each action is one access and
what the code does up to the next:

| Code | Actions |
|---|---|
| `handleAgentConnect` | `Consume`, `RedisSet`, `RefreshActivity`, `Lookup`, `CreateDevice`, `MarkOnline`, `UpdateRoute`, `RecordConnection`, `AnnounceConnected` |
| `handleAgentDisconnect` | `RedisGet`, `RedisSet`, `MarkOffline`, `FindActive`, `CloseRow`, `AnnounceDisconnected` |
| `monitorConnections` | `ListKeys`, `ReadKey`, `KeepInactive`, `CheckAgent`, the steps of `handleAgentDisconnect`, `RemoveKey`, `SweepDone` |
| Kafka | `Publish` by agents, `Consume`, `AutoCommit` at any moment |
| environment | `AgentConnect`, `AgentDisconnect`, `AgentDropped`, `Tick`, `Expire`, `Kill`, `Restart` |

`session`, `stored` and `last` are history variables: the agents' real
connections, the route last stored, the last record handled.

### RequestResponse

`pc[r]` is the program counter of the goroutine of HTTP request `r`, from the
registration of its channel to the deferred function that removes the channel
from `pendingRequests` (`Forget`) and then closes it (`CloseChannel`) with the
lock released in between. `listener[g]` is that of `listenForResponses`;
`Read` is `ReadMessage` with the lookup under the read lock, `Deliver` and
`SendOnClosed` the send after it. `Cancel`, `CloseClient`, `Shutdown` and
`Exit` are api-gateway's `Stop`. A response is its correlation id, for that is
all the client looks at. `Status` maps a state to `RemoteCalls`:
`SendRequest` is open until its channel is closed, then answered or failed; a
call of a process that is gone is lost.

### WebSocketMTP

`pc[c]` is the program counter of `handleWebSocket` for connection `c`, a client
id: `Upgrade`, `Register`, then `ReadMessage`, `MapEndpoint`, `Publish` again
and again until `ReadError`, then the deferred `Cleanup` and `Close`. `link[c]`
is the socket: it may be down long before the goroutine notices, while the
agent has connected again. `Fetch`, `Lookup` and `Write` are the outbound
handler, with the lock released between the last two. `Answer` is usp-service.

`Key(a)` is what `extractEndpointID` makes of a record of agent `a`. It tries the
authority schemes in a fixed order and takes the first place one stands at;
`to_id`, the controller, stands before `from_id`. So the agent is found only if
its scheme comes before the controller's: `Rank` gives the places, and every
record of an agent with another scheme has the controller's id. The theorems on
isolation assume `DistinctKeys`, that no two agents have the same key; see
`Isolation` under Deviations for what happens without it. `Mailbox` is what agents may expect:
an answer is only ever received by the agent that asked.

### StompMTP

`starter` is the next step of `Start` (`Dial`, `SendConnect`, then polling until
`SeeAuthenticated` or `GiveUp`, then `Subscribe`), `reader` the state of
`readMessages`, `stop` how far main's shutdown is. `tcp` is the socket as the
service has it, `session` and `subscribed` are RabbitMQ's side, `frames` what is
under way from it. `CheckConnected` and `Send` are the outbound
handler, which sends every message of the topic to the one queue of all agents;
`Others` are agents on other transports, whose messages are on the topic too.

`Reads` is one `conn.Read`: with `WholeFrames` it returns one frame, otherwise
maybe several, of which the code looks at the first only, or the part of one,
whose rest (`"REST"`) the next read returns. `buffer` holds the requests that may
have bytes in the 4096 bytes the reader uses for all reads: `readMessages` cuts the
payload out of them by the length the frame states, whatever the read returned. So
`ReadSplit` publishes nothing, a request read before as a whole, or `"HYBRID"`, a
frame completed with bytes of others, which usp-service may or may not parse; and
`ReadOverlong`, a length beyond the buffer, ends the process. `published[n]` is
what was published for the frame of request `n`.

### Registration

A report (Connect, Disconnect or Boot! of an agent, an HTTP request of a CWMP
device) is its position in `reports`; it moves through `queue[s]`, what process
`s` has produced and librdkafka not yet delivered, `topic[t]`, `task[s]`, what
the handler of `s` works on, and `jobs[s]`, the goroutines it has started.
`read[s]` is what the consumer has read and not committed.

| Code | Actions |
|---|---|
| mtp-http `handleHTTPMessage` | `BoxPosts` |
| producer, consumer of every process | `Deliver`, `DeliveryFails`, `ReadMessage`, `AutoCommit` |
| usp-service `handleAgentConnect`, one access a step | `Lookup`, `Create`, `MarkOnline`, `UpdateRoute`, `RecordHistory` |
| usp-service `handleAgentDisconnect` | `MarkOffline` |
| usp-service Notify, `triggerAgentAutoDiscovery` | `Notify`, `registerDeviceFromBootParams` |
| cwmp-service, `ProcessInformForOnboarding` | `HandleInform`, `ProcessInformForOnboarding` |
| data-service `handleDeviceCreatedEvent`, `CreateOrUpdate` | `First`, then `Save` or `Upsert` |
| processes and stores | `Crash`, `Stop`, `Start`, `Fail`, `Recover` |

`rows[k]` is the row of key `k`: an endpoint id, or OUI, product class and serial
number joined with dashes. Of a row the model keeps the id, the report last
written to it (`by`), whether its routing columns are set and its status.
`Stop` differs between services as their shutdowns do: `Close` of a producer
flushes, of a consumer commits; cwmp-service does neither and so ends like a crash.

### UspAgent

`main` is what `main` of the agent does next: `Dial`, over STOMP `SendConnect`,
`ReadConnected` and `Subscribe`, then `SendBoot`, a read, `SendGet`, a read,
`Close` and `Return`. `reader` and `beat` are the goroutines `readLoop` and
`heartbeatLoop`; `held` is the message `readLoop` is sending to `inbox`. `closed`
and `once` are the channel and the `sync.Once` that guards its close. A read of
`main` takes the head of `inbox`, an error, or times out; over WebSocket it reads
the socket itself, and after one failed read all later ones fail. `wire` is what
is under way to the agent, `session` the broker's side. Answers are computed from
the records the controller got (`ProcessUSPMessage`), and may come any number of
times, late or never.

## 3. Runs

| Run | Asks | Shows |
|---|---|---|
| `faults` | `TypeOK`, `HistoryHasDevice`, `EventHasDevice` | any access may fail, the process is killed and restarted between any two: no row and no event without its device |
| `orderly` | `OneOpenRow`, `GoneIsOffline`, `RouteFollowsConnect`, `ImplementsVisits` | agents announce every disconnect, Redis fails at will: the monitor's interleaving does not leave the database with the wrong state, open row or route, and every Connect is one visit in the history |
| `degraded` | `AuditTrail`, `Registered` | Redis down after start, two processes share one agent's records: everyone who connects is registered or about to be, and in the end is, with a history |
| `recursion` | `Registered` violated | with Redis answering, the mutual recursion exhausts the stack before the agent is registered |
| `calls_serve` | `TypeOK`, `PendingIsOpen`, `Returns`, `KeepsUp`, `ImplementsCalls` | a gateway that may be stopped, another that overhears it, data-service restarting and executing again: the channel map is consistent, every call returns, every listener keeps reading, and the client is a remote call |
| `calls_panic` | `Listens` violated | a timeout between lookup and send ends api-gateway |
| `ws_safe` | `TypeOK`, `MappedIsConnected`, `NewerIsKept`, `ImplementsMailbox` | two agents told apart, three connections, redelivery and restarts: mappings name registered connections, an old connection's cleanup spares the new one's, only the agent that asked gets an answer |
| `ws_live` | `RequestIsKept`, `GoneIsForgotten`, `Answered` | two agents told apart, only sockets fail: nothing of a dead connection stays, no request gets lost but with a connection, every other is answered |
| `stomp_safe` | `TypeOK`, `SubscribedIsHeard`, `TakenOnce` | reads of any extent, stale bytes in the buffer, a cancelled subscription, a lost link, restart and shutdown: no subscription without a reader, a frame is read once and makes one record at most, and nothing is published of a request that is yet to be read |
| `stomp_live` | `Accounted`, `Published` | whole frames, as long as the link holds and main has not cancelled the context: no request gets lost across cancelled subscriptions, and those in the queue are published |
| `onboarding` | `TypeOK`, `HistoryRefers`, `NothingIsLost`, `IdIsStable`, `RouteSurvivesUpsert`, `Registers` | an agent and a CWMP device report while one process or store fails: two services race for the row without changing its id or history's reference to it; what came in good order is registered |
| `agent` | `TypeOK`, `Conserved`, `ClosedOnce`, `ErrorIsKnown`, `ReadsInOrder`, `ImplementsStream`, `Ends` | one session, both transports and versions, a link that may fail, answers late, doubled, missing or for others: no message lost or overtaken, also with the failure in the middle of it; one close, an error that is seen, an end |

Every property of a passing run has a mutant, a small change of one mapped
definition that breaks it (`PROJECT.json`, "mutants").

`orderly` leaves out the crash and the dropped link, since both make its
properties false (`OpenRowIsConnected` below shows the second, a record
committed and not handled the first). In a model with `RedisMode = "up"` every stored connection
ends in the stack overflow of `recursion`, so other runs use `"flaky"`, where
each access may succeed or fail and a failing one ends the recursion, or `"down"`.

### Deviations

These properties say what the documents or comments promise, and the code does
not keep them. They are not among the runs; put one in a `.cfg` of its module in
place of the properties there, with the constants named, and TLC shows a
counterexample at once.

| Property | With | What happens |
|---|---|---|
| `AgentConnections!TimedOutIsKept` | `faults`, `MaxRecords = 1`, `DBMode = "up"` | an agent marked inactive is no longer "connected" to `GetInactiveAgents` and its last activity is now: it is never timed out (docs/REDIS_MTP_ROUTING.md:148) |
| `AgentConnections!OpenRowIsConnected` | `degraded` with one process, `Drops = TRUE` | after a dropped link and a reconnect a history row stays open for good (internal/database/models.go:101) |
| `AgentConnections!RemovesTimedOut` | `orderly`, `Drops = TRUE`, `MaxRecords = 2` | the monitor removes the key of a connection made since its scan |
| `AgentConnections!RouteIsStored` | the same | `UpdateConnectionStatus` reads, changes and stores an entry without a transaction and undoes a Connect in between (docs/REDIS_MTP_ROUTING.md:201) |
| `WebSocketMTP!Isolation` | `ws_live` with `Rank <- SameScheme` | `extractEndpointID` takes the first `proto::` of a record, the controller's: with the ids of configs/agents.yml:11 and configs/openusp.yml:267 all agents share one entry (docs/MTP_ROUTING.md:157, docs/TR369_ENDPOINT_IDS.md:210) |
| `UspAgent!ReadsGetResp` | `agent` | the acknowledgement of Boot! comes late, or an answer for another agent is in the queue, and is taken for the answer to the Get (agents/usp/main.go:580) |
| `UspAgent!NothingIsDiscarded` | `agent` | the agent returns with messages in `inbox` that the queue has forgotten (`ack:auto`, transport.go:207) |
| `StompMTP!Isolation` | `stomp_live` with `Agents = {a1, a2}` | every record of the outbound topic, whatever its protocol and endpoint, goes to the one queue all STOMP agents read (docs/MTP_ROUTING.md:157) |
| `StompMTP!LossIsNoticed` | `stomp_live` | `readMessages` returns with the link (line 387) and leaves `connected` set; nothing dials again (stomp/main.go:46) |
| `StompMTP!PayloadOfItsFrame` | `stomp_safe` | a frame split after its headers is published completed with bytes of earlier reads: the request before it as a whole, once more, or a mixture (stomp/main.go:408 has the payload extracted from the frame, line 420 cuts it from the buffer) |
| `StompMTP!StopsGracefully` | `stomp_live` | main cancels the context (line 180) and the reader returns (line 368) while the subscription, `ack:auto`, is still open: what RabbitMQ sends before the socket is closed is lost (stomp/main.go:174, 187) |

Others follow from the actions of `Registration` and need no run. `Save`, after a
lookup that found the row, empties the routing columns a Connect stored
(docs/MTP_ROUTING.md:43 has them kept). A device event handled after a
Disconnect sets the row "online" again. `Create` leaves "provisioning", which only
a second Connect ends. Reports may be
written out of order, so that the row may show an older one. The dashes that
join a CWMP device's id are not escaped: two devices may share a row (check with
`Boxes = {b, c}`). A report that is acknowledged, or a goroutine that sleeps, when
its process ends is gone. A Boot! of USP 1.4 is answered and never registered
(usp-service/main.go:897). `Close` of the agent after the reader has ended sends no
DISCONNECT.

### Bounds

| Constant | Value | Why it is enough |
|---|---|---|
| `Endpoints` | 1 | handlers touch the key, the row and the history of one endpoint; two agents share only the goroutines, which work for one at a time |
| `Protocols` | 1 or 2 | two routes are needed to see one overwritten by another |
| `MaxRecords` | 1 to 3 | Connect, Disconnect, Connect: a reconnection, and a record in flight beside one handled |
| `MaxRestarts` | 0 or 1 | one restart is one redelivery; the proofs take any number |
| `InactiveAfter`, `DisconnectAfter` | 0, 1 ticks | ages on each side of both thresholds; ages saturate above |
| `MaxDepth` | 1 to 3 | stands for the goroutine stack limit: what matters is that it is finite |
| `Instances`, `Partitions` | 1, or 2 and 2 | two consumers race for one agent only through two partitions |
| `Requests` | 1 | requests meet only in the map, the listener and the topics; two at one gateway were checked too (508,180 states), and the proofs take any number |
| `Gateways` | 1 or 2 | a second one overhears the first one's responses |
| `MaxCopies` | 1 | one copy executed again after a crash makes a second, unwanted response; 2 was checked too |
| `MaxCrashes` | 0 or 1 | one crash before a commit executes a request again |
| `Agents` (WebSocket) | 2 | two are needed to get each other's answers, and to wait for each other's; the registry's races are between connections of one |
| `Clients` | 2 or 3 | a connection, the one that replaces it, and in `ws_safe` one more of another agent or of the same; `ws_live` was checked with three connections of one agent too |
| `Rank` | agents before the controller, or all equal | the two cases `Key` tells apart |
| `Agents`, `Others` (STOMP) | 1, 0 or 1 | who asks matters to no property of the runs; one answer that is not for STOMP at all takes part in `stomp_live`. A second reader of the queue only makes `Isolation` fail |
| `MaxCancels` | 0 to 2 | a cancellation of the subscription that a cancellation made |
| `Agents`, `Boxes` (Registration) | 1 each | one agent brings usp-service and data-service to the same row, one device brings cwmp-service; two boxes with colliding ids were checked too |
| `MaxReports` | 2 | a Connect and a Boot! of one agent race for the row; three without a fault were checked too |
| `MaxFaults` | 1 | one crash, stop or outage; `Registers` is about what happens after the last |
| `InboxSize` | 2 of 8 | main reads twice: it can empty what the reader fills |
| `MaxFrames` | 3 | fills `inbox` and the reader's hand, so that the reader blocks; `InboxSize` 1 with 4 messages was checked too (1.2 million states) |

### Fairness

`FairSpec` of `AgentConnections` assumes weak fairness of every consumer and
monitor goroutine (the Go scheduler runs a runnable goroutine, a store access
returns or fails, the ticker fires) and of `Tick` (time passes). Agents, commits,
faults, kills and restarts promise nothing. `FairSpec` of `RequestResponse` assumes
weak fairness of each request's goroutine and each listener: a `select` with a
timer always becomes enabled. The broker, data-service and the operator promise
nothing, so `Returns` holds because of the timeouts alone. `FairSpec` of
`WebSocketMTP` assumes weak fairness of each connection's goroutine, of the
outbound handler and of usp-service's consumer; its run has no faults but
sockets, since a produce that fails or a crash loses a request for good.
`FairSpec` of `StompMTP` assumes it of `Start`, `readMessages`, the outbound
handler and of RabbitMQ, which accepts and delivers. `FairSpec` of `Registration`
assumes it of the handlers and goroutines, of Kafka, of the restart of each
process (docker-compose.prod.yml: `restart: unless-stopped`) and of the recovery
of each store; its faults are bounded and promise nothing. `FairSpec` of `UspAgent`
assumes it of `main` alone: every wait of `main` has a timeout, so the agent ends
whatever its goroutines, the network and the controller do.

## 4. Proofs

`AgentConnections_proofs`: `IInv` is `TypeOK`, `ControlOK`, `HistoryHasDevice`
and `EventHasDevice`. The two reference invariants are not inductive alone:
`RecordConnection` adds a row and `AnnounceConnected` an event without looking
at the device again. `ControlOK` says what each program counter promises: a
busy goroutine has a task; past the lookup, the device of its task exists; a
goroutine about to write Redis holds an entry; one that is to close a row has a
row number. Since devices rows are never removed by these handlers, "the device
exists" survives every step of the other goroutines (`SameReferences`,
`MoreDevices`). Each action has a lemma, `NextInv` puts them together, and
`TypeCorrect`, `HistoryIntegrity` and `EventIntegrity` follow for every set of
agents, processes and partitions, every failure mode and any number of restarts.

`ConnectionState_proofs`: the conditions of the runs `orderly` and `degraded`
become premises of the theorems, all else stays arbitrary. `Alone(i)`: one process
that is not killed, its database answers; `Orderly(i, p)`: also one partition, and no
agent vanishes without a Disconnect; `Degraded`: Redis is down, the database answers,
nobody is killed, any number of processes. The invariants say what the database
lacks while a handler is under way. `Ops`: the consumer works for the last record
of its agent and the monitor never runs a Connect, so a device not found stays
not found until it is created. `Routed` and `Off`: the row follows the last record,
or the consumer has not come so far; the monitor only sets `offline` and keeps the
route. `Rows`: an agent has no open row while its Connect is handled before
`RecordConnection`, and the row `CloseRow` closes is the only one. That a Connect
is never handled on top of an open row comes from the log, by `Order`: between
two Connects of an agent there is a Disconnect, since an agent publishes one only
without a session. `RouteIsLast` needs no `Order`, and so any number of partitions.
A process that overflows its stack stops for good; what was not handled then
stays so, and `Rows` only keeps that no agent has two open rows.

`BookOfVisits` shows that under `Orderly` every step is a step of `Visits` or a
stutter. A Connect is arriving from the moment it is consumed until
`RecordConnection` writes its row (`Arriving`, `Announcing`); only the consumer's can be
(`OnlyConsumer`, by `Ops`). `TakeUp` needs that no entry of the agent is open, which is
`Rows` after the step; that neither goroutine closes a row twice, or one it should not,
comes down to `CloseRow` setting a flag of the row it has looked up (`CloseIsClose`). The
stack overflow is `Stop`: the Connect at hand is not entered.

`Degraded` allows any number of processes and partitions. Without Redis nobody
overflows (`NoOverflow`). `Audited` is the two halves of
`AuditTrail`. `Registering`: a Connect that was the last record of its agent has a
handler on the way to the devices row until there is one. It is kept although two
processes may work for the agent: one that finds the row missing creates it, or loses
to the other on the unique index, and then there is a row all the same; one that finds
the row relies on rows never being removed (`PastLookup` of `IInv`). `Recorded`: who is
registered has a history row or a handler about to write it.

`RequestResponse_proofs`: `IInv` adds to `TypeOK` where channels are closed and
registered (`ChannelsOK`, from which `PendingChannelsAreOpen`), that whatever
is a response anywhere (topic, handler, listener, channel, result) is of an
operation that ran (`ResponsesRan`, `AnswersRan`), and that requests come from
calls (`Asked`). With it every step is a step of `RemoteCalls` under `Status`,
or invisible: `Refinement`.

`WebSocketMTP_proofs`: `IInv` ties `connections` to the program counters
(`RegisteredOK`) and mappings to registered connections of the right key
(`MappingOK`); from these `Registry` and `Replacement`. For isolation it follows a
request from the pipe to the answer: what a connection sends was asked by its
agent (`RequestsOK`), a message has the key of the agent that asked
(`MessagesOK`), the connection looked up belongs to an agent with that key, also
after it has been replaced (`TargetOK`), and so answers reach only agents with the
key of the asker (`AnswersOK`). Keys decide: with `DistinctKeys` that agent is
the asker (`NoLeakage`), and every step is one of `Mailbox` or invisible
(`Refinement`). The definition of `Key` says which configurations these are: at most
one agent has a scheme that comes no sooner than the controller's. Without it the rest
is still proved, but for `RequestIsKept`, which asks for it.

`RequestIsKept` is the safety half of `Answered`. `IInv` says where a message may be, not
that it is anywhere, and an answer is dropped when `Lookup` finds no mapping. So
`Delivery` adds that it finds one: the agent of whatever is published, or about to be,
is mapped unless one of its connections is gone (`ReachedOK`). `Cleanup` removes a
mapping only of a connection that is gone (`LinksOK`), and a record is mapped before it is
published (`HeldOK`). With `ReachedOK` each step moves a request on or leaves it
(`AllKept`), one lemma per action from `Drop` to `Write`.

`StompMTP_proofs`: `SubscribedIsHeard` alone is not inductive, since `Subscribe` and
`ReadCancelled` do not look at session or reader. `IInv` adds that nothing is
known before CONNECT is sent (`Fresh`), that a link that holds has a session and
a reader (`Linked`), that the broker sends nothing before it accepts (`Opened`),
and requests or cancellations only after CONNECTED was seen (`Known`).
A second invariant, `Delivery`, follows the requests: they have an asker (`Asked`),
are taken once (`TakenOnce`, from which `ReadOnce`), and with whole frames,
without faults and while the link holds, are in the queue, under way or published
(`Kept`). `TakenOnce` has three parts because the first alone is not kept by a
read: what `Publish` publishes is the frame read or a request of `buffer`, and
neither is still to be read, since frames are distinct and what waits has no bytes in
`buffer` (`Unread`). What a read leaves are the lemmas `LaterFrames`, a later
part of the frames behind the rest of one, and with whole frames all but the
first, and `LeftAfterRead`, each request still at one place (`ReadDelivery`).
`Accounted` also says that somebody reads what is under way: that comes from
`IInv`, as there are no frames before there is a link (`Fresh`) and a link that holds
has a reader until main cancels the context (`Linked`); from this `NoRequestIsLost`.

`Registration_proofs`: `HistoryRefers` needs what a handler between two accesses
still knows: the row usp-service has found or created stays the agent's
(`Found`), the one data-service has found stays the device's (`FoundByData`), and
the sequence is ahead of every id (`Ahead`). Every write of a row goes through the
lemma `Written`: a write that keeps the id of a row, or gives a new row the next
one, keeps all three. `NothingIsLost` speaks of every single report that came
while all was in reach and that no fault has followed (`Safe`), not of runs
without faults. It adds that while there is such a report every store is in reach
(`Calm`), that a busy consumer has a report (`Handlers`) and that usp-service's reports
are the agents' (`Inbox`): then each step hands a safe report on or writes it, and a
fault leaves none safe. The two action properties follow from the invariant step by step.

`UspAgent_proofs`: `Path`, what main has read, then `inbox`, the reader's hand and
the wire, is what was pushed but for what a lost link cut off (`Conserved`); the
lemmas `InboxRead`, `WireRead`, `WireTaken` and `HandPut` show that moving a message
along does not change it, and `ReadsInOrder` follows since what is read next is
the next of `Path`. The same lemmas, seen from the reading program, give
`StreamOfMessages`: `Pending`, what is in `inbox`, in the hand and on the wire, is the queue
of `Stream`. `PushIsPut`, `ReadInboxIsTake` and `ReadWebSocketIsTake` are its visible steps;
moving a message from the wire to the hand or from the hand to `inbox` is invisible;
and a link that fails cuts the wire alone, so that `inbox` and the hand stay
(`LoseLinkIsCut`, `CutConcat`). `ClosedOnce` needs `Once`, that the channel is closed exactly
when `closeOnce` is used up. `Control` says where each goroutine may be when:
the reader holds a message only before it puts it (`Hands`), WebSocket has no reader
(`Direct`), nothing is pushed before there is a link (`Fresh`, `Open`), and the
controller gets only Boot! and Get (`Asked`), so that answers are typed.

Assumptions: only the named `ASSUME`s on the constants, which TLC evaluates.

Model-checked only: liveness (`Registered`, `Returns`, `KeepsUp`,
`GoneIsForgotten`, `Answered`, `Published`, `Registers`, `Ends`), which is out of
the prover's reach. All other properties of the passing runs are proved as well.
Where a liveness property says that something arrives, its safety half is
among them: `AuditTrail` for `Registered`, `RequestIsKept` for `Answered`, `Accounted` for
`Published`, `NothingIsLost` for `Registers`. They say that what has not arrived is still
on its way; that it moves on is left to the runs.

## 5. Abstractions

- Partitions belong to a fixed process (`Owner`): a rebalance moves a partition
  as a kill and a restart of its process do, with the same redelivery.
- Times are ticks, ages saturate. The thirty-second ticker is a pass that may
  begin whenever the last has ended.
- Only the fields that decide something are kept of entries, devices and rows.
- `triggerDeviceDiscovery` sleeps and logs; formatting and logging are left out.
- An agent's own behaviour, Kafka, Redis and PostgreSQL are modelled from how
  the code uses them; they are external in the map.
- A producer used after `Close` is undefined: a step may also end the process.
- A USP message is the request it carries; an agent's requests all have an
  answer. The WebSocket MTP's agents send binary frames only, others are ignored
  by the code; writes to a socket return. STOMP's `Send` holds the read lock
  while it writes without a deadline: a broker that stops reading would block
  the outbound handler, which is not modelled.
- Registration: what a report carries is its number; a Connect's accesses to
  Redis are in `AgentConnections`. usp-service's queue of incoming records stands
  for the MTP services.
- UspAgent: a read times out only when nothing waits, for a timeout that comes
  first is a message that comes later. A write on a link that holds succeeds; on
  one that is lost it may also succeed in vain. DISCONNECT is for the broker the
  end of the socket. `readStompFrame` reads a body to its first NUL, whatever
  content-length says; the answers of this controller hold none. Deadlines of
  reads and writes are failures that may come at any time the link is not up.
- `extractEndpointID` of the WebSocket MTP takes an id up to the first byte that
  cannot be in one, and a colon can: it may take the tag byte of the field that
  follows along, and so vary from record to record. An answer goes back under
  the id its record came with, which no property needs to be the same for all.
- `buffer` of `StompMTP` keeps every request until the process ends, although later
  reads overwrite it: stale bytes come from any earlier read. With `WholeFrames`
  FALSE a record may be in a topic more than once, so that consuming it may leave it there.
- Topics are sets: order does not matter to the MTP services, and a message that
  is consumed again stays in the set.

## 6. Not modelled, and what is left

Not modelled: configuration, metrics, version and the TR-181 tables, which do
not change after the start; the USP parser of `internal/usp`, which has no caller;
the CWMP agent and MQTT MTP, in which nothing happens concurrently; generated
protobuf code and API documents. Generated code, documents and configuration
are more than half of the lines.

Left:

1. The MTP services composed: one inbound and one outbound topic between
   `WebSocketMTP`, `StompMTP` and two `UspAgent`s, with usp-service's routing from
   Redis (`getEndpointMTPRouting`).
2. Backpressure: STOMP's `Send` and the agent's writes blocking on a socket that
   nobody empties.
