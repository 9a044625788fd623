# InfraOS (privdcx): a verification development

InfraOS is a control plane for private data centres: FastAPI services over
PostgreSQL, MongoDB, Redis, Kafka and RabbitMQ.  Racks and devices emit
telemetry, an alert engine turns threshold crossings into alerts, a runtime
orchestrator remediates them, and a topology service keeps the graph of what is
connected to what.  This directory holds TLA+ models of that code, the TLC
configurations that check them, and theorems proved with TLAPS.

    cd tla
    tlc -workers 2 -config AlertEngineMC.cfg AlertEngineMC
    tlapm AlertEngineProofs.tla

`PROJECT.json` lists every run with the properties it checks, the map from each
definition to the lines it models, the hazards, and the theorems.

## 1. The system

    inventory -> simulation -> Prometheus -> metrics stream -> Kafka infra.metrics.stream
                                   |              +--> MongoDB            |
                                   +--> metrics adapter -> Redis          |
                                                                          |
                                              alert engine  <-------------+
                                         Redis locks, MongoDB history
                                                    | RabbitMQ infra.alerts
                                                    v
      Kafka infra.topology.events ---------->  runtime  ---> RabbitMQ infra.state -> gateway -> browsers
         ^            |                   Redis state, MongoDB timeline
         |            +--> topology service: graph in memory and in MongoDB
    facility, rack, device services (PostgreSQL)

    tenant, invitation services (PostgreSQL): organisations, workspaces, members

| component (under `src/services`) | state it keeps | operations | what is hard | what makes it correct |
|---|---|---|---|---|
| `infra-alert-engine` | Kafka offsets, Redis locks, alert history (MongoDB), rules in memory | consume a batch; rules; acknowledge, resolve; pause | five services in a row per record, any of which can fail; crash and replay; rules edited while a record is in progress | commits follow processing; no crossing silenced; no storm; the history is append-only and complete |
| `infra-runtime` | entity state (Redis), timeline and audit (MongoDB), adjacency graph and rule cache in memory | handle an alert; apply a topology event; pause | a handler of many awaits beside a second task; retries; redelivery; graceful stop | recovery and escalation follow verification; no lost update; complete audit trail |
| `infra-topology` | graph in memory and in MongoDB, per workspace | apply an event; add an edge; read queries | each step goes to memory, then to MongoDB; readers load the graph without the lock | memory and MongoDB agree; no edge without ends |
| topology publishers in `infra-device`, `infra-rack`, `infra-facility` | a Kafka producer that may be off | publish after the database commit | commit and publish are not atomic; failures are swallowed | the topic tells what the database holds |
| `infra-device`, `infra-rack`, `infra-facility` | PostgreSQL tables | create, move, delete, bulk deployment, assign zone | check then insert without a lock | no two devices in a slot; no device in a deleted rack |
| `infra-invitation-service`, `infra-tenant` | PostgreSQL tables | bootstrap, create, accept, revoke an invitation; members; organisations | check then insert; several commits in one request; a POST that outlives its request | whoever accepted an invitation is a member; answers tell the truth; no joining on a settled invitation |
| `infra-metrics-stream` | buffer of samples, bounded queue of batches, counters | poll, publish, flush, stop | full queue; stop while batches wait or are written | every batch accounted for; counters say what was written, and what was handed to Kafka |
| `infra-metrics-adapter` | Redis keys with TTLs, an index per workspace | rounds of queries, entity by entity | queries answered from different scrapes; keys that expire before the round that renews them | power counted once; what is gone leaves the cache |
| `infra-simulation` | the inventory as last read, its metrics | tick, refresh of the inventory in the background | a reading made of many requests, with failures swallowed | a graph holds what stood there all the while, and its sums agree |
| `infra-gateway` | nothing of its own | timeline: three lists joined | lists read at three instants, cut to a limit, or failed | a row never behind what was recorded |

`infra-domain`, `infra-testingflow`, `backend/` (the monolith the services
replaced), `frontend-control-plane/`, `scripts/`, `grafana/` and `prometheus/`
are not modelled; `PROJECT.json` says why for each.

## 2. Modules

| module | models | state and actions |
|---|---|---|
| `AlertLedger` | what the alert engine promises its readers | the history and what the bus has carried; `Record`, `Announce`, `Acknowledge`, `Resolve` |
| `AlertEngine` | `infra-alert-engine` | `phase` is the await the consume loop is at; one action per await of `consume_batches` and `_handle_metric_event`, one per endpoint |
| `RuntimeOrchestrator` | `infra-runtime` | `step` is the await `_process_alert` is at and `stage` which of its state changes is under way; the topology task is `ProcessTopologyEvent` |
| `TopologyStore` | `infra-topology` | `lock`, `todo` and `pending` are the holder of the store's lock and where it is in its list of changes; `loading` are `_load_workspace_graph` calls in progress, `StartQuery` the queries |
| `DeviceInventory` | `infra-device`, `infra-rack` and their topology publishers | `stage` is the await each request is at, `table` is PostgreSQL, `buffer` the producers' accumulators, `shown` what a reader of the topic ends up with |
| `Tenancy` | `infra-invitation-service` and `infra-tenant` | `stage` is the await each request is at, `post` the POST it left with the other service; the rest are the two databases' tables |
| `Exposition` | what `/metrics` of the simulation shows | the record Prometheus scrapes, and who is on it |
| `Simulation` | `infra-simulation` | `reading` is the background refresh, request by request; `graph` is what ticks use |
| `MetricsAdapter` | `infra-metrics-adapter` | `round` is where a round is, `cache` and `index` are Redis |
| `MetricsStream` | `infra-metrics-stream` | `tick` is the tick task, `writing` the writer task, `flush` the batch `stop()` writes itself |
| `Timeline` | `GET /api/v1/timeline` of `infra-gateway` | `request` is the three fetches and their join, beside `Raise`, `Remedy`, `Verify`, `Record` of the services behind them |
| `Telemetry` | the four above, with Prometheus as its last scrape | each part's actions, next to what it stands beside |
| `AlertEngineProofs`, `RuntimeProofs`, `TopologyProofs`, `DeviceInventoryProofs`, `TenancyProofs`, `StreamProofs`, `TelemetryProofs` | theorems about the module each is named for | |
| `SumTheorems` | theorems about the community modules' sums | |
| `*MC` | instances for TLC | |

`AlertEngine` and `RuntimeOrchestrator` are joined by `AlertLedger`: the history
and the `infra.alerts` exchange are what the two services share, the engine
implements its `Spec` and the runtime keeps to it while it acknowledges and
resolves.  `TopologyStore` and the topology task of `RuntimeOrchestrator` read
the same kind of log, `infra.topology.events`, in two consumer groups;
`DeviceInventory` is what writes it.  `Telemetry` joins `Simulation` to its two
readers: what they are answered is `scraped`, which `Scrape` copies from
`metrics`.  `Tenancy` holds both of its services, which share nothing but the
POST.

How state and actions correspond to the code:

* An asyncio task is a program counter (`phase`, `step`, the pair `todo` and
  `pending`).  Code between two awaits is one action, because nothing else runs
  there; an await of another service is a boundary between two actions, where
  other tasks, a failure or a crash may come in.
* A failing call is an action of its own (`InsertFails`, `StepFails`,
  `CallFails`...).  Where the other service may have done the work before the
  answer was lost, both outcomes are allowed: an alert is inserted and the
  batch fails (`InsertFails`), a state or a verification is written and the
  remediation FAILED all the same (`DoneAnyway`), a commit of the tenancy
  services is done and its caller told of an error (`Committed`, and `CallFails`
  at the next call where there is one), a batch of snapshots is written in part.
  In `DeviceInventory` a failing transaction is rolled back, as the repositories
  do.
* Kafka is the log, a `position` in memory and a `committed` offset that
  outlives the process; auto-commit lets the offset be anywhere between what it
  was and the position when the process dies.  RabbitMQ's `infra.runtime` queue
  is a sequence of alert ids; an unacknowledged message goes back to its head.
* Metric values are scaled by ten so that the 10 % margins of
  `verify_success` are exact on integers.
* `done`, `abandoned`, `hush`, `owed`, `torn`, `dropped`, `lost`, `split`,
  `overtaken`, `high`, `executed`, `resolved`, `facts`, `unsaid`, `raced`,
  `byHand`, `blind`, `met`, `unsynced`, `touched`, `missed`, `settled`,
  `delivered`, `undelivered`, `unpublished`, `cut`, `inMongo`, `graph.due`,
  `saw` and the `before` of `Tenancy` and `Timeline` are history: no guard reads
  them.

## 3. Runs

| run | instance | question, and answer |
|---|---|---|
| `alert_engine` | 2 partitions, 3 records, the default and one edited rule, 2 faults, 1 operator call | does the consumer commit only what it settled, report every crossing, raise no storm, implement `AlertLedger` and get through the log? Yes. |
| `zero_loss` | the same, 1 fault | is a committed record always a handled one, as the documentation says? No: a failed batch is skipped by the live consumer, and the next batch's commit passes over it. |
| `runtime` | 2 alerts about 2 racks of one zone, 1 retry, 1 fault, 1 pause or resume | recovery only when verified, escalation only when earned, no lost update, timeline and audit trail complete up to the failures named in the property, every message finished with unless the consumer task has ended? Yes. |
| `runtime_topology` | 1 alert, a log of 7 events in which racks and a device come, move, go and come back, 1 fault | do the racks of a zone stay neighbours of each other, whatever comes, moves, goes and is replayed? Yes. |
| `runtime_redundant` | 1 alert, 1 crash | is a remediation executed once per failure window? No: a redelivered message runs it again. |
| `runtime_zone_mates` | 1 alert, 1 crash | are racks of one zone neighbours once the log is consumed? Not after a restart: the graph is lost, the offset is not. |
| `topology` | 2 racks, 1 device, 4 events, 1 edge added by hand, 1 query, 1 fault | do memory and MongoDB differ only where a call failed or a query's load got in, does MongoDB keep no dangling edge except those named, does replay converge, does the consumer never hang? Yes. |
| `topology_graphs_agree` | a workspace's first 2 events, no fault | is the graph in memory the one in MongoDB? No: the first query replaces it by an older copy. |
| `inventory` | any 3 of 8 requests to the two services, 1 fault | does the topic end where PostgreSQL does, up to named failures and races, does it tell of no change that was not committed, do bulk deployments collide with nothing they could see, is every request answered? Yes. |
| `inventory_slots` | 2 creations, no fault | does the `SlotEngine` prevent overlaps, as documented? No: creations and moves do not ask it. |
| `tenancy` | 22 requests, any two about one workspace, one organisation or the tenant service alone, and nine threes, 1 fault | is whoever accepted an invitation a member, up to POSTs that were lost; do answers tell what happened; do only overlapping requests make duplicates; is a settled invitation settled; is every request answered? Yes. |
| `telemetry` | 2 devices, 2 racks, 2 alerts, 2 changes or failures | is a graph whole whatever moves while it is read, is a rack's power counted once or twice and never in between, is every batch and every sample accounted for, does the timeline never show less than was recorded when it was asked, does what is shown catch up with the inventory? Yes. |

Bounds: `MaxFaults` limits failing calls, outages and crashes, `MaxCalls` the
calls of operators, `MaxRetries` is `MAX_REMEDIATION_RETRIES` and
`PublishRetries` is `RABBITMQ_PUBLISH_RETRIES`.  Each hazard listed needs one
fault at a particular place, or one fault and one call; the alert engine runs
with two so that a batch may fail and the process be lost afterwards, or a lock
be lost between two records about the same entity.  Two partitions are needed
for one batch to hold records of both; two racks of one zone, for an alert's
remediation to flag another alert's entity; an event log in which a device
leaves a rack that is then deleted, for replay to meet edges it must remove;
three requests, because a change, its change back and their events need two on a
device a third has created, and so do two bulk deployments around a device
placed by hand.
In `Tenancy` a second request races the first and a third meddles with their
invitation, which is as many as any of its properties relates; the one fault
may be any failing call or the death of either service, at any await.  Two of
the requests that accept (`byCode2`, `orgCode2`) come from another caller than
the one invited, giving the invited address: the code compares the invitation
with the address in the body (`api/v1/router.py:334`, `:390`,
`services/invitation.py:89`) and makes the caller the member.

In `Telemetry` one of the racks names no facility and stands in a hall, so that
both ways of finding a facility are met; pages hold one rack, so that a reading
takes several requests; two upsets are a change and its change back, or a change
and a failing request.  A queue of one batch is full at the second; three ticks
build the batches that fill it, write it, and are dropped.  Two alerts of one
entity and rule are what a timeline may mix up, and a limit of one leaves the
older one out.  `Tries` is one verification per remediation: an alert is
verified more than once all the same when its message is put back, and the
retries themselves are in the `runtime` run.  The variable `busy` picks which part's requests, failures and
clients run beside the simulation (`graph`: the inventory and the simulation
itself; `adapter`; `stream`; `timeline`): the parts only meet in `scraped`,
which the others read and never write, so their interleaving with each other
adds states and no behaviour of any of them.

`TopologyStore` also passes with `MaxFaults = 2` and `MaxCalls = 0` (3.0
million states), which takes too long to be run each time.

Fairness is weak and only on what the event loop runs by itself: the consumer
task of each service (`Loop`, `Handle`, `Work`), whose calls have timeouts and
therefore return or raise, the requests that were let in (`Proceed`, timers
included, but not Kafka's answers nor, in `Tenancy`, the other service's), the
loops of simulation, Prometheus and adapter and the clock of Redis
(`LoopsRun`), and `Restart`, because `docker-compose`
restarts the containers. Failures, crashes, operators, queries and the arrival
of alerts have none. `MessagesFinish`, `EveryRecordSettled`, `LogConsumed`,
`RequestsEnd` and `CatchesUp` hold only because faults are finite (the bound):
with failures for ever nothing of the kind could.  `MessagesFinish` says that
in the end the queue is empty and nothing in hand, or that the consumer task has
ended: an exception that `_process_alert` lets out (`orchestrator.py:132`,
`:199`) ends it for good while the service stays up, and what is queued then
stays there.  A key lives five
seconds, less than a round with the sleep before it, so `CatchesUp` says of a
device in the adapter's cache that it is there again and again, and not that it
stays.

`CHECK_DEADLOCK FALSE` stands where the system may come to rest: the runtime
when every message is handled or its task has died, the topology service when
the log is consumed, the inventory and the two services of `Tenancy` when the
requests are answered, the stream and the timeline when their bounds are used
up. The alert
engine always polls, and is checked for deadlock.

## 4. Proofs

`AlertEngineProofs` assumes `ConstantsOK` only: any partitions, log, rules,
retry limit and bounds.

* `TypeCorrect`: `LoopInv == TypeOK /\ LoopOK` is inductive.  `LoopOK` says
  what the consume loop holds in each phase; without it `next` could not be
  shown to stay behind `position`.
* `CommitsOnlySettled`: `SettledOK`, that everything before `next` is settled,
  is inductive relative to `LoopInv`; offsets to commit never pass `next`.
* `NothingSilenced`: `ReportedOK` follows a matched key from `owed` through the
  list to the exchange, and says that a lock is only held on reported keys;
  the lock is set after the publish, which is what the proof turns on.
* `StormProtection`: `HushOK`, that a key with an alert that was inserted and
  answered for is locked or in flight.  An insert whose answer is lost leaves an
  alert without a lock, and the next record about the key raises a second one:
  `hush` leaves that alert out, as it does a key whose lock expired, or was lost
  to a crash, a failed publish or a Redis outage.
* `ImplementsLedger`: `Init` and every step map to those of `AlertLedger`.

`RuntimeProofs` assumes `ConstantsOK`: any alerts about any entities, rules,
topology log, number of retries and bounds.

* `VerifiedIsSafe`: no assumption beyond integers and the five operators; the
  margin of `verify_success` always lies on the safe side, for thresholds of
  either sign.
* `ZonesStayCliques`: `ZoneInv` adds the types of the offsets and of
  `zone_members` to the cliques; one lemma per branch of
  `_process_topology_event`.
* `TypeCorrect` and `ImplementsLedger`: `HandlingInv == LedgerInv /\ PlanInv /\
  DataInv` is inductive.  `PlanInv` says what the handler has in hand at each
  step, and which state change is under way there; `LedgerInv` that what is in
  the queue or in hand is recorded and announced, which is why each step is one
  of `AlertLedger` or leaves it alone.
* `RecoveriesVerified`, `EscalationsEarned`: `VerdictInv`, relative to it, ties
  the stage of the handler to the verifications it has recorded: whoever is
  about to mark an entity ACTIVE has recorded one that passed, whoever is about
  to escalate as many that failed as there are tries.
* `CopyStaysCurrent`, `TimelineStaysCurrent`, `AttemptsStayAudited`: `CopyInv`,
  `TimelineInv` and `AuditInv`, each relative to the ones before.  That flagging
  the neighbours never writes the entity in hand rests on the graph having no
  edge from a node to itself, whatever the topology task does between two of
  them.

`TopologyProofs` assumes `ConstantsOK`: any racks, devices, log and edges added by
hand, as long as no rack has the id of a device.

* `TypeCorrect`: `TypeInv` is `OffsetsInv`, `StoresInv` and `HolderInv`, which
  says what the holder of the lock has left to do.
* `EdgesKeepEnds`: `GroundInv`.  Each change of an event still to be written
  keeps the ends of the edges it will add; nodes are removed after their edges,
  and `torn` has the places where a failure came between.
* `GraphsStayClose`: `AgreeInv` compares memory, with the changes still to be
  written undone, to MongoDB.
* `ReplaysConverge`: `LogInv`, inductive relative to the three before, under the
  condition of the property.  After a crash MongoDB is ahead of the committed
  offset, in part: for every place `k` of the log up to the consumer's,
  MongoDB is `Described[k]` but for nodes and edges that a later event, up to
  the furthest place ever reached, adds or removes again (`Leads`, `Owed`,
  `Later`).  While an event is in hand the graph is halfway between the two
  places (`Halfway`, `Reached`).  When the consumer has caught up nothing is
  owed any more.  `Described` is a recursive function; facts about all of it
  go by the smallest place where they fail (`LeastNumber` of `SumTheorems`).

`SumTheorems` assumes nothing.  The library's induction theorems take an
operator as a parameter, which the provers cannot instantiate; the sums here are
proved by a smallest counterexample instead, whose size exists by the
well-foundedness of `<`.  The recursion of the fold is first shown to have a
solution on the subsets of a finite set (`SumsExist`), from which follow that an
element may be taken out of a sum (`SumRemove`), `SumUnion`, `SumMonotone` and
`SumGrouped`.

`TelemetryProofs` assumes of the constants that devices, racks, facilities and
halls are finitely many, that no device has the id of a rack (both are uuid4),
and `TelemetryOK`: the inventories to begin with have the types of inventories,
and the rows the stream may see include those of the simulation.  `TelemetryInv`
is inductive; its parts are stated each relative to the ones before.

* `TelemetryTypeCorrect`: `SimInv` says what a reading holds at each of its
  steps, and that what is shown is `Exposed`: devices are in racks shown, and
  sums are sums.
* `GraphStaysWhole`: `ReadInv` follows a reading from list to list: what did not
  change since it began (`touched`) is as it was listed, and racks and halls it
  still needs are had, asked for, or `missed`.  `FoundInv` is what that comes to
  when the reading ends; capacities compare by `SumMonotone`.  That the racks and
  facilities of any tick add up is `SumGrouped`, twice.
* `RackPowerStaysCounted`: `AdapterInv`, where every answer of a round is a
  scrape that adds up; a round whose answers are one scrape sees each rack's
  devices as that scrape does.
* `StreamedBatchesAccounted`, `StreamedCountersHonest`: the invariant of
  `StreamProofs` holds with Prometheus in place of any rows.
* `TimelineStaysFaithful`: in `TellInv`, `GotInv` says that a list received is
  `Fair`: what was in it when the request came is on the page, unless as many as
  the limit are newer, which stays so as lists only grow; a page that leaves out
  an alert is full of newer ones (`PageFull`, by the greatest of those it leaves
  out).  The result a row tells is then not older than the newest one known
  (`ChosenNewest`).  It may be another: a message that is put back after a crash
  has its alert verified again, after a success too, so a row that would have
  been RESOLVED may be FAILED_REMEDIATION by a later verification that failed.
  That a known success stays shown is therefore neither claimed nor true.

`StreamProofs` assumes `StreamOK`: any finite set of rows, any queue limit.

* `StreamTypeCorrect`, `BatchesStayAccounted`, `CountersStayHonest`: `StreamInv
  == BatchInv /\ TickInv /\ CountInv` is inductive.  `BatchesAccounted` alone is
  not: that nothing overtakes needs `stop()`'s batch to be the last one built
  (`flush = built`) and there to be none while the service runs; the sum of
  samples needs `events` to be the kept rows once every query is answered.
  The order of the queue rests on two lemmas about increasing sequences, of
  which `Append` and `Tail` make increasing ones.  `CountInv` does not say
  that what is counted as published is in Kafka: `publish_batch`
  (`clients/kafka.py:44-49`) drops the deliveries' futures, and `flush()` does
  not raise what became of them, so events that could not be delivered are
  counted too.  `undelivered` keeps those, `unpublished` the events of
  publications that raised and counted none though some may have arrived, `cut`
  those of publications that a shutdown or kill cut off.

`TenancyProofs` assumes `ConstantsOK`, any set of requests, of any kinds, about
invitations of their own organisation or workspace, and `IdsAreFresh`: what is
created has an id of its own, the services drawing uuid4s.

* `JoinsStayOpen`, `SettledForGood`, `TypeCorrect`: `TenancyInv` is inductive.
  What a request saw when it came (`met`) and what it has read since are tied by
  `MetInv`: an invitation pending now was pending then (`Fresh`), since none
  becomes so again, and whoever has passed `fetch` met one that was pending
  (`Knows`).  `JoinedInv` carries that over to the rows and the POSTs a request
  leaves behind, which outlive it.  `RowsInv` says who creates an invitation is
  done by then, so that it is never created twice.
* `AnswersAreKept`, `DuplicatesAreRaces`: `WholeInv`, relative to it, ties each
  row to the request that wrote it (`AuthorInv`), what is `before` a request to
  what was there when it came (`PastInv`), what a request found to the rows there
  are (`FoundInv`), and an answer to what its request did (`AnswerInv`).
* `AcceptancesAreWhole`: `AcceptedInv` names for each accepted invitation the
  request that accepted it (`Kin`), which gave the address the invitation was
  sent to and whose caller is a member, or is still to be.  Nothing is assumed
  of the addresses in the bodies: that the member is the one who was invited is
  not what the code ensures, and not claimed.

`DeviceInventoryProofs` assumes `ConstantsOK`: any set of requests to the two
services whose bodies are well formed (a creation or move names where to, a
move or deletion a row of the service's own table, a bulk deployment creates at
least as many rows as it names racks).

* `SlotIsLowest`: the least element of a set of naturals exists, by the
  library's well-foundedness of `<`.
* `TypeCorrect`: in `TypeInv`, `Queued` says that the event a request waits for
  is the last its producer's buffer holds of it, which is what makes whoever
  `LeaveBuffer` wakes the right one; `Holds` says what a request has at each
  await.
* `EventsStayTrue`: `FactInv` follows an event from the commit to the topic.  A
  request looks for its row again after a move and, if it is there, announces
  the rack it wrote: that this was committed needs rows to be created only once
  (`Future`), so that a row which is there now was there when it was moved.
* `BulkPlacementHolds`: by `SlotIsLowest`, and because the row a bulk
  deployment inserts was not there before.
* `TopicTellsAll`: `TellInv` says for every row no change of which was given up
  or overtaken that the requests which still owe an event of it say where
  PostgreSQL has it, and if none does that the producer's buffer has that event
  last, or the topic.  `HomeInv` says that a row's events all come from the
  service whose table it is in.

Only model-checked: liveness (`EveryRecordSettled`, `MessagesFinish`,
`LogConsumed`, `RequestsEnd`, `CatchesUp`), which is out of the prover's reach.
No module declares a RECURSIVE operator.

## 5. What the runs found

1. `zero_loss`: `infra-alert-engine` documents commits "only after successful
   alert processing/suppression to ensure zero-loss reliability".  A batch that
   raises is dropped by the running consumer, whose position is already past it.
2. `runtime_redundant`: `infra-runtime` documents that redundant executions
   for one failure window are prevented.  Executions are recorded, but the
   records are never looked at.
3. `runtime_zone_mates`: `infra-runtime` documents a physical topology graph.
   It does not survive a restart, and the events are not read again.
4. `topology_graphs_agree`: `infra-topology` documents graphs in memory plus
   persistence.  A query that loads a workspace while its first events are
   applied replaces the consumer's graph.
5. `inventory_slots`: `infra-device` documents that the slot engine prevents
   overlaps.  Only bulk deployment asks it for a slot, and nothing validates
   one.

Met in reading and not made a run: a move's `previous_rack_id` is read from the
object the move has already changed (`infra-device/app/api/v1/router.py:127`),
so it is the new rack; no consumer uses it. `DEVICE_MOVED` removes a device's
edges to racks but not its `network` edge to the previous rack's switch
(`graph_store.py:431`), which `Described` therefore keeps as well; the deletion
of a rack leaves its devices in the table, and a later event about one of them
puts the rack's node back into the graph.

Of the tenancy services: `infra-invitation-service.md:192` says an invitation is
accepted when it has not expired, but the acceptance by code looks at no date
(`JoinsWereOpen` says so); the same page, line 68, calls bootstrap idempotent,
while `create_organization` makes a new one each time. `invitation.py:131` says
an unsynced membership "can be reconciled later", which nothing does, and the
status of the tenant service's answer is not looked at on that path, which is
what `unsynced` keeps.  A pending invitation that is overdue prevents another
one to the same address until somebody opens it.  A crash between joining and
settling leaves an invitation whose retry is refused with 409.  Listing the
invitations of an organisation's id as a workspace's makes the caller its owner
there, after which his acceptance by token is refused as well.  Addresses are
compared as written when inviting and without case when accepting.

Of telemetry: a rack's aggregate in the adapter counts devices and the rack's
own series, so it is twice the draw, and is replaced by the rack's own within
the round (`RackPowerCounted`). Keys live 5 s, rounds start 5 s apart plus the
time they take, so every entity is absent for a while each round; the
workspace's index never forgets a deleted entity while others renew it.  The
stream's `stop()` says "Flush any remaining aggregated snapshots" (line 70) and
drops what the queue and the writer still have; `mongo_snapshots_written_total`
counts batches that failed, and `kafka_events_published_total` events that the
producer took and could not deliver (`CountersHonest` says how far each goes).  Racks of no facility appear in no snapshot, and a
missing facility metric is written as 0.0.  The gateway's timeline shows a new
alert RESOLVED by an older one's success; a limit that fits the alerts may not
fit their verifications, of which there may be several per alert.  Tokens carry
no `tenant_id`, so every WebSocket is registered under None and is sent nothing.

## 6. Plan

Done: the alert path (`AlertEngine`, `AlertLedger`, `RuntimeOrchestrator`), the
topology path (`DeviceInventory`, `TopologyStore`), membership (`Tenancy`), and
telemetry (`Simulation`, `MetricsAdapter`, `MetricsStream`, `Timeline`).

Left: the layout arithmetic and the moves of racks in `infra-rack`; the risk the
gateway adds to a row of the timeline; theorems about the two of them.

## 7. Not modelled

Payloads, log lines, metrics counters and read-only endpoints, in every module.
In `AlertEngine`: consumer-group rebalancing (the service runs one consumer)
and severities. In `RuntimeOrchestrator`: the cache of rules, read as the
rulebook itself, and the clock (waits are awaits like any other). In
`TopologyStore`: attributes of nodes and edges, whose merge in memory differs
from the replacement in MongoDB; device metadata that renames a rack's switch
or power unit; several workspaces, which share only the lock; more than one
query loading at a time. In `DeviceInventory`: power and thermal figures,
clusters and templates, the rack's own `height_u` (bulk deployment does not
read it), the session's copies of rows (within one bulk deployment a device
moved between two reads of a rack keeps its old slot), graceful shutdown, which
sends what is buffered. In `Tenancy`:
passwords and tokens' signatures, logical spaces, subscriptions, profile
updates, role assignments made by hand, e-mail. In `Telemetry`: the physics,
whose noise and spikes are a choice among levels, network figures, the
adapter's index per facility, other workspaces, Kafka's partitions. In `Timeline`: states and topology, which add a
risk and nothing else. Of the gateway the proxy, the overview and the token
check, which keep no state. `PROJECT.json` lists
every component, with the reason for each that has no module.
