------------------------- MODULE RuntimeOrchestrator -------------------------
(***************************************************************************)
(* services/infra-runtime: takes alerts off the durable queue              *)
(* infra-runtime-alerts one at a time and, for each, runs a remediation:   *)
(*                                                                         *)
(*   acknowledge -> act -> save and announce the entity's state -> flag    *)
(*   its neighbours -> verify, retry -> recover and resolve, or escalate   *)
(*                                                                         *)
(* while a second task applies topology events to the graph that says who  *)
(* the neighbours are.  One action per await of _process_alert and of the  *)
(* clients it calls.  Redis, MongoDB, RabbitMQ, Kafka's offsets and the    *)
(* alert engine outlive a crash; the message in hand and the graph do not. *)
(***************************************************************************)
EXTENDS Integers, Sequences, FiniteSets, SequencesExt

CONSTANTS
  Incoming,      \* the alerts the alert engine records, in order
  Rulebook,      \* rule id -> [op, threshold], what GET /api/v1/rules returns
  Observations,  \* values the metric query may answer with
  TopologyLog,   \* the events in infra.topology.events, in order
  Racks, Devices,
  Zones,         \* the keys zone:<zone_id>
  MaxRetries,    \* RUNTIME_MAX_VERIFICATION_RETRIES
  MaxFaults,     \* bound: failing calls, crashes, stops and repeated messages
  MaxCalls,      \* bound: calls of pause and resume
  None

Entities == Racks \union Devices \union Zones

Alerts == DOMAIN Incoming

Events ==
  [event : {"RACK_CREATED", "RACK_DELETED", "DEVICE_CREATED", "DEVICE_MOVED",
            "DEVICE_DELETED", "FACILITY_CREATED"},
   rack : Racks \union {None}, zone : Zones \union {None},
   device : Devices \union {None}]

ASSUME ConstantsOK ==
  /\ Racks \intersect Devices = {} /\ Zones \intersect (Racks \union Devices) = {}
  /\ None \notin Entities
  /\ Incoming \in Seq([entity : Entities, rule : STRING, about : STRING,
                       value : Int, with_id : BOOLEAN, valid : BOOLEAN])
  /\ TopologyLog \in Seq(Events)
  /\ Observations \subseteq Int
  /\ MaxRetries \in Nat /\ MaxFaults \in Nat /\ MaxCalls \in Nat

VARIABLES
  \* Outside the process.
  ledger,         \* the alert engine's documents
  announced,      \* the alerts the exchange has carried
  queue,          \* infra-runtime-alerts, the message in hand not included
  redis,          \* infra_state:<id>, None when the key is not there
  history,        \* the last document of each entity in infra_state_history
  verifications,  \* alert -> how many passed and failed in verification_history
  remediations,   \* alert -> statuses in remediation_history
  topo_committed, \* the topology group's offset
  \* The process.
  step,           \* what the alert task does next; "ended" once it has died
  paused,
  rules_cached,   \* _rules_cache is filled
  nodes, edges,   \* the PropagationModel's graph
  zone_members,   \* _zone_members
  topo_position,
  \* The message in hand.
  msg,            \* its alert, 0 when there is none
  alert_id,       \* the document it is about, 0 when unknown
  stage,          \* which state change is under way
  entity_state,   \* the handler's copy of the entity's state
  neighbor,       \* the neighbour being flagged, with its new state
  affected,       \* the neighbours still to flag
  retry_count, success, status,
  \* History, read by the properties only.
  executed,       \* alert -> how often its policy's action was executed
  resolved,       \* the documents the runtime has resolved
  torn,           \* entities with a state change whose saving was cut short
  dropped,        \* alerts whose message was given up: rejected and not put
                  \* back, or taken by a paused engine
  faults, calls

bus      == <<announced, queue>>
stores   == <<redis, history, verifications, remediations>>
process  == <<paused, rules_cached>>
topology == <<nodes, edges, zone_members, topo_position, topo_committed>>
handling == <<alert_id, stage, entity_state, neighbor, affected, retry_count,
              success, status>>
ghosts   == <<executed, resolved, torn, dropped>>
vars == <<ledger, bus, stores, step, process, topology, msg, handling, ghosts,
          faults, calls>>

------------------------------------------------------------------------------
(* States, policies and verification.                                      *)

Sub(t, p, n) == [thermal |-> t, power |-> p, network |-> n]

State(st, sub) == [status |-> st, sub |-> sub]

Fresh == State("ACTIVE", Sub("NORMAL", "NORMAL", "NORMAL"))

\* evaluate_remediation: the policy of the rule, else of what the metric's name
\* contains, else none.  Every policy degrades the entity.
RulePolicies ==
  [THERMAL_CRITICAL |-> Sub("HIGH", "NORMAL", "NORMAL"),
   THERMAL_WARNING  |-> Sub("ELEVATED", "NORMAL", "NORMAL"),
   POWER_CRITICAL   |-> Sub("NORMAL", "HIGH", "NORMAL"),
   NETWORK_LATENCY  |-> Sub("NORMAL", "NORMAL", "HIGH_LATENCY")]

DomainPolicies ==
  [temp    |-> Sub("HIGH", "NORMAL", "NORMAL"),
   power   |-> Sub("NORMAL", "HIGH", "NORMAL"),
   network |-> Sub("NORMAL", "NORMAL", "HIGH_LATENCY"),
   latency |-> Sub("NORMAL", "NORMAL", "HIGH_LATENCY")]

HasPolicy(a) ==
  a.rule \in DOMAIN RulePolicies \/ a.about \in DOMAIN DomainPolicies

evaluate_remediation(a) ==
  State("DEGRADED", IF a.rule \in DOMAIN RulePolicies THEN RulePolicies[a.rule]
                    ELSE DomainPolicies[a.about])

evaluate_secondary_action(a) ==
  CASE a.about = "temp"  -> State("FAILED", Sub("CRITICAL", "HIGH", "NORMAL"))
    [] a.about = "power" -> State("ISOLATED", Sub("NORMAL", "CRITICAL", "NORMAL"))
    [] OTHER -> State("ISOLATED", Sub("UNKNOWN", "UNKNOWN", "DEGRADED"))

\* What _propagate_at_risk makes of a neighbour's state.
AtRisk(s, a) ==
  State("AT_RISK",
        Sub(IF a.about = "temp" THEN "AT_RISK" ELSE s.sub.thermal,
            IF a.about = "power" THEN "AT_RISK" ELSE s.sub.power,
            IF a.about = "network" THEN "AT_RISK" ELSE s.sub.network))

Abs(x) == IF x < 0 THEN -x ELSE x

\* max(1.0, x * 0.1), in tenths.
Tolerance(x) == IF x > 10 THEN x ELSE 10

\* still_violating: the comparison the alert was raised by.
still_violating(o, r) ==
  \/ r.op = ">"  /\ o > r.threshold
  \/ r.op = "<"  /\ o < r.threshold
  \/ r.op = ">=" /\ o >= r.threshold
  \/ r.op = "<=" /\ o <= r.threshold
  \/ r.op = "==" /\ o = r.threshold

\* safe_threshold's margin in tenths: it is wider for temperatures.
MarginBelow(t, about) == IF about = "temp" THEN 50 ELSE Tolerance(t)
MarginAbove(t, about) == IF about = "temp" THEN 20 ELSE Tolerance(Abs(t))

\* verify_success: beyond the margin on the side that does not violate.
verify_success(o, r, about) ==
  \/ /\ r.op \in {">", ">="}
     /\ 10 * o < 10 * r.threshold - MarginBelow(r.threshold, about)
  \/ /\ r.op \in {"<", "<="}
     /\ 10 * o > 10 * r.threshold + MarginAbove(r.threshold, about)
  \/ /\ r.op = "=="
     /\ 10 * Abs(o - r.threshold) > Tolerance(Abs(r.threshold))

------------------------------------------------------------------------------
(* The message in hand.                                                    *)

Fault == faults < MaxFaults /\ faults' = faults + 1

Alert == Incoming[msg]

Idle == /\ msg' = 0
        /\ alert_id' = 0
        /\ stage' = "initial"
        /\ entity_state' = Fresh
        /\ neighbor' = None
        /\ affected' = {}
        /\ retry_count' = 0
        /\ success' = FALSE
        /\ status' = "PENDING"

\* Mutant of Ack: the handler is through, but the message stays in hand.
AckForgotten ==
  /\ step' = "idle"
  /\ UNCHANGED <<msg, handling>>

\* message.process() returns normally: the message is acknowledged.
Ack == Idle /\ step' = "idle"

\* The iterator hands over the next message.  A paused engine and a message
\* that fails validation are acknowledged at once.
Deliver ==
  /\ step = "idle" /\ queue # <<>>
  /\ queue' = Tail(queue)
  /\ LET i == Head(queue) a == Incoming[i]
     IN IF paused \/ ~a.valid
        THEN /\ dropped' = dropped \union {i}
             /\ UNCHANGED <<step, msg, handling, nodes>>
        ELSE /\ msg' = i
             /\ alert_id' = IF a.with_id THEN i ELSE 0
             /\ nodes' = nodes \union {a.entity}
             /\ step' = IF a.with_id THEN "acknowledge" ELSE "find"
             /\ UNCHANGED <<stage, entity_state, neighbor, affected, retry_count,
                            success, status, dropped>>
  /\ UNCHANGED <<ledger, announced, stores, process, edges, zone_members,
                 topo_position, topo_committed, executed, resolved, torn,
                 faults, calls>>

\* No policy, nothing to do; otherwise go on to the entity's state.
Evaluate == IF HasPolicy(Alert)
            THEN step' = "load" /\ UNCHANGED <<msg, handling>>
            ELSE Ack

\* find_latest_active_alert_id, None when there is none or the call fails.
FindAlert ==
  /\ step = "find"
  /\ LET matching == {j \in DOMAIN ledger :
                        /\ ledger[j].key = <<Alert.entity, Alert.rule>>
                        /\ ledger[j].status = "ACTIVE"}
     IN \/ /\ matching # {}
           /\ \E j \in matching : (\A k \in matching : k <= j) /\ alert_id' = j
           /\ step' = "acknowledge"
           /\ UNCHANGED <<msg, stage, entity_state, neighbor, affected,
                          retry_count, success, status, faults>>
        \/ matching = {} /\ Evaluate /\ UNCHANGED faults
        \/ Fault /\ Evaluate
  /\ UNCHANGED <<ledger, bus, stores, process, topology, ghosts, calls>>

\* acknowledge_alert: its failures are swallowed, whether or not the alert
\* engine had applied the update.
AcknowledgeAlert ==
  /\ step = "acknowledge"
  /\ \/ /\ ledger' = [ledger EXCEPT ![alert_id].acknowledged = TRUE]
        /\ UNCHANGED faults
     \/ UNCHANGED ledger /\ Fault
  /\ Evaluate
  /\ UNCHANGED <<bus, stores, process, topology, ghosts, calls>>

\* _get_or_init_state.
GetState ==
  /\ step = "load"
  /\ entity_state' = IF redis[Alert.entity] = None THEN Fresh
                     ELSE redis[Alert.entity]
  /\ step' = "execute"
  /\ UNCHANGED <<ledger, bus, stores, process, topology, msg, alert_id, stage,
                 neighbor, affected, retry_count, success, status, ghosts,
                 faults, calls>>

\* _execute_action and the change of the handler's copy of the state: the
\* policy's, none for a retry, or the secondary action's.
ExecuteAction ==
  /\ step = "execute"
  /\ \/ /\ stage = "initial"
        /\ entity_state' = evaluate_remediation(Alert)
        /\ status' = "EXECUTED"
        /\ step' = "set"
     \/ /\ stage = "retry"
        /\ step' = "verify"
        /\ UNCHANGED <<entity_state, status>>
     \/ /\ stage = "secondary"
        /\ entity_state' = evaluate_secondary_action(Alert)
        /\ step' = "set"
        /\ UNCHANGED status
  /\ executed' = IF stage = "secondary" THEN executed
                 ELSE [executed EXCEPT ![msg] = @ + 1]
  /\ UNCHANGED <<ledger, bus, stores, process, topology, msg, alert_id, stage,
                 neighbor, affected, retry_count, success, resolved, torn,
                 dropped, faults, calls>>

\* The entity whose state is being saved and announced, and that state.
Target == IF stage = "spread" THEN neighbor.id ELSE Alert.entity
Document == IF stage = "spread" THEN neighbor.state ELSE entity_state

\* update_state, first the Redis key ...
SetState ==
  /\ step = "set"
  /\ redis' = [redis EXCEPT ![Target] = Document]
  /\ step' = "history"
  /\ UNCHANGED <<ledger, bus, history, verifications, remediations, process,
                 topology, msg, handling, ghosts, faults, calls>>

\* Mutant of AppendHistory: a neighbour's change is not kept in the timeline.
AppendHistoryOwnOnly ==
  /\ step = "history"
  /\ history' = IF stage = "spread" THEN history
                ELSE [history EXCEPT ![Target] = Document]
  /\ torn' = torn \ {Target}
  /\ step' = "announce"
  /\ UNCHANGED <<ledger, bus, redis, verifications, remediations, process,
                 topology, msg, handling, executed, resolved, dropped, faults,
                 calls>>

\* ... then the timeline.
AppendHistory ==
  /\ step = "history"
  /\ history' = [history EXCEPT ![Target] = Document]
  /\ torn' = torn \ {Target}
  /\ step' = "announce"
  /\ UNCHANGED <<ledger, bus, redis, verifications, remediations, process,
                 topology, msg, handling, executed, resolved, dropped, faults,
                 calls>>

\* Mutant of Neighbors: the entity is not skipped.
NeighborsAndSelf(e) == UNION {x \in edges : e \in x}

\* get_affected_nodes with radius 1, the failed node left out.
Neighbors(e) == (UNION {x \in edges : e \in x}) \ {e}

\* _publish_state_update, and on to what follows that state change.  The
\* neighbours are read from the graph once, before the first is flagged.
PublishStateUpdate ==
  /\ step = "announce"
  /\ \/ /\ stage = "initial"
        /\ affected' = IF Alert.entity \in nodes THEN Neighbors(Alert.entity)
                       ELSE {}
        /\ step' = "neighbor"
     \/ stage = "spread" /\ step' = "neighbor" /\ UNCHANGED affected
     \/ /\ stage = "recovered"
        /\ step' = IF alert_id # 0 THEN "resolve" ELSE "finish"
        /\ UNCHANGED affected
     \/ stage = "secondary" /\ step' = "finish" /\ UNCHANGED affected
  /\ status' = CASE stage = "recovered" -> "VERIFIED_SUCCESS"
                 [] stage = "secondary" -> "FAILED_REMEDIATION"
                 [] OTHER -> status
  /\ UNCHANGED <<ledger, bus, stores, process, topology, msg, alert_id, stage,
                 entity_state, neighbor, retry_count, success, ghosts, faults,
                 calls>>

\* Mutant of NextNeighbor: a neighbour is not taken off the list.
NextNeighborAgain ==
  /\ step = "neighbor"
  /\ \/ /\ affected = {}
        /\ step' = "verify"
        /\ stage' = "initial"
        /\ neighbor' = None
        /\ UNCHANGED affected
     \/ \E n \in affected :
          /\ UNCHANGED affected
          /\ neighbor' = [id |-> n,
                          state |-> AtRisk(IF redis[n] = None THEN Fresh
                                           ELSE redis[n], Alert)]
          /\ stage' = "spread"
          /\ step' = "set"
  /\ UNCHANGED <<ledger, bus, stores, process, topology, msg, alert_id,
                 entity_state, retry_count, success, status, ghosts, faults,
                 calls>>

\* _propagate_at_risk takes the next neighbour, or is through.
NextNeighbor ==
  /\ step = "neighbor"
  /\ \/ /\ affected = {}
        /\ step' = "verify"
        /\ stage' = "initial"
        /\ neighbor' = None
        /\ UNCHANGED affected
     \/ \E n \in affected :
          /\ affected' = affected \ {n}
          /\ neighbor' = [id |-> n,
                          state |-> AtRisk(IF redis[n] = None THEN Fresh
                                           ELSE redis[n], Alert)]
          /\ stage' = "spread"
          /\ step' = "set"
  /\ UNCHANGED <<ledger, bus, stores, process, topology, msg, alert_id,
                 entity_state, retry_count, success, status, ghosts, faults,
                 calls>>

\* _run_verification: the rule as first fetched, or one made up from the alert
\* when it cannot be fetched or is not known, against what the query answers.
Verify ==
  /\ step = "verify"
  /\ LET known == Alert.rule \in DOMAIN Rulebook
         made_up == [op |-> ">", threshold |-> Alert.value]
         rule == IF known THEN Rulebook[Alert.rule] ELSE made_up
     IN \E o \in Observations \union {None} :
          \/ /\ success' = (o # None /\ verify_success(o, rule, Alert.about))
             /\ rules_cached' = TRUE
             /\ UNCHANGED faults
          \/ /\ ~rules_cached
             /\ Fault
             /\ success' = (o # None /\ verify_success(o, made_up, Alert.about))
             /\ UNCHANGED rules_cached
  /\ step' = "record"
  /\ UNCHANGED <<ledger, bus, stores, paused, topology, msg, alert_id, stage,
                 entity_state, neighbor, affected, retry_count, status, ghosts,
                 calls>>

\* Mutant of AfterVerification: a failed verification is not retried.
AfterVerificationNoRetry ==
  IF success
  THEN /\ entity_state' = Fresh
       /\ stage' = "recovered"
       /\ step' = "set"
       /\ UNCHANGED retry_count
  ELSE /\ stage' = "secondary"
       /\ step' = "execute"
       /\ UNCHANGED <<entity_state, retry_count>>

\* Verified: recover.  Not verified: retry the action, then escalate.
AfterVerification ==
  IF success
  THEN /\ entity_state' = Fresh
       /\ stage' = "recovered"
       /\ step' = "set"
       /\ UNCHANGED retry_count
  ELSE /\ IF retry_count < MaxRetries
          THEN stage' = "retry" /\ retry_count' = retry_count + 1
          ELSE stage' = "secondary" /\ UNCHANGED retry_count
       /\ step' = "execute"
       /\ UNCHANGED entity_state

\* Mutant of RecordVerification: verification_history is left behind.
RecordVerificationSkipped ==
  /\ step = "record"
  /\ AfterVerification
  /\ UNCHANGED <<ledger, bus, stores, process, topology, msg, alert_id,
                 neighbor, affected, success, status, ghosts, faults, calls>>

Verdicts == [verifications EXCEPT ![msg].passed = IF success THEN @ + 1 ELSE @,
                                 ![msg].failed = IF success THEN @ ELSE @ + 1]

\* record_verification.
RecordVerification ==
  /\ step = "record"
  /\ verifications' = Verdicts
  /\ AfterVerification
  /\ UNCHANGED <<ledger, bus, redis, history, remediations, process, topology,
                 msg, alert_id, neighbor, affected, success, status, ghosts,
                 faults, calls>>

\* Mutant of ResolveAlert: the document is removed from the history.
ResolveAlertRemoves ==
  /\ step = "resolve"
  /\ ledger' = RemoveAt(ledger, alert_id)
  /\ step' = "finish"
  /\ UNCHANGED <<bus, stores, process, topology, msg, handling, ghosts, faults,
                 calls>>

\* resolve_alert: its failures are swallowed like those of the acknowledgement.
ResolveAlert ==
  /\ step = "resolve"
  /\ \/ /\ ledger' = [ledger EXCEPT ![alert_id].acknowledged = TRUE,
                                    ![alert_id].status = "RESOLVED"]
        /\ resolved' = resolved \union {alert_id}
        /\ UNCHANGED faults
     \/ UNCHANGED <<ledger, resolved>> /\ Fault
  /\ step' = "finish"
  /\ UNCHANGED <<bus, stores, process, topology, msg, handling, executed, torn,
                 dropped, calls>>

\* Mutant of RecordRemediation: only what was carried through is recorded.
RecordRemediationSuccesses ==
  /\ step = "finish"
  /\ remediations' = IF status = "FAILED" THEN remediations
                     ELSE [remediations EXCEPT ![msg] = @ \union {status}]
  /\ Ack
  /\ UNCHANGED <<ledger, bus, redis, history, verifications, process, topology,
                 ghosts, faults, calls>>

\* record_remediation, in the finally clause; then the message is acknowledged.
RecordRemediation ==
  /\ step = "finish"
  /\ remediations' = [remediations EXCEPT ![msg] = @ \union {status}]
  /\ Ack
  /\ UNCHANGED <<ledger, bus, redis, history, verifications, process, topology,
                 ghosts, faults, calls>>

------------------------------------------------------------------------------
(* Failures.                                                               *)

\* The entity whose save is interrupted, if one is.
Interrupted == IF step = "history" THEN {Target} ELSE {}

\* What the failing call of this step may have done all the same.
DoneAnyway ==
  \/ /\ torn' = torn \union Interrupted
     /\ UNCHANGED <<redis, history, verifications>>
  \/ /\ step = "set"
     /\ redis' = [redis EXCEPT ![Target] = Document]
     /\ torn' = torn \union {Target}
     /\ UNCHANGED <<history, verifications>>
  \/ /\ step = "history"
     /\ history' = [history EXCEPT ![Target] = Document]
     /\ torn' = torn \ {Target}
     /\ UNCHANGED <<redis, verifications>>
  \/ /\ step = "record"
     /\ verifications' = Verdicts
     /\ UNCHANGED <<redis, history, torn>>

\* A call to Redis, MongoDB or RabbitMQ inside the try raises, its effect done
\* or not: the action is recorded as FAILED and the message acknowledged.
StepFails ==
  /\ step \in {"set", "history", "announce", "neighbor", "record"}
  /\ step = "neighbor" => affected # {}
  /\ Fault
  /\ DoneAnyway
  /\ status' = "FAILED"
  /\ step' = "finish"
  /\ UNCHANGED <<ledger, bus, remediations, process, topology, msg, alert_id,
                 stage, entity_state, neighbor, affected, retry_count, success,
                 executed, resolved, dropped, calls>>

\* A call outside the try, or the one in the finally clause, raises, the record
\* written or not: the message is rejected without being put back, and the
\* exception ends the task that iterates over the queue.  Nothing starts it
\* again while the process lives.
TaskDies ==
  /\ step \in {"load", "finish"}
  /\ Fault
  /\ \/ UNCHANGED remediations
     \/ /\ step = "finish"
        /\ remediations' = [remediations EXCEPT ![msg] = @ \union {status}]
  /\ dropped' = dropped \union {msg}
  /\ Idle
  /\ step' = "ended"
  /\ UNCHANGED <<ledger, bus, redis, history, verifications, process, topology,
                 executed, resolved, torn, calls>>

\* enable_auto_commit: how far the topology group's offset has followed by the
\* time the process is gone.
AutoCommitted ==
  \E o \in topo_committed .. topo_position : topo_committed' = o

\* The process dies: RabbitMQ puts the unacknowledged message back.
Crash ==
  /\ step # "down"
  /\ Fault
  /\ queue' = IF msg = 0 THEN queue ELSE <<msg>> \o queue
  /\ torn' = torn \union Interrupted
  /\ AutoCommitted
  /\ Idle
  /\ step' = "down"
  /\ UNCHANGED <<ledger, announced, stores, process, nodes, edges, zone_members,
                 topo_position, executed, resolved, dropped, calls>>

\* stop(): the cancelled handler still runs its finally clause, once it has
\* begun to act, and the message is rejected without being put back.
Stop ==
  /\ step # "down"
  /\ Fault
  /\ remediations' = IF msg = 0 \/ step \in {"find", "acknowledge", "load"}
                     THEN remediations
                     ELSE [remediations EXCEPT ![msg] = @ \union {status}]
  /\ dropped' = IF msg = 0 THEN dropped ELSE dropped \union {msg}
  /\ torn' = torn \union Interrupted
  /\ AutoCommitted
  /\ Idle
  /\ step' = "down"
  /\ UNCHANGED <<ledger, bus, redis, history, verifications, process, nodes,
                 edges, zone_members, topo_position, executed, resolved, calls>>

\* A new process: an empty graph, filled from the committed offset on.
Restart ==
  /\ step = "down"
  /\ step' = "idle"
  /\ paused' = FALSE
  /\ rules_cached' = FALSE
  /\ nodes' = {}
  /\ edges' = {}
  /\ zone_members' = [z \in Zones |-> {}]
  /\ topo_position' = topo_committed
  /\ UNCHANGED <<ledger, bus, stores, topo_committed, msg, handling, ghosts,
                 faults, calls>>

------------------------------------------------------------------------------
(* The topology task.                                                      *)

Link(a, b) == {a, b}

Without(n) == {x \in edges : n \notin x}

\* RACK_CREATED: tied to the zone and to every rack the zone has by now.
RackCreated(r, z) ==
  IF z = None
  THEN nodes' = nodes \union {r} /\ UNCHANGED <<edges, zone_members>>
  ELSE /\ nodes' = nodes \union {r, z}
       /\ edges' = edges \union {Link(r, z)}
                         \union {Link(r, x) : x \in zone_members[z]}
       /\ zone_members' = [zone_members EXCEPT ![z] = @ \union {r}]

\* Mutant of RackDeleted: the rack stays listed in its zone.
RackDeletedKeepsMember(r) ==
  /\ nodes' = nodes \ {r}
  /\ edges' = Without(r)
  /\ UNCHANGED zone_members

RackDeleted(r) ==
  /\ nodes' = nodes \ {r}
  /\ edges' = Without(r)
  /\ zone_members' = [z \in Zones |-> zone_members[z] \ {r}]

DeviceCreated(d, r) ==
  /\ nodes' = nodes \union {d, r}
  /\ edges' = edges \union {Link(d, r)}
  /\ UNCHANGED zone_members

DeviceMoved(d, r) ==
  /\ nodes' = nodes \union {d, r}
  /\ edges' = Without(d) \union {Link(d, r)}
  /\ UNCHANGED zone_members

DeviceDeleted(d) ==
  /\ nodes' = nodes \ {d}
  /\ edges' = Without(d)
  /\ UNCHANGED zone_members

\* The branch of _process_topology_event an event takes; one that lacks the
\* branch's ids takes none.
Branch(e) ==
  CASE e.event \in {"RACK_CREATED", "RACK_DELETED"} /\ e.rack # None -> e.event
    [] e.event \in {"DEVICE_CREATED", "DEVICE_MOVED"}
         /\ e.device # None /\ e.rack # None -> e.event
    [] e.event = "DEVICE_DELETED" /\ e.device # None -> e.event
    [] OTHER -> "IGNORED"

\* _process_topology_event, between any two steps of the alert task.
ProcessTopologyEvent ==
  /\ step # "down"
  /\ topo_position < Len(TopologyLog)
  /\ LET e == TopologyLog[topo_position + 1]
     IN \/ Branch(e) = "RACK_CREATED" /\ RackCreated(e.rack, e.zone)
        \/ Branch(e) = "RACK_DELETED" /\ RackDeleted(e.rack)
        \/ Branch(e) = "DEVICE_CREATED" /\ DeviceCreated(e.device, e.rack)
        \/ Branch(e) = "DEVICE_MOVED" /\ DeviceMoved(e.device, e.rack)
        \/ Branch(e) = "DEVICE_DELETED" /\ DeviceDeleted(e.device)
        \/ Branch(e) = "IGNORED" /\ UNCHANGED <<nodes, edges, zone_members>>
  /\ topo_position' = topo_position + 1
  /\ UNCHANGED <<ledger, bus, stores, step, process, topo_committed, msg,
                 handling, ghosts, faults, calls>>

------------------------------------------------------------------------------
(* The alert engine and the operator.                                      *)

RecordAlert ==
  /\ Len(ledger) < Len(Incoming)
  /\ ledger' = LET a == Incoming[Len(ledger) + 1]
               IN Append(ledger, [key |-> <<a.entity, a.rule>>,
                                  status |-> "ACTIVE", acknowledged |-> FALSE])
  /\ UNCHANGED <<bus, stores, step, process, topology, msg, handling, ghosts,
                 faults, calls>>

\* A recorded alert reaches the queue; a retried publish may bring it again.
AnnounceAlert(i) ==
  /\ announced' = announced \union {i}
  /\ queue' = Append(queue, i)
  /\ IF i \in announced THEN Fault ELSE UNCHANGED faults
  /\ UNCHANGED <<ledger, stores, step, process, topology, msg, handling, ghosts,
                 calls>>

SetPaused(b) ==
  /\ step # "down"
  /\ calls < MaxCalls
  /\ paused # b
  /\ paused' = b
  /\ calls' = calls + 1
  /\ UNCHANGED <<ledger, bus, stores, step, rules_cached, topology, msg,
                 handling, ghosts, faults>>

------------------------------------------------------------------------------
Init ==
  /\ ledger = <<>>
  /\ announced = {}
  /\ queue = <<>>
  /\ redis = [e \in Entities |-> None]
  /\ history = [e \in Entities |-> None]
  /\ verifications = [i \in Alerts |-> [passed |-> 0, failed |-> 0]]
  /\ remediations = [i \in Alerts |-> {}]
  /\ step = "idle"
  /\ paused = FALSE
  /\ rules_cached = FALSE
  /\ nodes = {}
  /\ edges = {}
  /\ zone_members = [z \in Zones |-> {}]
  /\ topo_position = 0
  /\ topo_committed = 0
  /\ msg = 0
  /\ alert_id = 0
  /\ stage = "initial"
  /\ entity_state = Fresh
  /\ neighbor = None
  /\ affected = {}
  /\ retry_count = 0
  /\ success = FALSE
  /\ status = "PENDING"
  /\ executed = [i \in Alerts |-> 0]
  /\ resolved = {}
  /\ torn = {}
  /\ dropped = {}
  /\ faults = 0
  /\ calls = 0

\* The alert task.
Handle ==
  \/ Deliver
  \/ FindAlert
  \/ AcknowledgeAlert
  \/ GetState
  \/ ExecuteAction
  \/ SetState
  \/ AppendHistory
  \/ PublishStateUpdate
  \/ NextNeighbor
  \/ Verify
  \/ RecordVerification
  \/ ResolveAlert
  \/ RecordRemediation

Environment ==
  \/ StepFails
  \/ TaskDies
  \/ Crash
  \/ Stop
  \/ RecordAlert
  \/ \E i \in DOMAIN ledger : AnnounceAlert(i)
  \/ \E b \in BOOLEAN : SetPaused(b)

Next == Handle \/ ProcessTopologyEvent \/ Restart \/ Environment

Spec == Init /\ [][Next]_vars

\* The event loop runs the alert task; docker restarts the container.
FairSpec == Spec /\ WF_vars(Handle) /\ WF_vars(Restart)
------------------------------------------------------------------------------
(* Properties.                                                             *)

Steps == {"idle", "find", "acknowledge", "load", "execute", "set", "history",
          "announce", "neighbor", "verify", "record", "resolve", "finish",
          "ended", "down"}

SubStates == {"NORMAL", "ELEVATED", "HIGH", "CRITICAL", "UNKNOWN", "DEGRADED",
              "HIGH_LATENCY", "AT_RISK"}

States ==
  [status : {"ACTIVE", "DEGRADED", "FAILED", "ISOLATED", "AT_RISK"},
   sub : [thermal : SubStates, power : SubStates, network : SubStates]]

Statuses == {"PENDING", "EXECUTED", "VERIFIED_SUCCESS", "FAILED_REMEDIATION",
             "FAILED"}

\* Types, and what is in hand in which step.
TypeOK ==
  /\ ledger \in Seq([key : Entities \X {Incoming[i].rule : i \in Alerts},
                     status : {"ACTIVE", "RESOLVED"}, acknowledged : BOOLEAN])
  /\ announced \subseteq DOMAIN ledger
  /\ queue \in Seq(announced)
  /\ redis \in [Entities -> States \union {None}]
  /\ history \in [Entities -> States \union {None}]
  /\ step \in Steps
  /\ msg \in announced \union {0}
  /\ msg = 0 <=> step \in {"idle", "ended", "down"}
  /\ alert_id \in DOMAIN ledger \union {0}
  /\ stage \in {"initial", "spread", "retry", "recovered", "secondary"}
  /\ entity_state \in States
  /\ status \in Statuses
  /\ retry_count \in 0 .. MaxRetries
  /\ affected \subseteq Entities
  /\ remediations \in [Alerts -> SUBSET Statuses]
  /\ nodes \subseteq Entities
  /\ zone_members \in [Zones -> SUBSET Racks]
  /\ topo_committed <= topo_position /\ topo_position <= Len(TopologyLog)

\* An entity is shown ACTIVE, and an alert is resolved, only on the strength of
\* a verification that passed and is in verification_history, whatever crashed
\* or failed on the way.
RecoveryVerified ==
  /\ \A e \in Entities :
       redis[e] # None /\ redis[e].status = "ACTIVE" =>
         \E i \in Alerts : Incoming[i].entity = e /\ verifications[i].passed > 0
  /\ \A j \in resolved : \E i \in Alerts :
       /\ <<Incoming[i].entity, Incoming[i].rule>> = ledger[j].key
       /\ verifications[i].passed > 0

\* An entity is only shut down or isolated after the action and all its
\* retries failed verification.
EscalationEarned ==
  \A e \in Entities :
    redis[e] # None /\ redis[e].status \in {"FAILED", "ISOLATED"} =>
      \E i \in Alerts : /\ Incoming[i].entity = e
                        /\ verifications[i].failed > MaxRetries

\* The handler keeps a copy of the entity's state over awaits of many seconds
\* and writes it back: nothing else may change the entity in the meantime, the
\* flagging of neighbours, through any graph, included.
CopyIsCurrent ==
  \/ stage = "spread"
  \/ step \in {"neighbor", "verify", "record", "resolve"}
  \/ stage \in {"retry", "secondary"} /\ step = "execute"
  => redis[Alert.entity] = entity_state

\* The timeline ends with the state Redis serves, except while a change is
\* being saved and where a failure cut the saving short.
TimelineCurrent ==
  \A e \in Entities :
    redis[e] # history[e] => e \in torn \union Interrupted

\* Every alert that was acted on leaves a remediation record, failed attempts
\* and interrupted ones included, unless it is still to be redelivered, the
\* record itself could not be written, or the redelivery met a paused engine.
AttemptsAudited ==
  \A i \in Alerts :
    executed[i] > 0 =>
      \/ remediations[i] # {}
      \/ i = msg
      \/ i \in Range(queue)
      \/ i \in dropped

\* Racks that share a zone are neighbours of the zone and of each other,
\* through any order of creations, deletions, moves and replays.
ZoneIsClique ==
  \A z \in Zones : \A r \in zone_members[z] :
    /\ Link(r, z) \in edges
    /\ \A x \in zone_members[z] : x # r => Link(r, x) \in edges

\* The runtime keeps to AlertLedger: it changes no alert except to acknowledge
\* or resolve it, and none that was not recorded.
Ledger == INSTANCE AlertLedger WITH
            Keys <- Entities \X {Incoming[i].rule : i \in Alerts},
            ledger <- ledger,
            announced <- announced

LedgerSpec == Ledger!Spec

\* Failures and crashes being finite, no message is left in the queue or in
\* hand: the handler is never stuck in a retry, a verification or the flagging
\* of neighbours, and whatever it does with a message the next one is taken.
\* There is one way out, and it is for good: an exception that leaves
\* _process_alert ends the task, and the process stays up without it.
Drained == queue = <<>> /\ msg = 0

MessagesFinish == <>[]Drained \/ <>[](step = "ended")

\* What the service's documentation says of idempotency ("Actions are recorded
\* and tracked to prevent redundant executions for the same failure window"):
\* an alert's action is executed once, and once more per verification retry.
NoRedundantExecution ==
  \A i \in Alerts : executed[i] <= 1 + MaxRetries

\* What it says of propagation (it "maintains a physical topology graph" and
\* "identifies affected neighbors (e.g., adjacent racks sharing a cooling
\* zone)"): once the topology task has consumed the log, the racks the log puts
\* in one zone are neighbours.
InZone(r, z) ==
  \E i \in DOMAIN TopologyLog :
    LET e == TopologyLog[i]
    IN /\ e.event = "RACK_CREATED" /\ e.rack = r /\ e.zone = z
       /\ \A j \in DOMAIN TopologyLog :
            j > i => TopologyLog[j].event # "RACK_DELETED" \/ TopologyLog[j].rack # r

ZoneMatesKnown ==
  step # "down" /\ topo_position = Len(TopologyLog) =>
    \A r, x \in Racks, z \in Zones :
      InZone(r, z) /\ InZone(x, z) /\ r # x => Link(r, x) \in edges
==============================================================================
