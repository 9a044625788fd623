---------------------------- MODULE RuntimeProofs ----------------------------
(***************************************************************************)
(* Theorems about RuntimeOrchestrator, for any alerts, rules, topology log *)
(* and bounds: what a passed verification is worth, that the zones of the  *)
(* PropagationModel stay cliques, and what the handling of an alert keeps  *)
(* through every failure.                                                  *)
(*                                                                         *)
(* LedgerInv, PlanInv and DataInv, the types and what is in hand at each   *)
(* step, are inductive together.  The invariants behind the properties     *)
(* are each inductive relative to them.                                    *)
(***************************************************************************)
EXTENDS RuntimeOrchestrator, SequenceTheorems, TLAPS

\* The operators of AlertRule.
Operators == {">", "<", ">=", "<=", "=="}

\* A verification that passes has the metric out of violation: the margin
\* safe_threshold takes off or adds, max(1.0, ...) of a threshold of either
\* sign included, always leaves the safe side inside the side that does not
\* violate, for every operator, threshold, observation and kind of metric.
THEOREM VerifiedIsSafe ==
  ASSUME NEW o \in Int, NEW threshold \in Int, NEW op \in Operators, NEW about
  PROVE  LET r == [op |-> op, threshold |-> threshold]
         IN verify_success(o, r, about) => ~still_violating(o, r)
<1> DEFINE r == [op |-> op, threshold |-> threshold]
<1>1. r.op = op /\ r.threshold = threshold
  OBVIOUS
<1>2. Tolerance(threshold) \in Int /\ Tolerance(threshold) >= 10
  BY DEF Tolerance
<1>3. Abs(threshold) \in Int
  BY DEF Abs
<1>4. Tolerance(Abs(threshold)) \in Int /\ Tolerance(Abs(threshold)) >= 10
  BY <1>3 DEF Tolerance
<1>5. CASE op \in {">", ">="}
  <2>1. MarginBelow(threshold, about) \in Int /\ MarginBelow(threshold, about) >= 10
    BY <1>2 DEF MarginBelow
  <2>2. verify_success(o, r, about) => o < threshold
    BY <1>1, <1>5, <2>1 DEF verify_success
  <2>3. still_violating(o, r) => o >= threshold
    BY <1>1, <1>5 DEF still_violating
  <2>. QED  BY <2>2, <2>3
<1>6. CASE op \in {"<", "<="}
  <2>1. MarginAbove(threshold, about) \in Int /\ MarginAbove(threshold, about) >= 10
    BY <1>4 DEF MarginAbove
  <2>2. verify_success(o, r, about) => o > threshold
    BY <1>1, <1>6, <2>1 DEF verify_success
  <2>3. still_violating(o, r) => o <= threshold
    BY <1>1, <1>6 DEF still_violating
  <2>. QED  BY <2>2, <2>3
<1>7. CASE op = "=="
  <2>1. still_violating(o, r) => o - threshold = 0
    BY <1>1, <1>7 DEF still_violating
  <2>2. verify_success(o, r, about) =>
          10 * Abs(o - threshold) > Tolerance(Abs(threshold))
    BY <1>1, <1>7 DEF verify_success
  <2>3. o - threshold = 0 => ~(10 * Abs(o - threshold) > Tolerance(Abs(threshold)))
    BY <1>4 DEF Abs
  <2>. QED  BY <2>1, <2>2, <2>3
<1>. QED  BY <1>5, <1>6, <1>7 DEF Operators

------------------------------------------------------------------------------
(* Zones.                                                                  *)

GraphOK ==
  /\ zone_members \in [Zones -> SUBSET Racks]
  /\ ZoneIsClique

\* No zone, no cliques: the process starts and restarts with an empty graph.
LEMMA EmptyGraphOK ==
  ASSUME zone_members' = [z \in Zones |-> {}]
  PROVE  GraphOK'
BY DEF GraphOK, ZoneIsClique

\* Taking a node that is in no zone out of the graph breaks no clique.
LEMMA WithoutKeeps ==
  ASSUME NEW n, NEW x \in edges, n \notin x
  PROVE  x \in Without(n)
BY DEF Without

\* RACK_CREATED keeps the cliques: the new member is tied to all the others.
LEMMA RackCreatedKeeps ==
  ASSUME GraphOK, NEW r \in Racks, NEW z \in Zones \union {None},
         RackCreated(r, z)
  PROVE  GraphOK'
<1>1. CASE z = None
  <2>1. UNCHANGED <<edges, zone_members>>
    BY <1>1 DEF RackCreated
  <2>. QED  BY <2>1 DEF GraphOK, ZoneIsClique
<1>2. CASE z # None
  <2>1. z \in Zones
    BY <1>2
  <2>2. /\ edges' = edges \union {Link(r, z)}
                          \union {Link(r, x) : x \in zone_members[z]}
        /\ zone_members' = [zone_members EXCEPT ![z] = @ \union {r}]
    BY <1>2 DEF RackCreated
  <2>3. zone_members' \in [Zones -> SUBSET Racks]
    BY <2>2 DEF GraphOK
  <2>4. ASSUME NEW y \in Zones, NEW a \in zone_members'[y]
        PROVE  /\ Link(a, y) \in edges'
               /\ \A b \in zone_members'[y] : b # a => Link(a, b) \in edges'
    <3>1. CASE y # z
      <4>1. zone_members'[y] = zone_members[y]
        BY <3>1, <2>2, <2>1 DEF GraphOK
      <4>. QED  BY <4>1, <2>2, <2>4 DEF GraphOK, ZoneIsClique
    <3>2. CASE y = z
      <4>1. zone_members'[z] = zone_members[z] \union {r}
        BY <2>1, <2>2 DEF GraphOK
      <4>2. Link(a, z) \in edges'
        BY <4>1, <3>2, <2>1, <2>2, <2>4 DEF GraphOK, ZoneIsClique
      <4>3. ASSUME NEW b \in zone_members'[z], b # a
            PROVE  Link(a, b) \in edges'
        <5>1. CASE a = r
          BY <5>1, <4>1, <4>3, <2>2
        <5>2. CASE a # r /\ b = r
          <6>1. Link(a, b) = Link(r, a)
            BY <5>2 DEF Link
          <6>. QED  BY <6>1, <5>2, <4>1, <3>2, <2>2, <2>4
        <5>3. CASE a # r /\ b # r
          BY <5>3, <4>1, <4>3, <3>2, <2>1, <2>2, <2>4 DEF GraphOK, ZoneIsClique
        <5>. QED  BY <5>1, <5>2, <5>3
      <4>. QED  BY <3>2, <4>2, <4>3
    <3>. QED  BY <3>1, <3>2
  <2>. QED  BY <2>3, <2>4 DEF GraphOK, ZoneIsClique
<1>. QED  BY <1>1, <1>2

\* RACK_DELETED keeps the cliques: the rack leaves the graph and its zone.
LEMMA RackDeletedKeeps ==
  ASSUME GraphOK, NEW r \in Racks, RackDeleted(r)
  PROVE  GraphOK'
<1>1. /\ edges' = Without(r)
      /\ zone_members' = [z \in Zones |-> zone_members[z] \ {r}]
  BY DEF RackDeleted
<1>2. zone_members' \in [Zones -> SUBSET Racks]
  BY <1>1 DEF GraphOK
<1>3. ASSUME NEW y \in Zones, NEW a \in zone_members'[y]
      PROVE  /\ Link(a, y) \in edges'
             /\ \A b \in zone_members'[y] : b # a => Link(a, b) \in edges'
  <2>1. a \in zone_members[y] /\ a # r
    BY <1>1, <1>3
  <2>2. r # y
    BY ConstantsOK
  <2>3. Link(a, y) \in edges /\ r \notin Link(a, y)
    BY <2>1, <2>2 DEF GraphOK, ZoneIsClique, Link
  <2>4. ASSUME NEW b \in zone_members'[y], b # a
        PROVE  Link(a, b) \in edges'
    <3>1. b \in zone_members[y] /\ b # r
      BY <1>1, <2>4
    <3>2. Link(a, b) \in edges /\ r \notin Link(a, b)
      BY <3>1, <2>1, <2>4 DEF GraphOK, ZoneIsClique, Link
    <3>. QED  BY <3>2, <1>1, WithoutKeeps
  <2>. QED  BY <2>3, <2>4, <1>1, WithoutKeeps
<1>. QED  BY <1>2, <1>3 DEF GraphOK, ZoneIsClique

\* Devices belong to no zone: taking one's links away breaks no clique.
LEMMA WithoutDeviceKeeps ==
  ASSUME GraphOK, NEW d \in Devices, Without(d) \subseteq edges',
         UNCHANGED zone_members
  PROVE  GraphOK'
<1>1. ASSUME NEW y \in Zones, NEW a \in zone_members[y]
      PROVE  /\ Link(a, y) \in edges'
             /\ \A b \in zone_members[y] : b # a => Link(a, b) \in edges'
  <2>1. zone_members[y] \subseteq Racks
    BY DEF GraphOK
  <2>2. d # y /\ \A b \in zone_members[y] : b # d
    BY <2>1, ConstantsOK
  <2>3. Link(a, y) \in edges /\ d \notin Link(a, y)
    BY <1>1, <2>2 DEF GraphOK, ZoneIsClique, Link
  <2>4. \A b \in zone_members[y] :
          b # a => Link(a, b) \in edges /\ d \notin Link(a, b)
    BY <1>1, <2>2 DEF GraphOK, ZoneIsClique, Link
  <2>. QED  BY <2>3, <2>4, WithoutKeeps
<1>. QED  BY <1>1 DEF GraphOK, ZoneIsClique

\* One event of the topology log keeps the cliques.
LEMMA TopologyEventKeeps ==
  ASSUME GraphOK, topo_position \in Nat, ProcessTopologyEvent
  PROVE  GraphOK'
<1> DEFINE e == TopologyLog[topo_position + 1]
<1>1. e \in Events
  BY ConstantsOK DEF ProcessTopologyEvent
<1>2. /\ e.rack \in Racks \union {None}
      /\ e.zone \in Zones \union {None}
      /\ e.device \in Devices \union {None}
  BY <1>1 DEF Events
<1>3. \/ Branch(e) = "RACK_CREATED" /\ RackCreated(e.rack, e.zone)
      \/ Branch(e) = "RACK_DELETED" /\ RackDeleted(e.rack)
      \/ Branch(e) = "DEVICE_CREATED" /\ DeviceCreated(e.device, e.rack)
      \/ Branch(e) = "DEVICE_MOVED" /\ DeviceMoved(e.device, e.rack)
      \/ Branch(e) = "DEVICE_DELETED" /\ DeviceDeleted(e.device)
      \/ Branch(e) = "IGNORED" /\ UNCHANGED <<nodes, edges, zone_members>>
  BY DEF ProcessTopologyEvent
<1>4. CASE Branch(e) = "RACK_CREATED" /\ RackCreated(e.rack, e.zone)
  <2>1. e.rack # None
    BY <1>4 DEF Branch
  <2>. QED  BY <2>1, <1>2, <1>4, RackCreatedKeeps
<1>5. CASE Branch(e) = "RACK_DELETED" /\ RackDeleted(e.rack)
  <2>1. e.rack # None
    BY <1>5 DEF Branch
  <2>. QED  BY <2>1, <1>2, <1>5, RackDeletedKeeps
<1>6. CASE Branch(e) = "DEVICE_CREATED" /\ DeviceCreated(e.device, e.rack)
  <2>1. e.device # None
    BY <1>6 DEF Branch
  <2>2. Without(e.device) \subseteq edges' /\ UNCHANGED zone_members
    BY <1>6 DEF DeviceCreated, Without
  <2>. QED  BY <2>1, <2>2, <1>2, WithoutDeviceKeeps
<1>7. CASE Branch(e) = "DEVICE_MOVED" /\ DeviceMoved(e.device, e.rack)
  <2>1. e.device # None
    BY <1>7 DEF Branch
  <2>2. Without(e.device) \subseteq edges' /\ UNCHANGED zone_members
    BY <1>7 DEF DeviceMoved
  <2>. QED  BY <2>1, <2>2, <1>2, WithoutDeviceKeeps
<1>8. CASE Branch(e) = "DEVICE_DELETED" /\ DeviceDeleted(e.device)
  <2>1. e.device # None
    BY <1>8 DEF Branch
  <2>2. Without(e.device) \subseteq edges' /\ UNCHANGED zone_members
    BY <1>8 DEF DeviceDeleted
  <2>. QED  BY <2>1, <2>2, <1>2, WithoutDeviceKeeps
<1>9. CASE Branch(e) = "IGNORED" /\ UNCHANGED <<nodes, edges, zone_members>>
  BY <1>9 DEF GraphOK, ZoneIsClique
<1>. QED  BY <1>3, <1>4, <1>5, <1>6, <1>7, <1>8, <1>9

ZoneInv ==
  /\ topo_position \in Nat
  /\ topo_committed \in Nat
  /\ GraphOK

\* Every step either is a topology event's, or starts from an empty graph, or
\* leaves the graph alone.
LEMMA ZoneInvStep ==
  ASSUME ZoneInv, [Next]_vars
  PROVE  ZoneInv'
<1>1. CASE ProcessTopologyEvent
  <2>1. GraphOK'
    BY <1>1, TopologyEventKeeps DEF ZoneInv
  <2>2. topo_position' = topo_position + 1 /\ UNCHANGED topo_committed
    BY <1>1 DEF ProcessTopologyEvent
  <2>. QED  BY <2>1, <2>2 DEF ZoneInv
<1>2. CASE Restart
  <2>1. GraphOK'
    BY <1>2, EmptyGraphOK DEF Restart
  <2>. QED  BY <1>2, <2>1 DEF Restart, ZoneInv
<1>3. CASE Crash \/ Stop
  <2>1. UNCHANGED <<edges, zone_members, topo_position>> /\ AutoCommitted
    BY <1>3 DEF Crash, Stop
  <2>2. topo_committed' \in Nat
    BY <2>1 DEF AutoCommitted, ZoneInv
  <2>. QED  BY <2>1, <2>2 DEF ZoneInv, GraphOK, ZoneIsClique
<1>4. CASE \/ UNCHANGED vars
           \/ Handle
           \/ StepFails \/ TaskDies \/ RecordAlert
           \/ \E i \in DOMAIN ledger : AnnounceAlert(i)
           \/ \E b \in BOOLEAN : SetPaused(b)
  <2>1. UNCHANGED <<edges, zone_members, topo_position, topo_committed>>
    <3>1. CASE UNCHANGED vars
      BY <3>1 DEF vars, topology
    <3>2. CASE Deliver
      BY <3>2 DEF Deliver
    <3>3. CASE FindAlert \/ AcknowledgeAlert \/ GetState \/ ExecuteAction
      BY <3>3 DEF FindAlert, AcknowledgeAlert, GetState, ExecuteAction, topology
    <3>4. CASE SetState \/ AppendHistory \/ PublishStateUpdate \/ NextNeighbor
      BY <3>4 DEF SetState, AppendHistory, PublishStateUpdate, NextNeighbor,
                  topology
    <3>5. CASE Verify \/ RecordVerification \/ ResolveAlert \/ RecordRemediation
      BY <3>5 DEF Verify, RecordVerification, ResolveAlert, RecordRemediation,
                  topology
    <3>6. CASE StepFails \/ TaskDies \/ RecordAlert
      BY <3>6 DEF StepFails, TaskDies, RecordAlert, topology
    <3>7. CASE \/ \E i \in DOMAIN ledger : AnnounceAlert(i)
               \/ \E b \in BOOLEAN : SetPaused(b)
      BY <3>7 DEF AnnounceAlert, SetPaused, topology
    <3>. QED  BY <1>4, <3>1, <3>2, <3>3, <3>4, <3>5, <3>6, <3>7 DEF Handle
  <2>. QED  BY <2>1 DEF ZoneInv, GraphOK, ZoneIsClique
<1>. QED  BY <1>1, <1>2, <1>3, <1>4 DEF Next, Environment

\* The racks the runtime lists in a zone are neighbours of the zone and of each
\* other at all times, for every topology log and however often the process is
\* lost and replays part of the log.
THEOREM ZonesStayCliques == Spec => []ZoneIsClique
<1>1. Init => ZoneInv
  <2> SUFFICES ASSUME Init PROVE ZoneInv
    OBVIOUS
  <2>. QED  BY DEF Init, ZoneInv, GraphOK, ZoneIsClique
<1>2. ZoneInv /\ [Next]_vars => ZoneInv'
  BY ZoneInvStep
<1>3. ZoneInv => ZoneIsClique
  BY DEF ZoneInv, GraphOK
<1>. QED  BY <1>1, <1>2, <1>3, PTL DEF Spec

------------------------------------------------------------------------------
(* The invariant of the alert task.                                        *)

AlertKeys == Entities \X {Incoming[i].rule : i \in Alerts}

Documents == [key : AlertKeys, status : {"ACTIVE", "RESOLVED"},
              acknowledged : BOOLEAN]

Key(i) == <<Incoming[i].entity, Incoming[i].rule>>

\* The ledger has the alerts in their order, the queue what was announced, and
\* the document in hand is about the alert in hand.
LedgerInv ==
  /\ ledger \in Seq(Documents) /\ Len(ledger) <= Len(Incoming)
  /\ \A i \in DOMAIN ledger : ledger[i].key = Key(i)
  /\ announced \subseteq DOMAIN ledger
  /\ queue \in Seq(announced)
  /\ msg \in announced \union {0}
  /\ alert_id \in DOMAIN ledger \union {0}
  /\ alert_id # 0 => msg # 0 /\ ledger[alert_id].key = Key(msg)
  /\ resolved \subseteq DOMAIN ledger

\* The stages in which the alert task may be at a step.
StagesAt(s) ==
  CASE s \in {"idle", "ended", "down", "find", "acknowledge", "load"} ->
         {"initial"}
    [] s = "execute" -> {"initial", "retry", "secondary"}
    [] s \in {"set", "history", "announce"} ->
         {"initial", "spread", "recovered", "secondary"}
    [] s = "neighbor" -> {"initial", "spread"}
    [] s \in {"verify", "record"} -> {"initial", "retry"}
    [] s = "resolve" -> {"recovered"}
    [] s = "finish" -> {"initial", "spread", "retry", "recovered", "secondary"}

Quiet == {"idle", "ended", "down"}

PlanInv ==
  /\ step \in Steps
  /\ stage \in StagesAt(step)
  /\ status \in Statuses
  /\ msg = 0 <=> step \in Quiet
  /\ step \in {"acknowledge", "resolve"} => alert_id # 0
  /\ step \notin Quiet \union {"find", "acknowledge"} => HasPolicy(Alert)

\* The statuses a stage gives to the entity it is about.
Written(s) ==
  CASE s = "initial"   -> {"DEGRADED"}
    [] s = "spread"    -> {"AT_RISK"}
    [] s = "recovered" -> {"ACTIVE"}
    [] s = "secondary" -> {"FAILED", "ISOLATED"}

Counts == [passed : Nat, failed : Nat]

DataInv ==
  /\ redis \in [Entities -> States \union {None}]
  /\ history \in [Entities -> States \union {None}]
  /\ remediations \in [Alerts -> SUBSET Statuses]
  /\ verifications \in [Alerts -> Counts]
  /\ entity_state \in States
  /\ retry_count \in 0 .. MaxRetries
  /\ affected \subseteq Entities
  /\ IF msg = 0 THEN affected = {} /\ retry_count = 0
     ELSE Alert.entity \notin affected
  /\ stage = "spread" =>
       neighbor \in [id : Entities \ {Alert.entity}, state : States]
  /\ step = "set" => Document.status \in Written(stage)
  /\ nodes \subseteq Entities
  /\ edges \subseteq SUBSET Entities
  /\ zone_members \in [Zones -> SUBSET Racks]
  /\ topo_committed \in Nat /\ topo_position \in Nat
  /\ topo_committed <= topo_position /\ topo_position <= Len(TopologyLog)

\* The copy in hand is what Redis has from the moment it is written.
CopyInv ==
  \/ stage = "spread"
  \/ step \in {"history", "announce", "neighbor", "verify", "record", "resolve"}
  \/ stage \in {"retry", "secondary"} /\ step = "execute"
  => redis[Alert.entity] = entity_state

TimelineInv ==
  /\ TimelineCurrent
  /\ step = "history" => redis[Target] = Document

\* Recovery and escalation rest on the verifications counted so far.
VerdictInv ==
  /\ RecoveryVerified
  /\ EscalationEarned
  /\ stage = "recovered" => verifications[msg].passed > 0
  /\ stage = "secondary" => verifications[msg].failed > MaxRetries
  /\ msg # 0 => retry_count <= verifications[msg].failed

AuditInv ==
  /\ AttemptsAudited
  /\ executed \in [Alerts -> Nat]
  /\ \A i \in Alerts : executed[i] > 0 => HasPolicy(Incoming[i])

------------------------------------------------------------------------------
(* Alerts, policies and states.                                            *)

LEMMA AlertTyped ==
  ASSUME NEW i \in Alerts
  PROVE  Incoming[i].entity \in Entities /\ Key(i) \in AlertKeys
<1> DEFINE R == [entity : Entities, rule : STRING, about : STRING,
                 value : Int, with_id : BOOLEAN, valid : BOOLEAN]
<1>1. Incoming \in Seq(R)
  BY ConstantsOK
<1> HIDE DEF R
<1>2. Incoming[i] \in R
  BY <1>1, ElementOfSeq DEF Alerts
<1> USE DEF R
<1>3. Incoming[i].entity \in Entities
  BY <1>2
<1>. QED  BY <1>3 DEF Key, AlertKeys

LEMMA AlertsInOrder ==
  /\ Len(Incoming) \in Nat /\ Alerts = 1 .. Len(Incoming)
BY ConstantsOK DEF Alerts

\* The alert in hand is one of the ledger's, and so one of those that came.
LEMMA InHand ==
  ASSUME LedgerInv
  PROVE  /\ DOMAIN ledger = 1 .. Len(ledger) /\ Len(ledger) \in Nat
         /\ DOMAIN ledger \subseteq Alerts /\ 0 \notin DOMAIN ledger
         /\ msg # 0 => msg \in Alerts /\ Alert.entity \in Entities
<1>1. DOMAIN ledger = 1 .. Len(ledger) /\ Len(ledger) \in Nat
  BY DEF LedgerInv
<1>2. DOMAIN ledger \subseteq Alerts /\ 0 \notin DOMAIN ledger
  BY <1>1, AlertsInOrder DEF LedgerInv
<1>3. msg # 0 => msg \in Alerts
  BY <1>2 DEF LedgerInv
<1>. QED  BY <1>1, <1>2, <1>3, AlertTyped DEF Alert

LEMMA FreshTyped == Fresh \in States /\ Fresh.status = "ACTIVE"
BY DEF Fresh, State, Sub, States, SubStates

LEMMA PolicyTyped ==
  ASSUME NEW a, HasPolicy(a)
  PROVE  /\ evaluate_remediation(a) \in States
         /\ evaluate_remediation(a).status = "DEGRADED"
<1> DEFINE p == IF a.rule \in DOMAIN RulePolicies THEN RulePolicies[a.rule]
                ELSE DomainPolicies[a.about]
<1>1. ASSUME NEW x \in DOMAIN RulePolicies
      PROVE  RulePolicies[x] \in [thermal : SubStates, power : SubStates,
                                  network : SubStates]
  BY DEF RulePolicies, Sub, SubStates
<1>2. ASSUME NEW x \in DOMAIN DomainPolicies
      PROVE  DomainPolicies[x] \in [thermal : SubStates, power : SubStates,
                                    network : SubStates]
  BY DEF DomainPolicies, Sub, SubStates
<1>3. p \in [thermal : SubStates, power : SubStates, network : SubStates]
  BY <1>1, <1>2 DEF HasPolicy
<1> HIDE DEF p
<1>4. State("DEGRADED", p) \in States /\ State("DEGRADED", p).status = "DEGRADED"
  BY <1>3 DEF State, States
<1>. QED  BY <1>4 DEF evaluate_remediation, p

LEMMA SecondaryTyped ==
  ASSUME NEW a
  PROVE  /\ evaluate_secondary_action(a) \in States
         /\ evaluate_secondary_action(a).status \in {"FAILED", "ISOLATED"}
BY DEF evaluate_secondary_action, State, Sub, States, SubStates

LEMMA AtRiskTyped ==
  ASSUME NEW s \in States, NEW a
  PROVE  AtRisk(s, a) \in States /\ AtRisk(s, a).status = "AT_RISK"
BY DEF AtRisk, State, Sub, States, SubStates

------------------------------------------------------------------------------
(* Steps that leave parts of the state alone.                              *)

\* The message stays in hand, or is let go of.
Keeps == UNCHANGED <<msg, alert_id>> \/ (msg' = 0 /\ alert_id' = 0)

LEMMA LedgerAside ==
  ASSUME LedgerInv, Keeps, UNCHANGED <<ledger, announced, queue, resolved>>
  PROVE  LedgerInv'
BY DEF LedgerInv, Keeps

\* A document is acknowledged or resolved: it stays about the same alert.
LEMMA LedgerUpdated ==
  ASSUME LedgerInv, Keeps, alert_id # 0, UNCHANGED <<announced, queue>>,
         NEW doc \in Documents, doc.key = ledger[alert_id].key,
         ledger' = [ledger EXCEPT ![alert_id] = doc],
         resolved' \subseteq resolved \union {alert_id}
  PROVE  LedgerInv'
<1>1. alert_id \in DOMAIN ledger
  BY DEF LedgerInv
<1>2. /\ ledger' \in Seq(Documents) /\ Len(ledger') = Len(ledger)
      /\ DOMAIN ledger' = DOMAIN ledger
      /\ \A i \in DOMAIN ledger : ledger'[i].key = ledger[i].key
  BY <1>1 DEF LedgerInv
<1>. QED  BY <1>1, <1>2 DEF LedgerInv, Keeps

\* The alert task lets go of its message.
LEMMA IdleKeeps ==
  ASSUME PlanInv, DataInv, Idle, step' \in Quiet,
         UNCHANGED <<redis, history, verifications, nodes, edges, zone_members,
                     topo_position>>,
         remediations' \in [Alerts -> SUBSET Statuses],
         topo_committed' \in topo_committed .. topo_position
  PROVE  PlanInv' /\ DataInv'
<1>1. PlanInv'
  BY DEF PlanInv, Idle, Quiet, StagesAt, Steps, Statuses
<1>2. DataInv'
  BY FreshTyped, ConstantsOK DEF DataInv, Idle, Quiet
<1>. QED  BY <1>1, <1>2

------------------------------------------------------------------------------
(* LedgerInv, PlanInv and DataInv are inductive: the alert task.           *)

HandlingInv == LedgerInv /\ PlanInv /\ DataInv

LEMMA DeliverStep == HandlingInv /\ Deliver => HandlingInv'
<1> SUFFICES ASSUME HandlingInv, Deliver PROVE HandlingInv'
  OBVIOUS
<1> DEFINE i == Head(queue)
<1>1. /\ step = "idle" /\ queue # <<>> /\ queue' = Tail(queue)
      /\ UNCHANGED <<ledger, announced, redis, history, verifications,
                     remediations, edges, zone_members, topo_position,
                     topo_committed, resolved>>
      /\ \/ UNCHANGED <<step, msg, handling, nodes>>
         \/ /\ msg' = i /\ alert_id' = (IF Incoming[i].with_id THEN i ELSE 0)
            /\ nodes' = nodes \union {Incoming[i].entity}
            /\ step' = (IF Incoming[i].with_id THEN "acknowledge" ELSE "find")
            /\ UNCHANGED <<stage, entity_state, neighbor, affected, retry_count,
                           status>>
  BY DEF Deliver, stores
<1>2. i \in announced /\ Tail(queue) \in Seq(announced)
  BY <1>1, HeadTailProperties DEF HandlingInv, LedgerInv
<1>3. i \in DOMAIN ledger /\ i \in Alerts /\ i # 0
  BY <1>2, InHand DEF HandlingInv, LedgerInv
<1>4. Incoming[i].entity \in Entities
  BY <1>3, AlertTyped
<1>5. /\ msg = 0 /\ stage = "initial" /\ status \in Statuses
  BY <1>1 DEF HandlingInv, PlanInv, Quiet, StagesAt
<1> HIDE DEF i
<1>6. CASE UNCHANGED <<step, msg, handling, nodes>>
  <2>1. LedgerInv'
    BY <1>1, <1>2, <1>6 DEF HandlingInv, LedgerInv, handling
  <2>2. PlanInv'
    BY <1>6 DEF HandlingInv, PlanInv, handling, Alert
  <2>3. DataInv'
    BY <1>1, <1>5, <1>6 DEF HandlingInv, DataInv, handling, Alert
  <2>. QED  BY <2>1, <2>2, <2>3 DEF HandlingInv
<1>7. CASE /\ msg' = i /\ alert_id' = (IF Incoming[i].with_id THEN i ELSE 0)
           /\ nodes' = nodes \union {Incoming[i].entity}
           /\ step' = (IF Incoming[i].with_id THEN "acknowledge" ELSE "find")
           /\ UNCHANGED <<stage, entity_state, neighbor, affected, retry_count,
                          status>>
  <2>1. LedgerInv'
    BY <1>1, <1>2, <1>3, <1>7 DEF HandlingInv, LedgerInv
  <2>2. PlanInv'
    BY <1>3, <1>5, <1>7 DEF PlanInv, StagesAt, Quiet, Steps
  <2>3. DataInv'
    BY <1>1, <1>4, <1>5, <1>7 DEF HandlingInv, DataInv
  <2>. QED  BY <2>1, <2>2, <2>3 DEF HandlingInv
<1>. QED  BY <1>1, <1>6, <1>7

\* The action ends with Evaluate: on to the entity's state, or through.
LEMMA EvaluateStep ==
  ASSUME HandlingInv, step \in {"find", "acknowledge"}, Evaluate,
         UNCHANGED <<redis, history, verifications, remediations, nodes, edges,
                     zone_members, topo_position, topo_committed>>
  PROVE  PlanInv' /\ DataInv' /\ Keeps
<1>1. CASE HasPolicy(Alert)
  <2>1. step' = "load" /\ UNCHANGED <<msg, handling>>
    BY <1>1 DEF Evaluate
  <2>2. PlanInv'
    BY <1>1, <2>1 DEF HandlingInv, PlanInv, StagesAt, Steps, Quiet, handling,
                      Alert
  <2>3. DataInv'
    BY <2>1 DEF HandlingInv, DataInv, handling, Alert
  <2>. QED  BY <2>1, <2>2, <2>3 DEF Keeps, handling
<1>2. CASE ~HasPolicy(Alert)
  <2>1. Idle /\ step' \in Quiet
    BY <1>2 DEF Evaluate, Ack, Quiet
  <2>2. /\ remediations' \in [Alerts -> SUBSET Statuses]
        /\ topo_committed' \in topo_committed .. topo_position
    BY DEF HandlingInv, DataInv
  <2>3. PlanInv' /\ DataInv'
    BY <2>1, <2>2, IdleKeeps DEF HandlingInv
  <2>. QED  BY <2>1, <2>3 DEF Keeps, Idle
<1>. QED  BY <1>1, <1>2

LEMMA FindStep == HandlingInv /\ FindAlert => HandlingInv'
<1> SUFFICES ASSUME HandlingInv, FindAlert PROVE HandlingInv'
  OBVIOUS
<1>1. /\ step = "find"
      /\ UNCHANGED <<ledger, announced, queue, resolved, redis, history,
                     verifications, remediations, nodes, edges, zone_members,
                     topo_position, topo_committed>>
  BY DEF FindAlert, bus, stores, topology, ghosts
<1>2. CASE Evaluate
  <2>1. PlanInv' /\ DataInv' /\ Keeps
    BY <1>1, <1>2, EvaluateStep
  <2>. QED  BY <1>1, <2>1, LedgerAside DEF HandlingInv
<1>3. ASSUME NEW j \in DOMAIN ledger, alert_id' = j,
             ledger[j].key = <<Alert.entity, Alert.rule>>,
             step' = "acknowledge",
             UNCHANGED <<msg, stage, entity_state, neighbor, affected,
                         retry_count, status>>
      PROVE  HandlingInv'
  <2>1. msg # 0 /\ j # 0
    BY <1>1, InHand DEF HandlingInv, PlanInv, Quiet
  <2>2. LedgerInv'
    BY <1>1, <1>3, <2>1 DEF HandlingInv, LedgerInv, Alert, Key
  <2>3. PlanInv'
    BY <1>1, <1>3, <2>1 DEF HandlingInv, PlanInv, StagesAt, Steps, Quiet
  <2>4. DataInv'
    BY <1>1, <1>3, <2>1 DEF HandlingInv, DataInv, Alert
  <2>. QED  BY <2>2, <2>3, <2>4 DEF HandlingInv
<1>4. \/ Evaluate
      \/ \E j \in DOMAIN ledger :
           /\ alert_id' = j /\ ledger[j].key = <<Alert.entity, Alert.rule>>
           /\ step' = "acknowledge"
           /\ UNCHANGED <<msg, stage, entity_state, neighbor, affected,
                          retry_count, status>>
  BY DEF FindAlert
<1>. QED  BY <1>2, <1>3, <1>4

LEMMA AcknowledgeStep == HandlingInv /\ AcknowledgeAlert => HandlingInv'
<1> SUFFICES ASSUME HandlingInv, AcknowledgeAlert PROVE HandlingInv'
  OBVIOUS
<1>1. /\ step = "acknowledge" /\ Evaluate
      /\ \/ ledger' = [ledger EXCEPT ![alert_id].acknowledged = TRUE]
         \/ UNCHANGED ledger
      /\ UNCHANGED <<announced, queue, resolved, redis, history,
                     verifications, remediations, nodes, edges, zone_members,
                     topo_position, topo_committed>>
  BY DEF AcknowledgeAlert, bus, stores, topology, ghosts
<1>2. PlanInv' /\ DataInv' /\ Keeps
  BY <1>1, EvaluateStep
<1>3. CASE UNCHANGED ledger
  BY <1>1, <1>2, <1>3, LedgerAside DEF HandlingInv
<1>4. CASE ledger' = [ledger EXCEPT ![alert_id].acknowledged = TRUE]
  <2> DEFINE doc == [ledger[alert_id] EXCEPT !.acknowledged = TRUE]
  <2>1. alert_id # 0 /\ alert_id \in DOMAIN ledger
    BY <1>1 DEF HandlingInv, PlanInv, LedgerInv
  <2>2. ledger[alert_id] \in Documents
    BY <2>1 DEF HandlingInv, LedgerInv
  <2>3. doc \in Documents /\ doc.key = ledger[alert_id].key
    BY <2>2 DEF Documents
  <2>4. ledger' = [ledger EXCEPT ![alert_id] = doc]
    BY <1>4
  <2> HIDE DEF doc
  <2>5. LedgerInv'
    BY <1>1, <1>2, <2>1, <2>3, <2>4, LedgerUpdated DEF HandlingInv
  <2>. QED  BY <1>2, <2>5 DEF HandlingInv
<1>. QED  BY <1>1, <1>3, <1>4

\* Steps that keep the message in hand and only touch the task's own state.
LEMMA OwnStep ==
  ASSUME LedgerInv, UNCHANGED <<ledger, announced, queue, resolved, msg,
                                alert_id>>,
         PlanInv', DataInv'
  PROVE  HandlingInv'
<1>1. LedgerInv'
  BY LedgerAside DEF Keeps
<1>. QED  BY <1>1 DEF HandlingInv

LEMMA GetStateStep == HandlingInv /\ GetState => HandlingInv'
<1> SUFFICES ASSUME HandlingInv, GetState PROVE HandlingInv'
  OBVIOUS
<1> USE DEF bus, stores, topology, ghosts
<1>1. step = "load" /\ msg # 0 /\ Alert.entity \in Entities
  BY InHand DEF GetState, HandlingInv, PlanInv, Quiet
<1>2. PlanInv'
  BY <1>1 DEF GetState, HandlingInv, PlanInv, StagesAt, Steps, Quiet, Alert
<1>3. entity_state' \in States
  BY <1>1, FreshTyped DEF GetState, HandlingInv, DataInv
<1>4. DataInv'
  BY <1>1, <1>3 DEF GetState, HandlingInv, DataInv, Alert, Document
<1>. QED  BY <1>2, <1>4, OwnStep DEF GetState, HandlingInv

LEMMA ExecuteStep == HandlingInv /\ ExecuteAction => HandlingInv'
<1> SUFFICES ASSUME HandlingInv, ExecuteAction PROVE HandlingInv'
  OBVIOUS
<1> USE DEF bus, stores, topology
<1>1. step = "execute" /\ HasPolicy(Alert) /\ msg # 0
  BY DEF ExecuteAction, HandlingInv, PlanInv, Quiet
<1>2. PlanInv'
  BY <1>1 DEF ExecuteAction, HandlingInv, PlanInv, StagesAt, Steps, Quiet,
              Statuses, Alert
<1>3. /\ entity_state' \in States
      /\ step' = "set" => Document'.status \in Written(stage')
      /\ stage # "spread" /\ stage' = stage
  <2>1. CASE stage = "initial"
    BY <1>1, <2>1, PolicyTyped DEF ExecuteAction, Document, Written
  <2>2. CASE stage = "retry"
    BY <2>2 DEF ExecuteAction, HandlingInv, DataInv
  <2>3. CASE stage = "secondary"
    BY <2>3, SecondaryTyped DEF ExecuteAction, Document, Written
  <2>. QED  BY <1>1, <2>1, <2>2, <2>3 DEF ExecuteAction
<1>4. /\ UNCHANGED <<redis, history, remediations, verifications, retry_count,
                     affected, nodes, edges, zone_members, topo_position,
                     topo_committed, msg>>
      /\ step' # "idle"
  BY <1>1 DEF ExecuteAction
<1>5. (step = "set" => Document.status \in Written(stage))'
  BY <1>3
<1>6. DataInv'
  BY <1>3, <1>4, <1>5 DEF HandlingInv, DataInv, Alert
<1>. QED  BY <1>2, <1>6, OwnStep DEF ExecuteAction, HandlingInv

\* What a change of state is about and what it writes.
LEMMA Saving ==
  ASSUME HandlingInv, step \in {"set", "history", "announce"}
  PROVE  /\ Target \in Entities /\ Document \in States /\ msg # 0
         /\ stage = "spread" => Target # Alert.entity
         /\ stage # "spread" => Target = Alert.entity
<1>1. msg # 0 /\ Alert.entity \in Entities
  BY InHand DEF HandlingInv, PlanInv, Quiet
<1>2. CASE stage = "spread"
  BY <1>1, <1>2 DEF HandlingInv, DataInv, Target, Document
<1>3. CASE stage # "spread"
  BY <1>1, <1>3 DEF HandlingInv, DataInv, Target, Document
<1>. QED  BY <1>1, <1>2, <1>3

LEMMA SetStep == HandlingInv /\ SetState => HandlingInv'
<1> SUFFICES ASSUME HandlingInv, SetState PROVE HandlingInv'
  OBVIOUS
<1> USE DEF bus, topology, ghosts, handling
<1>1. step = "set" /\ Target \in Entities /\ Document \in States
  BY Saving DEF SetState
<1>2. PlanInv'
  BY <1>1 DEF SetState, HandlingInv, PlanInv, StagesAt, Steps, Quiet, Alert
<1>3. redis' \in [Entities -> States \union {None}]
  BY <1>1 DEF SetState, HandlingInv, DataInv
<1>4. DataInv'
  BY <1>1, <1>3 DEF SetState, HandlingInv, DataInv, Alert
<1>. QED  BY <1>2, <1>4, OwnStep DEF SetState, HandlingInv

LEMMA HistoryStep == HandlingInv /\ AppendHistory => HandlingInv'
<1> SUFFICES ASSUME HandlingInv, AppendHistory PROVE HandlingInv'
  OBVIOUS
<1> USE DEF bus, topology, handling
<1>1. step = "history" /\ Target \in Entities /\ Document \in States
  BY Saving DEF AppendHistory
<1>2. PlanInv'
  BY <1>1 DEF AppendHistory, HandlingInv, PlanInv, StagesAt, Steps, Quiet, Alert
<1>3. history' \in [Entities -> States \union {None}]
  BY <1>1 DEF AppendHistory, HandlingInv, DataInv
<1>4. DataInv'
  BY <1>1, <1>3 DEF AppendHistory, HandlingInv, DataInv, Alert
<1>. QED  BY <1>2, <1>4, OwnStep DEF AppendHistory, HandlingInv

\* The neighbours are entities, and the entity itself is not one of them.
LEMMA NeighborsTyped ==
  ASSUME edges \subseteq SUBSET Entities, NEW e
  PROVE  Neighbors(e) \subseteq Entities /\ e \notin Neighbors(e)
<1> DEFINE U == UNION {x \in edges : e \in x}
<1>1. \A y \in U : y \in Entities
  <2> SUFFICES ASSUME NEW y \in U PROVE y \in Entities
    OBVIOUS
  <2>1. PICK x \in {x \in edges : e \in x} : y \in x
    BY Zenon
  <2>2. x \subseteq Entities
    BY <2>1
  <2>. QED  BY <2>1, <2>2
<1>2. Neighbors(e) = U \ {e}
  BY DEF Neighbors
<1> HIDE DEF U
<1>. QED  BY <1>1, <1>2

LEMMA PublishStep == HandlingInv /\ PublishStateUpdate => HandlingInv'
<1> SUFFICES ASSUME HandlingInv, PublishStateUpdate PROVE HandlingInv'
  OBVIOUS
<1> USE DEF bus, stores, topology, ghosts
<1>1. step = "announce" /\ msg # 0
  BY Saving DEF PublishStateUpdate
<1>2. PlanInv'
  <2>1. status' \in Statuses
    BY DEF PublishStateUpdate, HandlingInv, PlanInv, Statuses
  <2>2. /\ step' \in {"neighbor", "resolve", "finish"}
        /\ stage \in StagesAt(step')
        /\ step' = "resolve" => alert_id # 0
    BY <1>1 DEF PublishStateUpdate, HandlingInv, PlanInv, StagesAt
  <2>. QED
    BY <1>1, <2>1, <2>2 DEF PublishStateUpdate, HandlingInv, PlanInv, Steps,
                            Quiet, Alert
<1>3. affected' \subseteq Entities /\ Alert.entity \notin affected'
  BY <1>1, NeighborsTyped DEF PublishStateUpdate, HandlingInv, DataInv
<1>4. DataInv'
  BY <1>1, <1>3 DEF PublishStateUpdate, HandlingInv, DataInv, Alert
<1>. QED  BY <1>2, <1>4, OwnStep DEF PublishStateUpdate, HandlingInv

LEMMA NeighborStep == HandlingInv /\ NextNeighbor => HandlingInv'
<1> SUFFICES ASSUME HandlingInv, NextNeighbor PROVE HandlingInv'
  OBVIOUS
<1> USE DEF bus, stores, topology, ghosts
<1>1. step = "neighbor" /\ msg # 0 /\ HasPolicy(Alert)
  BY DEF NextNeighbor, HandlingInv, PlanInv, Quiet
<1>2. CASE step' = "verify" /\ stage' = "initial" /\ UNCHANGED affected
  <2>1. PlanInv'
    BY <1>1, <1>2 DEF NextNeighbor, HandlingInv, PlanInv, StagesAt, Steps, Quiet,
                      Alert
  <2>2. DataInv'
    BY <1>1, <1>2 DEF NextNeighbor, HandlingInv, DataInv, Alert
  <2>. QED  BY <2>1, <2>2, OwnStep DEF NextNeighbor, HandlingInv
<1>3. ASSUME NEW n \in affected, affected' = affected \ {n},
             neighbor' = [id |-> n,
                          state |-> AtRisk(IF redis[n] = None THEN Fresh
                                           ELSE redis[n], Alert)],
             stage' = "spread", step' = "set"
      PROVE  HandlingInv'
  <2>1. n \in Entities \ {Alert.entity}
    BY <1>1 DEF HandlingInv, DataInv
  <2>2. (IF redis[n] = None THEN Fresh ELSE redis[n]) \in States
    BY <2>1, FreshTyped DEF HandlingInv, DataInv
  <2>3. /\ neighbor' \in [id : Entities \ {Alert.entity}, state : States]
        /\ neighbor'.state.status = "AT_RISK"
    BY <1>3, <2>1, <2>2, AtRiskTyped
  <2>4. PlanInv'
    BY <1>1, <1>3 DEF NextNeighbor, HandlingInv, PlanInv, StagesAt, Steps, Quiet,
                      Alert
  <2>5. (step = "set" => Document.status \in Written(stage))'
    BY <1>3, <2>3 DEF Document, Written
  <2>6. DataInv'
    BY <1>1, <1>3, <2>3, <2>5 DEF NextNeighbor, HandlingInv, DataInv, Alert
  <2>. QED  BY <2>4, <2>6, OwnStep DEF NextNeighbor, HandlingInv
<1>. QED  BY <1>2, <1>3 DEF NextNeighbor

LEMMA VerifyStep == HandlingInv /\ Verify => HandlingInv'
<1> SUFFICES ASSUME HandlingInv, Verify PROVE HandlingInv'
  OBVIOUS
<1> USE DEF bus, stores, topology, ghosts
<1>1. step = "verify" /\ step' = "record" /\ msg # 0
  BY DEF Verify, HandlingInv, PlanInv, Quiet
<1>2. PlanInv'
  BY <1>1 DEF Verify, HandlingInv, PlanInv, StagesAt, Steps, Quiet, Alert
<1>3. DataInv'
  BY <1>1 DEF Verify, HandlingInv, DataInv, Alert
<1>. QED  BY <1>2, <1>3, OwnStep DEF Verify, HandlingInv

\* One more, of the one or of the other.
LEMMA OneMore ==
  ASSUME NEW c \in Counts, NEW s,
         NEW d, d = [c EXCEPT !.passed = IF s THEN @ + 1 ELSE @,
                              !.failed = IF s THEN @ ELSE @ + 1]
  PROVE  /\ d \in Counts /\ d.passed >= c.passed /\ d.failed >= c.failed
         /\ s => d.passed > 0
         /\ ~s => d.failed = c.failed + 1
<1> DEFINE p == IF s THEN c.passed + 1 ELSE c.passed
           f == IF s THEN c.failed ELSE c.failed + 1
           h == [c EXCEPT !.passed = p]
<1>1. c.passed \in Nat /\ c.failed \in Nat
  BY DEF Counts
<1>2. /\ p \in Nat /\ f \in Nat /\ p >= c.passed /\ f >= c.failed
      /\ s => p > 0
      /\ ~s => f = c.failed + 1
  BY <1>1
<1>3. d = [h EXCEPT !.failed = f]
  OBVIOUS
<1> HIDE DEF p, f
<1>4. h \in Counts /\ h.passed = p
  BY <1>2 DEF Counts
<1> HIDE DEF h
<1>5. d \in Counts /\ d.passed = p /\ d.failed = f
  BY <1>2, <1>3, <1>4 DEF Counts
<1>. QED  BY <1>2, <1>5

\* A recorded verification counts one more, of the alert in hand only.
LEMMA Counted ==
  ASSUME HandlingInv, step = "record", verifications' = Verdicts
  PROVE  /\ msg \in Alerts /\ verifications' \in [Alerts -> Counts]
         /\ \A i \in Alerts :
              /\ verifications'[i].passed >= verifications[i].passed
              /\ verifications'[i].failed >= verifications[i].failed
         /\ success => verifications'[msg].passed > 0
         /\ ~success => verifications'[msg].failed = verifications[msg].failed + 1
<1>1. /\ msg \in Alerts /\ verifications \in [Alerts -> Counts]
  BY InHand DEF HandlingInv, PlanInv, Quiet, DataInv
<1> DEFINE c == verifications[msg]
           d == [c EXCEPT !.passed = IF success THEN @ + 1 ELSE @,
                          !.failed = IF success THEN @ ELSE @ + 1]
<1>2. c \in Counts
  BY <1>1
<1>3. verifications' = [verifications EXCEPT ![msg] = d]
  BY <1>1 DEF Verdicts
<1>4. /\ d \in Counts /\ d.passed >= c.passed /\ d.failed >= c.failed
      /\ success => d.passed > 0
      /\ ~success => d.failed = c.failed + 1
  <2> HIDE DEF c
  <2>. QED  BY <1>2, OneMore
<1>5. /\ verifications'[msg] = d
      /\ \A i \in Alerts : i # msg => verifications'[i] = verifications[i]
  BY <1>1, <1>3
<1>6. \A i \in Alerts : verifications[i].passed \in Nat
                        /\ verifications[i].failed \in Nat
  BY <1>1 DEF Counts
<1> HIDE DEF d
<1>. QED  BY <1>1, <1>3, <1>4, <1>5, <1>6

LEMMA RecordStep == HandlingInv /\ RecordVerification => HandlingInv'
<1> SUFFICES ASSUME HandlingInv, RecordVerification PROVE HandlingInv'
  OBVIOUS
<1> USE DEF bus, topology, ghosts
<1>1. step = "record" /\ msg # 0 /\ HasPolicy(Alert)
  BY DEF RecordVerification, HandlingInv, PlanInv, Quiet
<1>2. PlanInv'
  BY <1>1 DEF RecordVerification, AfterVerification, HandlingInv, PlanInv,
              StagesAt, Steps, Quiet, Alert
<1>3. retry_count' \in 0 .. MaxRetries
  BY ConstantsOK DEF RecordVerification, AfterVerification, HandlingInv, DataInv
<1>4. entity_state' \in States
      /\ (step = "set" => Document.status \in Written(stage))'
  BY FreshTyped DEF RecordVerification, AfterVerification, HandlingInv, DataInv,
                    Document, Written
<1>5. verifications' \in [Alerts -> Counts] /\ stage' # "spread"
  BY <1>1, Counted DEF RecordVerification, AfterVerification
<1>6. DataInv'
  BY <1>1, <1>3, <1>4, <1>5 DEF RecordVerification, HandlingInv, DataInv, Alert
<1>. QED  BY <1>2, <1>6, OwnStep DEF RecordVerification, HandlingInv

LEMMA ResolveStep == HandlingInv /\ ResolveAlert => HandlingInv'
<1> SUFFICES ASSUME HandlingInv, ResolveAlert PROVE HandlingInv'
  OBVIOUS
<1> USE DEF bus, stores, topology, handling
<1>1. step = "resolve" /\ msg # 0 /\ alert_id # 0 /\ alert_id \in DOMAIN ledger
  BY DEF ResolveAlert, HandlingInv, PlanInv, LedgerInv, Quiet
<1>2. PlanInv'
  BY <1>1 DEF ResolveAlert, HandlingInv, PlanInv, StagesAt, Steps, Quiet, Alert
<1>3. DataInv'
  BY <1>1 DEF ResolveAlert, HandlingInv, DataInv, Alert
<1>4. LedgerInv'
  <2>1. CASE UNCHANGED <<ledger, resolved>>
    BY <2>1, LedgerAside DEF ResolveAlert, HandlingInv, Keeps
  <2>2. CASE /\ ledger' = [ledger EXCEPT ![alert_id].acknowledged = TRUE,
                                         ![alert_id].status = "RESOLVED"]
             /\ resolved' = resolved \union {alert_id}
    <3> DEFINE doc == [ledger[alert_id] EXCEPT !.acknowledged = TRUE,
                                               !.status = "RESOLVED"]
    <3>1. ledger[alert_id] \in Documents
      BY <1>1 DEF HandlingInv, LedgerInv
    <3>2. doc \in Documents /\ doc.key = ledger[alert_id].key
      BY <3>1 DEF Documents
    <3>3. ledger' = [ledger EXCEPT ![alert_id] = doc]
      BY <1>1, <2>2 DEF HandlingInv, LedgerInv
    <3> HIDE DEF doc
    <3>. QED
      BY <1>1, <2>2, <3>2, <3>3, LedgerUpdated
         DEF ResolveAlert, HandlingInv, Keeps
  <2>. QED  BY <2>1, <2>2 DEF ResolveAlert
<1>. QED  BY <1>2, <1>3, <1>4 DEF HandlingInv

LEMMA RemediationStep == HandlingInv /\ RecordRemediation => HandlingInv'
<1> SUFFICES ASSUME HandlingInv, RecordRemediation PROVE HandlingInv'
  OBVIOUS
<1> USE DEF bus, topology, ghosts
<1>1. Idle /\ step' \in Quiet
  BY DEF RecordRemediation, Ack, Quiet
<1>2. remediations' \in [Alerts -> SUBSET Statuses]
  BY DEF RecordRemediation, HandlingInv, DataInv, PlanInv
<1>3. topo_committed' \in topo_committed .. topo_position
  BY DEF RecordRemediation, HandlingInv, DataInv
<1>4. PlanInv' /\ DataInv'
  BY <1>1, <1>2, <1>3, IdleKeeps DEF RecordRemediation, HandlingInv
<1>5. LedgerInv'
  BY <1>1, LedgerAside DEF RecordRemediation, HandlingInv, Keeps, Idle
<1>. QED  BY <1>4, <1>5 DEF HandlingInv

------------------------------------------------------------------------------
(* HandlingInv is inductive: failures, the topology task and the others.   *)

LEMMA FailsStep == HandlingInv /\ StepFails => HandlingInv'
<1> SUFFICES ASSUME HandlingInv, StepFails PROVE HandlingInv'
  OBVIOUS
<1> USE DEF bus, topology
<1>1. /\ step \in {"set", "history", "announce", "neighbor", "record"}
      /\ step' = "finish" /\ msg # 0 /\ HasPolicy(Alert)
  BY DEF StepFails, HandlingInv, PlanInv, Quiet
<1>2. PlanInv'
  BY <1>1 DEF StepFails, HandlingInv, PlanInv, StagesAt, Steps, Statuses, Quiet,
              Alert
<1>3. /\ redis' \in [Entities -> States \union {None}]
      /\ history' \in [Entities -> States \union {None}]
      /\ verifications' \in [Alerts -> Counts]
  <2>1. /\ redis \in [Entities -> States \union {None}]
        /\ history \in [Entities -> States \union {None}]
        /\ verifications \in [Alerts -> Counts]
    BY DEF HandlingInv, DataInv
  <2>2. CASE UNCHANGED <<redis, history, verifications>>
    BY <2>1, <2>2
  <2>3. CASE /\ step \in {"set", "history"} /\ UNCHANGED verifications
             /\ \/ redis' = [redis EXCEPT ![Target] = Document] /\ UNCHANGED history
                \/ history' = [history EXCEPT ![Target] = Document] /\ UNCHANGED redis
    <3>1. Target \in Entities /\ Document \in States
      BY <2>3, Saving
    <3>. QED  BY <2>1, <2>3, <3>1
  <2>4. CASE /\ step = "record" /\ verifications' = Verdicts
             /\ UNCHANGED <<redis, history>>
    BY <2>1, <2>4, Counted
  <2>. QED  BY <2>2, <2>3, <2>4 DEF StepFails, DoneAnyway
<1>4. DataInv'
  BY <1>1, <1>3 DEF StepFails, HandlingInv, DataInv, Alert
<1>5. UNCHANGED resolved
  BY DEF StepFails
<1>. QED  BY <1>2, <1>4, <1>5, OwnStep DEF StepFails, HandlingInv

LEMMA DiesStep == HandlingInv /\ TaskDies => HandlingInv'
<1> SUFFICES ASSUME HandlingInv, TaskDies PROVE HandlingInv'
  OBVIOUS
<1> USE DEF bus, stores, topology
<1>1. Idle /\ step' \in Quiet
  BY DEF TaskDies, Quiet
<1>2. /\ remediations' \in [Alerts -> SUBSET Statuses]
      /\ topo_committed' \in topo_committed .. topo_position
  BY DEF TaskDies, HandlingInv, DataInv, PlanInv
<1>3. PlanInv' /\ DataInv'
  BY <1>1, <1>2, IdleKeeps DEF TaskDies, HandlingInv
<1>4. LedgerInv'
  BY <1>1, LedgerAside DEF TaskDies, HandlingInv, Keeps, Idle
<1>. QED  BY <1>3, <1>4 DEF HandlingInv

\* The message goes back to the head of the queue.
LEMMA CrashStep == HandlingInv /\ Crash => HandlingInv'
<1> SUFFICES ASSUME HandlingInv, Crash PROVE HandlingInv'
  OBVIOUS
<1> USE DEF stores, process
<1>1. Idle /\ step' \in Quiet
  BY DEF Crash, Quiet
<1>2. /\ remediations' \in [Alerts -> SUBSET Statuses]
      /\ topo_committed' \in topo_committed .. topo_position
  BY DEF Crash, AutoCommitted, HandlingInv, DataInv
<1>3. PlanInv' /\ DataInv'
  BY <1>1, <1>2, IdleKeeps DEF Crash, HandlingInv
<1>4. queue' \in Seq(announced)
  <2>1. CASE msg = 0
    BY <2>1 DEF Crash, HandlingInv, LedgerInv
  <2>2. CASE msg # 0
    <3>1. msg \in announced /\ queue \in Seq(announced)
      BY <2>2 DEF HandlingInv, LedgerInv
    <3>2. <<msg>> \in Seq(announced)
      BY <3>1
    <3>3. <<msg>> \o queue \in Seq(announced)
      BY <3>1, <3>2, ConcatProperties
    <3>. QED  BY <2>2, <3>3 DEF Crash
  <2>. QED  BY <2>1, <2>2
<1>5. UNCHANGED <<ledger, announced, resolved>>
  BY DEF Crash
<1>6. LedgerInv'
  BY <1>1, <1>4, <1>5 DEF HandlingInv, LedgerInv, Idle
<1>. QED  BY <1>3, <1>6 DEF HandlingInv

LEMMA StopStep == HandlingInv /\ Stop => HandlingInv'
<1> SUFFICES ASSUME HandlingInv, Stop PROVE HandlingInv'
  OBVIOUS
<1> USE DEF bus, process
<1>1. Idle /\ step' \in Quiet
  BY DEF Stop, Quiet
<1>2. /\ remediations' \in [Alerts -> SUBSET Statuses]
      /\ topo_committed' \in topo_committed .. topo_position
  BY DEF Stop, AutoCommitted, HandlingInv, DataInv, PlanInv
<1>3. PlanInv' /\ DataInv'
  BY <1>1, <1>2, IdleKeeps DEF Stop, HandlingInv
<1>4. LedgerInv'
  BY <1>1, LedgerAside DEF Stop, HandlingInv, Keeps, Idle
<1>. QED  BY <1>3, <1>4 DEF HandlingInv

LEMMA RestartStep == HandlingInv /\ Restart => HandlingInv'
<1> SUFFICES ASSUME HandlingInv, Restart PROVE HandlingInv'
  OBVIOUS
<1> USE DEF bus, stores, handling, ghosts
<1>1. step = "down" /\ step' = "idle" /\ msg = 0
  BY DEF Restart, HandlingInv, PlanInv, Quiet
<1>2. PlanInv'
  BY <1>1 DEF Restart, HandlingInv, PlanInv, StagesAt, Steps, Quiet
<1>3. /\ nodes' = {} /\ edges' = {} /\ topo_position' = topo_committed
      /\ zone_members' \in [Zones -> SUBSET Racks]
  BY DEF Restart
<1>4. stage' # "spread"
  BY <1>1 DEF Restart, HandlingInv, PlanInv, StagesAt
<1>5. DataInv'
  BY <1>1, <1>3, <1>4 DEF Restart, HandlingInv, DataInv
<1>. QED  BY <1>2, <1>5, OwnStep DEF Restart, HandlingInv

\* The graph is over the entities, whichever event changes it.
LEMMA GraphTyped ==
  ASSUME HandlingInv, ProcessTopologyEvent
  PROVE  /\ nodes' \subseteq Entities /\ edges' \subseteq SUBSET Entities
         /\ zone_members' \in [Zones -> SUBSET Racks]
<1> DEFINE e == TopologyLog[topo_position + 1]
<1>1. e \in Events
  BY ConstantsOK DEF ProcessTopologyEvent, HandlingInv, DataInv
<1>2. /\ e.rack \in Racks \union {None}
      /\ e.zone \in Zones \union {None}
      /\ e.device \in Devices \union {None}
  BY <1>1 DEF Events
<1>3. \/ Branch(e) = "RACK_CREATED" /\ RackCreated(e.rack, e.zone)
      \/ Branch(e) = "RACK_DELETED" /\ RackDeleted(e.rack)
      \/ Branch(e) = "DEVICE_CREATED" /\ DeviceCreated(e.device, e.rack)
      \/ Branch(e) = "DEVICE_MOVED" /\ DeviceMoved(e.device, e.rack)
      \/ Branch(e) = "DEVICE_DELETED" /\ DeviceDeleted(e.device)
      \/ Branch(e) = "IGNORED" /\ UNCHANGED <<nodes, edges, zone_members>>
  BY DEF ProcessTopologyEvent
<1>4. /\ nodes \subseteq Entities /\ edges \subseteq SUBSET Entities
      /\ zone_members \in [Zones -> SUBSET Racks]
  BY DEF HandlingInv, DataInv
<1> HIDE DEF e
<1>5. CASE Branch(e) = "RACK_CREATED" /\ RackCreated(e.rack, e.zone)
  <2>1. e.rack \in Racks
    BY <1>2, <1>5 DEF Branch
  <2>2. CASE e.zone = None
    BY <1>4, <1>5, <2>1, <2>2 DEF RackCreated, Entities
  <2>3. CASE e.zone # None
    <3>1. e.zone \in Zones
      BY <1>2, <2>3
    <3>2. zone_members[e.zone] \subseteq Racks
      BY <1>4, <3>1
    <3>3. /\ Link(e.rack, e.zone) \in SUBSET Entities
          /\ \A x \in zone_members[e.zone] : Link(e.rack, x) \in SUBSET Entities
      BY <2>1, <3>1, <3>2 DEF Link, Entities
    <3>4. nodes' \subseteq Entities
      BY <1>4, <1>5, <2>1, <2>3, <3>1 DEF RackCreated, Entities
    <3>5. edges' \subseteq SUBSET Entities
      BY <1>4, <1>5, <2>3, <3>3 DEF RackCreated
    <3>6. zone_members' \in [Zones -> SUBSET Racks]
      BY <1>4, <1>5, <2>1, <2>3 DEF RackCreated
    <3>. QED  BY <3>4, <3>5, <3>6
  <2>. QED  BY <2>2, <2>3
<1>6. CASE Branch(e) = "RACK_DELETED" /\ RackDeleted(e.rack)
  BY <1>4, <1>6 DEF RackDeleted, Without
<1>7. CASE \/ Branch(e) = "DEVICE_CREATED" /\ DeviceCreated(e.device, e.rack)
           \/ Branch(e) = "DEVICE_MOVED" /\ DeviceMoved(e.device, e.rack)
  <2>1. e.rack \in Entities /\ e.device \in Entities
    BY <1>2, <1>7 DEF Branch, Entities
  <2>2. Link(e.device, e.rack) \subseteq Entities
    BY <2>1 DEF Link
  <2>. QED  BY <1>4, <1>7, <2>1, <2>2 DEF DeviceCreated, DeviceMoved, Without
<1>8. CASE Branch(e) = "DEVICE_DELETED" /\ DeviceDeleted(e.device)
  BY <1>4, <1>8 DEF DeviceDeleted, Without
<1>9. CASE Branch(e) = "IGNORED" /\ UNCHANGED <<nodes, edges, zone_members>>
  BY <1>4, <1>9
<1>. QED  BY <1>3, <1>5, <1>6, <1>7, <1>8, <1>9

LEMMA TopologyStep == HandlingInv /\ ProcessTopologyEvent => HandlingInv'
<1> SUFFICES ASSUME HandlingInv, ProcessTopologyEvent PROVE HandlingInv'
  OBVIOUS
<1> USE DEF bus, stores, handling, ghosts
<1>1. UNCHANGED <<ledger, announced, queue, redis, history, verifications,
                  remediations, step, topo_committed, msg, handling, resolved>>
  BY DEF ProcessTopologyEvent
<1>2. topo_position' \in Nat /\ topo_committed <= topo_position'
      /\ topo_position' <= Len(TopologyLog)
  <2>1. Len(TopologyLog) \in Nat
    BY ConstantsOK
  <2>. QED  BY <2>1 DEF ProcessTopologyEvent, HandlingInv, DataInv
<1>3. PlanInv'
  BY <1>1 DEF HandlingInv, PlanInv, Alert
<1>4. DataInv'
  BY <1>1, <1>2, GraphTyped DEF HandlingInv, DataInv, Document, Alert
<1>. QED  BY <1>1, <1>3, <1>4, OwnStep DEF HandlingInv

\* The alert engine records the next alert.
LEMMA RecordAlertStep == HandlingInv /\ RecordAlert => HandlingInv'
<1> SUFFICES ASSUME HandlingInv, RecordAlert PROVE HandlingInv'
  OBVIOUS
<1> USE DEF bus, stores, topology, handling, ghosts
<1> DEFINE n == Len(ledger) + 1
           doc == [key |-> <<Incoming[n].entity, Incoming[n].rule>>,
                   status |-> "ACTIVE", acknowledged |-> FALSE]
<1>1. ledger' = Append(ledger, doc) /\ Len(ledger) < Len(Incoming)
  BY DEF RecordAlert
<1>2. UNCHANGED <<announced, queue, redis, history, verifications, remediations,
                  step, topology, msg, handling, resolved>>
  BY DEF RecordAlert
<1>3. /\ DOMAIN ledger = 1 .. Len(ledger) /\ Len(ledger) \in Nat
      /\ ledger \in Seq(Documents)
  BY InHand DEF HandlingInv, LedgerInv
<1>4. n \in Alerts
  BY <1>1, <1>3, AlertsInOrder
<1>5. doc \in Documents /\ doc.key = Key(n)
  BY <1>4, AlertTyped DEF Documents, Key
<1> HIDE DEF doc
<1>6. /\ ledger' \in Seq(Documents) /\ Len(ledger') = n
      /\ \A i \in DOMAIN ledger : ledger'[i] = ledger[i]
      /\ ledger'[n] = doc /\ DOMAIN ledger' = DOMAIN ledger \union {n}
  BY <1>1, <1>3, <1>5
<1>7. LedgerInv'
  BY <1>1, <1>2, <1>3, <1>5, <1>6, AlertsInOrder DEF HandlingInv, LedgerInv
<1>8. PlanInv'
  BY <1>2 DEF HandlingInv, PlanInv, Alert
<1>9. DataInv'
  BY <1>2 DEF HandlingInv, DataInv, Document, Alert
<1>. QED  BY <1>7, <1>8, <1>9 DEF HandlingInv

LEMMA AnnounceStep ==
  ASSUME HandlingInv, NEW i \in DOMAIN ledger, AnnounceAlert(i)
  PROVE  HandlingInv'
<1> USE DEF stores, topology, handling, ghosts
<1>1. /\ announced' = announced \union {i} /\ queue' = Append(queue, i)
      /\ UNCHANGED <<ledger, redis, history, verifications, remediations, step,
                     topology, msg, handling, resolved>>
  BY DEF AnnounceAlert
<1>2. queue' \in Seq(announced')
  <2>1. queue \in Seq(announced')
    BY <1>1 DEF HandlingInv, LedgerInv
  <2>. QED  BY <1>1, <2>1, AppendProperties
<1>3. LedgerInv'
  BY <1>1, <1>2 DEF HandlingInv, LedgerInv
<1>4. PlanInv'
  BY <1>1 DEF HandlingInv, PlanInv, Alert
<1>5. DataInv'
  BY <1>1 DEF HandlingInv, DataInv, Document, Alert
<1>. QED  BY <1>3, <1>4, <1>5 DEF HandlingInv

LEMMA UntouchedStep ==
  ASSUME HandlingInv, UNCHANGED vars \/ (\E b \in BOOLEAN : SetPaused(b))
  PROVE  HandlingInv'
<1> USE DEF bus, stores, topology, handling, ghosts
<1>1. UNCHANGED <<ledger, announced, queue, redis, history, verifications,
                  remediations, step, topology, msg, handling, resolved>>
  BY DEF vars, SetPaused
<1>2. PlanInv'
  BY <1>1 DEF HandlingInv, PlanInv, Alert
<1>3. DataInv'
  BY <1>1 DEF HandlingInv, DataInv, Document, Alert
<1>. QED  BY <1>1, <1>2, <1>3, OwnStep DEF HandlingInv

LEMMA HandlingInit == Init => HandlingInv
<1> SUFFICES ASSUME Init PROVE HandlingInv
  OBVIOUS
<1>1. LedgerInv
  BY ConstantsOK DEF Init, LedgerInv
<1>2. PlanInv
  BY DEF Init, PlanInv, StagesAt, Steps, Statuses, Quiet
<1>3. DataInv
  BY FreshTyped, ConstantsOK DEF Init, DataInv, Counts
<1>. QED  BY <1>1, <1>2, <1>3 DEF HandlingInv

LEMMA HandlingNext == HandlingInv /\ [Next]_vars => HandlingInv'
<1> SUFFICES ASSUME HandlingInv, [Next]_vars PROVE HandlingInv'
  OBVIOUS
<1>1. CASE Handle
  BY <1>1, DeliverStep, FindStep, AcknowledgeStep, GetStateStep, ExecuteStep,
     SetStep, HistoryStep, PublishStep, NeighborStep, VerifyStep, RecordStep,
     ResolveStep, RemediationStep DEF Handle
<1>2. CASE ProcessTopologyEvent \/ Restart
  BY <1>2, TopologyStep, RestartStep
<1>3. CASE Environment
  BY <1>3, FailsStep, DiesStep, CrashStep, StopStep, RecordAlertStep,
     AnnounceStep, UntouchedStep DEF Environment
<1>4. CASE UNCHANGED vars
  BY <1>4, UntouchedStep
<1>. QED  BY <1>1, <1>2, <1>3, <1>4 DEF Next

LEMMA HandlingStays == Spec => []HandlingInv
BY HandlingInit, HandlingNext, PTL DEF Spec

\* The types and what is in hand in which step, in every reachable state.
THEOREM TypeCorrect == Spec => []TypeOK
<1>1. HandlingInv => TypeOK
  <2> SUFFICES ASSUME HandlingInv PROVE TypeOK
    OBVIOUS
  <2>1. /\ ledger \in Seq([key : Entities \X {Incoming[i].rule : i \in Alerts},
                           status : {"ACTIVE", "RESOLVED"},
                           acknowledged : BOOLEAN])
        /\ announced \subseteq DOMAIN ledger /\ queue \in Seq(announced)
        /\ msg \in announced \union {0} /\ alert_id \in DOMAIN ledger \union {0}
    BY DEF HandlingInv, LedgerInv, Documents, AlertKeys
  <2>2. stage \in {"initial", "spread", "retry", "recovered", "secondary"}
    BY DEF HandlingInv, PlanInv, StagesAt, Steps
  <2>3. step \in Steps /\ status \in Statuses
        /\ (msg = 0 <=> step \in {"idle", "ended", "down"})
    BY DEF HandlingInv, PlanInv, Quiet
  <2>. QED  BY <2>1, <2>2, <2>3 DEF TypeOK, HandlingInv, DataInv
<1>. QED  BY <1>1, HandlingStays, PTL

------------------------------------------------------------------------------
(* Recovery and escalation.                                                *)

\* Verifications are counted in one step, which goes on with the alert, or
\* fails although it counted; in all others the alert in hand stays and does not
\* become recovered or escalated, or is let go of, or has just come.
LEMMA UncountedSteps ==
  ASSUME HandlingInv, [Next]_vars, ~RecordVerification
  PROVE  /\ \/ UNCHANGED verifications
            \/ step = "record" /\ verifications' = Verdicts
         /\ \/ msg' = 0 /\ stage' = "initial"
            \/ /\ UNCHANGED <<msg, retry_count>>
               /\ UNCHANGED stage \/ stage' \in {"initial", "spread"}
            \/ /\ UNCHANGED <<stage, retry_count>>
               /\ msg = 0 /\ stage = "initial" /\ msg' \in Alerts
<1> USE DEF stores, handling
<1>1. CASE Deliver
  <2>1. /\ msg = 0 /\ stage = "initial" /\ UNCHANGED verifications
        /\ UNCHANGED <<stage, retry_count>>
    BY <1>1 DEF Deliver, HandlingInv, PlanInv, Quiet, StagesAt
  <2>2. msg' = 0 \/ msg' \in Alerts
    <3>1. LedgerInv'
      BY <1>1, DeliverStep DEF HandlingInv
    <3>2. DOMAIN ledger \subseteq Alerts /\ UNCHANGED <<ledger, announced>>
      BY <1>1, InHand DEF HandlingInv, Deliver
    <3>. QED  BY <3>1, <3>2 DEF LedgerInv
  <2>. QED  BY <2>1, <2>2
<1>2. CASE FindAlert \/ AcknowledgeAlert
  BY <1>2 DEF FindAlert, AcknowledgeAlert, Evaluate, Ack, Idle
<1>3. CASE GetState \/ ExecuteAction \/ SetState \/ AppendHistory
  BY <1>3 DEF GetState, ExecuteAction, SetState, AppendHistory
<1>4. CASE PublishStateUpdate \/ NextNeighbor \/ Verify \/ ResolveAlert
  BY <1>4 DEF PublishStateUpdate, NextNeighbor, Verify, ResolveAlert
<1>5. CASE RecordRemediation \/ TaskDies \/ Crash \/ Stop
  BY <1>5 DEF RecordRemediation, Ack, TaskDies, Crash, Stop, Idle
<1>6. CASE StepFails \/ ProcessTopologyEvent \/ Restart \/ RecordAlert
  BY <1>6 DEF StepFails, DoneAnyway, ProcessTopologyEvent, Restart, RecordAlert
<1>7. CASE \/ \E i \in DOMAIN ledger : AnnounceAlert(i)
           \/ \E b \in BOOLEAN : SetPaused(b)
           \/ UNCHANGED vars
  BY <1>7 DEF AnnounceAlert, SetPaused, vars
<1>. QED
  BY <1>1, <1>2, <1>3, <1>4, <1>5, <1>6, <1>7 DEF Next, Handle, Environment

Passed(e) ==
  \E i \in Alerts : Incoming[i].entity = e /\ verifications[i].passed > 0

Failed(e) ==
  \E i \in Alerts : Incoming[i].entity = e /\ verifications[i].failed > MaxRetries

Verified(k) == \E i \in Alerts : Key(i) = k /\ verifications[i].passed > 0

\* More verifications, and states and resolutions that are earned, keep the
\* verdicts justified.
LEMMA VerdictsKept ==
  ASSUME LedgerInv, LedgerInv', DataInv, DataInv',
         RecoveryVerified, EscalationEarned,
         \A i \in Alerts :
           /\ verifications'[i].passed >= verifications[i].passed
           /\ verifications'[i].failed >= verifications[i].failed,
         \A e \in Entities :
           \/ redis'[e] = redis[e]
           \/ /\ redis'[e].status = "ACTIVE" => Passed(e)
              /\ redis'[e].status \in {"FAILED", "ISOLATED"} => Failed(e),
         \A j \in resolved' : j \in resolved \/ Verified(Key(j))
  PROVE  RecoveryVerified' /\ EscalationEarned'
<1>1. \A i \in Alerts :
        /\ verifications[i].passed \in Nat /\ verifications'[i].passed \in Nat
        /\ verifications[i].failed \in Nat /\ verifications'[i].failed \in Nat
  BY DEF DataInv, Counts
<1>2. /\ \A e : Passed(e) => Passed(e)'
      /\ \A e : Failed(e) => Failed(e)'
      /\ \A k : Verified(k) => Verified(k)'
  <2>1. \A i \in Alerts :
          /\ verifications[i].passed > 0 => verifications'[i].passed > 0
          /\ verifications[i].failed > MaxRetries =>
               verifications'[i].failed > MaxRetries
    BY <1>1, ConstantsOK
  <2>2. ASSUME NEW e, Passed(e) PROVE Passed(e)'
    BY <2>1, <2>2 DEF Passed
  <2>3. ASSUME NEW e, Failed(e) PROVE Failed(e)'
    BY <2>1, <2>3 DEF Failed
  <2>4. ASSUME NEW k, Verified(k) PROVE Verified(k)'
    BY <2>1, <2>4 DEF Verified
  <2>. QED  BY <2>2, <2>3, <2>4
<1>3. /\ \A e \in Entities : redis[e] # None /\ redis[e].status = "ACTIVE" => Passed(e)
      /\ \A j \in resolved : Verified(ledger[j].key)
      /\ \A e \in Entities :
           redis[e] # None /\ redis[e].status \in {"FAILED", "ISOLATED"} => Failed(e)
  BY DEF RecoveryVerified, EscalationEarned, Passed, Failed, Verified, Key
<1>4. /\ \A j \in resolved : ledger[j].key = Key(j)
      /\ \A j \in resolved' : ledger'[j].key = Key(j)
  BY DEF LedgerInv
<1> HIDE DEF Passed, Failed, Verified
<1>5. \A e \in Entities : /\ redis'[e] # None /\ redis'[e].status = "ACTIVE" => Passed(e)'
                          /\ redis'[e] # None /\ redis'[e].status \in {"FAILED", "ISOLATED"}
                               => Failed(e)'
  BY <1>2, <1>3
<1>6. \A j \in resolved' : Verified(Key(j))'
  BY <1>2, <1>3, <1>4
<1>7. RecoveryVerified'
  BY <1>4, <1>5, <1>6 DEF RecoveryVerified, Passed, Verified, Key
<1>. QED  BY <1>5, <1>7 DEF EscalationEarned, Failed

\* Redis is written when a change of state is saved, and only then.
LEMMA RedisWrites ==
  ASSUME [Next]_vars
  PROVE  \/ UNCHANGED redis
         \/ step = "set" /\ redis' = [redis EXCEPT ![Target] = Document]
<1> USE DEF stores
<1>1. CASE Deliver \/ FindAlert \/ AcknowledgeAlert \/ GetState \/ ExecuteAction
  BY <1>1 DEF Deliver, FindAlert, AcknowledgeAlert, GetState, ExecuteAction
<1>2. CASE SetState \/ AppendHistory \/ PublishStateUpdate \/ NextNeighbor
  BY <1>2 DEF SetState, AppendHistory, PublishStateUpdate, NextNeighbor
<1>3. CASE Verify \/ RecordVerification \/ ResolveAlert \/ RecordRemediation
  BY <1>3 DEF Verify, RecordVerification, ResolveAlert, RecordRemediation
<1>4. CASE StepFails \/ TaskDies \/ Crash \/ Stop
  BY <1>4 DEF StepFails, DoneAnyway, TaskDies, Crash, Stop
<1>5. CASE ProcessTopologyEvent \/ Restart \/ RecordAlert
  BY <1>5 DEF ProcessTopologyEvent, Restart, RecordAlert
<1>6. CASE \/ \E i \in DOMAIN ledger : AnnounceAlert(i)
           \/ \E b \in BOOLEAN : SetPaused(b)
           \/ UNCHANGED vars
  BY <1>6 DEF AnnounceAlert, SetPaused, vars
<1>. QED
  BY <1>1, <1>2, <1>3, <1>4, <1>5, <1>6 DEF Next, Handle, Environment

\* Alerts are resolved at the step after a recovery.
LEMMA Resolutions ==
  ASSUME [Next]_vars
  PROVE  \/ UNCHANGED resolved
         \/ step = "resolve" /\ resolved' = resolved \union {alert_id}
<1> USE DEF ghosts
<1>1. CASE Deliver \/ FindAlert \/ AcknowledgeAlert \/ GetState \/ ExecuteAction
  BY <1>1 DEF Deliver, FindAlert, AcknowledgeAlert, GetState, ExecuteAction
<1>2. CASE SetState \/ AppendHistory \/ PublishStateUpdate \/ NextNeighbor
  BY <1>2 DEF SetState, AppendHistory, PublishStateUpdate, NextNeighbor
<1>3. CASE Verify \/ RecordVerification \/ ResolveAlert \/ RecordRemediation
  BY <1>3 DEF Verify, RecordVerification, ResolveAlert, RecordRemediation
<1>4. CASE StepFails \/ TaskDies \/ Crash \/ Stop
  BY <1>4 DEF StepFails, TaskDies, Crash, Stop
<1>5. CASE ProcessTopologyEvent \/ Restart \/ RecordAlert
  BY <1>5 DEF ProcessTopologyEvent, Restart, RecordAlert
<1>6. CASE \/ \E i \in DOMAIN ledger : AnnounceAlert(i)
           \/ \E b \in BOOLEAN : SetPaused(b)
           \/ UNCHANGED vars
  BY <1>6 DEF AnnounceAlert, SetPaused, vars
<1>. QED
  BY <1>1, <1>2, <1>3, <1>4, <1>5, <1>6 DEF Next, Handle, Environment

\* What is written to Redis is earned.
LEMMA VerdictSaved ==
  ASSUME HandlingInv, VerdictInv, step = "set", NEW e \in Entities,
         redis' = [redis EXCEPT ![Target] = Document]
  PROVE  \/ redis'[e] = redis[e]
         \/ /\ redis'[e].status = "ACTIVE" => Passed(e)
            /\ redis'[e].status \in {"FAILED", "ISOLATED"} => Failed(e)
<1>1. /\ Target \in Entities /\ msg \in Alerts /\ Alert.entity = Incoming[msg].entity
      /\ stage # "spread" => Target = Alert.entity
  BY Saving, InHand DEF HandlingInv, Alert
<1>2. Document.status \in Written(stage)
  BY DEF HandlingInv, DataInv
<1>3. e # Target => redis'[e] = redis[e]
  BY <1>1 DEF HandlingInv, DataInv
<1>4. redis'[Target] = Document
  BY <1>1 DEF HandlingInv, DataInv
<1>5. stage \in {"initial", "spread", "recovered", "secondary"}
  BY DEF HandlingInv, PlanInv, StagesAt
<1>6. CASE stage \in {"initial", "spread"}
  BY <1>2, <1>3, <1>4, <1>6 DEF Written
<1>7. CASE stage = "recovered"
  <2>1. Passed(Target) /\ Document.status = "ACTIVE"
    BY <1>1, <1>2, <1>7 DEF VerdictInv, Passed, Written
  <2>. QED  BY <1>3, <1>4, <2>1
<1>8. CASE stage = "secondary"
  <2>1. Failed(Target) /\ Document.status # "ACTIVE"
    BY <1>1, <1>2, <1>8 DEF VerdictInv, Failed, Written
  <2>. QED  BY <1>3, <1>4, <2>1
<1>. QED  BY <1>5, <1>6, <1>7, <1>8

LEMMA VerdictStep == HandlingInv /\ VerdictInv /\ [Next]_vars => VerdictInv'
<1> SUFFICES ASSUME HandlingInv, VerdictInv, [Next]_vars PROVE VerdictInv'
  OBVIOUS
<1>1. LedgerInv /\ DataInv /\ LedgerInv' /\ DataInv'
  BY HandlingNext DEF HandlingInv
<1>2. RecoveryVerified /\ EscalationEarned
  BY DEF VerdictInv
<1>3. CASE RecordVerification
  <2>1. /\ UNCHANGED <<redis, resolved, msg>>
        /\ step = "record" /\ stage \in {"initial", "retry"}
    BY <1>3 DEF RecordVerification, ghosts, HandlingInv, PlanInv, StagesAt
  <2>2. RecoveryVerified' /\ EscalationEarned'
    BY <1>1, <1>2, <1>3, <2>1, Counted, VerdictsKept DEF RecordVerification
  <2>3. /\ msg \in Alerts /\ verifications[msg].failed \in Nat
        /\ verifications'[msg].failed \in Nat
        /\ verifications'[msg].failed >= verifications[msg].failed
        /\ success => verifications'[msg].passed > 0
        /\ ~success => verifications'[msg].failed = verifications[msg].failed + 1
    BY <1>1, <1>3, Counted DEF RecordVerification, DataInv, Counts
  <2>4. retry_count \in Nat /\ retry_count <= verifications[msg].failed
    BY <1>1, <2>3, InHand, AlertsInOrder, ConstantsOK DEF DataInv, VerdictInv
  <2>5. CASE success
    <3>1. stage' = "recovered" /\ retry_count' = retry_count
      BY <1>3, <2>5 DEF RecordVerification, AfterVerification
    <3>. QED  BY <2>1, <2>2, <2>3, <2>4, <2>5, <3>1 DEF VerdictInv
  <2>6. CASE ~success
    <3>1. \/ /\ retry_count < MaxRetries
             /\ stage' = "retry" /\ retry_count' = retry_count + 1
          \/ /\ ~(retry_count < MaxRetries)
             /\ stage' = "secondary" /\ retry_count' = retry_count
      BY <1>3, <2>6 DEF RecordVerification, AfterVerification
    <3>2. /\ stage' # "recovered"
          /\ stage' = "secondary" => verifications'[msg].failed > MaxRetries
          /\ retry_count' <= verifications'[msg].failed
      BY <2>3, <2>4, <2>6, <3>1, ConstantsOK
    <3>. QED  BY <2>1, <2>2, <3>2 DEF VerdictInv
  <2>. QED  BY <2>5, <2>6
<1>4. CASE ~RecordVerification
  <2>1. \A i \in Alerts :
          /\ verifications'[i].passed >= verifications[i].passed
          /\ verifications'[i].failed >= verifications[i].failed
    <3>1. CASE UNCHANGED verifications
      BY <1>1, <3>1 DEF DataInv, Counts
    <3>2. CASE step = "record" /\ verifications' = Verdicts
      BY <3>2, Counted
    <3>. QED  BY <1>4, <3>1, <3>2, UncountedSteps
  <2>2. \A e \in Entities :
          \/ redis'[e] = redis[e]
          \/ /\ redis'[e].status = "ACTIVE" => Passed(e)
             /\ redis'[e].status \in {"FAILED", "ISOLATED"} => Failed(e)
    <3>1. UNCHANGED redis \/ (step = "set" /\ redis' = [redis EXCEPT ![Target] = Document])
      BY RedisWrites
    <3>. QED  BY <3>1, VerdictSaved
  <2>3. \A j \in resolved' : j \in resolved \/ Verified(Key(j))
    <3>1. \/ UNCHANGED resolved
          \/ step = "resolve" /\ resolved' = resolved \union {alert_id}
      BY Resolutions
    <3>2. ASSUME step = "resolve" PROVE Verified(Key(alert_id))
      <4>1. msg # 0 /\ alert_id # 0 /\ stage = "recovered"
        BY <3>2 DEF HandlingInv, PlanInv, StagesAt, Quiet
      <4>2. msg \in Alerts /\ Key(alert_id) = Key(msg)
        BY <1>1, <4>1, InHand DEF LedgerInv
      <4>. QED  BY <4>1, <4>2 DEF VerdictInv, Verified
    <3>. QED  BY <3>1, <3>2
  <2>4. RecoveryVerified' /\ EscalationEarned'
    BY <1>1, <1>2, <2>1, <2>2, <2>3, VerdictsKept
  <2>5. /\ stage' = "recovered" => verifications'[msg'].passed > 0
        /\ stage' = "secondary" => verifications'[msg'].failed > MaxRetries
        /\ msg' # 0 => retry_count' <= verifications'[msg'].failed
    <3>1. CASE msg' = 0 /\ stage' = "initial"
      BY <3>1
    <3>2. CASE /\ UNCHANGED <<msg, retry_count>>
               /\ UNCHANGED stage \/ stage' \in {"initial", "spread"}
      <4>1. msg # 0 => msg \in Alerts
        BY <1>1, InHand
      <4>2. msg # 0 => /\ verifications[msg].passed \in Nat
                       /\ verifications'[msg].passed \in Nat
                       /\ verifications[msg].failed \in Nat
                       /\ verifications'[msg].failed \in Nat
        BY <1>1, <4>1 DEF DataInv, Counts
      <4>3. msg = 0 => stage = "initial"
        BY DEF HandlingInv, PlanInv, Quiet, StagesAt
      <4>4. retry_count \in Nat
        BY <1>1, ConstantsOK DEF DataInv
      <4>. QED
        BY <2>1, <3>2, <4>1, <4>2, <4>3, <4>4, ConstantsOK DEF VerdictInv
    <3>3. CASE /\ UNCHANGED <<stage, retry_count>>
               /\ msg = 0 /\ stage = "initial" /\ msg' \in Alerts
      <4>1. retry_count = 0 /\ verifications'[msg'].failed \in Nat
        BY <1>1, <3>3 DEF DataInv, Counts
      <4>. QED  BY <3>3, <4>1
    <3>. QED  BY <1>4, <3>1, <3>2, <3>3, UncountedSteps
  <2>. QED  BY <2>4, <2>5 DEF VerdictInv
<1>. QED  BY <1>3, <1>4

LEMMA VerdictStays == Spec => [](HandlingInv /\ VerdictInv)
<1>1. Init => VerdictInv
  BY DEF Init, VerdictInv, RecoveryVerified, EscalationEarned
<1>. QED  BY <1>1, VerdictStep, HandlingInit, HandlingNext, PTL DEF Spec

\* An entity is shown ACTIVE, and an alert is resolved, only after a
\* verification passed for an alert about it, in every reachable state.
THEOREM RecoveriesVerified == Spec => []RecoveryVerified
<1>1. VerdictInv => RecoveryVerified
  BY DEF VerdictInv
<1>. QED  BY <1>1, VerdictStays, PTL

\* An entity is shut down or isolated only after the action and every retry of
\* it failed verification, for every MaxRetries.
THEOREM EscalationsEarned == Spec => []EscalationEarned
<1>1. VerdictInv => EscalationEarned
  BY DEF VerdictInv
<1>. QED  BY <1>1, VerdictStays, PTL

------------------------------------------------------------------------------
(* The copy in hand and the timeline.                                      *)

\* Where the handler relies on its copy.
CopyUsed ==
  \/ stage = "spread"
  \/ step \in {"history", "announce", "neighbor", "verify", "record", "resolve"}
  \/ stage \in {"retry", "secondary"} /\ step = "execute"

LEMMA CopyStep == HandlingInv /\ CopyInv /\ [Next]_vars => CopyInv'
<1> SUFFICES ASSUME HandlingInv, CopyInv, [Next]_vars, CopyUsed'
             PROVE  redis'[Alert'.entity] = entity_state'
  BY DEF CopyInv, CopyUsed
<1>1. CopyUsed => redis[Alert.entity] = entity_state
  BY DEF CopyInv, CopyUsed
<1>2. stage \in StagesAt(step)
  BY DEF HandlingInv, PlanInv
<1> USE DEF bus, stores, handling
<1>3. CASE SetState \/ StepFails
  <2>1. CASE step = "set" /\ redis' = [redis EXCEPT ![Target] = Document]
    <3>1. /\ Target \in Entities /\ Alert.entity \in Entities
          /\ stage = "spread" => Target # Alert.entity
          /\ stage # "spread" => Target = Alert.entity
          /\ redis \in [Entities -> States \union {None}]
      BY <2>1, Saving, InHand DEF HandlingInv, DataInv
    <3>2. UNCHANGED <<msg, stage, entity_state>>
      BY <1>3 DEF SetState, StepFails
    <3>3. CASE stage = "spread"
      <4>1. redis'[Alert.entity] = redis[Alert.entity]
        BY <2>1, <3>1, <3>3
      <4>. QED  BY <1>1, <3>2, <3>3, <4>1 DEF CopyUsed, Alert
    <3>4. CASE stage # "spread"
      <4>1. Document = entity_state /\ redis'[Alert.entity] = entity_state
        BY <2>1, <3>1, <3>4 DEF Document
      <4>. QED  BY <3>2, <4>1 DEF Alert
    <3>. QED  BY <3>3, <3>4
  <2>2. CASE StepFails /\ UNCHANGED redis
    BY <1>1, <2>2 DEF StepFails, CopyUsed, Alert
  <2>. QED  BY <1>3, <2>1, <2>2 DEF SetState, StepFails, DoneAnyway
<1>4. CASE RecordVerification
  BY <1>1, <1>2, <1>4
     DEF RecordVerification, AfterVerification, CopyUsed, StagesAt, Alert
<1>5. CASE ExecuteAction
  BY <1>1, <1>5 DEF ExecuteAction, CopyUsed, Alert
<1>6. CASE \/ NextNeighbor \/ PublishStateUpdate \/ AppendHistory
           \/ Verify \/ ResolveAlert
  BY <1>1, <1>6 DEF NextNeighbor, PublishStateUpdate, AppendHistory, Verify,
                    ResolveAlert, CopyUsed, Alert
<1>7. CASE RecordRemediation \/ TaskDies \/ Crash \/ Stop
  BY <1>7 DEF RecordRemediation, Ack, TaskDies, Crash, Stop, Idle, CopyUsed
<1>8. CASE FindAlert \/ AcknowledgeAlert \/ GetState
  BY <1>2, <1>8 DEF FindAlert, AcknowledgeAlert, Evaluate, Ack, Idle, GetState,
                    CopyUsed, StagesAt
<1>9. CASE Deliver \/ Restart
  BY <1>2, <1>9 DEF Deliver, Restart, CopyUsed, StagesAt
<1>10. CASE \/ ProcessTopologyEvent \/ RecordAlert
            \/ \E i \in DOMAIN ledger : AnnounceAlert(i)
            \/ \E b \in BOOLEAN : SetPaused(b)
            \/ UNCHANGED vars
  BY <1>1, <1>10 DEF ProcessTopologyEvent, RecordAlert, AnnounceAlert, SetPaused,
                     vars, CopyUsed, Alert
<1>. QED
  BY <1>3, <1>4, <1>5, <1>6, <1>7, <1>8, <1>9, <1>10
     DEF Next, Handle, Environment

\* The copy of the entity's state the handler keeps across its awaits is what
\* Redis has whenever the handler comes to use it again: no neighbour's change,
\* through any graph, and no failure comes in between.
THEOREM CopyStaysCurrent == Spec => []CopyIsCurrent
<1>1. Init => CopyInv
  BY DEF Init, CopyInv
<1>2. CopyInv => CopyIsCurrent
  BY DEF CopyInv, CopyIsCurrent
<1>. QED
  BY <1>1, <1>2, CopyStep, HandlingInit, HandlingNext, PTL DEF Spec

\* A change of state stays unsaved only where it is being saved or was cut
\* short.
LEMMA TimelineStep == HandlingInv /\ TimelineInv /\ [Next]_vars => TimelineInv'
<1> SUFFICES ASSUME HandlingInv, TimelineInv, [Next]_vars PROVE TimelineInv'
  OBVIOUS
<1> USE DEF bus, stores, handling, ghosts
<1>1. /\ redis \in [Entities -> States \union {None}]
      /\ history \in [Entities -> States \union {None}]
  BY DEF HandlingInv, DataInv
<1>2. /\ \A e \in Entities :
           redis[e] # history[e] => e \in torn \union Interrupted
      /\ step = "history" => redis[Target] = Document
  BY DEF TimelineInv, TimelineCurrent
<1>3. step \in {"set", "history"} => Target \in Entities
  BY Saving
<1>4. CASE SetState
  <2>1. Target' = Target /\ Document' = Document /\ step' = "history"
    BY <1>4 DEF SetState, Target, Document, Alert
  <2>2. step = "set" /\ redis' = [redis EXCEPT ![Target] = Document]
        /\ UNCHANGED <<history, torn>>
    BY <1>4 DEF SetState
  <2> HIDE DEF stores, handling, ghosts
  <2>3. redis'[Target] = Document
    BY <1>1, <1>3, <2>2
  <2>4. Interrupted = {} /\ Interrupted' = {Target}
    BY <2>1, <2>2 DEF Interrupted
  <2>5. TimelineCurrent'
    BY <1>1, <1>2, <2>2, <2>4 DEF TimelineCurrent
  <2>. QED  BY <2>1, <2>3, <2>5 DEF TimelineInv
<1>5. CASE AppendHistory
  <2>1. /\ step = "history" /\ step' = "announce" /\ torn' = torn \ {Target}
        /\ history' = [history EXCEPT ![Target] = Document] /\ UNCHANGED redis
    BY <1>5 DEF AppendHistory
  <2>2. redis'[Target] = history'[Target]
    BY <1>1, <1>2, <1>3, <2>1
  <2>3. Interrupted = {Target} /\ Interrupted' = {}
    BY <2>1 DEF Interrupted
  <2>4. TimelineCurrent'
    BY <1>1, <1>2, <2>1, <2>2, <2>3 DEF TimelineCurrent
  <2>. QED  BY <2>1, <2>4 DEF TimelineInv
<1>6. CASE StepFails
  <2>1. step' = "finish"
    BY <1>6 DEF StepFails
  <2>2. Interrupted = (IF step = "history" THEN {Target} ELSE {})
    BY DEF Interrupted
  <2>3. TimelineCurrent'
    <3>1. CASE torn' = torn \union Interrupted /\ UNCHANGED <<redis, history>>
      BY <1>2, <3>1 DEF TimelineCurrent
    <3>2. CASE /\ step = "set" /\ torn' = torn \union {Target}
               /\ redis' = [redis EXCEPT ![Target] = Document] /\ UNCHANGED history
      BY <1>1, <1>2, <2>2, <3>2 DEF TimelineCurrent
    <3>3. CASE /\ step = "history" /\ torn' = torn \ {Target}
               /\ history' = [history EXCEPT ![Target] = Document] /\ UNCHANGED redis
      <4>1. redis'[Target] = history'[Target]
        BY <1>1, <1>2, <1>3, <3>3
      <4>. QED  BY <1>1, <1>2, <2>2, <3>3, <4>1 DEF TimelineCurrent
    <3>4. CASE step = "record" /\ UNCHANGED <<redis, history, torn>>
      BY <1>2, <2>2, <3>4 DEF TimelineCurrent
    <3>. QED  BY <1>6, <3>1, <3>2, <3>3, <3>4 DEF StepFails, DoneAnyway
  <2>. QED  BY <2>1, <2>3 DEF TimelineInv
<1>7. CASE Crash \/ Stop
  <2>1. step' = "down" /\ torn' = torn \union Interrupted
        /\ UNCHANGED <<redis, history>>
    BY <1>7 DEF Crash, Stop
  <2>2. TimelineCurrent'
    BY <1>2, <2>1 DEF TimelineCurrent
  <2>. QED  BY <2>1, <2>2 DEF TimelineInv
<1>8. ASSUME UNCHANGED <<redis, history, torn>>,
             step' # "history", step # "history"
      PROVE  TimelineInv'
  <2>1. Interrupted = {}
    BY <1>8 DEF Interrupted
  <2>2. TimelineCurrent'
    BY <1>2, <1>8, <2>1 DEF TimelineCurrent
  <2>. QED  BY <1>8, <2>2 DEF TimelineInv
<1>9. CASE \/ Deliver \/ FindAlert \/ AcknowledgeAlert \/ GetState
           \/ ExecuteAction
  BY <1>8, <1>9 DEF Deliver, FindAlert, AcknowledgeAlert, GetState,
                    ExecuteAction, Evaluate, Ack
<1>10. CASE \/ PublishStateUpdate \/ NextNeighbor \/ Verify
            \/ RecordVerification
  BY <1>8, <1>10 DEF PublishStateUpdate, NextNeighbor, Verify,
                     RecordVerification, AfterVerification
<1>11. CASE ResolveAlert \/ RecordRemediation \/ TaskDies \/ Restart
  BY <1>8, <1>11 DEF ResolveAlert, RecordRemediation, Ack, TaskDies, Restart
<1>12. CASE \/ ProcessTopologyEvent \/ RecordAlert
            \/ \E i \in DOMAIN ledger : AnnounceAlert(i)
            \/ \E b \in BOOLEAN : SetPaused(b)
            \/ UNCHANGED vars
  <2>1. UNCHANGED <<redis, history, torn, step, msg, stage, entity_state, neighbor>>
    BY <1>12 DEF ProcessTopologyEvent, RecordAlert, AnnounceAlert, SetPaused, vars
  <2>2. Target' = Target /\ Document' = Document /\ Interrupted' = Interrupted
    BY <2>1 DEF Target, Document, Interrupted, Alert
  <2>3. TimelineCurrent'
    BY <1>2, <2>1, <2>2 DEF TimelineCurrent
  <2>. QED  BY <1>2, <2>1, <2>2, <2>3 DEF TimelineInv
<1>. QED
  BY <1>4, <1>5, <1>6, <1>7, <1>9, <1>10, <1>11, <1>12
     DEF Next, Handle, Environment

\* The timeline in MongoDB ends with the state Redis serves, except while a
\* change is being saved and where a failure or a crash cut the saving short.
THEOREM TimelineStaysCurrent == Spec => []TimelineCurrent
<1>1. Init => TimelineInv
  BY DEF Init, TimelineInv, TimelineCurrent
<1>2. TimelineInv => TimelineCurrent
  BY DEF TimelineInv
<1>. QED
  BY <1>1, <1>2, TimelineStep, HandlingInit, HandlingNext, PTL DEF Spec

------------------------------------------------------------------------------
(* The audit trail.                                                        *)

\* A message is taken from the head of a queue,
LEMMA QueueTaken ==
  ASSUME NEW S, NEW q \in Seq(S), q # <<>>
  PROVE  Range(q) = {Head(q)} \union Range(Tail(q))
<1>1. Len(q) \in Nat /\ DOMAIN q = 1 .. Len(q)
  OBVIOUS
<1>2. Range(q) = {Head(q)} \union Range(Tail(q))
  <2>1. /\ Len(q) \in Nat \ {0} /\ Head(q) = q[1]
        /\ Tail(q) \in Seq(S) /\ Len(Tail(q)) = Len(q) - 1
        /\ \A k \in 1 .. Len(Tail(q)) : Tail(q)[k] = q[k + 1]
    BY <1>1, HeadTailProperties, EmptySeq
  <2>2. DOMAIN Tail(q) = 1 .. (Len(q) - 1)
    BY <2>1
  <2> DEFINE n == Len(q)
             t == Tail(q)
  <2>3. n \in Nat \ {0} /\ DOMAIN q = 1 .. n /\ DOMAIN t = 1 .. (n - 1)
        /\ \A k \in 1 .. (n - 1) : t[k] = q[k + 1]
    BY <1>1, <2>1, <2>2
  <2> HIDE DEF n, t
  <2>4. ASSUME NEW k \in 1 .. n PROVE q[k] \in {q[1]} \union Range(t)
    <3>1. CASE k = 1
      BY <3>1
    <3>2. CASE k # 1
      <4>1. k - 1 \in 1 .. (n - 1) /\ (k - 1) + 1 = k
        BY <2>3, <3>2
      <4>2. q[k] = t[k - 1] /\ k - 1 \in DOMAIN t
        BY <2>3, <4>1
      <4>. QED  BY <4>2 DEF Range
    <3>. QED  BY <3>1, <3>2
  <2>5. ASSUME NEW k \in 1 .. (n - 1) PROVE t[k] \in Range(q)
    <3>1. k + 1 \in 1 .. n /\ t[k] = q[k + 1]
      BY <2>3
    <3>. QED  BY <2>3, <3>1 DEF Range
  <2>6. q[1] \in Range(q)
    <3>1. 1 \in 1 .. n
      BY <2>3
    <3>. QED  BY <2>3, <3>1 DEF Range
  <2>7. Range(q) \subseteq {q[1]} \union Range(t)
    BY <2>3, <2>4 DEF Range
  <2>8. Range(t) \subseteq Range(q)
    BY <2>3, <2>5 DEF Range
  <2>. QED  BY <2>1, <2>6, <2>7, <2>8 DEF t
<1>. QED  BY <1>2

\* comes at its end,
LEMMA QueueGrows ==
  ASSUME NEW S, NEW q \in Seq(S), NEW x \in S
  PROVE  Range(Append(q, x)) = Range(q) \union {x}
<1>1. Len(q) \in Nat /\ DOMAIN q = 1 .. Len(q)
  OBVIOUS
<1>2. Range(Append(q, x)) = Range(q) \union {x}
  <2>1. /\ Len(Append(q, x)) = Len(q) + 1 /\ Append(q, x) \in Seq(S)
        /\ \A k \in 1 .. Len(q) : Append(q, x)[k] = q[k]
        /\ Append(q, x)[Len(q) + 1] = x
    BY AppendProperties
  <2>2. DOMAIN Append(q, x) = 1 .. (Len(q) + 1)
    BY <2>1
  <2> DEFINE n == Len(q)
             t == Append(q, x)
  <2>3. n \in Nat /\ DOMAIN q = 1 .. n /\ DOMAIN t = 1 .. (n + 1)
        /\ \A k \in 1 .. n : t[k] = q[k]
        /\ t[n + 1] = x
    BY <1>1, <2>1, <2>2
  <2> HIDE DEF n, t
  <2>4. 1 .. (n + 1) = (1 .. n) \union {n + 1}
    BY <2>3
  <2>. QED  BY <2>3, <2>4 DEF Range, t
<1>. QED  BY <1>2

\* or is put back.
LEMMA QueuePutBack ==
  ASSUME NEW S, NEW q \in Seq(S), NEW x \in S
  PROVE  Range(<<x>> \o q) = {x} \union Range(q)
<1>1. Len(q) \in Nat /\ DOMAIN q = 1 .. Len(q)
  OBVIOUS
<1>2. Range(<<x>> \o q) = {x} \union Range(q)
  <2> DEFINE t == <<x>> \o q
             n == Len(q)
  <2>1. <<x>> \in Seq(S) /\ Len(<<x>>) = 1 /\ <<x>>[1] = x
    OBVIOUS
  <2>2. /\ t \in Seq(S) /\ Len(t) = 1 + n
        /\ \A k \in 1 .. (1 + n) : t[k] = IF k <= 1 THEN <<x>>[k] ELSE q[k - 1]
    BY <2>1, ConcatProperties
  <2>3. n \in Nat /\ DOMAIN q = 1 .. n /\ DOMAIN t = 1 .. (1 + n)
    BY <1>1, <2>2
  <2> HIDE DEF t, n
  <2>4. t[1] = x /\ 1 \in DOMAIN t
    BY <2>1, <2>2, <2>3
  <2>5. ASSUME NEW k \in 1 .. n PROVE k + 1 \in DOMAIN t /\ t[k + 1] = q[k]
    <3>1. k + 1 \in 1 .. (1 + n) /\ ~(k + 1 <= 1) /\ (k + 1) - 1 = k
      BY <2>3
    <3>. QED  BY <2>2, <2>3, <3>1
  <2>6. ASSUME NEW k \in DOMAIN t, k # 1 PROVE k - 1 \in DOMAIN q /\ t[k] = q[k - 1]
    <3>1. k \in 1 .. (1 + n) /\ ~(k <= 1) /\ k - 1 \in 1 .. n
      BY <2>3, <2>6
    <3>. QED  BY <2>2, <2>3, <3>1
  <2>7. {x} \union Range(q) \subseteq Range(t)
    BY <2>3, <2>4, <2>5 DEF Range
  <2>8. Range(t) \subseteq {x} \union Range(q)
    BY <2>4, <2>6 DEF Range
  <2>. QED  BY <2>7, <2>8 DEF t
<1>. QED  BY <1>2

LEMMA AuditStep == HandlingInv /\ AuditInv /\ [Next]_vars => AuditInv'
<1> SUFFICES ASSUME HandlingInv, AuditInv, [Next]_vars PROVE AuditInv'
  OBVIOUS
<1> USE DEF bus, stores, handling, ghosts
<1>1. /\ executed \in [Alerts -> Nat]
      /\ \A i \in Alerts : executed[i] > 0 => HasPolicy(Incoming[i])
      /\ \A i \in Alerts :
           executed[i] > 0 => \/ remediations[i] # {} \/ i = msg
                              \/ i \in Range(queue) \/ i \in dropped
  BY DEF AuditInv, AttemptsAudited
<1>2. /\ queue \in Seq(announced) /\ msg \in announced \union {0}
      /\ remediations \in [Alerts -> SUBSET Statuses]
  BY DEF HandlingInv, LedgerInv, DataInv
<1>3. CASE ExecuteAction
  <2>1. msg \in Alerts /\ HasPolicy(Incoming[msg])
    BY <1>3, InHand DEF ExecuteAction, HandlingInv, PlanInv, Quiet, Alert
  <2>2. UNCHANGED <<remediations, msg, queue, dropped>>
    BY <1>3 DEF ExecuteAction
  <2>3. executed' = executed \/ executed' = [executed EXCEPT ![msg] = @ + 1]
    BY <1>3 DEF ExecuteAction
  <2>4. /\ executed' \in [Alerts -> Nat]
        /\ \A i \in Alerts : executed'[i] > 0 => executed[i] > 0 \/ i = msg
    BY <1>1, <2>1, <2>3
  <2>. QED  BY <1>1, <2>1, <2>2, <2>4 DEF AuditInv, AttemptsAudited
<1>4. ASSUME UNCHANGED executed,
             \A i \in Alerts :
               /\ executed[i] > 0
               /\ \/ remediations[i] # {} \/ i = msg
                  \/ i \in Range(queue) \/ i \in dropped
               => \/ remediations'[i] # {} \/ i = msg'
                  \/ i \in Range(queue') \/ i \in dropped'
      PROVE  AuditInv'
  BY <1>1, <1>4 DEF AuditInv, AttemptsAudited
<1>5. CASE Deliver
  <2>1. /\ UNCHANGED <<executed, remediations>> /\ msg = 0
        /\ queue # <<>> /\ queue' = Tail(queue)
        /\ \/ dropped' = dropped \union {Head(queue)} /\ UNCHANGED msg
           \/ msg' = Head(queue) /\ UNCHANGED dropped
    BY <1>5 DEF Deliver, HandlingInv, PlanInv, Quiet
  <2>2. Range(queue) = {Head(queue)} \union Range(queue')
    BY <1>2, <2>1, QueueTaken
  <2>3. 0 \notin Alerts
    BY AlertsInOrder
  <2>. QED  BY <2>1, <2>2, <2>3, <1>4
<1>6. CASE FindAlert \/ AcknowledgeAlert
  <2>1. UNCHANGED <<executed, remediations, queue, dropped>>
    BY <1>6 DEF FindAlert, AcknowledgeAlert
  <2>2. UNCHANGED msg \/ ~HasPolicy(Alert)
    BY <1>6 DEF FindAlert, AcknowledgeAlert, Evaluate
  <2>. QED  BY <1>1, <1>4, <2>1, <2>2 DEF Alert
<1>7. CASE RecordRemediation
  <2>1. /\ UNCHANGED <<executed, queue, dropped>>
        /\ remediations' = [remediations EXCEPT ![msg] = @ \union {status}]
    BY <1>7 DEF RecordRemediation
  <2>. QED  BY <1>2, <1>4, <2>1
<1>8. CASE TaskDies
  <2>1. /\ UNCHANGED <<executed, queue>>
        /\ dropped' = dropped \union {msg}
        /\ \/ remediations' = remediations
           \/ remediations' = [remediations EXCEPT ![msg] = @ \union {status}]
    BY <1>8 DEF TaskDies
  <2>2. \A i \in Alerts : remediations[i] # {} => remediations'[i] # {}
    BY <1>2, <2>1
  <2>. QED  BY <1>4, <2>1, <2>2
<1>9. CASE Crash
  <2>1. /\ UNCHANGED <<executed, remediations, dropped>>
        /\ queue' = IF msg = 0 THEN queue ELSE <<msg>> \o queue
    BY <1>9 DEF Crash
  <2>2. \A i \in Alerts : i = msg \/ i \in Range(queue) => i \in Range(queue')
    <3>1. CASE msg = 0
      BY <2>1, <3>1, AlertsInOrder
    <3>2. CASE msg # 0
      BY <1>2, <2>1, <3>2, QueuePutBack
    <3>. QED  BY <3>1, <3>2
  <2>. QED  BY <1>4, <2>1, <2>2
<1>10. CASE Stop
  <2>1. /\ UNCHANGED <<executed, queue>>
        /\ dropped' = IF msg = 0 THEN dropped ELSE dropped \union {msg}
        /\ \/ remediations' = remediations
           \/ remediations' = [remediations EXCEPT ![msg] = @ \union {status}]
    BY <1>10 DEF Stop
  <2>2. \A i \in Alerts : remediations[i] # {} => remediations'[i] # {}
    BY <1>2, <2>1
  <2>3. \A i \in Alerts : i \in dropped \/ i = msg => i \in dropped'
    BY <2>1, AlertsInOrder
  <2>. QED  BY <1>4, <2>1, <2>2, <2>3
<1>11. ASSUME NEW i \in DOMAIN ledger, AnnounceAlert(i)
       PROVE  AuditInv'
  <2>1. UNCHANGED <<executed, remediations, msg, dropped>>
        /\ queue' = Append(queue, i)
    BY <1>11 DEF AnnounceAlert
  <2>2. Range(queue) \subseteq Range(queue')
    <3>1. queue \in Seq(Alerts) /\ i \in Alerts
      BY <1>2, InHand DEF HandlingInv, LedgerInv
    <3>. QED  BY <2>1, <3>1, QueueGrows
  <2>. QED  BY <1>4, <2>1, <2>2
<1>12. CASE \/ GetState \/ SetState \/ AppendHistory \/ PublishStateUpdate
            \/ NextNeighbor \/ Verify \/ RecordVerification \/ ResolveAlert
            \/ StepFails
  <2>1. UNCHANGED <<executed, remediations, msg, queue, dropped>>
    BY <1>12 DEF GetState, SetState, AppendHistory, PublishStateUpdate,
                 NextNeighbor, Verify, RecordVerification, ResolveAlert,
                 StepFails
  <2>. QED  BY <1>4, <2>1
<1>13. CASE \/ ProcessTopologyEvent \/ Restart \/ RecordAlert
            \/ \E b \in BOOLEAN : SetPaused(b)
            \/ UNCHANGED vars
  <2>1. UNCHANGED <<executed, remediations, msg, queue, dropped>>
    BY <1>13 DEF ProcessTopologyEvent, Restart, RecordAlert, SetPaused, vars
  <2>. QED  BY <1>4, <2>1
<1>. QED
  BY <1>3, <1>5, <1>6, <1>7, <1>8, <1>9, <1>10, <1>11, <1>12, <1>13
     DEF Next, Handle, Environment

\* Every alert that was acted on leaves a remediation record, unless it is to
\* be redelivered or was given up, through any failures, crashes and stops.
THEOREM AttemptsStayAudited == Spec => []AttemptsAudited
<1>1. Init => AuditInv
  BY DEF Init, AuditInv, AttemptsAudited
<1>2. AuditInv => AttemptsAudited
  BY DEF AuditInv
<1>. QED
  BY <1>1, <1>2, AuditStep, HandlingInit, HandlingNext, PTL DEF Spec

------------------------------------------------------------------------------
(* The alert history.                                                      *)

LEMMA LedgerStep == HandlingInv /\ [Next]_vars => [Ledger!Next]_(Ledger!vars)
<1> SUFFICES ASSUME HandlingInv, [Next]_vars
             PROVE  [Ledger!Next]_(Ledger!vars)
  OBVIOUS
<1> USE DEF bus
<1>1. CASE AcknowledgeAlert
  <2>1. UNCHANGED announced /\ step = "acknowledge"
        /\ \/ ledger' = [ledger EXCEPT ![alert_id].acknowledged = TRUE]
           \/ UNCHANGED ledger
    BY <1>1 DEF AcknowledgeAlert
  <2>2. alert_id \in DOMAIN ledger
    BY <2>1 DEF HandlingInv, PlanInv, LedgerInv
  <2>. QED  BY <2>1, <2>2 DEF Ledger!Next, Ledger!Acknowledge, Ledger!vars
<1>2. CASE ResolveAlert
  <2>1. UNCHANGED announced /\ step = "resolve"
        /\ \/ ledger' = [ledger EXCEPT ![alert_id].acknowledged = TRUE,
                                       ![alert_id].status = "RESOLVED"]
           \/ UNCHANGED ledger
    BY <1>2 DEF ResolveAlert
  <2>2. alert_id \in DOMAIN ledger
    BY <2>1 DEF HandlingInv, PlanInv, LedgerInv
  <2>. QED  BY <2>1, <2>2 DEF Ledger!Next, Ledger!Resolve, Ledger!vars
<1>3. CASE RecordAlert
  <2> DEFINE n == Len(ledger) + 1
  <2>1. /\ UNCHANGED announced /\ Len(ledger) < Len(Incoming)
        /\ ledger' = Append(ledger, Ledger!NewAlert(Key(n)))
    BY <1>3 DEF RecordAlert, Ledger!NewAlert, Key
  <2>2. n \in Alerts
    BY <2>1, InHand, AlertsInOrder DEF HandlingInv
  <2>3. Key(n) \in AlertKeys
    BY <2>2, AlertTyped
  <2>. QED
    BY <2>1, <2>3 DEF Ledger!Next, Ledger!Record, Ledger!vars, AlertKeys
<1>4. ASSUME NEW i \in DOMAIN ledger, AnnounceAlert(i)
      PROVE  Ledger!Announce
  BY <1>4 DEF AnnounceAlert, Ledger!Announce
<1>5. CASE \/ Deliver \/ FindAlert \/ GetState \/ ExecuteAction \/ SetState
           \/ AppendHistory \/ PublishStateUpdate \/ NextNeighbor
  BY <1>5 DEF Deliver, FindAlert, GetState, ExecuteAction, SetState,
              AppendHistory, PublishStateUpdate, NextNeighbor, Ledger!vars
<1>6. CASE \/ Verify \/ RecordVerification \/ RecordRemediation
           \/ StepFails \/ TaskDies \/ Crash \/ Stop
  BY <1>6 DEF Verify, RecordVerification, RecordRemediation, StepFails, TaskDies,
              Crash, Stop, Ledger!vars
<1>7. CASE \/ ProcessTopologyEvent \/ Restart
           \/ \E b \in BOOLEAN : SetPaused(b)
           \/ UNCHANGED vars
  BY <1>7 DEF ProcessTopologyEvent, Restart, SetPaused, vars, Ledger!vars
<1>. QED
  BY <1>1, <1>2, <1>3, <1>4, <1>5, <1>6, <1>7
     DEF Next, Handle, Environment, Ledger!Next

\* The runtime's system implements AlertLedger: whatever fails, an alert is
\* acknowledged or resolved where it is recorded, and nothing else changes it.
THEOREM ImplementsLedger == Spec => LedgerSpec
<1>1. Init => Ledger!Init
  BY DEF Init, Ledger!Init
<1>. QED
  BY <1>1, LedgerStep, HandlingInit, HandlingNext, PTL
     DEF Spec, LedgerSpec, Ledger!Spec
==============================================================================
