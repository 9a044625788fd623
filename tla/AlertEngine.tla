----------------------------- MODULE AlertEngine -----------------------------
(***************************************************************************)
(* services/infra-alert-engine: one consumer of the metric stream that     *)
(* turns threshold crossings into alerts.                                  *)
(*                                                                         *)
(*   Kafka partition -> rule evaluation -> Redis lock check -> MongoDB     *)
(*   insert -> RabbitMQ publish -> Redis lock set -> Kafka commit          *)
(*                                                                         *)
(* One action per step between two awaits of consume_batches,              *)
(* _handle_metric_event and the clients they call, and one per endpoint    *)
(* that changes state.  MongoDB, Redis, RabbitMQ and the Kafka log survive *)
(* a crash of the process; its memory does not.                            *)
(***************************************************************************)
EXTENDS Integers, Sequences, SequencesExt

CONSTANTS
  Partitions,      \* partitions of infra.metrics.stream
  Log,             \* [Partitions -> Seq(Event)], the records in the topic
  DefaultRules,    \* DEFAULT_RULES of main.py, a sequence of rules
  RuleEdits,       \* rules an operator may send to POST /api/v1/rules
  PublishRetries,  \* RABBITMQ_PUBLISH_RETRIES
  MaxFaults,       \* bound: failing calls, outages and crashes in a behaviour
  MaxCalls,        \* bound: calls of the HTTP endpoints in a behaviour
  None             \* no partition is being read

Rules == Range(DefaultRules) \union RuleEdits

\* EntityType resolution: the most specific entity the event names.
resolve_entity(e) ==
  IF e.device # None THEN e.device
  ELSE IF e.rack # None THEN e.rack ELSE e.facility

Events == UNION {Range(Log[p]) : p \in Partitions}

\* What a lock is about (the tenant is part of the entity's identity).
Keys == {resolve_entity(e) : e \in Events} \X {r.id : r \in Rules}

ASSUME ConstantsOK ==
  /\ None \notin Partitions
  /\ \A p \in Partitions : Log[p] \in Seq(Events)
  /\ DefaultRules \in Seq(Rules)
  /\ PublishRetries \in Nat \ {0}
  /\ MaxFaults \in Nat
  /\ MaxCalls \in Nat

VARIABLES
  \* The consumer's place in the stream.
  phase,             \* where the consume loop waits, "down" when not running
  position,          \* offset the next getmany of each partition starts at
  next,              \* offset of the next record of the batch to handle
  reading,           \* the partition whose records are being handled
  offsets_to_commit, \* 0 where the batch has handled no record yet
  committed,         \* the group's committed offsets, kept by Kafka
  \* The message being handled.
  matched,           \* matched rules left to process, <<list position, rule>>
  attempt,           \* failed attempts of the publish in progress
  \* The process.
  rules, paused,
  \* The services.
  redisUp, locks,    \* Redis: reachable, and the lock keys it holds
  mongo,             \* the alerts collection, in insertion order
  exchange,          \* ids of the alerts infra.alerts has carried, in order
  \* History, read by the properties only.
  done,              \* <<p, offset, keys matched>> of every handled record
  abandoned,         \* <<p, offset>> of every record a failed batch dropped
  owed,              \* the keys the record being handled has matched
  hush,              \* keys with a lock, or an alert whose lock is to be set,
                     \* and nothing since that unlocks them
  faults, calls      \* how much of MaxFaults and MaxCalls is used

consumer == <<position, next, reading, offsets_to_commit, committed>>
message  == <<matched, attempt, owed>>
process  == <<rules, paused>>
stores   == <<mongo, exchange>>
history  == <<done, abandoned>>
vars == <<phase, consumer, message, process, redisUp, locks, stores, history,
          hush, faults, calls>>

------------------------------------------------------------------------------
(* The rule engine: a dictionary of rules in insertion order.              *)

Compare(op, v, t) ==
  CASE op = ">"  -> v > t
    [] op = "<"  -> v < t
    [] op = ">=" -> v >= t
    [] op = "<=" -> v <= t
    [] op = "==" -> v = t

\* evaluate_event: the enabled rules on the event's metric that hold of its
\* value, each with its position, which is the order the loop takes them in.
evaluate_event(e) ==
  {<<i, rules[i]>> : i \in {j \in DOMAIN rules :
      /\ rules[j].enabled
      /\ rules[j].metric = e.metric
      /\ Compare(rules[j].op, e.value, rules[j].threshold)}}

KeyOf(e, m) == <<resolve_entity(e), m[2].id>>

IsFirst(m) == m \in matched /\ \A n \in matched : m[1] <= n[1]

------------------------------------------------------------------------------
(* The consume loop.                                                       *)

Fault == faults < MaxFaults /\ faults' = faults + 1

Offsets(p) == 0 .. Len(Log[p])

AllOffsets == UNION {Offsets(p) : p \in Partitions}

Record(p) == Log[p][next[p] + 1]

Remaining(p) == position[p] - next[p]

\* The alert in flight: inserts are sequential, so it is the last document.
alert_id == Len(mongo)

\* Mutant of Poll: auto-commit, the group's offsets follow the fetch position.
PollAutoCommit ==
  /\ phase = "poll"
  /\ \E upto \in [Partitions -> AllOffsets] :
       /\ upto # position
       /\ \A p \in Partitions : upto[p] \in position[p] .. Len(Log[p])
       /\ position' = upto
       /\ committed' = upto
  /\ phase' = "iterate"
  /\ UNCHANGED <<next, reading, offsets_to_commit, message, process, redisUp, locks, stores,
                 history, hush, faults, calls>>

\* getmany hands over some records past the position of one or more
\* partitions and moves the positions past them.  How many is left open.
Poll ==
  /\ phase = "poll"
  /\ \E upto \in [Partitions -> AllOffsets] :
       /\ upto # position
       /\ \A p \in Partitions : upto[p] \in position[p] .. Len(Log[p])
       /\ position' = upto
  /\ phase' = "iterate"
  /\ UNCHANGED <<next, reading, offsets_to_commit, committed, message, process,
                 redisUp, locks, stores, history, hush, faults, calls>>

\* getmany times out with nothing to hand over.
PollEmpty ==
  /\ phase = "poll"
  /\ \A p \in Partitions : position[p] = Len(Log[p])
  /\ UNCHANGED vars

\* Mutant of Settle: the committable offset is one record too far.
SettleTooFar(p, keys) ==
  /\ next' = [next EXCEPT ![p] = @ + 1]
  /\ offsets_to_commit' = [offsets_to_commit EXCEPT ![p] = next[p] + 2]
  /\ done' = done \union {<<p, next[p], keys>>}
  /\ matched' = {}
  /\ owed' = {}
  /\ reading' = IF Remaining(p) = 1 THEN None ELSE p
  /\ phase' = IF \A q \in Partitions : Remaining(q) = (IF q = p THEN 1 ELSE 0)
              THEN "commit" ELSE "iterate"

\* The callback returned: the offset after the record becomes committable,
\* and the loop goes on in this partition, then in another, then commits.
Settle(p, keys) ==
  /\ next' = [next EXCEPT ![p] = @ + 1]
  /\ offsets_to_commit' = [offsets_to_commit EXCEPT ![p] = next[p] + 1]
  /\ done' = done \union {<<p, next[p], keys>>}
  /\ matched' = {}
  /\ owed' = {}
  /\ reading' = IF Remaining(p) = 1 THEN None ELSE p
  /\ phase' = IF \A q \in Partitions : Remaining(q) = (IF q = p THEN 1 ELSE 0)
              THEN "commit" ELSE "iterate"

\* _handle_metric_event up to its first await: a paused engine, an event that
\* fails validation and one no rule matches are done with at once.
StartMessage(p) ==
  /\ phase = "iterate"
  /\ reading \in {None, p}
  /\ Remaining(p) > 0
  /\ LET e == Record(p)
         hits == evaluate_event(e)
     IN IF paused \/ ~e.valid \/ hits = {}
        THEN Settle(p, {})
        ELSE /\ matched' = hits
             /\ owed' = {KeyOf(e, m) : m \in hits}
             /\ reading' = p
             /\ phase' = "check"
             /\ UNCHANGED <<next, offsets_to_commit, done>>
  /\ UNCHANGED <<position, committed, attempt, process, redisUp, locks, stores,
                 abandoned, hush, faults, calls>>

\* The loop body is over for matched rule m.
NextRule(m) ==
  IF matched = {m}
  THEN Settle(reading, owed)
  ELSE /\ matched' = matched \ {m}
       /\ phase' = "check"
       /\ UNCHANGED <<next, reading, offsets_to_commit, done, owed>>

\* is_locked: a held lock suppresses the rule; an unreachable Redis answers
\* "not locked".
CheckLock ==
  /\ phase = "check"
  /\ \E m \in matched :
       /\ IsFirst(m)
       /\ IF redisUp /\ KeyOf(Record(reading), m) \in locks
          THEN NextRule(m)
          ELSE /\ phase' = "insert"
               /\ UNCHANGED <<next, reading, offsets_to_commit, done, matched,
                              owed>>
  /\ UNCHANGED <<position, committed, attempt, process, redisUp, locks, stores,
                 abandoned, hush, faults, calls>>

NewAlert(k) == [key |-> k, status |-> "ACTIVE", acknowledged |-> FALSE]

\* Mutant of InsertAlert: the history is written best-effort.
InsertAlertBestEffort ==
  /\ phase = "insert"
  /\ phase' = "publish"
  /\ UNCHANGED <<consumer, message, process, redisUp, locks, stores, history,
                 hush, faults, calls>>

\* insert_alert succeeds.
InsertAlert ==
  /\ phase = "insert"
  /\ \E m \in matched :
       LET k == KeyOf(Record(reading), m)
       IN /\ IsFirst(m)
          /\ mongo' = Append(mongo, NewAlert(k))
          /\ hush' = hush \union {k}
  /\ phase' = "publish"
  /\ UNCHANGED <<consumer, message, process, redisUp, locks, exchange, history,
                 faults, calls>>

\* Mutant of FailBatch: the exception ends the consumer task.
FailBatchEndsTask ==
  /\ phase' = "ended"
  /\ attempt' = 0
  /\ UNCHANGED <<consumer, matched, owed, history>>

\* The callback raised: the loop leaves the batch without committing and
\* polls again.  The positions have moved on, so what is left of the batch,
\* the failed record included, is not fetched again by this process.
FailBatch ==
  /\ abandoned' = abandoned \union
       {x \in Partitions \X AllOffsets :
          next[x[1]] <= x[2] /\ x[2] < position[x[1]]}
  /\ next' = position
  /\ reading' = None
  /\ offsets_to_commit' = [p \in Partitions |-> 0]
  /\ matched' = {}
  /\ attempt' = 0
  /\ owed' = {}
  /\ phase' = "poll"
  /\ UNCHANGED <<position, committed, done>>

\* insert_one raises: nothing was written, or the document was and the answer is
\* lost.  Such an alert is neither published nor locked by this process.
InsertFails ==
  /\ phase = "insert"
  /\ Fault
  /\ \/ UNCHANGED mongo
     \/ \E m \in matched :
          /\ IsFirst(m)
          /\ mongo' = Append(mongo, NewAlert(KeyOf(Record(reading), m)))
  /\ FailBatch
  /\ UNCHANGED <<process, redisUp, locks, exchange, hush, calls>>

\* publish_alert: the exchange confirms the message.
PublishAlert ==
  /\ phase = "publish"
  /\ exchange' = Append(exchange, alert_id)
  /\ attempt' = 0
  /\ phase' = "lock"
  /\ UNCHANGED <<consumer, matched, owed, process, redisUp, locks, mongo,
                 history, hush, faults, calls>>

\* Mutant of PublishFails: publish_alert swallows the last failure.
PublishFailsSilently ==
  /\ phase = "publish"
  /\ Fault
  /\ IF attempt + 1 < PublishRetries
     THEN attempt' = attempt + 1 /\ UNCHANGED phase
     ELSE attempt' = 0 /\ phase' = "lock"
  /\ UNCHANGED <<consumer, matched, owed, process, redisUp, locks, stores,
                 history, hush, calls>>

\* An attempt raises, the message having reached the exchange (the confirm was
\* lost) or not.  The last attempt's failure leaves publish_alert.
PublishFails ==
  /\ phase = "publish"
  /\ Fault
  /\ \/ UNCHANGED exchange
     \/ exchange' = Append(exchange, alert_id)
  /\ IF attempt + 1 < PublishRetries
     THEN /\ attempt' = attempt + 1
          /\ UNCHANGED <<phase, consumer, matched, owed, history, hush>>
     ELSE /\ FailBatch
          /\ hush' = hush \ {mongo[alert_id].key}
  /\ UNCHANGED <<process, redisUp, locks, mongo, calls>>

\* Mutant of SetLock: the lock is left out.
SetLockNever ==
  /\ phase = "lock"
  /\ \E m \in matched : IsFirst(m) /\ NextRule(m)
  /\ UNCHANGED <<position, committed, attempt, process, redisUp, locks, stores,
                 abandoned, hush, faults, calls>>

\* lock: SETEX; the write is lost, and the loop goes on, when Redis is down.
SetLock ==
  /\ phase = "lock"
  /\ LET k == mongo[alert_id].key
     IN IF redisUp
        THEN locks' = locks \union {k} /\ UNCHANGED hush
        ELSE hush' = hush \ {k} /\ UNCHANGED locks
  /\ \E m \in matched : IsFirst(m) /\ NextRule(m)
  /\ UNCHANGED <<position, committed, attempt, process, redisUp, stores,
                 abandoned, faults, calls>>

\* The whole batch went through: consumer.commit(offsets_to_commit).
Commit ==
  /\ phase = "commit"
  /\ committed' = [p \in Partitions |-> IF offsets_to_commit[p] = 0
                                        THEN committed[p]
                                        ELSE offsets_to_commit[p]]
  /\ offsets_to_commit' = [p \in Partitions |-> 0]
  /\ phase' = "poll"
  /\ UNCHANGED <<position, next, reading, message, process, redisUp, locks,
                 stores, history, hush, faults, calls>>

\* commit raises: the outer handler logs, sleeps and polls again.
CommitFails ==
  /\ phase = "commit"
  /\ Fault
  /\ offsets_to_commit' = [p \in Partitions |-> 0]
  /\ phase' = "poll"
  /\ UNCHANGED <<position, next, reading, committed, message, process, redisUp,
                 locks, stores, history, hush, calls>>

------------------------------------------------------------------------------
(* Crashes, outages and time.                                              *)

\* The process dies, or stop() cancels the loop, between any two steps.  What
\* it will read next is what the group has committed.
Crash ==
  /\ phase # "down"
  /\ Fault
  /\ phase' = "down"
  /\ position' = committed
  /\ next' = committed
  /\ reading' = None
  /\ offsets_to_commit' = [p \in Partitions |-> 0]
  /\ matched' = {}
  /\ attempt' = 0
  /\ owed' = {}
  /\ hush' = IF redisUp THEN hush \intersect locks ELSE {}
  /\ UNCHANGED <<committed, process, redisUp, locks, stores, history, calls>>

\* lifespan: the default rules again, and not paused.
Restart ==
  /\ phase = "down"
  /\ phase' = "poll"
  /\ rules' = DefaultRules
  /\ paused' = FALSE
  /\ UNCHANGED <<consumer, message, redisUp, locks, stores, history, hush,
                 faults, calls>>

RedisFails ==
  /\ redisUp
  /\ Fault
  /\ redisUp' = FALSE
  /\ hush' = {}
  /\ UNCHANGED <<phase, consumer, message, process, locks, stores, history,
                 calls>>

RedisRecovers ==
  /\ ~redisUp
  /\ redisUp' = TRUE
  /\ UNCHANGED <<phase, consumer, message, process, locks, stores, history,
                 hush, faults, calls>>

\* A lock's cooldown_sec runs out.
LockExpires(k) ==
  /\ k \in locks
  /\ locks' = locks \ {k}
  /\ hush' = hush \ {k}
  /\ UNCHANGED <<phase, consumer, message, process, redisUp, stores, history,
                 faults, calls>>

------------------------------------------------------------------------------
(* The HTTP endpoints, served between any two steps of the loop.           *)

Call == phase # "down" /\ calls < MaxCalls /\ calls' = calls + 1

SetPaused(b) ==
  /\ Call
  /\ paused # b
  /\ paused' = b
  /\ UNCHANGED <<phase, consumer, message, rules, redisUp, locks, stores,
                 history, hush, faults>>

\* A rule id already there keeps its place in the dictionary.
UpsertRule(r) ==
  /\ Call
  /\ rules' = IF \E i \in DOMAIN rules : rules[i].id = r.id
              THEN [i \in DOMAIN rules |-> IF rules[i].id = r.id THEN r
                                           ELSE rules[i]]
              ELSE Append(rules, r)
  /\ UNCHANGED <<phase, consumer, message, paused, redisUp, locks, stores,
                 history, hush, faults>>

DeleteRule(i) ==
  /\ Call
  /\ rules' = RemoveAt(rules, i)
  /\ UNCHANGED <<phase, consumer, message, paused, redisUp, locks, stores,
                 history, hush, faults>>

\* update_one by _id, whatever the document's status.
AcknowledgeAlert(i) ==
  /\ Call
  /\ mongo' = [mongo EXCEPT ![i].acknowledged = TRUE]
  /\ UNCHANGED <<phase, consumer, message, process, redisUp, locks, exchange,
                 history, hush, faults>>

ResolveAlert(i) ==
  /\ Call
  /\ mongo' = [mongo EXCEPT ![i].acknowledged = TRUE, ![i].status = "RESOLVED"]
  /\ UNCHANGED <<phase, consumer, message, process, redisUp, locks, exchange,
                 history, hush, faults>>

------------------------------------------------------------------------------
Init ==
  /\ phase = "poll"
  /\ position = [p \in Partitions |-> 0]
  /\ next = [p \in Partitions |-> 0]
  /\ reading = None
  /\ offsets_to_commit = [p \in Partitions |-> 0]
  /\ committed = [p \in Partitions |-> 0]
  /\ matched = {}
  /\ attempt = 0
  /\ rules = DefaultRules
  /\ paused = FALSE
  /\ redisUp = TRUE
  /\ locks = {}
  /\ mongo = <<>>
  /\ exchange = <<>>
  /\ done = {}
  /\ abandoned = {}
  /\ owed = {}
  /\ hush = {}
  /\ faults = 0
  /\ calls = 0

\* The steps the consume loop takes by itself.
Loop ==
  \/ Poll
  \/ \E p \in Partitions : StartMessage(p)
  \/ CheckLock
  \/ InsertAlert
  \/ PublishAlert
  \/ SetLock
  \/ Commit

Environment ==
  \/ PollEmpty
  \/ InsertFails
  \/ PublishFails
  \/ CommitFails
  \/ Crash
  \/ RedisFails
  \/ RedisRecovers
  \/ \E k \in locks : LockExpires(k)

Endpoint ==
  \/ \E b \in BOOLEAN : SetPaused(b)
  \/ \E r \in RuleEdits : UpsertRule(r)
  \/ \E i \in DOMAIN rules : DeleteRule(i)
  \/ \E i \in DOMAIN mongo : AcknowledgeAlert(i)
  \/ \E i \in DOMAIN mongo : ResolveAlert(i)

Next == Loop \/ Restart \/ Environment \/ Endpoint

Spec == Init /\ [][Next]_vars

\* The event loop runs its one consumer task; docker restarts the container.
FairSpec == Spec /\ WF_vars(Loop) /\ WF_vars(Restart)
------------------------------------------------------------------------------
(* Properties.                                                             *)

Busy == {"check", "insert", "publish", "lock"}

Docs == [key : Keys, status : {"ACTIVE", "RESOLVED"}, acknowledged : BOOLEAN]

\* The offsets the loop keeps for each partition are ordered: nothing beyond
\* the log is fetched, nothing not fetched is handled, nothing not handled is
\* committed.
OffsetsOK ==
  /\ position \in [Partitions -> Nat]
  /\ next \in [Partitions -> Nat]
  /\ offsets_to_commit \in [Partitions -> Nat]
  /\ committed \in [Partitions -> Nat]
  /\ \A p \in Partitions :
       /\ committed[p] <= next[p]
       /\ offsets_to_commit[p] <= next[p]
       /\ next[p] <= position[p]
       /\ position[p] <= Len(Log[p])

MessageOK ==
  /\ phase \in {"down", "poll", "iterate", "commit"} \union Busy
  /\ reading \in Partitions \union {None}
  /\ matched \in SUBSET (Nat \X Rules)
  /\ attempt \in 0 .. PublishRetries - 1
  /\ rules \in Seq(Rules)
  /\ paused \in BOOLEAN

StoresOK ==
  /\ redisUp \in BOOLEAN
  /\ locks \in SUBSET Keys
  /\ mongo \in Seq(Docs)
  /\ exchange \in Seq(Nat)
  /\ \A i \in DOMAIN exchange : exchange[i] \in DOMAIN mongo

HistoryOK ==
  /\ done \in SUBSET (Partitions \X Nat \X SUBSET Keys)
  /\ abandoned \in SUBSET (Partitions \X Nat)
  /\ owed \in SUBSET Keys
  /\ hush \in SUBSET Keys
  /\ faults \in 0 .. MaxFaults
  /\ calls \in 0 .. MaxCalls

\* Types and the order of the offsets.
TypeOK == OffsetsOK /\ MessageOK /\ StoresOK /\ HistoryOK

Handled(p, o) == \E d \in done : d[1] = p /\ d[2] = o

\* Kafka is never told a record is finished unless the engine handled it or a
\* batch that failed dropped it: consume_batches commits exactly what its
\* callback has returned from.
CommittedAreSettled ==
  \A p \in Partitions : \A o \in Offsets(p) :
    o < committed[p] => Handled(p, o) \/ <<p, o>> \in abandoned

Reported(k) == \E i \in DOMAIN exchange : mongo[exchange[i]].key = k

\* A record that is handled leaves none of its threshold crossings unreported:
\* each key it matched has an alert the exchange has carried, this record's
\* own or the one whose lock suppressed it.  So a lock never silences an
\* entity nobody was told about, whatever failed in between.
HandledIsReported ==
  \A d \in done : \A k \in d[3] : Reported(k)

\* No alert storm: once an entity and rule have an alert that was inserted and
\* answered for, they get no second one until the lock expires or is lost to a
\* crash, a failed publish or a Redis outage (what empties `hush').  An insert
\* whose answer is lost sets no lock, and is the one alert not counted.
NoStorm ==
  [][Len(mongo') > Len(mongo) => mongo'[Len(mongo')].key \notin hush]_vars

\* The engine keeps the promises of AlertLedger: history append-only, announced
\* only once recorded, never reopened.
Ledger == INSTANCE AlertLedger WITH
            ledger <- mongo,
            announced <- Range(exchange)

LedgerSpec == Ledger!Spec

\* The loop never gets stuck on a record: failures and crashes being finite,
\* each one is eventually handled or dropped.
EveryRecordSettled ==
  \A p \in Partitions : \A o \in Offsets(p) :
    o < Len(Log[p]) => <>(Handled(p, o) \/ <<p, o>> \in abandoned)

\* What the service's documentation promises of its offset commits ("only
\* after successful alert processing/suppression to ensure zero-loss
\* reliability"): a committed record was handled.
ZeroLoss ==
  \A p \in Partitions : \A o \in Offsets(p) :
    o < committed[p] => Handled(p, o)
==============================================================================
