-------------------------- MODULE AlertEngineProofs --------------------------
(***************************************************************************)
(* Proofs about AlertEngine for every log, rule set, retry limit and       *)
(* number of faults and calls.                                             *)
(*                                                                         *)
(* TypeOK and LoopOK, which relate the loop's place to what it holds, are  *)
(* inductive together.  SettledOK, ReportedOK and HushOK are each          *)
(* inductive relative to them and give the three safety properties.        *)
(***************************************************************************)
EXTENDS AlertEngine, SequenceTheorems, TLAPS

InFlight == phase \in {"publish", "lock"}

AlertKey == mongo[alert_id].key

\* What the loop holds in each phase: nothing between messages; while it works
\* through a message, a fetched record, some matched rule, and once the alert is
\* inserted, an alert about the rule at the head of the list.
LoopOK ==
  /\ phase \in {"down", "poll", "commit"} =>
       \A p \in Partitions : next[p] = position[p]
  /\ phase \notin Busy => owed = {}
  /\ phase \in Busy =>
       /\ reading \in Partitions
       /\ next[reading] < position[reading]
  /\ \A m, n \in matched : m[1] = n[1] => m = n
  /\ InFlight =>
       /\ mongo # <<>>
       /\ \A m \in matched :
            IsFirst(m) => AlertKey = KeyOf(Record(reading), m)

\* Everything before `next' is settled, and the commits stay behind it.
SettledOK ==
  \A p \in Partitions : \A o \in Offsets(p) :
    o < next[p] => Handled(p, o) \/ <<p, o>> \in abandoned

\* What has been reported, down to the message in progress: each key it owes is
\* reported already or still in the list.
ReportedOK ==
  /\ \A k \in locks : Reported(k)
  /\ \A k \in owed :
       \/ Reported(k)
       \/ \E m \in matched : k = KeyOf(Record(reading), m)
  /\ phase = "lock" => Reported(AlertKey)
  /\ HandledIsReported

\* A hushed key is locked, or its alert is in flight; while Redis is down only
\* the latter; and an alert is about to be inserted only for another key.
HushOK ==
  /\ \A k \in hush : k \in locks \/ (InFlight /\ k = AlertKey)
  /\ ~redisUp => \A k \in hush : InFlight /\ k = AlertKey
  /\ phase = "insert" =>
       \A m \in matched : IsFirst(m) => KeyOf(Record(reading), m) \notin hush

IInv == TypeOK /\ LoopOK /\ SettledOK /\ ReportedOK /\ HushOK

------------------------------------------------------------------------------
(* The data: records, rules and keys.                                      *)

\* A fetched record is an event, and its offset is one of the log's.
LEMMA LogFacts ==
  ASSUME NEW p \in Partitions, NEW o \in Nat, o < Len(Log[p])
  PROVE  /\ Len(Log[p]) \in Nat
         /\ Log[p][o + 1] \in Events
         /\ o \in Offsets(p)
         /\ o \in AllOffsets
<1>1. Log[p] \in Seq(Events) /\ Len(Log[p]) \in Nat
  BY ConstantsOK
<1>2. Log[p][o + 1] \in Events
  BY <1>1
<1>3. o \in Offsets(p)
  BY <1>1 DEF Offsets
<1>4. QED
  BY <1>1, <1>2, <1>3 DEF AllOffsets

\* Matching a rule on an event gives a key.
LEMMA KeyType ==
  ASSUME NEW e \in Events, NEW m \in Nat \X Rules
  PROVE  KeyOf(e, m) \in Keys
BY DEF KeyOf, Keys

\* The matched rules are rules of the list, one per position.
LEMMA HitsType ==
  ASSUME rules \in Seq(Rules), NEW e
  PROVE  /\ evaluate_event(e) \in SUBSET (Nat \X Rules)
         /\ \A m, n \in evaluate_event(e) : m[1] = n[1] => m = n
BY DEF evaluate_event

\* Deleting a rule leaves a list of rules.
LEMMA RemoveType ==
  ASSUME rules \in Seq(Rules), NEW i \in DOMAIN rules
  PROVE  RemoveAt(rules, i) \in Seq(Rules)
<1>1. i \in 1 .. Len(rules) /\ Len(rules) \in Nat
  OBVIOUS
<1>2. SubSeq(rules, 1, i - 1) \in Seq(Rules)
  BY <1>1, SubSeqProperties
<1>3. SubSeq(rules, i + 1, Len(rules)) \in Seq(Rules)
  BY <1>1, SubSeqProperties
<1>4. QED
  BY <1>2, <1>3, ConcatProperties DEF RemoveAt

------------------------------------------------------------------------------
(* TypeOK and LoopOK are inductive.                                        *)

LoopInv == TypeOK /\ LoopOK

LEMMA LoopInvInit == Init => LoopInv
<1> SUFFICES ASSUME Init PROVE LoopInv
  OBVIOUS
<1> USE ConstantsOK DEF Init
<1>1. OffsetsOK
  BY DEF OffsetsOK
<1>2. MessageOK
  <2>1. attempt \in 0 .. PublishRetries - 1 /\ rules \in Seq(Rules)
    OBVIOUS
  <2>2. phase \in {"down", "poll", "iterate", "commit"} \union Busy
    OBVIOUS
  <2>3. matched \in SUBSET (Nat \X Rules) /\ paused \in BOOLEAN
    OBVIOUS
  <2>4. QED
    BY <2>1, <2>2, <2>3 DEF MessageOK
<1>3. StoresOK
  BY DEF StoresOK
<1>4. HistoryOK
  BY DEF HistoryOK
<1>5. LoopOK
  BY DEF LoopOK, Busy, InFlight
<1>6. QED
  BY <1>1, <1>2, <1>3, <1>4, <1>5 DEF LoopInv, TypeOK

\* The record being worked on is an event, and so its keys are keys.
LEMMA RecordInHand ==
  ASSUME OffsetsOK, NEW p \in Partitions, next[p] < position[p]
  PROVE  /\ Record(p) \in Events
         /\ \A m \in Nat \X Rules : KeyOf(Record(p), m) \in Keys
         /\ Len(Log[p]) \in Nat
         /\ next[p] + 1 <= position[p]
<1>1. /\ next[p] \in Nat /\ position[p] \in Nat
      /\ position[p] <= Len(Log[p]) /\ Len(Log[p]) \in Nat
  BY ConstantsOK DEF OffsetsOK
<1>2. next[p] < Len(Log[p])
  BY <1>1
<1>3. Record(p) \in Events
  BY <1>1, <1>2, LogFacts DEF Record
<1>4. QED
  BY <1>1, <1>3, KeyType

\* Settling a record keeps the offsets in order and leaves nothing in hand.
LEMMA SettleLoopInv ==
  ASSUME LoopInv, NEW p \in Partitions, NEW keys \in SUBSET Keys,
         next[p] < position[p], Settle(p, keys),
         UNCHANGED <<position, committed, attempt, rules, paused, abandoned>>,
         StoresOK', hush' \in SUBSET Keys,
         faults' \in 0 .. MaxFaults, calls' \in 0 .. MaxCalls
  PROVE  LoopInv'
<1> USE DEF LoopInv, TypeOK, Settle
<1>1. OffsetsOK'
  <2>1. next[p] \in Nat /\ next[p] + 1 <= position[p] /\ committed[p] <= next[p]
    BY RecordInHand DEF OffsetsOK
  <2>2. /\ next' = [next EXCEPT ![p] = next[p] + 1]
        /\ offsets_to_commit' = [offsets_to_commit EXCEPT ![p] = next[p] + 1]
        /\ UNCHANGED <<position, committed>>
    OBVIOUS
  <2>3. next' \in [Partitions -> Nat] /\ offsets_to_commit' \in [Partitions -> Nat]
    BY <2>1, <2>2 DEF OffsetsOK
  <2>4. ASSUME NEW q \in Partitions
        PROVE  /\ committed'[q] <= next'[q]
               /\ offsets_to_commit'[q] <= next'[q]
               /\ next'[q] <= position'[q]
               /\ position'[q] <= Len(Log[q])
    <3>1. CASE q = p
      BY <3>1, <2>1, <2>2 DEF OffsetsOK
    <3>2. CASE q # p
      BY <3>2, <2>2 DEF OffsetsOK
    <3>. QED  BY <3>1, <3>2
  <2>. QED  BY <2>2, <2>3, <2>4 DEF OffsetsOK
<1>2. MessageOK'
  BY DEF MessageOK, Busy
<1>3. HistoryOK'
  BY DEF HistoryOK, OffsetsOK
<1>4. phase' = "commit" => \A q \in Partitions : next'[q] = position'[q]
  BY DEF OffsetsOK, Remaining
<1>5. LoopOK'
  BY <1>4 DEF LoopOK, Busy, InFlight
<1>6. QED
  BY <1>1, <1>2, <1>3, <1>5

\* So does dropping the rest of a batch.
LEMMA FailBatchLoopInv ==
  ASSUME LoopInv, FailBatch, UNCHANGED <<rules, paused>>, StoresOK',
         hush' \in SUBSET Keys, faults' \in 0 .. MaxFaults,
         calls' \in 0 .. MaxCalls
  PROVE  LoopInv'
<1> USE DEF LoopInv, TypeOK, FailBatch
<1>1. OffsetsOK'
  BY DEF OffsetsOK
<1>2. MessageOK'
  BY ConstantsOK DEF MessageOK
<1>3. AllOffsets \subseteq Nat
  BY DEF AllOffsets, Offsets
<1>4. HistoryOK'
  BY <1>3 DEF HistoryOK
<1>5. LoopOK'
  BY DEF LoopOK, Busy, InFlight
<1>6. QED
  BY <1>1, <1>2, <1>4, <1>5

\* Going on to the next matched rule, or settling the record after the last.
LEMMA NextRuleLoopInv ==
  ASSUME LoopInv, phase \in Busy, NEW m \in matched, NextRule(m),
         UNCHANGED <<position, committed, attempt, rules, paused, abandoned>>,
         StoresOK', hush' \in SUBSET Keys,
         faults' \in 0 .. MaxFaults, calls' \in 0 .. MaxCalls
  PROVE  LoopInv'
<1>1. reading \in Partitions /\ next[reading] < position[reading]
  BY DEF LoopInv, LoopOK
<1>2. CASE matched = {m}
  <2>1. owed \in SUBSET Keys
    BY DEF LoopInv, TypeOK, HistoryOK
  <2>2. QED
    BY <1>1, <1>2, <2>1, SettleLoopInv DEF NextRule
<1>3. CASE matched # {m}
  <2> USE <1>3 DEF LoopInv, TypeOK, NextRule
  <2>1. OffsetsOK'
    BY DEF OffsetsOK
  <2>2. MessageOK'
    BY DEF MessageOK, Busy
  <2>3. HistoryOK'
    BY DEF HistoryOK
  <2>4. LoopOK'
    BY <1>1 DEF LoopOK, Busy, InFlight
  <2>5. QED
    BY <2>1, <2>2, <2>3, <2>4
<1>4. QED
  BY <1>2, <1>3

\* Steps that leave the loop, the offsets and the message alone.
LEMMA AsideLoopInv ==
  ASSUME LoopInv, UNCHANGED <<phase, consumer, message, paused, history>>,
         StoresOK', hush' \in SUBSET Keys, rules' \in Seq(Rules),
         faults' \in 0 .. MaxFaults, calls' \in 0 .. MaxCalls,
         mongo # <<>> => mongo' # <<>> /\ AlertKey' = AlertKey
  PROVE  LoopInv'
<1> USE DEF LoopInv, TypeOK, consumer, message, history
<1>1. OffsetsOK'
  BY DEF OffsetsOK
<1>2. MessageOK'
  BY DEF MessageOK
<1>3. HistoryOK'
  BY DEF HistoryOK
<1>4. LoopOK'
  BY DEF LoopOK, InFlight, IsFirst, KeyOf, Record
<1>5. QED
  BY <1>1, <1>2, <1>3, <1>4

\* Each kind of step of the loop keeps LoopInv.
LEMMA PollLoopInv == LoopInv /\ Poll => LoopInv'
<1> SUFFICES ASSUME LoopInv, Poll PROVE LoopInv'
  OBVIOUS
<1> USE DEF LoopInv, TypeOK, Poll, message, process, history, stores
<1>1. PICK upto \in [Partitions -> AllOffsets] :
        /\ \A p \in Partitions : upto[p] \in position[p] .. Len(Log[p])
        /\ position' = upto
  OBVIOUS
<1>2. \A p \in Partitions : Len(Log[p]) \in Nat
  BY ConstantsOK
<1>3. OffsetsOK'
  <2>1. upto \in [Partitions -> Nat]
    BY DEF AllOffsets, Offsets
  <2>2. QED
    BY <1>1, <1>2, <2>1 DEF OffsetsOK
<1>4. MessageOK'
  BY DEF MessageOK
<1>5. StoresOK'
  BY DEF StoresOK
<1>6. HistoryOK'
  BY DEF HistoryOK
<1>7. LoopOK'
  BY DEF LoopOK, Busy, InFlight
<1>8. QED
  BY <1>3, <1>4, <1>5, <1>6, <1>7

LEMMA StartLoopInv ==
  ASSUME LoopInv, NEW p \in Partitions, StartMessage(p)
  PROVE  LoopInv'
<1> DEFINE e == Record(p)
           hits == evaluate_event(e)
<1> USE DEF StartMessage, process, stores
<1>1. next[p] < position[p]
  BY DEF Remaining, LoopInv, TypeOK, OffsetsOK
<1>2. StoresOK' /\ hush' \in SUBSET Keys
      /\ faults' \in 0 .. MaxFaults /\ calls' \in 0 .. MaxCalls
  BY DEF LoopInv, TypeOK, StoresOK, HistoryOK
<1>3. CASE paused \/ ~e.valid \/ hits = {}
  <2>1. Settle(p, {})
    BY <1>3
  <2>2. QED
    BY <1>1, <1>2, <2>1, SettleLoopInv
<1>4. CASE ~(paused \/ ~e.valid \/ hits = {})
  <2>1. /\ matched' = hits
        /\ owed' = {KeyOf(e, m) : m \in hits}
        /\ reading' = p
        /\ phase' = "check"
        /\ UNCHANGED <<next, offsets_to_commit, done>>
    BY <1>4
  <2>2. /\ hits \in SUBSET (Nat \X Rules)
        /\ \A m, n \in hits : m[1] = n[1] => m = n
    BY HitsType DEF LoopInv, TypeOK, MessageOK
  <2>3. owed' \in SUBSET Keys
    BY <1>1, <2>1, <2>2, RecordInHand DEF LoopInv, TypeOK
  <2> HIDE DEF hits
  <2> USE <2>1 DEF LoopInv, TypeOK
  <2>4. OffsetsOK'
    BY DEF OffsetsOK
  <2>5. MessageOK'
    BY <2>2 DEF MessageOK, Busy
  <2>6. HistoryOK'
    BY <2>3 DEF HistoryOK
  <2>7. LoopOK'
    BY <1>1, <2>2 DEF LoopOK, Busy, InFlight
  <2>8. QED
    BY <1>2, <2>4, <2>5, <2>6, <2>7
<1>5. QED
  BY <1>3, <1>4

LEMMA CheckLoopInv == LoopInv /\ CheckLock => LoopInv'
<1> SUFFICES ASSUME LoopInv, CheckLock PROVE LoopInv'
  OBVIOUS
<1> USE DEF CheckLock, process, stores
<1>1. StoresOK' /\ hush' \in SUBSET Keys
      /\ faults' \in 0 .. MaxFaults /\ calls' \in 0 .. MaxCalls
  BY DEF LoopInv, TypeOK, StoresOK, HistoryOK
<1>2. PICK m \in matched :
        /\ IsFirst(m)
        /\ IF redisUp /\ KeyOf(Record(reading), m) \in locks
           THEN NextRule(m)
           ELSE /\ phase' = "insert"
                /\ UNCHANGED <<next, reading, offsets_to_commit, done, matched,
                               owed>>
  OBVIOUS
<1>3. CASE NextRule(m)
  BY <1>1, <1>3, NextRuleLoopInv DEF Busy
<1>4. CASE /\ phase' = "insert"
           /\ UNCHANGED <<next, reading, offsets_to_commit, done, matched, owed>>
  <2> USE <1>4 DEF LoopInv, TypeOK
  <2>1. OffsetsOK'
    BY DEF OffsetsOK
  <2>2. MessageOK'
    BY DEF MessageOK, Busy
  <2>3. HistoryOK'
    BY DEF HistoryOK
  <2>4. LoopOK'
    BY DEF LoopOK, Busy, InFlight
  <2>5. QED
    BY <1>1, <2>1, <2>2, <2>3, <2>4
<1>5. QED
  BY <1>2, <1>3, <1>4

LEMMA InsertLoopInv == LoopInv /\ InsertAlert => LoopInv'
<1> SUFFICES ASSUME LoopInv, InsertAlert PROVE LoopInv'
  OBVIOUS
<1> USE DEF InsertAlert, LoopInv, TypeOK, consumer, message, process, history
<1>1. PICK m \in matched :
        /\ IsFirst(m)
        /\ mongo' = Append(mongo, NewAlert(KeyOf(Record(reading), m)))
        /\ hush' = hush \union {KeyOf(Record(reading), m)}
  OBVIOUS
<1> DEFINE k == KeyOf(Record(reading), m)
           d == NewAlert(k)
<1>2. reading \in Partitions /\ next[reading] < position[reading]
  BY DEF LoopOK, Busy
<1>3. k \in Keys
  BY <1>2, RecordInHand DEF MessageOK
<1>4. d \in Docs /\ d.key = k
  BY <1>3 DEF Docs, NewAlert
<1> HIDE DEF d
<1>5. /\ mongo' \in Seq(Docs)
      /\ Len(mongo') = Len(mongo) + 1
      /\ Len(mongo) \in Nat
      /\ mongo'[Len(mongo')] = d
  BY <1>1, <1>4, AppendProperties DEF StoresOK, d
<1>6. OffsetsOK'
  BY DEF OffsetsOK
<1>7. MessageOK'
  BY DEF MessageOK, Busy
<1>8. StoresOK'
  BY <1>5 DEF StoresOK
<1>9. HistoryOK'
  BY <1>1, <1>3 DEF HistoryOK
<1>10. AlertKey' = k /\ mongo' # <<>>
  BY <1>4, <1>5 DEF AlertKey, alert_id
<1>11. LoopOK'
  <2>1. \A n \in matched' : IsFirst(n)' => n = m
    BY <1>1 DEF IsFirst, LoopOK, MessageOK
  <2>2. KeyOf(Record(reading), m)' = k
    BY DEF KeyOf, Record
  <2>3. QED
    BY <1>2, <1>10, <2>1, <2>2 DEF LoopOK, Busy, InFlight
<1>12. QED
  BY <1>6, <1>7, <1>8, <1>9, <1>11

\* What the failed and the successful calls of the two stores leave behind.
LEMMA FaultType == TypeOK /\ Fault => faults' \in 0 .. MaxFaults
BY ConstantsOK DEF TypeOK, HistoryOK, Fault

LEMMA CallType == TypeOK /\ Call => calls' \in 0 .. MaxCalls
BY ConstantsOK DEF TypeOK, HistoryOK, Call

LEMMA InsertFailsLoopInv == LoopInv /\ InsertFails => LoopInv'
<1> SUFFICES ASSUME LoopInv, InsertFails PROVE LoopInv'
  OBVIOUS
<1>1. /\ hush' \in SUBSET Keys /\ calls' \in 0 .. MaxCalls
      /\ UNCHANGED <<rules, paused, redisUp, locks, exchange>>
  BY DEF InsertFails, LoopInv, TypeOK, HistoryOK, process
<1>2. mongo' \in Seq(Docs) /\ DOMAIN mongo \subseteq DOMAIN mongo'
  <2>1. CASE mongo' = mongo
    BY <2>1 DEF LoopInv, TypeOK, StoresOK
  <2>2. ASSUME NEW m \in matched,
               mongo' = Append(mongo, NewAlert(KeyOf(Record(reading), m)))
        PROVE  mongo' \in Seq(Docs) /\ DOMAIN mongo \subseteq DOMAIN mongo'
    <3>1. reading \in Partitions /\ next[reading] < position[reading]
      BY DEF InsertFails, LoopInv, LoopOK, Busy
    <3>2. NewAlert(KeyOf(Record(reading), m)) \in Docs
      BY <3>1, RecordInHand DEF LoopInv, TypeOK, MessageOK, NewAlert, Docs
    <3>. QED
      BY <2>2, <3>2, AppendProperties DEF LoopInv, TypeOK, StoresOK
  <2>. QED  BY <2>1, <2>2 DEF InsertFails
<1>3. StoresOK'
  BY <1>1, <1>2 DEF LoopInv, TypeOK, StoresOK
<1>4. QED
  BY <1>1, <1>3, FaultType, FailBatchLoopInv DEF InsertFails, LoopInv

\* The message in flight names a document that exists.
LEMMA ExchangeType ==
  ASSUME LoopInv, InFlight,
         UNCHANGED <<redisUp, locks, mongo>>,
         exchange' \in {exchange, Append(exchange, alert_id)}
  PROVE  StoresOK'
<1> USE DEF LoopInv, TypeOK, StoresOK
<1>1. alert_id \in Nat /\ alert_id \in DOMAIN mongo
  BY DEF LoopOK, alert_id
<1>2. CASE exchange' = exchange
  BY <1>2
<1>3. CASE exchange' = Append(exchange, alert_id)
  <2>1. exchange' \in Seq(Nat)
    BY <1>1, <1>3
  <2>2. \A i \in DOMAIN exchange' :
          exchange'[i] \in DOMAIN mongo
    BY <1>1, <1>3, AppendProperties
  <2>3. QED
    BY <2>1, <2>2
<1>4. QED
  BY <1>2, <1>3

LEMMA PublishLoopInv == LoopInv /\ PublishAlert => LoopInv'
<1> SUFFICES ASSUME LoopInv, PublishAlert PROVE LoopInv'
  OBVIOUS
<1> USE DEF PublishAlert, LoopInv, TypeOK, consumer, process, history
<1>1. StoresOK'
  BY ExchangeType DEF InFlight
<1>2. OffsetsOK'
  BY DEF OffsetsOK
<1>3. MessageOK'
  BY ConstantsOK DEF MessageOK, Busy
<1>4. HistoryOK'
  BY DEF HistoryOK
<1>5. LoopOK'
  BY DEF LoopOK, Busy, InFlight, AlertKey, alert_id, IsFirst, KeyOf, Record
<1>6. QED
  BY <1>1, <1>2, <1>3, <1>4, <1>5

LEMMA PublishFailsLoopInv == LoopInv /\ PublishFails => LoopInv'
<1> SUFFICES ASSUME LoopInv, PublishFails PROVE LoopInv'
  OBVIOUS
<1>1. StoresOK'
  BY ExchangeType DEF PublishFails, InFlight
<1>2. /\ UNCHANGED <<rules, paused>> /\ calls' \in 0 .. MaxCalls
      /\ faults' \in 0 .. MaxFaults
  BY FaultType DEF PublishFails, LoopInv, TypeOK, HistoryOK, process
<1>3. CASE attempt + 1 < PublishRetries
  <2> USE <1>3 DEF PublishFails, LoopInv, TypeOK, consumer, history
  <2>1. OffsetsOK'
    BY DEF OffsetsOK
  <2>2. MessageOK'
    BY <1>2, ConstantsOK DEF MessageOK
  <2>3. HistoryOK'
    BY <1>2 DEF HistoryOK
  <2>4. LoopOK'
    BY DEF LoopOK, Busy, InFlight, AlertKey, alert_id, IsFirst, KeyOf, Record
  <2>5. QED
    BY <1>1, <2>1, <2>2, <2>3, <2>4
<1>4. CASE ~(attempt + 1 < PublishRetries)
  <2>1. FailBatch /\ hush' \in SUBSET Keys
    BY <1>4 DEF PublishFails, LoopInv, TypeOK, HistoryOK
  <2>2. QED
    BY <1>1, <1>2, <2>1, FailBatchLoopInv
<1>5. QED
  BY <1>3, <1>4

LEMMA SetLockLoopInv == LoopInv /\ SetLock => LoopInv'
<1> SUFFICES ASSUME LoopInv, SetLock PROVE LoopInv'
  OBVIOUS
<1>1. AlertKey \in Keys
  <2>1. mongo \in Seq(Docs) /\ mongo # <<>>
    BY DEF SetLock, LoopInv, LoopOK, InFlight, TypeOK, StoresOK
  <2>2. mongo[Len(mongo)] \in Docs
    BY <2>1
  <2>3. QED
    BY <2>2 DEF AlertKey, alert_id, Docs
<1>2. locks' \in SUBSET Keys /\ hush' \in SUBSET Keys
  BY <1>1 DEF SetLock, AlertKey, LoopInv, TypeOK, StoresOK, HistoryOK
<1>3. StoresOK' /\ faults' \in 0 .. MaxFaults /\ calls' \in 0 .. MaxCalls
      /\ UNCHANGED <<rules, paused>>
  BY <1>2 DEF SetLock, LoopInv, TypeOK, StoresOK, HistoryOK, stores, process
<1>4. QED
  BY <1>2, <1>3, NextRuleLoopInv DEF SetLock, Busy

LEMMA CommitLoopInv == LoopInv /\ (Commit \/ CommitFails) => LoopInv'
<1> SUFFICES ASSUME LoopInv, Commit \/ CommitFails PROVE LoopInv'
  OBVIOUS
<1> USE DEF Commit, CommitFails, LoopInv, TypeOK, message, process, stores,
            history
<1>1. OffsetsOK'
  <2>1. CASE Commit
    <3>1. \A p \in Partitions :
            committed'[p] \in {committed[p], offsets_to_commit[p]}
      BY <2>1
    <3>2. committed' \in [Partitions -> Nat]
      BY <2>1 DEF OffsetsOK
    <3>3. QED
      BY <2>1, <3>1, <3>2 DEF OffsetsOK
  <2>2. CASE CommitFails
    BY <2>2 DEF OffsetsOK
  <2>3. QED
    BY <2>1, <2>2
<1>2. MessageOK'
  BY DEF MessageOK
<1>3. StoresOK'
  BY DEF StoresOK
<1>4. HistoryOK'
  BY FaultType DEF HistoryOK
<1>5. LoopOK'
  <2>1. \A p \in Partitions : next[p] = position[p]
    BY DEF LoopOK
  <2>2. QED
    BY <2>1 DEF LoopOK, Busy, InFlight
<1>6. QED
  BY <1>1, <1>2, <1>3, <1>4, <1>5

LEMMA CrashLoopInv == LoopInv /\ (Crash \/ Restart) => LoopInv'
<1> SUFFICES ASSUME LoopInv, Crash \/ Restart PROVE LoopInv'
  OBVIOUS
<1> USE DEF Crash, Restart, LoopInv, TypeOK, consumer, message, process, stores,
            history
<1>1. OffsetsOK'
  <2>1. CASE Restart
    BY <2>1 DEF OffsetsOK
  <2>2. CASE Crash
    <3>1. \A p \in Partitions : Len(Log[p]) \in Nat
      BY ConstantsOK
    <3>2. QED
      BY <2>2, <3>1 DEF OffsetsOK
  <2>3. QED
    BY <2>1, <2>2
<1>2. MessageOK'
  <2>1. attempt' \in 0 .. PublishRetries - 1
    BY ConstantsOK DEF MessageOK
  <2>2. rules' \in Seq(Rules) /\ paused' \in BOOLEAN
    BY ConstantsOK DEF MessageOK
  <2>3. phase' \in {"down", "poll"} /\ matched' \in SUBSET (Nat \X Rules)
    BY DEF MessageOK
  <2>4. reading' \in Partitions \union {None}
    BY DEF MessageOK
  <2>5. QED
    BY <2>1, <2>2, <2>3, <2>4 DEF MessageOK
<1>3. StoresOK'
  BY DEF StoresOK
<1>4. HistoryOK'
  BY FaultType DEF HistoryOK
<1>5. LoopOK'
  BY DEF LoopOK, Busy, InFlight
<1>6. QED
  BY <1>1, <1>2, <1>3, <1>4, <1>5

LEMMA OutageLoopInv ==
  LoopInv /\ (RedisFails \/ RedisRecovers \/ \E k \in locks : LockExpires(k))
  => LoopInv'
<1> SUFFICES ASSUME LoopInv,
                    RedisFails \/ RedisRecovers \/ \E k \in locks : LockExpires(k)
             PROVE  LoopInv'
  OBVIOUS
<1> USE DEF RedisFails, RedisRecovers, LockExpires, process, stores
<1>1. StoresOK'
  BY DEF LoopInv, TypeOK, StoresOK
<1>2. /\ hush' \in SUBSET Keys /\ faults' \in 0 .. MaxFaults
      /\ calls' \in 0 .. MaxCalls
  BY FaultType DEF LoopInv, TypeOK, HistoryOK
<1>3. rules' \in Seq(Rules) /\ mongo' = mongo
  BY DEF LoopInv, TypeOK, MessageOK
<1>4. QED
  BY <1>1, <1>2, <1>3, AsideLoopInv DEF AlertKey, alert_id

\* Acknowledging or resolving a document leaves every key where it is.
LEMMA UpdateKeepsKeys ==
  ASSUME mongo \in Seq(Docs), NEW i \in DOMAIN mongo,
         AcknowledgeAlert(i) \/ ResolveAlert(i)
  PROVE  /\ mongo' \in Seq(Docs)
         /\ Len(mongo') = Len(mongo)
         /\ \A j \in DOMAIN mongo : mongo'[j].key = mongo[j].key
<1>1. mongo[i] \in Docs
  OBVIOUS
<1>2. PICK d \in Docs : d.key = mongo[i].key /\ mongo' = [mongo EXCEPT ![i] = d]
  <2>1. CASE AcknowledgeAlert(i)
    <3> DEFINE d == [mongo[i] EXCEPT !.acknowledged = TRUE]
    <3>1. d \in Docs /\ d.key = mongo[i].key
      BY <1>1 DEF Docs
    <3>2. mongo' = [mongo EXCEPT ![i] = d]
      BY <2>1 DEF AcknowledgeAlert
    <3>3. QED
      BY <3>1, <3>2
  <2>2. CASE ResolveAlert(i)
    <3> DEFINE d == [mongo[i] EXCEPT !.acknowledged = TRUE, !.status = "RESOLVED"]
    <3>1. d \in Docs /\ d.key = mongo[i].key
      BY <1>1 DEF Docs
    <3>2. mongo' = [mongo EXCEPT ![i] = d]
      BY <2>2 DEF ResolveAlert
    <3>3. QED
      BY <3>1, <3>2
  <2>3. QED
    BY <2>1, <2>2
<1>3. QED
  BY <1>2, ExceptSeq

LEMMA EndpointLoopInv == LoopInv /\ Endpoint => LoopInv'
<1> SUFFICES ASSUME LoopInv, Endpoint PROVE LoopInv'
  OBVIOUS
<1>1. /\ rules \in Seq(Rules) /\ StoresOK /\ hush \in SUBSET Keys
      /\ faults \in 0 .. MaxFaults
  BY DEF LoopInv, TypeOK, MessageOK, HistoryOK
<1>2. ASSUME NEW b \in BOOLEAN, SetPaused(b) PROVE LoopInv'
  <2> USE <1>2 DEF SetPaused, LoopInv, TypeOK, consumer, message, stores, history
  <2>1. OffsetsOK'
    BY DEF OffsetsOK
  <2>2. MessageOK'
    BY DEF MessageOK
  <2>3. StoresOK'
    BY DEF StoresOK
  <2>4. HistoryOK'
    BY CallType DEF HistoryOK
  <2>5. LoopOK'
    BY DEF LoopOK, InFlight, AlertKey, alert_id, IsFirst, KeyOf, Record
  <2>6. QED
    BY <2>1, <2>2, <2>3, <2>4, <2>5
<1>3. ASSUME NEW r \in RuleEdits, UpsertRule(r) PROVE LoopInv'
  <2>1. r \in Rules
    BY DEF Rules
  <2>2. rules' \in Seq(Rules)
    BY <1>1, <1>3, <2>1 DEF UpsertRule
  <2>3. StoresOK'
    BY <1>1, <1>3 DEF UpsertRule, StoresOK, stores
  <2>4. QED
    BY <1>1, <1>3, <2>2, <2>3, CallType, AsideLoopInv
       DEF UpsertRule, LoopInv, stores, AlertKey, alert_id
<1>4. ASSUME NEW i \in DOMAIN rules, DeleteRule(i) PROVE LoopInv'
  <2>1. rules' \in Seq(Rules)
    BY <1>1, <1>4, RemoveType DEF DeleteRule
  <2>2. StoresOK'
    BY <1>1, <1>4 DEF DeleteRule, StoresOK, stores
  <2>3. QED
    BY <1>1, <1>4, <2>1, <2>2, CallType, AsideLoopInv
       DEF DeleteRule, LoopInv, stores, AlertKey, alert_id
<1>5. ASSUME NEW i \in DOMAIN mongo, AcknowledgeAlert(i) \/ ResolveAlert(i)
      PROVE  LoopInv'
  <2>1. mongo \in Seq(Docs)
    BY <1>1 DEF StoresOK
  <2>2. /\ mongo' \in Seq(Docs)
        /\ Len(mongo') = Len(mongo)
        /\ \A j \in DOMAIN mongo : mongo'[j].key = mongo[j].key
    BY <1>5, <2>1, UpdateKeepsKeys
  <2>3. /\ UNCHANGED <<phase, consumer, message, process, redisUp, locks,
                       exchange, history, hush, faults>>
        /\ calls' \in 0 .. MaxCalls
    BY <1>5, CallType DEF AcknowledgeAlert, ResolveAlert, LoopInv
  <2>4. StoresOK'
    BY <1>1, <2>2, <2>3 DEF StoresOK
  <2>5. mongo # <<>> => mongo' # <<>> /\ AlertKey' = AlertKey
    BY <2>1, <2>2 DEF AlertKey, alert_id
  <2>6. QED
    BY <1>1, <2>3, <2>4, <2>5, AsideLoopInv DEF process
<1>6. QED
  BY <1>2, <1>3, <1>4, <1>5 DEF Endpoint

LEMMA LoopInvNext == LoopInv /\ [Next]_vars => LoopInv'
<1> SUFFICES ASSUME LoopInv, [Next]_vars PROVE LoopInv'
  OBVIOUS
<1>1. CASE Loop
  BY <1>1, PollLoopInv, StartLoopInv, CheckLoopInv, InsertLoopInv,
     PublishLoopInv, SetLockLoopInv, CommitLoopInv DEF Loop
<1>2. CASE Restart \/ Crash
  BY <1>2, CrashLoopInv
<1>3. CASE UNCHANGED vars
  <2> USE <1>3 DEF vars, consumer, message, process, stores, history, LoopInv,
               TypeOK
  <2>1. OffsetsOK'
    BY DEF OffsetsOK
  <2>2. MessageOK'
    BY DEF MessageOK
  <2>3. StoresOK'
    BY DEF StoresOK
  <2>4. HistoryOK'
    BY DEF HistoryOK
  <2>5. LoopOK'
    BY DEF LoopOK, InFlight, AlertKey, alert_id, IsFirst, KeyOf, Record
  <2>6. QED
    BY <2>1, <2>2, <2>3, <2>4, <2>5
<1>4. CASE Environment
  BY <1>2, <1>3, <1>4, InsertFailsLoopInv, PublishFailsLoopInv, CommitLoopInv,
     OutageLoopInv DEF Environment, PollEmpty
<1>5. CASE Endpoint
  BY <1>5, EndpointLoopInv
<1>6. QED
  BY <1>1, <1>2, <1>3, <1>4, <1>5 DEF Next

\* In every reachable state, for every instance: the types, the order of the
\* offsets (nothing is committed that was not handled or dropped, nothing
\* handled that was not fetched), and documents behind every message sent.
THEOREM TypeCorrect == Spec => []TypeOK
<1>1. Init => LoopInv
  BY LoopInvInit
<1>2. LoopInv /\ [Next]_vars => LoopInv'
  BY LoopInvNext
<1>3. LoopInv => TypeOK
  BY DEF LoopInv
<1>4. QED
  BY <1>1, <1>2, <1>3, PTL DEF Spec

------------------------------------------------------------------------------
(* What is committed has been settled.                                     *)

\* The four ways a step can treat the records it is responsible for.
LEMMA RecordSteps ==
  ASSUME LoopInv, [Next]_vars
  PROVE  \/ UNCHANGED <<next, done, abandoned>>
         \/ \E p \in Partitions, keys \in SUBSET Keys :
              next[p] < position[p] /\ Settle(p, keys) /\ UNCHANGED abandoned
         \/ FailBatch
         \/ Crash
<1> USE DEF consumer, message, history
<1>1. ASSUME phase \in Busy, NEW m \in matched, NextRule(m), UNCHANGED abandoned
      PROVE  \/ UNCHANGED <<next, done, abandoned>>
             \/ \E p \in Partitions, keys \in SUBSET Keys :
                  next[p] < position[p] /\ Settle(p, keys) /\ UNCHANGED abandoned
  <2>1. /\ reading \in Partitions /\ next[reading] < position[reading]
        /\ owed \in SUBSET Keys
    BY <1>1 DEF LoopInv, LoopOK, TypeOK, HistoryOK
  <2>2. CASE matched = {m}
    BY <1>1, <2>1, <2>2 DEF NextRule
  <2>3. CASE matched # {m}
    BY <1>1, <2>3 DEF NextRule
  <2>4. QED
    BY <2>2, <2>3
<1>2. ASSUME NEW p \in Partitions, StartMessage(p)
      PROVE  \/ UNCHANGED <<next, done, abandoned>>
             \/ next[p] < position[p] /\ Settle(p, {}) /\ UNCHANGED abandoned
  <2>1. next[p] < position[p]
    BY <1>2 DEF StartMessage, Remaining, LoopInv, TypeOK, OffsetsOK
  <2>2. QED
    BY <1>2, <2>1 DEF StartMessage
<1>3. CASE Loop
  <2>1. CASE CheckLock
    <3>1. UNCHANGED abandoned
      BY <2>1 DEF CheckLock
    <3>2. \/ UNCHANGED <<next, done>>
          \/ \E m \in matched : NextRule(m)
      BY <2>1 DEF CheckLock
    <3>3. QED
      BY <1>1, <2>1, <3>1, <3>2 DEF CheckLock, Busy
  <2>2. CASE SetLock
    BY <1>1, <2>2 DEF SetLock, Busy
  <2>3. CASE \E p \in Partitions : StartMessage(p)
    BY <1>2, <2>3
  <2>4. CASE Poll \/ InsertAlert \/ PublishAlert \/ Commit
    BY <2>4 DEF Poll, InsertAlert, PublishAlert, Commit
  <2>5. QED
    BY <1>3, <2>1, <2>2, <2>3, <2>4 DEF Loop
<1>4. CASE Environment
  BY <1>4 DEF Environment, PollEmpty, vars, InsertFails, PublishFails,
     CommitFails, RedisFails, RedisRecovers, LockExpires
<1>5. CASE Endpoint
  BY <1>5 DEF Endpoint, SetPaused, UpsertRule, DeleteRule, AcknowledgeAlert,
     ResolveAlert
<1>6. CASE Restart \/ UNCHANGED vars
  BY <1>6 DEF Restart, vars
<1>7. QED
  BY <1>3, <1>4, <1>5, <1>6 DEF Next

LEMMA SettledNext == LoopInv /\ SettledOK /\ [Next]_vars => SettledOK'
<1> SUFFICES ASSUME LoopInv, SettledOK, [Next]_vars,
                    NEW p \in Partitions, NEW o \in Offsets(p), o < next'[p]
             PROVE  Handled(p, o)' \/ <<p, o>> \in abandoned'
  BY DEF SettledOK, Offsets
<1>1. /\ next \in [Partitions -> Nat] /\ committed[p] <= next[p]
      /\ next[p] \in Nat /\ committed[p] \in Nat /\ position[p] \in Nat
      /\ o \in Nat /\ o \in AllOffsets
  BY DEF LoopInv, TypeOK, OffsetsOK, Offsets, AllOffsets
<1>2. o < next[p] => Handled(p, o) \/ <<p, o>> \in abandoned
  BY DEF SettledOK
<1>3. CASE UNCHANGED <<next, done, abandoned>>
  BY <1>2, <1>3 DEF Handled
<1>4. ASSUME NEW q \in Partitions, NEW keys \in SUBSET Keys,
             Settle(q, keys), UNCHANGED abandoned
      PROVE  Handled(p, o)' \/ <<p, o>> \in abandoned'
  <2>1. done' = done \union {<<q, next[q], keys>>}
        /\ next' = [next EXCEPT ![q] = @ + 1]
    BY <1>4 DEF Settle
  <2>2. CASE o < next[p]
    BY <1>2, <1>4, <2>1, <2>2 DEF Handled
  <2>3. CASE ~(o < next[p])
    <3>1. p = q /\ o = next[q]
      BY <1>1, <2>1, <2>3
    <3>2. <<q, next[q], keys>> \in done'
      BY <2>1
    <3>3. QED
      BY <3>1, <3>2 DEF Handled
  <2>4. QED
    BY <2>2, <2>3
<1>5. CASE FailBatch
  <2>1. /\ abandoned' = abandoned \union
             {x \in Partitions \X AllOffsets :
                next[x[1]] <= x[2] /\ x[2] < position[x[1]]}
        /\ next' = position /\ done' = done
    BY <1>5 DEF FailBatch
  <2>2. CASE o < next[p]
    BY <1>2, <2>1, <2>2 DEF Handled
  <2>3. CASE ~(o < next[p])
    BY <1>1, <2>1, <2>3
  <2>4. QED
    BY <2>2, <2>3
<1>6. CASE Crash
  <2>1. o < next[p]
    BY <1>1, <1>6 DEF Crash
  <2>2. QED
    BY <1>2, <1>6, <2>1 DEF Crash, history, Handled
<1>7. \/ UNCHANGED <<next, done, abandoned>>
      \/ \E q \in Partitions, keys \in SUBSET Keys :
           Settle(q, keys) /\ UNCHANGED abandoned
      \/ FailBatch
      \/ Crash
  BY RecordSteps
<1>8. QED
  BY <1>3, <1>4, <1>5, <1>6, <1>7

\* Whatever crashes, failed writes, failed publishes and failed commits
\* consume_batches goes through, the offsets it commits to Kafka cover only
\* records its callback returned from and records a failed batch dropped.
THEOREM CommitsOnlySettled == Spec => []CommittedAreSettled
<1>1. Init => LoopInv /\ SettledOK
  BY LoopInvInit, ConstantsOK DEF Init, SettledOK, Offsets
<1>2. LoopInv /\ SettledOK /\ [Next]_vars => LoopInv' /\ SettledOK'
  BY LoopInvNext, SettledNext
<1>3. LoopInv /\ SettledOK => CommittedAreSettled
  BY DEF LoopInv, TypeOK, OffsetsOK, SettledOK, CommittedAreSettled, Offsets
<1>4. QED
  BY <1>1, <1>2, <1>3, PTL DEF Spec

------------------------------------------------------------------------------
(* What is handled has been reported.                                      *)

\* No step takes a document away or changes its key, and the exchange only
\* gains the alert in flight.
LEMMA StoreSteps ==
  ASSUME LoopInv, [Next]_vars
  PROVE  /\ \A j \in DOMAIN mongo :
              j \in DOMAIN mongo' /\ mongo'[j].key = mongo[j].key
         /\ \/ exchange' = exchange
            \/ exchange' = Append(exchange, alert_id)
<1>1. mongo \in Seq(Docs)
  BY DEF LoopInv, TypeOK, StoresOK
<1>2. CASE InsertAlert
  <2>1. exchange' = exchange
    BY <1>2 DEF InsertAlert
  <2>2. PICK d : mongo' = Append(mongo, d)
    BY <1>2 DEF InsertAlert
  <2>3. QED
    BY <1>1, <2>1, <2>2
<1>8. CASE InsertFails
  <2>1. exchange' = exchange /\ (mongo' = mongo \/ \E d : mongo' = Append(mongo, d))
    BY <1>8 DEF InsertFails
  <2>2. CASE mongo' = mongo
    BY <2>1, <2>2
  <2>3. CASE \E d : mongo' = Append(mongo, d)
    BY <1>1, <2>1, <2>3
  <2>. QED  BY <2>1, <2>2, <2>3
<1>3. CASE Loop /\ ~InsertAlert
  BY <1>3 DEF Loop, Poll, StartMessage, CheckLock, PublishAlert, SetLock,
     Commit, stores
<1>4. CASE Environment /\ ~InsertFails
  BY <1>4 DEF Environment, PollEmpty, vars, stores, PublishFails, CommitFails,
     Crash, RedisFails, RedisRecovers, LockExpires
<1>5. CASE Endpoint
  <2>1. CASE \E i \in DOMAIN mongo : AcknowledgeAlert(i) \/ ResolveAlert(i)
    <3>1. PICK i \in DOMAIN mongo : AcknowledgeAlert(i) \/ ResolveAlert(i)
      BY <2>1
    <3>2. exchange' = exchange
      BY <3>1 DEF AcknowledgeAlert, ResolveAlert
    <3>3. QED
      BY <1>1, <3>1, <3>2, UpdateKeepsKeys
  <2>2. CASE ~\E i \in DOMAIN mongo : AcknowledgeAlert(i) \/ ResolveAlert(i)
    BY <1>5, <2>2 DEF Endpoint, SetPaused, UpsertRule, DeleteRule, stores
  <2>3. QED
    BY <2>1, <2>2
<1>6. CASE Restart \/ UNCHANGED vars
  BY <1>6 DEF Restart, vars, stores
<1>7. QED
  BY <1>2, <1>3, <1>4, <1>5, <1>6, <1>8 DEF Next

\* So an entity and rule, once reported, stay reported.
LEMMA ReportedStays ==
  ASSUME LoopInv, [Next]_vars, NEW k, Reported(k)
  PROVE  Reported(k)'
<1>1. PICK i \in DOMAIN exchange : mongo[exchange[i]].key = k
  BY DEF Reported
<1>2. exchange \in Seq(Nat) /\ exchange[i] \in DOMAIN mongo
  BY DEF LoopInv, TypeOK, StoresOK
<1>3. mongo'[exchange[i]].key = k
  BY <1>1, <1>2, StoreSteps
<1>4. i \in DOMAIN exchange' /\ exchange'[i] = exchange[i]
  <2>1. CASE exchange' = exchange
    BY <2>1
  <2>2. CASE exchange' = Append(exchange, alert_id)
    BY <1>2, <2>2, AppendProperties
  <2>3. QED
    BY <2>1, <2>2, StoreSteps
<1>5. QED
  BY <1>3, <1>4 DEF Reported

\* Steps that do not touch the message in hand.
LEMMA ReportedAside ==
  ASSUME LoopInv, ReportedOK, [Next]_vars,
         UNCHANGED <<next, reading, matched, owed, done>>,
         locks' \subseteq locks,
         phase' = "lock" => phase = "lock" /\ AlertKey' = AlertKey
  PROVE  ReportedOK'
<1>1. \A k : Reported(k) => Reported(k)'
  BY ReportedStays
<1>2. (\A k \in locks : Reported(k))'
  BY <1>1 DEF ReportedOK
<1>3. \A m : KeyOf(Record(reading), m)' = KeyOf(Record(reading), m)
  BY DEF KeyOf, Record
<1>4. (\A k \in owed : \/ Reported(k)
                       \/ \E m \in matched : k = KeyOf(Record(reading), m))'
  BY <1>1, <1>3 DEF ReportedOK
<1>5. (phase = "lock" => Reported(AlertKey))'
  BY <1>1 DEF ReportedOK
<1>6. HandledIsReported'
  BY <1>1 DEF ReportedOK, HandledIsReported
<1>7. QED
  BY <1>2, <1>4, <1>5, <1>6 DEF ReportedOK

\* Steps that drop the message in hand.
LEMMA ReportedDrop ==
  ASSUME LoopInv, ReportedOK, [Next]_vars, owed' = {}, done' = done,
         locks' \subseteq locks, phase' # "lock"
  PROVE  ReportedOK'
<1>1. \A k : Reported(k) => Reported(k)'
  BY ReportedStays
<1>2. QED
  BY <1>1 DEF ReportedOK, HandledIsReported

\* The loop leaves a matched rule behind only when its key is reported.
LEMMA ReportedNextRule ==
  ASSUME LoopInv, ReportedOK, [Next]_vars, phase \in Busy,
         NEW m \in matched, NextRule(m), Reported(KeyOf(Record(reading), m)),
         \A k \in locks' : Reported(k)
  PROVE  ReportedOK'
<1>1. \A k : Reported(k) => Reported(k)'
  BY ReportedStays
<1>2. (\A k \in locks : Reported(k))'
  BY <1>1
<1>3. CASE matched = {m}
  <2>1. Settle(reading, owed)
    BY <1>3 DEF NextRule
  <2>2. \A k \in owed : Reported(k)
    BY <1>3 DEF ReportedOK
  <2>3. done' = done \union {<<reading, next[reading], owed>>}
        /\ owed' = {} /\ phase' # "lock"
    BY <2>1 DEF Settle
  <2>4. HandledIsReported'
    BY <1>1, <2>2, <2>3 DEF ReportedOK, HandledIsReported
  <2>5. QED
    BY <1>2, <2>3, <2>4 DEF ReportedOK
<1>4. CASE matched # {m}
  <2>1. /\ matched' = matched \ {m}
        /\ phase' = "check"
        /\ UNCHANGED <<next, reading, offsets_to_commit, done, owed>>
    BY <1>4 DEF NextRule
  <2>2. \A n : KeyOf(Record(reading), n)' = KeyOf(Record(reading), n)
    BY <2>1 DEF KeyOf, Record
  <2>3. (\A k \in owed : \/ Reported(k)
                         \/ \E n \in matched : k = KeyOf(Record(reading), n))'
    BY <1>1, <2>1, <2>2 DEF ReportedOK
  <2>4. HandledIsReported'
    BY <1>1, <2>1 DEF ReportedOK, HandledIsReported
  <2>5. QED
    BY <1>2, <2>1, <2>3, <2>4 DEF ReportedOK
<1>5. QED
  BY <1>3, <1>4

LEMMA ReportedNext == LoopInv /\ ReportedOK /\ [Next]_vars => ReportedOK'
<1> SUFFICES ASSUME LoopInv, ReportedOK, [Next]_vars PROVE ReportedOK'
  OBVIOUS
<1> USE DEF consumer, message, process, history, stores
<1>1. ASSUME NEW p \in Partitions, StartMessage(p) PROVE ReportedOK'
  <2> DEFINE hits == evaluate_event(Record(p))
  <2>1. locks' = locks
    BY <1>1 DEF StartMessage
  <2>2. \A k : Reported(k) => Reported(k)'
    BY ReportedStays
  <2>3. (\A k \in locks : Reported(k))'
    BY <2>1, <2>2 DEF ReportedOK
  <2>4. CASE Settle(p, {})
    <3>1. done' = done \union {<<p, next[p], {}>>} /\ owed' = {}
          /\ phase' # "lock"
      BY <2>4 DEF Settle
    <3>2. HandledIsReported'
      BY <2>2, <3>1 DEF ReportedOK, HandledIsReported
    <3>3. QED
      BY <2>3, <3>1, <3>2 DEF ReportedOK
  <2>5. CASE /\ matched' = hits
             /\ owed' = {KeyOf(Record(p), m) : m \in hits}
             /\ reading' = p
             /\ phase' = "check"
             /\ UNCHANGED <<next, offsets_to_commit, done>>
    <3>1. \A m : KeyOf(Record(reading), m)' = KeyOf(Record(p), m)
      BY <2>5 DEF KeyOf, Record
    <3> HIDE DEF hits
    <3>2. (\A k \in owed : \E m \in matched : k = KeyOf(Record(reading), m))'
      BY <2>5, <3>1
    <3>3. HandledIsReported'
      BY <2>2, <2>5 DEF ReportedOK, HandledIsReported
    <3>4. QED
      BY <2>3, <2>5, <3>2, <3>3 DEF ReportedOK
  <2>6. QED
    BY <1>1, <2>4, <2>5 DEF StartMessage
<1>2. CASE CheckLock
  <2>1. PICK m \in matched :
          /\ IsFirst(m)
          /\ IF redisUp /\ KeyOf(Record(reading), m) \in locks
             THEN NextRule(m)
             ELSE /\ phase' = "insert"
                  /\ UNCHANGED <<next, reading, offsets_to_commit, done,
                                 matched, owed>>
    BY <1>2 DEF CheckLock
  <2>2. locks' = locks /\ phase \in Busy
    BY <1>2 DEF CheckLock, Busy
  <2>3. CASE redisUp /\ KeyOf(Record(reading), m) \in locks
    <3>1. Reported(KeyOf(Record(reading), m)) /\ \A k \in locks' : Reported(k)
      BY <2>2, <2>3 DEF ReportedOK
    <3>2. QED
      BY <2>1, <2>2, <2>3, <3>1, ReportedNextRule
  <2>4. CASE ~(redisUp /\ KeyOf(Record(reading), m) \in locks)
    BY <2>1, <2>2, <2>4, ReportedAside
  <2>5. QED
    BY <2>3, <2>4
<1>3. CASE PublishAlert
  <2>1. mongo' = mongo /\ exchange' = Append(exchange, alert_id)
        /\ exchange \in Seq(Nat) /\ alert_id \in Nat
    BY <1>3 DEF PublishAlert, LoopInv, TypeOK, StoresOK, alert_id
  <2>2. Len(exchange) + 1 \in DOMAIN exchange'
        /\ exchange'[Len(exchange) + 1] = alert_id
    BY <2>1, AppendProperties
  <2>3. Reported(AlertKey)'
    BY <2>1, <2>2 DEF Reported, AlertKey, alert_id
  <2>4. UNCHANGED <<next, reading, matched, owed, done, locks>>
    BY <1>3 DEF PublishAlert
  <2>5. \A k : Reported(k) => Reported(k)'
    BY ReportedStays
  <2>6. \A m : KeyOf(Record(reading), m)' = KeyOf(Record(reading), m)
    BY <2>4 DEF KeyOf, Record
  <2>7. (\A k \in owed : \/ Reported(k)
                         \/ \E m \in matched : k = KeyOf(Record(reading), m))'
    BY <2>4, <2>5, <2>6 DEF ReportedOK
  <2>8. HandledIsReported'
    BY <2>4, <2>5 DEF ReportedOK, HandledIsReported
  <2>9. QED
    BY <2>3, <2>4, <2>5, <2>7, <2>8 DEF ReportedOK
<1>4. CASE SetLock
  <2>1. PICK m \in matched : IsFirst(m) /\ NextRule(m)
    BY <1>4 DEF SetLock
  <2>2. phase \in Busy /\ phase = "lock" /\ locks' \subseteq locks \union {AlertKey}
    BY <1>4 DEF SetLock, Busy, AlertKey
  <2>3. Reported(AlertKey) /\ AlertKey = KeyOf(Record(reading), m)
    BY <2>1, <2>2 DEF ReportedOK, LoopInv, LoopOK, InFlight
  <2>4. \A k \in locks' : Reported(k)
    BY <2>2, <2>3 DEF ReportedOK
  <2>5. QED
    BY <2>1, <2>2, <2>3, <2>4, ReportedNextRule
<1>5. CASE Poll \/ InsertAlert \/ Commit
  <2>1. UNCHANGED <<next, reading, matched, owed, done, locks>>
        /\ phase' # "lock"
    BY <1>5 DEF Poll, InsertAlert, Commit
  <2>2. QED
    BY <2>1, ReportedAside
<1>6. CASE InsertFails \/ Crash
  BY <1>6, ReportedDrop DEF InsertFails, FailBatch, Crash
<1>7. CASE PublishFails
  <2>1. locks' = locks /\ mongo' = mongo /\ phase = "publish"
    BY <1>7 DEF PublishFails
  <2>2. CASE attempt + 1 < PublishRetries
    <3>1. UNCHANGED <<phase, next, reading, matched, owed, done>>
      BY <1>7, <2>2 DEF PublishFails
    <3>2. QED
      BY <2>1, <3>1, ReportedAside
  <2>3. CASE ~(attempt + 1 < PublishRetries)
    BY <1>7, <2>1, <2>3, ReportedDrop DEF PublishFails, FailBatch
  <2>4. QED
    BY <2>2, <2>3
<1>8. CASE \/ PollEmpty \/ CommitFails \/ RedisFails \/ RedisRecovers
           \/ (\E k \in locks : LockExpires(k)) \/ Restart \/ UNCHANGED vars
  <2>1. /\ UNCHANGED <<next, reading, matched, owed, done, mongo>>
        /\ locks' \subseteq locks
        /\ phase' = "lock" => phase = "lock"
    BY <1>8 DEF PollEmpty, CommitFails, RedisFails, RedisRecovers, LockExpires,
                Restart, vars
  <2>2. AlertKey' = AlertKey
    BY <2>1 DEF AlertKey, alert_id
  <2>3. QED
    BY <2>1, <2>2, ReportedAside
<1>9. CASE Endpoint
  <2>1. UNCHANGED <<phase, next, reading, matched, owed, done, locks>>
    BY <1>9 DEF Endpoint, SetPaused, UpsertRule, DeleteRule, AcknowledgeAlert,
       ResolveAlert
  <2>2. CASE mongo' = mongo
    BY <2>1, <2>2, ReportedAside DEF AlertKey, alert_id
  <2>3. ASSUME NEW i \in DOMAIN mongo, AcknowledgeAlert(i) \/ ResolveAlert(i)
        PROVE  ReportedOK'
    <3>1. mongo \in Seq(Docs)
      BY DEF LoopInv, TypeOK, StoresOK
    <3>2. AlertKey' = AlertKey
      BY <2>3, <3>1, UpdateKeepsKeys DEF AlertKey, alert_id
    <3>3. QED
      BY <2>1, <3>2, ReportedAside
  <2>4. mongo' = mongo \/ \E i \in DOMAIN mongo : AcknowledgeAlert(i) \/ ResolveAlert(i)
    BY <1>9 DEF Endpoint, SetPaused, UpsertRule, DeleteRule
  <2>5. QED
    BY <2>2, <2>3, <2>4
<1>10. QED
  BY <1>1, <1>2, <1>3, <1>4, <1>5, <1>6, <1>7, <1>8, <1>9
     DEF Next, Loop, Environment

\* A record that is handled leaves no threshold crossing unreported, and so a
\* suppression lock never silences an entity nobody was told about, through any
\* number of failed inserts and publishes, lost locks and crashes between the
\* insert, the publish and the lock of _handle_metric_event.
THEOREM NothingSilenced == Spec => []HandledIsReported
<1>1. Init => LoopInv /\ ReportedOK
  <2>1. Init => ReportedOK
    BY DEF Init, ReportedOK, HandledIsReported
  <2>2. QED
    BY <2>1, LoopInvInit
<1>2. LoopInv /\ ReportedOK /\ [Next]_vars => LoopInv' /\ ReportedOK'
  BY LoopInvNext, ReportedNext
<1>3. ReportedOK => HandledIsReported
  BY DEF ReportedOK
<1>4. QED
  BY <1>1, <1>2, <1>3, PTL DEF Spec

------------------------------------------------------------------------------
(* The engine implements the abstract ledger.                              *)

\* An alert reaches the exchange in a step of its own, and is announced by it.
LEMMA AnnounceStep ==
  ASSUME LoopInv, InFlight, mongo' = mongo,
         exchange' = Append(exchange, alert_id)
  PROVE  Ledger!Announce
<1>1. /\ exchange \in Seq(Nat) /\ alert_id \in DOMAIN mongo /\ alert_id \in Nat
  BY DEF LoopInv, LoopOK, TypeOK, StoresOK, alert_id
<1>2. /\ Len(exchange') = Len(exchange) + 1
      /\ exchange'[Len(exchange) + 1] = alert_id
      /\ \A i \in 1 .. Len(exchange) : exchange'[i] = exchange[i]
      /\ exchange' \in Seq(Nat)
  BY <1>1, AppendProperties
<1>3. Range(exchange') = Range(exchange) \union {alert_id}
  <2>1. DOMAIN exchange = 1 .. Len(exchange) /\ Len(exchange) \in Nat
    BY <1>1
  <2>2. DOMAIN exchange' = DOMAIN exchange \union {Len(exchange) + 1}
    BY <1>2, <2>1
  <2>3. QED
    BY <1>2, <2>1, <2>2 DEF Range
<1>4. QED
  BY <1>1, <1>3 DEF Ledger!Announce

LEMMA LedgerStep ==
  ASSUME LoopInv, LoopInv', [Next]_vars
  PROVE  [Ledger!Next]_(Ledger!vars)
<1> USE DEF consumer, message, process, history, stores
<1>1. CASE InsertAlert \/ (InsertFails /\ mongo' # mongo)
  <2>1. PICK m \in matched :
          /\ IsFirst(m)
          /\ mongo' = Append(mongo, NewAlert(KeyOf(Record(reading), m)))
    BY <1>1 DEF InsertAlert, InsertFails
  <2>2. KeyOf(Record(reading), m) \in Keys
    BY <1>1, <2>1, RecordInHand
       DEF InsertAlert, InsertFails, LoopInv, LoopOK, TypeOK, MessageOK, Busy
  <2>3. exchange' = exchange
    BY <1>1 DEF InsertAlert, InsertFails
  <2>4. Ledger!Record
    BY <2>1, <2>2, <2>3 DEF Ledger!Record, Ledger!NewAlert, NewAlert
  <2>5. QED
    BY <2>4 DEF Ledger!Next
<1>2. CASE PublishAlert \/ PublishFails
  <2>1. /\ mongo' = mongo /\ InFlight
        /\ exchange' = exchange \/ exchange' = Append(exchange, alert_id)
    BY <1>2 DEF PublishAlert, PublishFails, InFlight
  <2>2. QED
    BY <2>1, AnnounceStep DEF Ledger!Next, Ledger!vars
<1>3. CASE \E i \in DOMAIN mongo : AcknowledgeAlert(i)
  <2>1. PICK i \in DOMAIN mongo : AcknowledgeAlert(i)
    BY <1>3
  <2>2. Ledger!Acknowledge
    BY <2>1 DEF AcknowledgeAlert, Ledger!Acknowledge
  <2>3. QED
    BY <2>2 DEF Ledger!Next
<1>4. CASE \E i \in DOMAIN mongo : ResolveAlert(i)
  <2>1. PICK i \in DOMAIN mongo : ResolveAlert(i)
    BY <1>4
  <2>2. Ledger!Resolve
    BY <2>1 DEF ResolveAlert, Ledger!Resolve
  <2>3. QED
    BY <2>2 DEF Ledger!Next
<1>5. CASE UNCHANGED stores
  BY <1>5 DEF Ledger!vars
<1>6. CASE Loop
  <2>1. \/ InsertAlert \/ PublishAlert \/ UNCHANGED stores
    BY <1>6 DEF Loop, Poll, StartMessage, CheckLock, SetLock, Commit
  <2>2. QED
    BY <1>1, <1>2, <1>5, <2>1
<1>7. CASE Environment
  <2>1. PublishFails \/ (InsertFails /\ mongo' # mongo) \/ UNCHANGED stores
    BY <1>7 DEF Environment, PollEmpty, vars, InsertFails, CommitFails, Crash,
       RedisFails, RedisRecovers, LockExpires
  <2>2. QED
    BY <1>1, <1>2, <1>5, <2>1
<1>8. CASE Endpoint
  <2>1. \/ \E i \in DOMAIN mongo : AcknowledgeAlert(i)
        \/ \E i \in DOMAIN mongo : ResolveAlert(i)
        \/ UNCHANGED stores
    BY <1>8 DEF Endpoint, SetPaused, UpsertRule, DeleteRule
  <2>2. QED
    BY <1>3, <1>4, <1>5, <2>1
<1>9. CASE Restart \/ UNCHANGED vars
  BY <1>5, <1>9 DEF Restart, vars
<1>10. QED
  BY <1>6, <1>7, <1>8, <1>9 DEF Next

\* The engine implements AlertLedger: the history only grows and only moves
\* from ACTIVE to RESOLVED, and the exchange carries no alert that is not in it.
THEOREM ImplementsLedger == Spec => LedgerSpec
<1>1. Init => LoopInv /\ Ledger!Init
  <2>1. Init => Ledger!Init
    BY DEF Init, Ledger!Init, Range
  <2>2. QED
    BY <2>1, LoopInvInit
<1>2. LoopInv /\ [Next]_vars => LoopInv'
  BY LoopInvNext
<1>3. LoopInv /\ LoopInv' /\ [Next]_vars => [Ledger!Next]_(Ledger!vars)
  BY LedgerStep
<1>4. QED
  BY <1>1, <1>2, <1>3, PTL DEF Spec, LedgerSpec, Ledger!Spec

------------------------------------------------------------------------------
(* No alert storm.                                                         *)

\* Steps that start and end with no alert in flight.
LEMMA HushQuiet ==
  ASSUME HushOK, ~InFlight, hush' \subseteq hush, hush' \subseteq locks',
         ~redisUp' => hush' = {}, phase' # "insert"
  PROVE  HushOK'
BY DEF HushOK

\* Steps that leave the message in hand where it is.
LEMMA HushAside ==
  ASSUME HushOK, UNCHANGED <<next, reading, matched>>,
         hush' \subseteq hush, \A k \in hush' \intersect locks : k \in locks',
         redisUp' = redisUp \/ redisUp' \/ hush' = {},
         InFlight => InFlight' /\ AlertKey' = AlertKey,
         phase' = "insert" => phase = "insert"
  PROVE  HushOK'
<1>1. (\A k \in hush : k \in locks \/ (InFlight /\ k = AlertKey))'
  BY DEF HushOK
<1>2. (~redisUp => \A k \in hush : InFlight /\ k = AlertKey)'
  BY DEF HushOK
<1>3. \A m : KeyOf(Record(reading), m)' = KeyOf(Record(reading), m)
             /\ IsFirst(m)' = IsFirst(m)
  BY DEF KeyOf, Record, IsFirst
<1>4. (phase = "insert" =>
        \A m \in matched : IsFirst(m) => KeyOf(Record(reading), m) \notin hush)'
  BY <1>3 DEF HushOK
<1>5. QED
  BY <1>1, <1>2, <1>4 DEF HushOK

\* With no alert in flight, a hushed key is locked, and none is while Redis is
\* down.
LEMMA HushedAreLocked ==
  HushOK /\ ~InFlight => hush \subseteq locks /\ (~redisUp => hush = {})
BY DEF HushOK

\* After the last rule or before the next, the loop is not about to insert.
LEMMA NextRulePhase ==
  ASSUME NEW m \in matched, NextRule(m)
  PROVE  phase' \notin {"insert", "publish", "lock"}
BY DEF NextRule, Settle

LEMMA HushNext == LoopInv /\ HushOK /\ [Next]_vars => HushOK'
<1> SUFFICES ASSUME LoopInv, HushOK, [Next]_vars PROVE HushOK'
  OBVIOUS
<1> USE DEF consumer, message, process, history, stores
<1>1. CASE Poll \/ Commit \/ CommitFails \/ Restart \/ InsertFails
           \/ \E p \in Partitions : StartMessage(p)
  <2>1. /\ ~InFlight /\ phase' # "insert" /\ UNCHANGED <<redisUp, locks, hush>>
    BY <1>1 DEF Poll, Commit, CommitFails, Restart, InsertFails, FailBatch,
       StartMessage, Settle, InFlight
  <2>2. QED
    BY <2>1, HushQuiet, HushedAreLocked
<1>2. CASE CheckLock
  <2>1. ~InFlight /\ UNCHANGED <<redisUp, locks, hush>>
    BY <1>2 DEF CheckLock, InFlight
  <2>2. PICK m \in matched :
          /\ IsFirst(m)
          /\ IF redisUp /\ KeyOf(Record(reading), m) \in locks
             THEN NextRule(m)
             ELSE /\ phase' = "insert"
                  /\ UNCHANGED <<next, reading, offsets_to_commit, done,
                                 matched, owed>>
    BY <1>2 DEF CheckLock
  <2>3. CASE redisUp /\ KeyOf(Record(reading), m) \in locks
    <3>1. phase' # "insert"
      BY <2>2, <2>3, NextRulePhase
    <3>2. QED
      BY <2>1, <3>1, HushQuiet, HushedAreLocked
  <2>4. CASE ~(redisUp /\ KeyOf(Record(reading), m) \in locks)
    <3>1. phase' = "insert" /\ UNCHANGED <<next, reading, matched>>
      BY <2>2, <2>4
    <3>2. KeyOf(Record(reading), m) \notin hush
      BY <2>1, <2>4, HushedAreLocked
    <3>3. \A n \in matched : IsFirst(n) => n = m
      BY <2>2 DEF IsFirst, LoopInv, LoopOK, TypeOK, MessageOK
    <3>4. \A n : KeyOf(Record(reading), n)' = KeyOf(Record(reading), n)
                 /\ IsFirst(n)' = IsFirst(n)
      BY <3>1 DEF KeyOf, Record, IsFirst
    <3>5. hush' \subseteq locks' /\ (~redisUp' => hush' = {})
      BY <2>1, HushedAreLocked
    <3>6. (phase = "insert" => \A n \in matched :
             IsFirst(n) => KeyOf(Record(reading), n) \notin hush)'
      BY <2>1, <3>1, <3>2, <3>3, <3>4
    <3>7. QED
      BY <3>5, <3>6 DEF HushOK
  <2>5. QED
    BY <2>3, <2>4
<1>3. CASE InsertAlert
  <2>1. PICK m \in matched :
          /\ mongo' = Append(mongo, NewAlert(KeyOf(Record(reading), m)))
          /\ hush' = hush \union {KeyOf(Record(reading), m)}
    BY <1>3 DEF InsertAlert
  <2>2. /\ ~InFlight /\ InFlight' /\ phase' = "publish"
        /\ UNCHANGED <<redisUp, locks>> /\ mongo \in Seq(Docs)
    BY <1>3 DEF InsertAlert, InFlight, LoopInv, TypeOK, StoresOK
  <2>3. AlertKey' = KeyOf(Record(reading), m)
    BY <2>1, <2>2 DEF AlertKey, alert_id, NewAlert
  <2>4. hush \subseteq locks /\ (~redisUp => hush = {})
    BY <2>2, HushedAreLocked
  <2>5. QED
    BY <2>1, <2>2, <2>3, <2>4 DEF HushOK
<1>4. CASE PublishAlert
  BY <1>4, HushAside DEF PublishAlert, InFlight, AlertKey, alert_id
<1>5. CASE PublishFails
  <2>1. UNCHANGED <<redisUp, locks, mongo>> /\ phase = "publish"
    BY <1>5 DEF PublishFails
  <2>2. CASE attempt + 1 < PublishRetries
    BY <1>5, <2>1, <2>2, HushAside DEF PublishFails, InFlight, AlertKey, alert_id
  <2>3. CASE ~(attempt + 1 < PublishRetries)
    <3>1. phase' = "poll" /\ hush' = hush \ {AlertKey}
      BY <1>5, <2>3 DEF PublishFails, FailBatch, AlertKey
    <3>2. QED
      BY <2>1, <3>1 DEF HushOK, InFlight
  <2>4. QED
    BY <2>2, <2>3
<1>6. CASE SetLock
  <2>1. PICK m \in matched : NextRule(m)
    BY <1>6 DEF SetLock
  <2>2. phase' \notin {"insert", "publish", "lock"}
    BY <2>1, NextRulePhase
  <2>3. /\ redisUp' = redisUp
        /\ IF redisUp
           THEN locks' = locks \union {AlertKey} /\ hush' = hush
           ELSE hush' = hush \ {AlertKey}
    BY <1>6 DEF SetLock, AlertKey
  <2>4. QED
    BY <2>2, <2>3 DEF HushOK, InFlight
<1>7. CASE Crash
  BY <1>7 DEF Crash, HushOK, InFlight
<1>8. CASE RedisFails
  BY <1>8 DEF RedisFails, HushOK
<1>9. CASE PollEmpty \/ RedisRecovers \/ UNCHANGED vars
           \/ \E k \in locks : LockExpires(k)
  <2>1. /\ UNCHANGED <<phase, next, reading, matched, mongo>>
        /\ redisUp' = redisUp \/ redisUp'
        /\ hush' \subseteq hush
        /\ \A k \in hush' \intersect locks : k \in locks'
    BY <1>9 DEF PollEmpty, RedisRecovers, LockExpires, vars
  <2>2. QED
    BY <2>1, HushAside DEF InFlight, AlertKey, alert_id
<1>10. CASE Endpoint
  <2>1. UNCHANGED <<phase, next, reading, matched, redisUp, locks, hush>>
    BY <1>10 DEF Endpoint, SetPaused, UpsertRule, DeleteRule, AcknowledgeAlert,
       ResolveAlert
  <2>2. InFlight => AlertKey' = AlertKey
    <3>1. CASE mongo' = mongo
      BY <3>1 DEF AlertKey, alert_id
    <3>2. ASSUME NEW i \in DOMAIN mongo, AcknowledgeAlert(i) \/ ResolveAlert(i)
          PROVE  AlertKey' = AlertKey
      <4>1. mongo \in Seq(Docs)
        BY DEF LoopInv, TypeOK, StoresOK
      <4>2. QED
        BY <3>2, <4>1, UpdateKeepsKeys DEF AlertKey, alert_id
    <3>3. mongo' = mongo \/ \E i \in DOMAIN mongo : AcknowledgeAlert(i) \/ ResolveAlert(i)
      BY <1>10 DEF Endpoint, SetPaused, UpsertRule, DeleteRule
    <3>4. QED
      BY <3>1, <3>2, <3>3
  <2>3. QED
    BY <2>1, <2>2, HushAside DEF InFlight
<1>11. QED
  BY <1>1, <1>2, <1>3, <1>4, <1>5, <1>6, <1>7, <1>8, <1>9, <1>10
     DEF Next, Loop, Environment

\* Only an insert makes the history longer, and it is about a key that is not
\* hushed.
LEMMA NoStormStep ==
  ASSUME LoopInv, HushOK, [Next]_vars, Len(mongo') > Len(mongo)
  PROVE  mongo'[Len(mongo')].key \notin hush
<1> USE DEF consumer, message, process, history, stores
<1>1. mongo \in Seq(Docs) /\ Len(mongo) \in Nat
  BY DEF LoopInv, TypeOK, StoresOK
<1>2. CASE InsertAlert \/ (InsertFails /\ mongo' # mongo)
  <2>1. PICK m \in matched :
          /\ IsFirst(m)
          /\ mongo' = Append(mongo, NewAlert(KeyOf(Record(reading), m)))
    BY <1>2 DEF InsertAlert, InsertFails
  <2>2. mongo'[Len(mongo')].key = KeyOf(Record(reading), m)
    BY <1>1, <2>1 DEF NewAlert
  <2>3. phase = "insert"
    BY <1>2 DEF InsertAlert, InsertFails
  <2>4. QED
    BY <2>1, <2>2, <2>3 DEF HushOK
<1>3. ASSUME NEW i \in DOMAIN mongo, AcknowledgeAlert(i) \/ ResolveAlert(i)
      PROVE  FALSE
  BY <1>1, <1>3, UpdateKeepsKeys
<1>4. CASE mongo' = mongo
  BY <1>1, <1>4
<1>5. \/ InsertAlert \/ InsertFails \/ mongo' = mongo
      \/ \E i \in DOMAIN mongo : AcknowledgeAlert(i) \/ ResolveAlert(i)
  <2>1. CASE Loop
    BY <2>1 DEF Loop, Poll, StartMessage, CheckLock, PublishAlert, SetLock, Commit
  <2>2. CASE Environment
    BY <2>2 DEF Environment, PollEmpty, vars, PublishFails, CommitFails, Crash, RedisFails, RedisRecovers, LockExpires
  <2>3. CASE Endpoint
    BY <2>3 DEF Endpoint, SetPaused, UpsertRule, DeleteRule
  <2>4. CASE Restart \/ UNCHANGED vars
    BY <2>4 DEF Restart, vars
  <2>5. QED
    BY <2>1, <2>2, <2>3, <2>4 DEF Next
<1>6. QED
  BY <1>2, <1>3, <1>4, <1>5

\* Suppression works: an entity and rule get no second alert until the lock of
\* the first expires or is lost to a failure.
THEOREM StormProtection == Spec => NoStorm
<1>1. Init => LoopInv /\ HushOK
  <2>1. Init => HushOK
    BY DEF Init, HushOK, InFlight
  <2>2. QED
    BY <2>1, LoopInvInit
<1>2. LoopInv /\ HushOK /\ [Next]_vars => LoopInv' /\ HushOK'
  BY LoopInvNext, HushNext
<1>3. LoopInv /\ HushOK /\ [Next]_vars
      => [Len(mongo') > Len(mongo) => mongo'[Len(mongo')].key \notin hush]_vars
  BY NoStormStep
<1>4. QED
  BY <1>1, <1>2, <1>3, PTL DEF Spec, NoStorm
==============================================================================
