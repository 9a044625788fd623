---------------------------- MODULE MetricsStream -----------------------------
(***************************************************************************)
(* services/infra-metrics-stream: every two seconds the metrics go from    *)
(* Prometheus to Kafka, and into a buffer that every five seconds becomes  *)
(* a batch of snapshots, one per facility.  Batches wait in a short queue  *)
(* for a writer; the last one, at shutdown, does not.                      *)
(***************************************************************************)
EXTENDS Naturals, Sequences, FiniteSets

CONSTANTS
  Polled,      \* bound: those of metrics_to_poll that are modelled
  Rows,        \* rows Prometheus may answer: metric, facility, rack, device
  MaxSamples,  \* devices of a rack a snapshot may hold
  QueueMax,    \* batches the queue may hold
  MaxTicks,    \* bound: ticks of a behaviour
  MaxBroken,   \* bound: failing publications and writes
  Absent       \* a label or an answer that is not there

ASSUME StreamOK ==
  /\ IsFiniteSet(Rows) /\ QueueMax \in Nat \ {0} /\ MaxSamples \in Nat \ {0}
  /\ MaxTicks \in Nat /\ MaxBroken \in Nat

VARIABLES
  tick,        \* what the tick task is at
  paused,
  polled,      \* metric -> rows answered, None: not yet
  buffer,      \* samples accumulated since the last batch
  events,      \* of this tick, for Kafka
  queue,       \* batches waiting for the writer, numbered as they were built
  looping,     \* the writer is in its loop
  writing,     \* the batch it writes, 0: it waits for one
  flush,       \* the batch stop() writes itself, 0: none
  sizes,       \* batch -> its documents
  seen, skipped, published, docsWritten, snapshotsWritten,   \* the counters
  \* History, read by the properties only.
  built,       \* batches so far
  settled,     \* batch -> what became of it
  delivered,   \* events Kafka has
  undelivered, \* events the producer took and could not deliver
  unpublished, \* events of publications that raised
  cut,         \* events of publications that were cut off
  inMongo,     \* documents MongoDB has
  ticks, broken

tickvars == <<tick, paused, polled, buffer, events, seen, skipped, published,
              delivered, undelivered, unpublished, cut, ticks>>
storevars == <<queue, looping, writing, flush, sizes, docsWritten, snapshotsWritten,
               built, settled, inMongo>>
streamvars == <<tickvars, storevars, broken>>

Break == broken < MaxBroken /\ broken' = broken + 1

Running == tick \notin {"stopping", "off"}

------------------------------------------------------------------------------
(* The tick.                                                               *)

Unpolled == [m \in Polled |-> Absent]

\* One of the parallel queries is answered; a failing one has no rows.
Poll(m, rows) ==
  /\ tick = "polling" /\ polled[m] = Absent
  /\ polled' = [polled EXCEPT ![m] = rows]
  /\ UNCHANGED <<tick, paused, buffer, events, seen, skipped, published,
                 delivered, undelivered, unpublished, cut, ticks, storevars,
                 broken>>

Answered(m) == IF m \in Polled THEN polled[m] ELSE {}
AllRows == UNION {polled[m] : m \in Polled}

\* _normalize_sample: rows without a facility are skipped.
Kept == {s \in AllRows : s.facility # Absent}

DevicesIn(S, r) == {s.device : s \in {s \in S : s.rack = r}} \ {Absent}

\* A rack's bucket takes devices as they come, those with a power first, until
\* it is full; those it has are kept up to date.
Admits(bucket, r) ==
  LET old == DevicesIn(buffer, r)
      all == old \union DevicesIn(Kept, r)
      powered == DevicesIn(Answered("device_power_kw") \intersect Kept, r)
  IN /\ old \subseteq bucket /\ bucket \subseteq all
     /\ bucket = all \/ Cardinality(bucket) = MaxSamples
     /\ Cardinality(bucket) <= MaxSamples
     /\ bucket \subseteq old \union powered \/ powered \subseteq bucket

------------------------------------------------------------------------------
(* Batches.                                                                *)

Documents == Cardinality({s.facility : s \in buffer})

Build ==
  /\ built' = built + 1
  /\ sizes' = Append(sizes, Documents)
  /\ buffer' = {}

\* Mutant of Enqueue: a queue without a limit.
EnqueueAlways ==
  /\ queue' = Append(queue, built + 1)
  /\ settled' = Append(settled, "pending")

\* _enqueue_mongo_docs does not wait for a place.
Enqueue ==
  IF Len(queue) < QueueMax
  THEN /\ queue' = Append(queue, built + 1)
       /\ settled' = Append(settled, "pending")
  ELSE /\ settled' = Append(settled, "dropped")
       /\ UNCHANGED queue

\* The end of a tick, when the flush interval may have passed or not.
Finish ==
  /\ \/ buffer # {} /\ Build /\ Enqueue
     \/ UNCHANGED <<buffer, built, sizes, queue, settled>>
  /\ seen' = seen + Cardinality(AllRows)
  /\ skipped' = skipped + Cardinality(AllRows \ Kept)
  /\ tick' = "resting" /\ polled' = Unpolled /\ events' = 0
  /\ UNCHANGED <<paused, ticks, looping, writing, flush, docsWritten,
                 snapshotsWritten, inMongo>>

\* All rows at once: nothing is awaited in between.  With none to publish the
\* tick goes on to its end.
Accumulate ==
  /\ tick = "polling" /\ \A m \in Polled : polled[m] # Absent
  /\ UNCHANGED <<published, delivered, undelivered, unpublished, cut, broken>>
  /\ IF Kept = {} THEN Finish
     ELSE /\ \E bucket \in [{s.rack : s \in Kept} ->
                             SUBSET {s.device : s \in buffer \union Kept}] :
               /\ \A r \in DOMAIN bucket : Admits(bucket[r], r)
               /\ buffer' = buffer \union
                    {s \in Kept : s.device \in bucket[s.rack] \union {Absent}}
          /\ events' = Cardinality(Kept)
          /\ tick' = "publishing"
          /\ UNCHANGED <<paused, polled, seen, skipped, ticks, storevars>>

\* publish_batch hands every event to the producer, waits until each has been
\* delivered or given up, and returns their number: it looks at no delivery's
\* result.
Publish ==
  /\ tick = "publishing"
  /\ published' = published + events
  /\ \/ delivered' = delivered + events /\ UNCHANGED <<undelivered, broken>>
     \/ /\ Break
        /\ \E k \in 1..events :
             /\ delivered' = delivered + (events - k)
             /\ undelivered' = undelivered + k
  /\ Finish
  /\ UNCHANGED <<unpublished, cut>>

\* send() raises for one of them, which then counts for all; the producer may
\* have, or still take, the others.
PublishFails ==
  /\ tick = "publishing"
  /\ Break
  /\ \E k \in 0..events : delivered' = delivered + k
  /\ unpublished' = unpublished + events
  /\ Finish
  /\ UNCHANGED <<published, undelivered, cut>>

StartTick ==
  /\ tick = "resting" /\ ~paused
  /\ ticks < MaxTicks /\ ticks' = ticks + 1
  /\ tick' = "polling"
  /\ UNCHANGED <<paused, polled, buffer, events, seen, skipped, published,
                 delivered, undelivered, unpublished, cut, storevars, broken>>

\* pause and resume; a tick under way goes on.
Pause(p) ==
  /\ Running /\ paused # p /\ paused' = p
  /\ UNCHANGED <<tick, polled, buffer, events, seen, skipped, published,
                 delivered, undelivered, unpublished, cut, ticks, storevars,
                 broken>>

------------------------------------------------------------------------------
(* The writer.                                                             *)

\* A writer that waits is woken by the first batch, and takes it even if the
\* service has been told to stop by then.
Take ==
  /\ tick # "off" /\ looping /\ writing = 0 /\ queue # <<>>
  /\ writing' = Head(queue) /\ queue' = Tail(queue)
  /\ UNCHANGED <<tickvars, looping, flush, sizes, docsWritten, snapshotsWritten,
                 built, settled, inMongo, broken>>

\* write_snapshots: all of batch b, or as many as there were before an error,
\* for which it returns 0.
Insert(b) ==
  /\ inMongo' = inMongo + sizes[b]
  /\ docsWritten' = docsWritten + sizes[b]
  /\ settled' = [settled EXCEPT ![b] = "stored"]
  /\ UNCHANGED broken

\* Mutant of InsertFails: the error is logged and the documents are counted.
InsertFailsCounted(b) ==
  /\ Break
  /\ \E k \in 0..sizes[b] : inMongo' = inMongo + k
  /\ settled' = [settled EXCEPT ![b] = "failed"]
  /\ docsWritten' = docsWritten + sizes[b]

InsertFails(b) ==
  /\ Break
  /\ \E k \in 0..sizes[b] : inMongo' = inMongo + k
  /\ settled' = [settled EXCEPT ![b] = "failed"]
  /\ UNCHANGED docsWritten

\* With more batches waiting it takes the next one at once; once the service
\* is told to stop it takes no other.
Wrote ==
  /\ writing # 0 /\ tick # "off"
  /\ Insert(writing) \/ InsertFails(writing)
  /\ snapshotsWritten' = snapshotsWritten + sizes[writing]
  /\ looping' = Running
  /\ IF Running /\ queue # <<>>
     THEN writing' = Head(queue) /\ queue' = Tail(queue)
     ELSE writing' = 0 /\ UNCHANGED queue
  /\ UNCHANGED <<tickvars, flush, sizes, built>>

------------------------------------------------------------------------------
(* Shutdown.                                                               *)

\* The tick is cut off wherever it is: of the events on their way to Kafka any
\* number arrives.
TickEnds ==
  /\ \E k \in 0..events : delivered' = delivered + k
  /\ cut' = cut + events
  /\ polled' = Unpolled /\ events' = 0

\* stop() cancels the tick and makes a batch of what the buffer has.
Stop ==
  /\ Running
  /\ tick' = "stopping" /\ TickEnds
  /\ IF buffer # {}
     THEN Build /\ flush' = built + 1 /\ settled' = Append(settled, "pending")
     ELSE UNCHANGED <<built, sizes, buffer, flush, settled>>
  /\ UNCHANGED <<paused, seen, skipped, published, undelivered, unpublished, ticks,
                 queue, looping, writing, docsWritten, snapshotsWritten, inMongo,
                 broken>>

\* It writes that batch itself, past the queue.
Flushed ==
  /\ tick = "stopping" /\ flush # 0
  /\ Insert(flush) \/ InsertFails(flush)
  /\ snapshotsWritten' = snapshotsWritten + sizes[flush]
  /\ flush' = 0
  /\ UNCHANGED <<tickvars, queue, looping, writing, sizes, built>>

\* Mutant of Abandoned: the queue is not thought of.
AbandonedWriting ==
  settled' = [b \in 1..built |-> IF b = writing THEN "lost" ELSE settled[b]]

\* Batches not in MongoDB by now never will be.
Abandoned ==
  settled' = [b \in 1..built |->
                IF settled[b] = "pending" THEN "lost" ELSE settled[b]]

\* Documents of batch b, 0 for none.
Size(b) == IF b = 0 THEN 0 ELSE sizes[b]

\* What was being written may be there or not.
CutOff ==
  /\ Abandoned
  /\ \E k \in 0..(Size(writing) + Size(flush)) : inMongo' = inMongo + k
  /\ tick' = "off" /\ queue' = <<>> /\ looping' = FALSE
  /\ writing' = 0 /\ flush' = 0
  /\ UNCHANGED <<paused, seen, skipped, published, undelivered, unpublished, ticks,
                 sizes, docsWritten, snapshotsWritten, built, broken>>

\* Then the writer is cancelled.
CancelWriter ==
  /\ tick = "stopping" /\ flush = 0
  /\ CutOff
  /\ UNCHANGED <<polled, buffer, events, delivered, cut>>

\* The process dies, and the buffer with it.
Killed ==
  /\ tick # "off"
  /\ CutOff /\ TickEnds
  /\ buffer' = {}

StreamInit ==
  /\ tick = "resting" /\ paused = FALSE /\ polled = Unpolled
  /\ buffer = {} /\ events = 0
  /\ queue = <<>> /\ looping = TRUE /\ writing = 0 /\ flush = 0 /\ sizes = <<>>
  /\ seen = 0 /\ skipped = 0 /\ published = 0
  /\ docsWritten = 0 /\ snapshotsWritten = 0
  /\ built = 0 /\ settled = <<>>
  /\ delivered = 0 /\ undelivered = 0 /\ unpublished = 0 /\ cut = 0
  /\ inMongo = 0 /\ ticks = 0 /\ broken = 0

StreamRest ==
  \/ Accumulate \/ Publish \/ PublishFails \/ StartTick
  \/ \E p \in BOOLEAN : Pause(p)
  \/ Take \/ Wrote \/ Stop \/ Flushed \/ CancelWriter \/ Killed

StreamNext ==
  \/ \E m \in Polled, rows \in SUBSET Rows : Poll(m, rows)
  \/ StreamRest

StreamSpec == StreamInit /\ [][StreamNext]_streamvars
------------------------------------------------------------------------------
(* Properties.                                                             *)

\* The types of the stream's state, with the limit of its queue.
StreamTypeOK ==
  /\ tick \in {"resting", "polling", "publishing", "stopping", "off"}
  /\ paused \in BOOLEAN /\ looping \in BOOLEAN
  /\ DOMAIN polled = Polled
  /\ \A m \in Polled : polled[m] = Absent \/ polled[m] \subseteq Rows
  /\ buffer \subseteq Rows
  /\ built \in Nat /\ queue \in Seq(1..built) /\ Len(queue) <= QueueMax
  /\ {writing, flush} \subseteq 0..built
  /\ sizes \in Seq(Nat)
  /\ settled \in Seq({"pending", "dropped", "stored", "failed", "lost"})
  /\ {events, seen, skipped, published, docsWritten, snapshotsWritten,
      delivered, undelivered, unpublished, cut, inMongo, ticks, broken}
       \subseteq Nat

Waiting == {queue[i] : i \in 1..Len(queue)}

\* Every batch ever built is in the queue, with the writer, with stop(), or
\* settled, and in one of these only; the writer takes them in the order they
\* were built; none is lost while the service runs; and if one reached MongoDB,
\* or failed to, before an older one, it is the last, which stop() wrote past
\* the queue.
BatchesAccounted ==
  /\ Len(settled) = built /\ Len(sizes) = built
  /\ \A b \in 1..built : settled[b] = "pending" <=>
       b \in Waiting \union ({writing, flush} \ {0})
  /\ \A i, j \in 1..Len(queue) : i < j => queue[i] < queue[j]
  /\ \A b \in Waiting : writing < b /\ b # flush
  /\ writing # 0 => writing # flush
  /\ \A b \in 1..built : settled[b] = "lost" => tick = "off"
  /\ \A a, b \in 1..built :
       /\ a < b
       /\ settled[a] \in {"pending", "lost"}
       /\ settled[b] \in {"stored", "failed"}
       => b = built /\ ~Running

\* The counters of /stream/status can be told by what became of what they
\* count.  Documents written are in MongoDB, and part of the snapshots.  Every
\* sample seen was skipped, counted as published, or part of a publication that
\* raised.  Events counted as published are in Kafka but for those the producer
\* took and could not deliver, which publish_batch does not notice; and Kafka
\* has none that are not counted but from publications that raised or were cut
\* off.
CountersHonest ==
  /\ docsWritten <= inMongo /\ docsWritten <= snapshotsWritten
  /\ seen = skipped + published + unpublished
  /\ published <= delivered + undelivered
  /\ delivered + undelivered <= published + unpublished + cut
==============================================================================
