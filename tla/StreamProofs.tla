----------------------------- MODULE StreamProofs -----------------------------
(***************************************************************************)
(* Theorems about MetricsStream: the batches and the counters stay         *)
(* accounted for, whatever the sizes of the queue and of the rows, however *)
(* many ticks and failures there are, and at whichever step the service is *)
(* stopped or killed.                                                      *)
(***************************************************************************)
EXTENDS MetricsStream, FiniteSetTheorems, SequenceTheorems, TLAPS

Outcomes == {"pending", "dropped", "stored", "failed", "lost"}

\* The batches: types, the account of them, and stop()'s being the last one.
BatchInv ==
  /\ built \in Nat /\ queue \in Seq(1..built) /\ Len(queue) <= QueueMax
  /\ writing \in 0..built /\ flush \in 0..built
  /\ sizes \in Seq(Nat) /\ settled \in Seq(Outcomes)
  /\ BatchesAccounted
  /\ Running => flush = 0
  /\ flush # 0 => flush = built

\* The tick: types, and what is published is what was kept.
TickInv ==
  /\ tick \in {"resting", "polling", "publishing", "stopping", "off"}
  /\ paused \in BOOLEAN /\ looping \in BOOLEAN
  /\ DOMAIN polled = Polled
  /\ \A m \in Polled : polled[m] = Absent \/ polled[m] \subseteq Rows
  /\ buffer \subseteq Rows
  /\ ticks \in Nat /\ events \in Nat
  /\ tick = "publishing" =>
       (\A m \in Polled : polled[m] # Absent) /\ events = Cardinality(Kept)

CountInv ==
  /\ seen \in Nat /\ skipped \in Nat /\ published \in Nat /\ delivered \in Nat
  /\ undelivered \in Nat /\ unpublished \in Nat /\ cut \in Nat
  /\ docsWritten \in Nat /\ snapshotsWritten \in Nat
  /\ inMongo \in Nat /\ broken \in Nat
  /\ CountersHonest

StreamInv == BatchInv /\ TickInv /\ CountInv

------------------------------------------------------------------------------
(* Rows.                                                                   *)

LEMMA RowsFinite ==
  ASSUME NEW S, S \subseteq Rows
  PROVE  IsFiniteSet(S) /\ Cardinality(S) \in Nat
<1>1. IsFiniteSet(S)
  BY StreamOK, FS_Subset
<1>. QED  BY <1>1, FS_CardinalityType

\* Every row is either kept or skipped.
LEMMA RowsSplit ==
  ASSUME TickInv, \A m \in Polled : polled[m] # Absent
  PROVE  /\ Cardinality(AllRows) \in Nat /\ Cardinality(Kept) \in Nat
         /\ Cardinality(AllRows \ Kept) \in Nat
         /\ Kept \subseteq Rows
         /\ Cardinality(AllRows) = Cardinality(AllRows \ Kept) + Cardinality(Kept)
<1>1. AllRows \subseteq Rows
  BY DEF AllRows, TickInv
<1>2. Kept \subseteq AllRows
  BY DEF Kept
<1>3. AllRows \intersect Kept = Kept
  BY <1>2
<1>4. /\ IsFiniteSet(AllRows) /\ Cardinality(AllRows) \in Nat
      /\ Cardinality(Kept) \in Nat /\ Cardinality(AllRows \ Kept) \in Nat
  <2>1. IsFiniteSet(AllRows) /\ Cardinality(AllRows) \in Nat
    BY <1>1, RowsFinite
  <2>2. Cardinality(Kept) \in Nat
    BY <1>1, <1>2, RowsFinite
  <2>3. Cardinality(AllRows \ Kept) \in Nat
    BY <1>1, RowsFinite
  <2>. QED  BY <2>1, <2>2, <2>3
<1>5. Cardinality(AllRows \ Kept) = Cardinality(AllRows) - Cardinality(Kept)
  BY <1>3, <1>4, FS_Difference
<1>. QED  BY <1>1, <1>2, <1>4, <1>5

\* A batch has at most one document per row of the buffer.
LEMMA DocumentsCounted ==
  ASSUME TickInv
  PROVE  Documents \in Nat
<1> DEFINE T == {s.facility : s \in buffer}
           f == [s \in buffer |-> s.facility]
<1>1. IsFiniteSet(buffer)
  BY RowsFinite DEF TickInv
<1>2. f \in Surjection(buffer, T)
  BY DEF Surjection
<1>3. IsFiniteSet(T)
  BY <1>1, <1>2, FS_Surjection
<1>4. Cardinality(T) \in Nat
  BY <1>3, FS_CardinalityType
<1>. QED  BY <1>4 DEF Documents

------------------------------------------------------------------------------
(* Batches.                                                                *)

\* Steps that leave the batches alone.
LEMMA BatchesStay ==
  ASSUME BatchInv, tick # "off", tick' # "off", Running' <=> Running,
         UNCHANGED <<queue, writing, flush, sizes, settled, built>>
  PROVE  BatchInv'
<1>1. Waiting' = Waiting
  BY DEF Waiting
<1>. QED  BY <1>1 DEF BatchInv, BatchesAccounted

\* What is known of the batches while the service runs: none of them reached
\* MongoDB before an older one.
LEMMA InOrder ==
  ASSUME BatchInv, Running, NEW a \in 1..built, NEW b \in 1..built, a < b
  PROVE  settled[a] = "pending" => settled[b] \notin {"stored", "failed"}
BY DEF BatchInv, BatchesAccounted

------------------------------------------------------------------------------
(* Increasing sequences of numbers.                                        *)

Increasing(q) == \A i, j \in 1..Len(q) : i < j => q[i] < q[j]
Members(q) == {q[i] : i \in 1..Len(q)}

\* A number greater than all others may follow them.
LEMMA IncreasingAppend ==
  ASSUME NEW n \in Nat, NEW q \in Seq(1..n), Increasing(q)
  PROVE  /\ Append(q, n + 1) \in Seq(1..(n + 1))
         /\ Len(Append(q, n + 1)) = Len(q) + 1
         /\ Members(Append(q, n + 1)) = Members(q) \union {n + 1}
         /\ Increasing(Append(q, n + 1))
<1> DEFINE r == Append(q, n + 1)
           N == Len(q)
<1>1. q \in Seq(1..(n + 1))
  <2>1. 1..n \subseteq 1..(n + 1)
    OBVIOUS
  <2>. QED  BY <2>1, SeqMonotonic
<1>2. n + 1 \in 1..(n + 1)
  OBVIOUS
<1>3. /\ r \in Seq(1..(n + 1)) /\ Len(r) = N + 1
      /\ \A i \in 1..N : r[i] = q[i]
      /\ r[N + 1] = n + 1
  BY <1>1, <1>2, AppendProperties
<1>4. N \in Nat /\ \A i \in 1..N : q[i] \in 1..n
  BY LenProperties, ElementOfSeq
<1> HIDE DEF r, N
<1>5. 1..(N + 1) = 1..N \union {N + 1}
  BY <1>4
<1>6. Members(r) = Members(q) \union {n + 1}
  BY <1>3, <1>5, Zenon DEF Members, N
<1>7. Increasing(r)
  <2> SUFFICES ASSUME NEW i \in 1..(N + 1), NEW j \in 1..(N + 1), i < j
               PROVE  r[i] < r[j]
    BY <1>3 DEF Increasing
  <2>1. i \in 1..N
    BY <1>4
  <2>2. CASE j \in 1..N
    <3>1. q[i] < q[j]
      BY <2>1, <2>2 DEF Increasing, N
    <3>. QED  BY <1>3, <2>1, <2>2, <3>1
  <2>3. CASE j = N + 1
    <3>1. q[i] \in 1..n /\ r[i] = q[i] /\ r[j] = n + 1
      BY <1>3, <1>4, <2>1, <2>3
    <3>. QED  BY <3>1
  <2>. QED  BY <1>5, <2>2, <2>3
<1>. QED  BY <1>3, <1>6, <1>7 DEF r, N

\* The first of them is less than all others.
LEMMA IncreasingTail ==
  ASSUME NEW n \in Nat, NEW q \in Seq(1..n), Increasing(q), q # <<>>
  PROVE  /\ Head(q) \in 1..n /\ Tail(q) \in Seq(1..n)
         /\ Len(Tail(q)) = Len(q) - 1 /\ Len(q) \in Nat
         /\ Members(q) = Members(Tail(q)) \union {Head(q)}
         /\ \A b \in Members(Tail(q)) : Head(q) < b
         /\ Increasing(Tail(q))
<1> DEFINE r == Tail(q)
           N == Len(q)
<1>1. N \in Nat \ {0}
  BY EmptySeq
<1>2. /\ Head(q) \in 1..n /\ r \in Seq(1..n) /\ Len(r) = N - 1
      /\ \A i \in 1..(N - 1) : r[i] = q[i + 1]
  <2>1. Len(r) = N - 1
    BY HeadTailProperties
  <2>2. \A i \in 1..Len(r) : r[i] = q[i + 1]
    BY HeadTailProperties
  <2>. QED  BY <2>1, <2>2, HeadTailProperties
<1>3. Head(q) = q[1]
  OBVIOUS
<1> HIDE DEF r, N
<1>4. Members(q) = Members(r) \union {Head(q)}
  <2>1. \A i \in 1..N : i = 1 \/ (i - 1 \in 1..(N - 1) /\ (i - 1) + 1 = i)
    BY <1>1
  <2>2. \A i \in 1..(N - 1) : i + 1 \in 1..N
    BY <1>1
  <2>3. \A i \in 1..N : q[i] \in Members(r) \union {Head(q)}
    BY <1>2, <1>3, <2>1 DEF Members
  <2>4. \A i \in 1..(N - 1) : r[i] \in Members(q)
    BY <1>2, <2>2 DEF Members, N
  <2>5. Head(q) \in Members(q)
    BY <1>1, <1>3 DEF Members, N
  <2>. QED  BY <1>2, <2>3, <2>4, <2>5 DEF Members, N
<1>5. \A b \in Members(r) : Head(q) < b
  <2> SUFFICES ASSUME NEW i \in 1..(N - 1)
               PROVE  Head(q) < r[i]
    BY <1>2 DEF Members
  <2>1. 1 \in 1..N /\ i + 1 \in 1..N /\ 1 < i + 1
    BY <1>1
  <2>2. q[1] < q[i + 1]
    BY <2>1 DEF Increasing, N
  <2>. QED  BY <1>2, <1>3, <2>2
<1>6. Increasing(r)
  <2> SUFFICES ASSUME NEW i \in 1..(N - 1), NEW j \in 1..(N - 1), i < j
               PROVE  r[i] < r[j]
    BY <1>2 DEF Increasing
  <2>1. i + 1 \in 1..N /\ j + 1 \in 1..N /\ i + 1 < j + 1
    BY <1>1
  <2>2. q[i + 1] < q[j + 1]
    BY <2>1 DEF Increasing, N
  <2>. QED  BY <1>2, <2>2
<1>. QED  BY <1>1, <1>2, <1>4, <1>5, <1>6 DEF r, N

------------------------------------------------------------------------------
(* New batches.                                                            *)

LEMMA QueueFacts ==
  ASSUME BatchInv
  PROVE  /\ built \in Nat /\ queue \in Seq(1..built) /\ Increasing(queue)
         /\ Waiting = Members(queue) /\ Waiting \subseteq 1..built
         /\ Len(queue) \in Nat
<1>1. built \in Nat /\ queue \in Seq(1..built)
  BY DEF BatchInv
<1>2. Increasing(queue)
  BY DEF BatchInv, BatchesAccounted, Increasing
<1>3. Waiting = Members(queue)
  BY DEF Waiting, Members
<1>4. Len(queue) \in Nat /\ \A i \in 1..Len(queue) : queue[i] \in 1..built
  BY <1>1, LenProperties, ElementOfSeq
<1>. QED  BY <1>1, <1>2, <1>3, <1>4 DEF Waiting

Settle(o) == settled' = Append(settled, o)

\* A new batch, whatever becomes of it: the old ones keep their numbers.
LEMMA NewBatch ==
  ASSUME BatchInv, TickInv, NEW o \in Outcomes, Build, Settle(o)
  PROVE  /\ built' = built + 1
         /\ sizes' \in Seq(Nat) /\ settled' \in Seq(Outcomes)
         /\ Len(sizes') = built' /\ Len(settled') = built'
         /\ \A b \in 1..built : settled'[b] = settled[b]
         /\ settled'[built + 1] = o
<1>1. built \in Nat /\ sizes \in Seq(Nat) /\ settled \in Seq(Outcomes)
  BY DEF BatchInv
<1>2. Len(sizes) = built /\ Len(settled) = built
  BY DEF BatchInv, BatchesAccounted
<1>3. built' = built + 1 /\ sizes' = Append(sizes, Documents) /\ Documents \in Nat
  BY DocumentsCounted DEF Build
<1>4. sizes' \in Seq(Nat) /\ Len(sizes') = Len(sizes) + 1
  BY <1>1, <1>3, AppendProperties
<1>5. /\ settled' \in Seq(Outcomes) /\ Len(settled') = Len(settled) + 1
      /\ \A b \in 1..Len(settled) : settled'[b] = settled[b]
      /\ settled'[Len(settled) + 1] = o
  BY <1>1, AppendProperties DEF Settle
<1>. QED  BY <1>1, <1>2, <1>3, <1>4, <1>5

\* A new batch is dropped, or under way in the queue or with stop().
Added(o) ==
  /\ Build /\ Settle(o) /\ tick' # "off"
  /\ queue' \in Seq(1..built') /\ Len(queue') <= QueueMax /\ Increasing(queue)'
  /\ writing' = writing /\ flush' \in {0, built + 1}
  /\ Running' => flush' = 0
  /\ Waiting' \union ({flush'} \ {0}) =
       Waiting \union (IF o = "dropped" THEN {} ELSE {built + 1})
  /\ flush' \notin Waiting'

\* The older ones are what they were, and none is stored before an older one.
LEMMA BatchAdded ==
  ASSUME BatchInv, TickInv, Running, NEW o \in {"pending", "dropped"}, Added(o)
  PROVE  BatchInv'
<1>1. /\ built' = built + 1
      /\ sizes' \in Seq(Nat) /\ settled' \in Seq(Outcomes)
      /\ Len(sizes') = built' /\ Len(settled') = built'
      /\ \A b \in 1..built : settled'[b] = settled[b]
      /\ settled'[built + 1] = o
  BY NewBatch DEF Outcomes, Added
<1>2. /\ built \in Nat /\ Waiting \subseteq 1..built
      /\ writing \in 0..built /\ flush = 0
  BY QueueFacts DEF BatchInv
<1>3. 1..(built + 1) = 1..built \union {built + 1} /\ built + 1 \notin 0..built
  BY <1>2
<1>4. \A b \in 1..(built + 1) : settled'[b] = "pending" <=>
        b \in Waiting' \union ({writing', flush'} \ {0})
  <2>1. \A b \in 1..built : settled[b] = "pending" <=>
          b \in Waiting \union ({writing} \ {0})
    BY <1>2 DEF BatchInv, BatchesAccounted
  <2>2. Waiting' \union ({writing', flush'} \ {0}) =
          (Waiting \union ({writing} \ {0})) \union
            (IF o = "dropped" THEN {} ELSE {built + 1})
    BY DEF Added
  <2>3. built + 1 \notin Waiting \union ({writing} \ {0})
    BY <1>2, <1>3
  <2>4. \A b \in 1..built : settled'[b] = "pending" <=>
          b \in Waiting' \union ({writing', flush'} \ {0})
    BY <1>1, <1>3, <2>1, <2>2
  <2>5. settled'[built + 1] = "pending" <=>
          built + 1 \in Waiting' \union ({writing', flush'} \ {0})
    BY <1>1, <2>2, <2>3
  <2>. QED  BY <1>3, <2>4, <2>5
<1>5. \A b \in Waiting' : writing' < b /\ b # flush'
  <2>1. \A b \in Waiting : writing < b
    BY DEF BatchInv, BatchesAccounted
  <2>2. writing < built + 1
    BY <1>2
  <2>. QED  BY <2>1, <2>2 DEF Added
<1>6. writing' # 0 => writing' # flush'
  BY <1>2 DEF Added
<1>7. \A b \in 1..(built + 1) : settled'[b] # "lost"
  <2>1. \A b \in 1..built : settled[b] # "lost"
    BY DEF BatchInv, BatchesAccounted, Running
  <2>. QED  BY <1>1, <1>3, <2>1
<1>8. \A a, b \in 1..(built + 1) :
         (a < b /\ settled'[a] \in {"pending", "lost"}) =>
           settled'[b] \notin {"stored", "failed"}
  <2> SUFFICES ASSUME NEW a \in 1..(built + 1), NEW b \in 1..(built + 1), a < b,
                      settled'[a] = "pending"
               PROVE  settled'[b] \notin {"stored", "failed"}
    BY <1>7
  <2>1. CASE b \in 1..built
    <3>1. a \in 1..built
      BY <1>2, <2>1
    <3>. QED  BY <1>1, <2>1, <3>1, InOrder
  <2>2. CASE b = built + 1
    BY <1>1, <2>2
  <2>. QED  BY <1>3, <2>1, <2>2
<1>9. \A i, j \in 1..Len(queue') : i < j => queue'[i] < queue'[j]
  BY DEF Increasing, Added
<1>10. BatchesAccounted'
  BY <1>1, <1>4, <1>5, <1>6, <1>7, <1>8, <1>9 DEF BatchesAccounted
<1>. QED
  BY <1>1, <1>2, <1>10 DEF BatchInv, Added

\* The end of a tick.
LEMMA FinishBatches ==
  ASSUME BatchInv, TickInv, Running, Finish
  PROVE  BatchInv'
<1>1. /\ built \in Nat /\ queue \in Seq(1..built) /\ Increasing(queue)
      /\ Waiting = Members(queue) /\ Waiting \subseteq 1..built
      /\ flush = 0 /\ Len(queue) \in Nat /\ QueueMax \in Nat
      /\ Len(queue) <= QueueMax
  BY QueueFacts, StreamOK DEF BatchInv
<1>2. tick' = "resting" /\ writing' = writing /\ flush' = 0
  BY <1>1 DEF Finish
<1>3. Waiting' = Members(queue')
  BY DEF Waiting, Members
<1>4. CASE Build /\ Enqueue /\ Len(queue) < QueueMax
  <2>1. built' = built + 1 /\ queue' = Append(queue, built + 1)
    BY <1>4 DEF Build, Enqueue
  <2>2. /\ queue' \in Seq(1..(built + 1)) /\ Len(queue') = Len(queue) + 1
        /\ Members(queue') = Members(queue) \union {built + 1}
        /\ Increasing(queue')
    BY <1>1, <2>1, IncreasingAppend
  <2>3. Len(queue') <= QueueMax
    BY <1>1, <1>4, <2>2
  <2>4. Settle("pending")
    BY <1>4 DEF Enqueue, Settle
  <2>5. 0 \notin Waiting'
    BY <1>1, <1>3, <2>2
  <2>6. Added("pending")
    BY <1>1, <1>2, <1>3, <1>4, <2>1, <2>2, <2>3, <2>4, <2>5
    DEF Added, Running, Increasing
  <2>. QED  BY <2>6, BatchAdded
<1>5. CASE Build /\ Enqueue /\ ~(Len(queue) < QueueMax)
  <2>1. built' = built + 1 /\ queue' = queue /\ Settle("dropped")
    BY <1>5 DEF Build, Enqueue, Settle
  <2>2. 1..built \subseteq 1..(built + 1) /\ 0 \notin 1..built
    BY <1>1
  <2>3. queue' \in Seq(1..built') /\ Increasing(queue)'
    BY <1>1, <2>1, <2>2, SeqMonotonic DEF Increasing
  <2>4. Added("dropped")
    BY <1>1, <1>2, <1>3, <1>5, <2>1, <2>2, <2>3 DEF Added, Running
  <2>. QED  BY <2>4, BatchAdded
<1>6. CASE UNCHANGED <<buffer, built, sizes, queue, settled>>
  <2>1. UNCHANGED <<queue, writing, flush, sizes, settled, built>>
    BY <1>1, <1>2, <1>6
  <2>2. tick # "off" /\ tick' # "off" /\ (Running' <=> Running)
    BY <1>2 DEF Running
  <2>. QED  BY <2>1, <2>2, BatchesStay
<1>. QED  BY <1>4, <1>5, <1>6 DEF Finish

\* stop() makes the last batch, and keeps it.
LEMMA StopBatches ==
  ASSUME BatchInv, TickInv, Stop
  PROVE  BatchInv'
<1>1. /\ built \in Nat /\ queue \in Seq(1..built) /\ Increasing(queue)
      /\ Waiting \subseteq 1..built
      /\ flush = 0 /\ Running /\ Len(queue) <= QueueMax
  BY QueueFacts DEF BatchInv, Stop
<1>2. tick' = "stopping" /\ queue' = queue /\ writing' = writing
  BY DEF Stop
<1>3. Waiting' = Waiting
  BY <1>2 DEF Waiting
<1>4. CASE buffer # {}
  <2>1. Build /\ flush' = built + 1 /\ Settle("pending")
    BY <1>4 DEF Stop, Settle
  <2>2. 1..built \subseteq 1..(built + 1) /\ built + 1 \notin 0..built
    BY <1>1
  <2>3. built' = built + 1
    BY <2>1 DEF Build
  <2>4. queue' \in Seq(1..built') /\ Increasing(queue)'
    BY <1>1, <1>2, <2>2, <2>3, SeqMonotonic DEF Increasing
  <2>5. {flush'} \ {0} = {built + 1} /\ flush' \notin Waiting'
    BY <1>1, <1>3, <2>1, <2>2
  <2>6. Added("pending")
    BY <1>1, <1>2, <1>3, <2>1, <2>4, <2>5 DEF Added, Running
  <2>. QED  BY <1>1, <2>6, BatchAdded
<1>5. CASE buffer = {}
  <2>1. UNCHANGED <<built, sizes, flush, settled>>
    BY <1>5 DEF Stop
  <2>2. \A a, b \in 1..built :
          (a < b /\ settled[a] \in {"pending", "lost"}) =>
            settled[b] \notin {"stored", "failed"}
    BY <1>1 DEF BatchInv, BatchesAccounted
  <2>3. \A b \in 1..built : settled[b] # "lost"
    BY <1>1 DEF BatchInv, BatchesAccounted, Running
  <2>4. BatchesAccounted'
    BY <1>2, <1>3, <2>1, <2>2, <2>3 DEF BatchInv, BatchesAccounted
  <2>. QED  BY <1>1, <1>2, <2>1, <2>4 DEF BatchInv, Running
<1>. QED  BY <1>4, <1>5

------------------------------------------------------------------------------
(* Batches written.                                                        *)

\* Batch b is written, by the writer or by stop(), with outcome o.
Gone(b, o) ==
  /\ b \in {writing, flush} \ {0} /\ tick # "off" /\ tick' = tick
  /\ settled' = [settled EXCEPT ![b] = o]
  /\ UNCHANGED <<built, sizes>>
  /\ queue' \in Seq(1..built) /\ Len(queue') <= QueueMax /\ Increasing(queue)'
  /\ writing' \in 0..built /\ flush' \in {0, flush}
  /\ Waiting' \union ({writing', flush'} \ {0}) =
       (Waiting \union ({writing, flush} \ {0})) \ {b}
  /\ \A c \in Waiting' : writing' < c /\ c # flush'
  /\ writing' # 0 => writing' # flush'

LEMMA BatchGone ==
  ASSUME BatchInv, NEW b, NEW o \in {"stored", "failed"}, Gone(b, o)
  PROVE  BatchInv'
<1>1. /\ built \in Nat /\ Waiting \subseteq 1..built
      /\ writing \in 0..built /\ flush \in {0, built} /\ b \in 1..built
  BY QueueFacts DEF BatchInv, Gone
<1>2. /\ settled \in Seq(Outcomes) /\ Len(settled) = built
      /\ settled' = [settled EXCEPT ![b] = o] /\ o \in Outcomes
  BY DEF BatchInv, BatchesAccounted, Gone, Outcomes
<1>3. /\ settled' \in Seq(Outcomes) /\ Len(settled') = built
      /\ \A c \in 1..built : settled'[c] = IF c = b THEN o ELSE settled[c]
  BY <1>1, <1>2, ExceptSeq
<1>4. \A c \in 1..built : settled'[c] = "pending" <=>
        c \in Waiting' \union ({writing', flush'} \ {0})
  <2>1. \A c \in 1..built : settled[c] = "pending" <=>
          c \in Waiting \union ({writing, flush} \ {0})
    BY DEF BatchInv, BatchesAccounted
  <2>2. Waiting' \union ({writing', flush'} \ {0}) =
          (Waiting \union ({writing, flush} \ {0})) \ {b}
    BY DEF Gone
  <2>. QED  BY <1>3, <2>1, <2>2
<1>5. \A c \in 1..built : settled[c] # "lost" /\ settled'[c] # "lost"
  <2>1. \A c \in 1..built : settled[c] # "lost"
    BY DEF BatchInv, BatchesAccounted, Gone
  <2>. QED  BY <1>3, <2>1
<1>6. ASSUME NEW a \in 1..built, NEW c \in 1..built, a < c,
             settled'[a] \in {"pending", "lost"},
             settled'[c] \in {"stored", "failed"}
      PROVE  c = built /\ ~Running
  <2>1. a # b /\ settled[a] = "pending"
    BY <1>3, <1>5, <1>6
  <2>2. CASE c # b
    <3>1. settled[c] \in {"stored", "failed"}
      BY <1>3, <1>6, <2>2
    <3>. QED  BY <1>6, <2>1, <3>1 DEF BatchInv, BatchesAccounted
  <2>3. CASE c = b /\ b = flush
    BY <1>1, <2>3 DEF BatchInv, Gone
  <2>4. CASE c = b /\ b = writing
    <3>1. a \in Waiting \union {flush}
      BY <1>6, <2>1, <2>4 DEF BatchInv, BatchesAccounted
    <3>2. a \notin Waiting
      BY <1>1, <1>6, <2>4 DEF BatchInv, BatchesAccounted
    <3>3. a # flush
      BY <1>1, <1>6, <2>4
    <3>. QED  BY <3>1, <3>2, <3>3
  <2>. QED  BY <2>2, <2>3, <2>4 DEF Gone
<1>7. built' = built /\ sizes' = sizes /\ (Running' <=> Running)
  BY DEF Gone, Running
<1>8. \A i, j \in 1..Len(queue') : i < j => queue'[i] < queue'[j]
  BY DEF Gone, Increasing
<1>9. BatchesAccounted'
  <2>1. Len(sizes') = built' /\ Len(settled') = built'
    BY <1>3, <1>7 DEF BatchInv, BatchesAccounted
  <2>2. (\A c \in Waiting' : writing' < c /\ c # flush')
        /\ (writing' # 0 => writing' # flush')
    BY DEF Gone
  <2>. QED  BY <1>4, <1>5, <1>6, <1>7, <1>8, <2>1, <2>2 DEF BatchesAccounted
<1>. QED  BY <1>1, <1>3, <1>7, <1>9 DEF BatchInv, Gone

\* The writer takes the oldest batch there is.
LEMMA TakenNext ==
  ASSUME BatchInv, queue # <<>>
  PROVE  /\ Head(queue) \in 1..built /\ Tail(queue) \in Seq(1..built)
         /\ Len(Tail(queue)) <= QueueMax
         /\ Increasing(Tail(queue))
         /\ Waiting = Members(Tail(queue)) \union {Head(queue)}
         /\ Head(queue) \notin Members(Tail(queue))
         /\ \A c \in Members(Tail(queue)) : Head(queue) < c
         /\ Head(queue) # flush
         /\ \A c \in Members(Tail(queue)) : c # flush
<1>1. /\ built \in Nat /\ queue \in Seq(1..built) /\ Increasing(queue)
      /\ Waiting = Members(queue) /\ Waiting \subseteq 1..built
      /\ Len(queue) \in Nat
  BY QueueFacts
<1>2. Len(queue) <= QueueMax /\ QueueMax \in Nat
  BY StreamOK DEF BatchInv
<1>3. /\ Head(queue) \in 1..built /\ Tail(queue) \in Seq(1..built)
      /\ Len(Tail(queue)) = Len(queue) - 1
      /\ Members(queue) = Members(Tail(queue)) \union {Head(queue)}
      /\ \A c \in Members(Tail(queue)) : Head(queue) < c
      /\ Increasing(Tail(queue))
  BY <1>1, IncreasingTail
<1>4. \A c \in Waiting : c # flush
  BY DEF BatchInv, BatchesAccounted
<1>5. Len(Tail(queue)) <= QueueMax
  BY <1>1, <1>2, <1>3
<1>6. Head(queue) \notin Members(Tail(queue))
  BY <1>3
<1>. QED  BY <1>1, <1>3, <1>4, <1>5, <1>6

LEMMA TakeBatches ==
  ASSUME BatchInv, Take
  PROVE  BatchInv'
<1>1. /\ queue # <<>> /\ writing = 0 /\ tick # "off"
      /\ writing' = Head(queue) /\ queue' = Tail(queue)
      /\ UNCHANGED <<tick, flush, sizes, built, settled>>
  BY DEF Take, tickvars
<1>2. /\ writing' \in 1..built /\ queue' \in Seq(1..built)
      /\ Len(queue') <= QueueMax /\ Increasing(queue')
      /\ Waiting = Members(queue') \union {writing'}
      /\ \A c \in Members(queue') : writing' < c /\ c # flush
      /\ writing' # flush
  BY <1>1, TakenNext
<1>3. Waiting' = Members(queue') /\ (Running' <=> Running) /\ 0 \notin 1..built
  BY <1>1 DEF Waiting, Members, Running
<1>4. Waiting' \union ({writing', flush'} \ {0}) =
        Waiting \union ({writing, flush} \ {0})
  BY <1>1, <1>2, <1>3
<1>5. \A i, j \in 1..Len(queue') : i < j => queue'[i] < queue'[j]
  BY <1>2 DEF Increasing
<1>6. \A c \in 1..built : settled[c] = "pending" <=>
        c \in Waiting \union ({writing, flush} \ {0})
  BY DEF BatchInv, BatchesAccounted
<1>7. /\ Len(settled) = built /\ Len(sizes) = built
      /\ \A c \in 1..built : settled[c] = "lost" => tick = "off"
      /\ \A a, c \in 1..built :
           (/\ a < c /\ settled[a] \in {"pending", "lost"}
            /\ settled[c] \in {"stored", "failed"}) => c = built /\ ~Running
  BY DEF BatchInv, BatchesAccounted
<1>8. BatchesAccounted'
  BY <1>1, <1>2, <1>3, <1>4, <1>5, <1>6, <1>7 DEF BatchesAccounted
<1>9. writing' \in 0..built
  BY <1>2 DEF BatchInv
<1>. QED  BY <1>1, <1>2, <1>3, <1>8, <1>9 DEF BatchInv

\* A batch is written or fails, and the writer goes on to the next.
LEMMA WroteBatches ==
  ASSUME BatchInv, Wrote
  PROVE  BatchInv'
<1>1. /\ writing # 0 /\ tick # "off" /\ UNCHANGED <<tick, flush, sizes, built>>
      /\ \E o \in {"stored", "failed"} : settled' = [settled EXCEPT ![writing] = o]
  BY DEF Wrote, tickvars, Insert, InsertFails
<1>2. PICK o \in {"stored", "failed"} : settled' = [settled EXCEPT ![writing] = o]
  BY <1>1
<1>3. /\ writing \in 1..built /\ writing \notin Waiting /\ writing # flush
      /\ \A c \in Waiting : writing < c /\ c # flush
  BY <1>1, QueueFacts DEF BatchInv, BatchesAccounted
<1>4. Waiting' = Members(queue')
  BY DEF Waiting, Members
<1>5. CASE Running /\ queue # <<>>
  <2>1. writing' = Head(queue) /\ queue' = Tail(queue)
    BY <1>5 DEF Wrote
  <2>2. /\ writing' \in 1..built /\ queue' \in Seq(1..built)
        /\ Len(queue') <= QueueMax /\ Increasing(queue')
        /\ Waiting = Members(queue') \union {writing'}
        /\ \A c \in Members(queue') : writing' < c /\ c # flush
        /\ writing' # flush
    BY <1>5, <2>1, TakenNext
  <2>3. writing' # 0 /\ writing' \in 0..built
    BY <2>2 DEF BatchInv
  <2>4. Waiting' \union ({writing', flush'} \ {0}) =
          (Waiting \union ({writing, flush} \ {0})) \ {writing}
    BY <1>1, <1>3, <1>4, <2>2, <2>3
  <2>5. Gone(writing, o)
    BY <1>1, <1>2, <1>4, <2>2, <2>3, <2>4 DEF Gone, Increasing
  <2>. QED  BY <2>5, BatchGone
<1>6. CASE ~(Running /\ queue # <<>>)
  <2>1. writing' = 0 /\ queue' = queue
    BY <1>6 DEF Wrote
  <2>2. Waiting' = Waiting
    BY <2>1 DEF Waiting
  <2>3. Waiting' \union ({writing', flush'} \ {0}) =
          (Waiting \union ({writing, flush} \ {0})) \ {writing}
    BY <1>1, <1>3, <2>1, <2>2
  <2>4. \A c \in Waiting : 0 < c /\ c # flush
    BY <1>3, QueueFacts
  <2>5. queue' \in Seq(1..built) /\ Increasing(queue)' /\ Len(queue') <= QueueMax
    BY <2>1, QueueFacts DEF BatchInv, Increasing
  <2>6. writing' \in 0..built
    BY <2>1 DEF BatchInv
  <2>7. Gone(writing, o)
    BY <1>1, <1>2, <2>1, <2>2, <2>3, <2>4, <2>5, <2>6 DEF Gone
  <2>. QED  BY <2>7, BatchGone
<1>. QED  BY <1>5, <1>6

\* stop() writes the last one.
LEMMA FlushedBatches ==
  ASSUME BatchInv, Flushed
  PROVE  BatchInv'
<1>1. /\ flush # 0 /\ flush' = 0 /\ tick = "stopping"
      /\ UNCHANGED <<tick, queue, writing, sizes, built>>
      /\ \E o \in {"stored", "failed"} : settled' = [settled EXCEPT ![flush] = o]
  BY DEF Flushed, tickvars, Insert, InsertFails
<1>2. PICK o \in {"stored", "failed"} : settled' = [settled EXCEPT ![flush] = o]
  BY <1>1
<1>3. /\ flush \notin Waiting /\ writing # flush
      /\ \A c \in Waiting : writing < c /\ c \in 1..built
  BY <1>1, QueueFacts DEF BatchInv, BatchesAccounted
<1>4. Waiting' = Waiting
  BY <1>1 DEF Waiting
<1>5. Waiting' \union ({writing', flush'} \ {0}) =
        (Waiting \union ({writing, flush} \ {0})) \ {flush}
  BY <1>1, <1>3, <1>4
<1>6. \A c \in Waiting' : writing' < c /\ c # flush'
  BY <1>1, <1>3, <1>4
<1>7. queue' \in Seq(1..built) /\ Increasing(queue)' /\ Len(queue') <= QueueMax
  BY <1>1, QueueFacts DEF BatchInv, Increasing
<1>8. writing' \in 0..built
  BY <1>1 DEF BatchInv
<1>9. Gone(flush, o)
  BY <1>1, <1>2, <1>5, <1>6, <1>7, <1>8 DEF Gone
<1>. QED  BY <1>9, BatchGone

\* Whoever had a batch when the process ended has it no more.
LEMMA CutOffBatches ==
  ASSUME BatchInv, tick # "off", CutOff
  PROVE  BatchInv'
<1>1. /\ tick' = "off" /\ queue' = <<>> /\ writing' = 0 /\ flush' = 0
      /\ UNCHANGED <<sizes, built>>
      /\ settled' = [b \in 1..built |->
                       IF settled[b] = "pending" THEN "lost" ELSE settled[b]]
  BY DEF CutOff, Abandoned
<1>2. /\ built \in Nat /\ settled \in Seq(Outcomes) /\ Len(settled) = built
      /\ Len(sizes) = built /\ sizes \in Seq(Nat)
  BY DEF BatchInv, BatchesAccounted
<1>3. \A b \in 1..built : settled[b] \in Outcomes
  BY <1>2, ElementOfSeq
<1>4. settled' \in [1..built -> Outcomes]
  BY <1>1, <1>3 DEF Outcomes
<1>5. settled' \in Seq(Outcomes) /\ Len(settled') = built
  BY <1>2, <1>4, SeqDef
<1>6. Waiting' = {}
  BY <1>1 DEF Waiting
<1>7. queue' \in Seq(1..built) /\ Len(queue') = 0 /\ 0 <= QueueMax
  BY <1>1, EmptySeq, StreamOK
<1>8. ~Running'
  BY <1>1 DEF Running
<1>9. ASSUME NEW a \in 1..built, NEW b \in 1..built, a < b,
             settled'[a] \in {"pending", "lost"},
             settled'[b] \in {"stored", "failed"}
      PROVE  b = built
  <2>1. settled[a] \in {"pending", "lost"} /\ settled[b] \in {"stored", "failed"}
    BY <1>1, <1>9
  <2>. QED  BY <1>9, <2>1 DEF BatchInv, BatchesAccounted
<1>10. \A b \in 1..built : settled'[b] # "pending"
  BY <1>1
<1>11. \A i, j \in 1..Len(queue') : i < j => queue'[i] < queue'[j]
  BY <1>7
<1>12. BatchesAccounted'
  BY <1>1, <1>2, <1>5, <1>6, <1>8, <1>9, <1>10, <1>11 DEF BatchesAccounted
<1>. QED  BY <1>1, <1>2, <1>5, <1>7, <1>8, <1>12 DEF BatchInv

------------------------------------------------------------------------------
(* The tick and the counters.                                              *)

LEMMA TickStep ==
  ASSUME TickInv, StreamNext
  PROVE  TickInv'
<1>1. ASSUME NEW m \in Polled, NEW rows \in SUBSET Rows, Poll(m, rows)
      PROVE  TickInv'
  <2>1. /\ tick' = "polling" /\ polled' = [polled EXCEPT ![m] = rows]
        /\ UNCHANGED <<paused, buffer, events, ticks, looping>>
    BY <1>1 DEF Poll, storevars
  <2>2. DOMAIN polled' = Polled
    BY <2>1 DEF TickInv
  <2>3. \A k \in Polled : polled'[k] = IF k = m THEN rows ELSE polled[k]
    BY <2>1 DEF TickInv
  <2>4. \A k \in Polled : polled'[k] = Absent \/ polled'[k] \subseteq Rows
    BY <1>1, <2>3 DEF TickInv
  <2>. QED  BY <2>1, <2>2, <2>4 DEF TickInv
<1>2. DOMAIN Unpolled = Polled /\ \A m \in Polled : Unpolled[m] = Absent
  BY DEF Unpolled
<1>3. ASSUME Finish
      PROVE  /\ tick' = "resting" /\ polled' = Unpolled /\ events' = 0
             /\ buffer' \in {buffer, {}} /\ UNCHANGED <<paused, ticks, looping>>
  BY <1>3 DEF Finish, Build
<1>4. ASSUME Finish PROVE TickInv'
  <2>1. /\ tick' = "resting" /\ polled' = Unpolled /\ events' = 0
        /\ buffer' \in {buffer, {}} /\ UNCHANGED <<paused, ticks, looping>>
    BY <1>3, <1>4
  <2>2. buffer' \subseteq Rows
    BY <2>1 DEF TickInv
  <2>3. DOMAIN polled' = Polled /\ \A m \in Polled : polled'[m] = Absent
    BY <1>2, <2>1
  <2>. QED  BY <2>1, <2>2, <2>3 DEF TickInv
<1>5. ASSUME Accumulate PROVE TickInv'
  <2>1. CASE Kept = {}
    BY <1>4, <1>5, <2>1 DEF Accumulate
  <2>2. CASE Kept # {}
    <3>1. /\ \A m \in Polled : polled[m] # Absent
          /\ tick' = "publishing" /\ events' = Cardinality(Kept)
          /\ buffer' \subseteq buffer \union Kept
          /\ UNCHANGED <<paused, polled, ticks, looping>>
      BY <1>5, <2>2 DEF Accumulate, storevars
    <3>2. Kept \subseteq Rows /\ Cardinality(Kept) \in Nat
      BY <3>1, RowsSplit
    <3>3. Kept' = Kept
      BY <3>1 DEF Kept, AllRows
    <3>. QED  BY <3>1, <3>2, <3>3 DEF TickInv
  <2>. QED  BY <2>1, <2>2
<1>6. ASSUME Publish PROVE TickInv'
  BY <1>4, <1>6 DEF Publish
<1>7. ASSUME PublishFails PROVE TickInv'
  BY <1>4, <1>7 DEF PublishFails
<1>8. ASSUME StartTick PROVE TickInv'
  BY <1>8 DEF StartTick, TickInv, storevars
<1>9. ASSUME NEW p \in BOOLEAN, Pause(p) PROVE TickInv'
  <2>1. Kept' = Kept
    BY <1>9 DEF Pause, Kept, AllRows
  <2>. QED  BY <1>9, <2>1 DEF Pause, TickInv, storevars
<1>10. ASSUME UNCHANGED tickvars, looping' \in BOOLEAN PROVE TickInv'
  <2>1. Kept' = Kept
    BY <1>10 DEF tickvars, Kept, AllRows
  <2>. QED  BY <1>10, <2>1 DEF tickvars, TickInv
<1>11. ASSUME Take \/ Wrote \/ Flushed PROVE TickInv'
  <2>1. UNCHANGED tickvars
    BY <1>11 DEF Take, Wrote, Flushed
  <2>2. looping' = looping \/ looping' = Running
    BY <1>11 DEF Take, Wrote, Flushed
  <2>3. looping' \in BOOLEAN
    BY <2>2 DEF TickInv, Running
  <2>. QED  BY <1>10, <2>1, <2>3
<1>12. ASSUME Stop PROVE TickInv'
  <2>1. /\ tick' = "stopping" /\ polled' = Unpolled /\ events' = 0
        /\ buffer' \in {buffer, {}} /\ UNCHANGED <<paused, ticks, looping>>
    BY <1>12 DEF Stop, TickEnds, Build
  <2>. QED  BY <1>2, <2>1 DEF TickInv
<1>13. ASSUME CancelWriter PROVE TickInv'
  <2>1. /\ tick' = "off" /\ looping' = FALSE
        /\ UNCHANGED <<polled, events, buffer, paused, ticks>>
    BY <1>13 DEF CancelWriter, CutOff
  <2>. QED  BY <2>1 DEF TickInv
<1>14. ASSUME Killed PROVE TickInv'
  <2>1. /\ tick' = "off" /\ polled' = Unpolled /\ events' = 0 /\ looping' = FALSE
        /\ buffer' = {} /\ UNCHANGED <<paused, ticks>>
    BY <1>14 DEF Killed, CutOff, TickEnds
  <2>. QED  BY <1>2, <2>1 DEF TickInv
<1>. QED
  BY <1>1, <1>5, <1>6, <1>7, <1>8, <1>9, <1>11, <1>12, <1>13, <1>14
  DEF StreamNext, StreamRest

LEMMA BatchStep ==
  ASSUME BatchInv, TickInv, StreamNext
  PROVE  BatchInv'
<1>1. ASSUME UNCHANGED storevars, tick # "off", tick' # "off", Running' <=> Running
      PROVE  BatchInv'
  BY <1>1, BatchesStay DEF storevars
<1>2. ASSUME NEW m \in Polled, NEW rows \in SUBSET Rows, Poll(m, rows)
      PROVE  BatchInv'
  BY <1>1, <1>2 DEF Poll, Running
<1>3. ASSUME Accumulate PROVE BatchInv'
  <2>1. CASE Kept = {}
    BY <1>3, <2>1, FinishBatches DEF Accumulate, Running
  <2>2. CASE Kept # {}
    BY <1>1, <1>3, <2>2 DEF Accumulate, Running
  <2>. QED  BY <2>1, <2>2
<1>4. ASSUME Publish PROVE BatchInv'
  BY <1>4, FinishBatches DEF Publish, Running
<1>5. ASSUME PublishFails PROVE BatchInv'
  BY <1>5, FinishBatches DEF PublishFails, Running
<1>6. ASSUME StartTick PROVE BatchInv'
  BY <1>1, <1>6 DEF StartTick, Running
<1>7. ASSUME NEW p \in BOOLEAN, Pause(p) PROVE BatchInv'
  BY <1>1, <1>7 DEF Pause, Running
<1>8. ASSUME CancelWriter PROVE BatchInv'
  BY <1>8, CutOffBatches DEF CancelWriter
<1>9. ASSUME Killed PROVE BatchInv'
  BY <1>9, CutOffBatches DEF Killed
<1>. QED
  BY <1>2, <1>3, <1>4, <1>5, <1>6, <1>7, <1>8, <1>9, TakeBatches, WroteBatches,
     StopBatches, FlushedBatches
  DEF StreamNext, StreamRest

\* The counters go up with what they count.
LEMMA CountStep ==
  ASSUME BatchInv, TickInv, CountInv, StreamNext
  PROVE  CountInv'
<1>1. ASSUME Finish, tick \in {"polling", "publishing"},
             \A m \in Polled : polled[m] # Absent
      PROVE  /\ seen' = seen + Cardinality(AllRows)
             /\ skipped' = skipped + (Cardinality(AllRows) - Cardinality(Kept))
             /\ seen' \in Nat /\ skipped' \in Nat
             /\ Cardinality(AllRows) \in Nat /\ Cardinality(Kept) \in Nat
             /\ Cardinality(Kept) <= Cardinality(AllRows)
             /\ UNCHANGED <<docsWritten, snapshotsWritten, inMongo>>
  <2>1. /\ seen' = seen + Cardinality(AllRows)
        /\ skipped' = skipped + Cardinality(AllRows \ Kept)
        /\ UNCHANGED <<docsWritten, snapshotsWritten, inMongo>>
    BY <1>1 DEF Finish
  <2>2. /\ Cardinality(AllRows) \in Nat /\ Cardinality(Kept) \in Nat
        /\ Cardinality(AllRows \ Kept) \in Nat
        /\ Cardinality(AllRows) = Cardinality(AllRows \ Kept) + Cardinality(Kept)
    BY <1>1, RowsSplit
  <2>3. seen \in Nat /\ skipped \in Nat
    BY DEF CountInv
  <2>. QED  BY <2>1, <2>2, <2>3
<1>2. ASSUME UNCHANGED <<seen, skipped, published, delivered, undelivered,
                         unpublished, cut, docsWritten, snapshotsWritten, inMongo,
                         broken>>
      PROVE  CountInv'
  BY <1>2 DEF CountInv, CountersHonest
<1>3. ASSUME Accumulate PROVE CountInv'
  <2>1. CASE Kept = {}
    <3>1. Cardinality(Kept) = 0
      BY <2>1, FS_EmptySet
    <3>2. /\ Finish /\ tick = "polling" /\ \A m \in Polled : polled[m] # Absent
          /\ UNCHANGED <<published, delivered, undelivered, unpublished, cut,
                         broken>>
      BY <1>3, <2>1 DEF Accumulate
    <3>. QED  BY <1>1, <3>1, <3>2 DEF CountInv, CountersHonest
  <2>2. CASE Kept # {}
    <3>1. UNCHANGED <<seen, skipped, published, delivered, undelivered,
                      unpublished, cut, docsWritten, snapshotsWritten, inMongo, broken>>
      BY <1>3, <2>2 DEF Accumulate, storevars
    <3>. QED  BY <1>2, <3>1
  <2>. QED  BY <2>1, <2>2
<1>4. ASSUME tick = "publishing"
      PROVE  /\ \A m \in Polled : polled[m] # Absent
             /\ events = Cardinality(Kept)
  BY <1>4 DEF TickInv
<1>5. ASSUME Publish PROVE CountInv'
  <2>1. /\ tick = "publishing" /\ Finish
        /\ published' = published + events
        /\ UNCHANGED <<unpublished, cut>>
    BY <1>5 DEF Publish
  <2>2. /\ delivered' + undelivered' = delivered + undelivered + events
        /\ delivered' \in Nat /\ undelivered' \in Nat /\ broken' \in Nat
    <3>1. CASE delivered' = delivered + events /\ UNCHANGED <<undelivered, broken>>
      BY <3>1 DEF CountInv, TickInv
    <3>2. ASSUME NEW k \in 1..events, Break,
                 delivered' = delivered + (events - k), undelivered' = undelivered + k
          PROVE  <2>2
      BY <3>2 DEF CountInv, TickInv, Break
    <3>. QED  BY <1>5, <3>1, <3>2 DEF Publish
  <2>. QED  BY <1>1, <1>4, <2>1, <2>2 DEF CountInv, CountersHonest
<1>6. ASSUME PublishFails PROVE CountInv'
  <2>1. /\ tick = "publishing" /\ Finish /\ broken' = broken + 1
        /\ \E k \in 0..events : delivered' = delivered + k
        /\ unpublished' = unpublished + events
        /\ UNCHANGED <<published, undelivered, cut>>
    BY <1>6 DEF PublishFails, Break
  <2>2. PICK k \in 0..events : delivered' = delivered + k
    BY <2>1
  <2>3. k \in Nat /\ k <= events
    BY <2>2 DEF TickInv
  <2>. QED  BY <1>1, <1>4, <2>1, <2>2, <2>3 DEF CountInv, CountersHonest
<1>7. ASSUME Take PROVE CountInv'
  BY <1>2, <1>7 DEF Take, tickvars
<1>8. ASSUME NEW b \in 1..built, Insert(b) \/ InsertFails(b),
             snapshotsWritten' = snapshotsWritten + sizes[b], UNCHANGED tickvars
      PROVE  CountInv'
  <2>1. sizes[b] \in Nat
    BY <1>8, ElementOfSeq DEF BatchInv, BatchesAccounted
  <2>2. UNCHANGED <<seen, skipped, published, delivered, undelivered,
                    unpublished, cut>>
    BY <1>8 DEF tickvars
  <2>3. CASE Insert(b)
    BY <1>8, <2>1, <2>2, <2>3 DEF Insert, CountInv, CountersHonest
  <2>4. CASE InsertFails(b)
    <3>1. PICK k \in 0..sizes[b] : inMongo' = inMongo + k
      BY <2>4 DEF InsertFails
    <3>2. k \in Nat
      BY <2>1, <3>1
    <3>3. docsWritten' = docsWritten /\ broken' = broken + 1
      BY <2>4 DEF InsertFails, Break
    <3>. QED
      BY <1>8, <2>1, <2>2, <3>1, <3>2, <3>3 DEF CountInv, CountersHonest
  <2>. QED  BY <1>8, <2>3, <2>4
<1>9. ASSUME Wrote PROVE CountInv'
  <2>1. writing \in 1..built
    BY <1>9 DEF Wrote, BatchInv
  <2>2. /\ Insert(writing) \/ InsertFails(writing)
        /\ snapshotsWritten' = snapshotsWritten + sizes[writing]
        /\ UNCHANGED tickvars
    BY <1>9 DEF Wrote
  <2>. QED  BY <1>8, <2>1, <2>2
<1>10. ASSUME Flushed PROVE CountInv'
  <2>1. flush \in 1..built
    BY <1>10 DEF Flushed, BatchInv
  <2>2. /\ Insert(flush) \/ InsertFails(flush)
        /\ snapshotsWritten' = snapshotsWritten + sizes[flush]
        /\ UNCHANGED tickvars
    BY <1>10 DEF Flushed
  <2>. QED  BY <1>8, <2>1, <2>2
<1>11. ASSUME TickEnds, inMongo' \in Nat, inMongo' >= inMongo,
              UNCHANGED <<seen, skipped, published, undelivered, unpublished,
                          docsWritten, snapshotsWritten, broken>>
       PROVE  CountInv'
  <2>1. PICK k \in 0..events : delivered' = delivered + k
    BY <1>11 DEF TickEnds
  <2>2. k \in Nat /\ k <= events /\ events \in Nat /\ cut' = cut + events
    BY <1>11, <2>1 DEF TickInv, TickEnds
  <2>. QED  BY <1>11, <2>1, <2>2 DEF CountInv, CountersHonest
<1>12. ASSUME Stop PROVE CountInv'
  <2>1. TickEnds /\ inMongo' = inMongo
        /\ UNCHANGED <<seen, skipped, published, undelivered, unpublished,
                       docsWritten, snapshotsWritten, broken>>
    BY <1>12 DEF Stop
  <2>2. inMongo \in Nat
    BY DEF CountInv
  <2>. QED  BY <1>11, <2>1, <2>2
<1>13. ASSUME CutOff
       PROVE  /\ inMongo' \in Nat /\ inMongo' >= inMongo
              /\ UNCHANGED <<seen, skipped, published, undelivered, unpublished,
                             docsWritten, snapshotsWritten, broken>>
  <2>1. \A b \in 1..built : sizes[b] \in Nat
    BY ElementOfSeq DEF BatchInv, BatchesAccounted
  <2>2. Size(writing) \in Nat /\ Size(flush) \in Nat
    BY <2>1 DEF Size, BatchInv
  <2>3. PICK k \in 0..(Size(writing) + Size(flush)) : inMongo' = inMongo + k
    BY <1>13 DEF CutOff
  <2>4. k \in Nat
    BY <2>2, <2>3
  <2>5. inMongo \in Nat
    BY DEF CountInv
  <2>. QED  BY <1>13, <2>3, <2>4, <2>5 DEF CutOff
<1>14. ASSUME CancelWriter PROVE CountInv'
  <2>1. CutOff /\ delivered' = delivered /\ cut' = cut
    BY <1>14 DEF CancelWriter
  <2>. QED  BY <1>13, <2>1 DEF CountInv, CountersHonest
<1>15. ASSUME Killed PROVE CountInv'
  BY <1>11, <1>13, <1>15 DEF Killed
<1>16. ASSUME NEW m \in Polled, NEW rows \in SUBSET Rows, Poll(m, rows)
       PROVE  CountInv'
  BY <1>2, <1>16 DEF Poll, storevars
<1>17. ASSUME StartTick PROVE CountInv'
  BY <1>2, <1>17 DEF StartTick, storevars
<1>18. ASSUME NEW p \in BOOLEAN, Pause(p) PROVE CountInv'
  BY <1>2, <1>18 DEF Pause, storevars
<1>. QED
  BY <1>3, <1>5, <1>6, <1>7, <1>9, <1>10, <1>12, <1>14, <1>15, <1>16, <1>17,
     <1>18
  DEF StreamNext, StreamRest

------------------------------------------------------------------------------
(* The theorems.                                                           *)

LEMMA StreamInitInv ==
  ASSUME StreamInit
  PROVE  StreamInv
<1>1. BatchInv
  <2>1. /\ built = 0 /\ queue = <<>> /\ writing = 0 /\ flush = 0
        /\ sizes = <<>> /\ settled = <<>>
    BY DEF StreamInit
  <2>2. /\ queue \in Seq(1..built) /\ sizes \in Seq(Nat)
        /\ settled \in Seq(Outcomes) /\ Len(queue) = 0 /\ Len(sizes) = 0
        /\ Len(settled) = 0
    BY <2>1, EmptySeq
  <2>3. Waiting = {} /\ Len(queue) <= QueueMax
    BY <2>2, StreamOK DEF Waiting
  <2>4. BatchesAccounted
    BY <2>1, <2>2, <2>3 DEF BatchesAccounted
  <2>. QED  BY <2>1, <2>2, <2>3, <2>4 DEF BatchInv
<1>2. TickInv
  BY DEF StreamInit, TickInv, Unpolled
<1>3. CountInv
  BY DEF StreamInit, CountInv, CountersHonest
<1>. QED  BY <1>1, <1>2, <1>3 DEF StreamInv

LEMMA StreamStep ==
  ASSUME StreamInv, [StreamNext]_streamvars
  PROVE  StreamInv'
<1>1. CASE StreamNext
  BY <1>1, BatchStep, TickStep, CountStep DEF StreamInv
<1>2. CASE UNCHANGED streamvars
  <2>1. Waiting' = Waiting /\ Kept' = Kept
    BY <1>2 DEF streamvars, storevars, tickvars, Waiting, Kept, AllRows
  <2>2. BatchInv'
    BY <1>2, <2>1 DEF streamvars, storevars, tickvars, StreamInv, BatchInv,
                      BatchesAccounted, Running
  <2>3. TickInv'
    BY <1>2, <2>1 DEF streamvars, storevars, tickvars, StreamInv, TickInv
  <2>4. CountInv'
    BY <1>2 DEF streamvars, storevars, tickvars, StreamInv, CountInv,
                CountersHonest
  <2>. QED  BY <2>2, <2>3, <2>4 DEF StreamInv
<1>. QED  BY <1>1, <1>2

LEMMA StreamInvariant == StreamSpec => []StreamInv
<1>1. StreamInit => StreamInv
  BY StreamInitInv
<1>2. StreamInv /\ [StreamNext]_streamvars => StreamInv'
  BY StreamStep
<1>. QED  BY <1>1, <1>2, PTL DEF StreamSpec

LEMMA StreamTyped ==
  ASSUME StreamInv
  PROVE  StreamTypeOK
<1>1. /\ built \in Nat /\ queue \in Seq(1..built) /\ Len(queue) <= QueueMax
      /\ writing \in 0..built /\ flush \in 0..built
      /\ sizes \in Seq(Nat) /\ settled \in Seq(Outcomes)
  BY DEF StreamInv, BatchInv
<1>2. /\ tick \in {"resting", "polling", "publishing", "stopping", "off"}
      /\ paused \in BOOLEAN /\ looping \in BOOLEAN
      /\ DOMAIN polled = Polled
      /\ \A m \in Polled : polled[m] = Absent \/ polled[m] \subseteq Rows
      /\ buffer \subseteq Rows
  BY DEF StreamInv, TickInv
<1>3. {events, seen, skipped, published, docsWritten, snapshotsWritten,
       delivered, undelivered, unpublished, cut, inMongo, ticks, broken}
        \subseteq Nat
  BY DEF StreamInv, TickInv, CountInv
<1>. QED  BY <1>1, <1>2, <1>3, Zenon DEF StreamTypeOK, Outcomes

\* The types of infra-metrics-stream's state, and that its queue never holds
\* more than asyncio.Queue(maxsize) allows.
THEOREM StreamTypeCorrect == StreamSpec => []StreamTypeOK
BY StreamTyped, StreamInvariant, PTL

\* Whenever the service is stopped or killed, and whatever failed before, every
\* batch _build_snapshot_docs made is accounted for, once, and the writer has
\* kept to their order.
THEOREM BatchesStayAccounted == StreamSpec => []BatchesAccounted
<1>1. StreamInv => BatchesAccounted
  BY DEF StreamInv, BatchInv
<1>. QED  BY <1>1, StreamInvariant, PTL

\* However publications, deliveries and writes fail, and wherever the service is
\* stopped or killed, what /stream/status counts as written was, no sample that
\* _process_tick saw is unaccounted for, and Kafka differs from the events counted
\* as published by failed deliveries, which publish_batch does not notice, and by
\* publications that raised or were cut off, and by nothing else.
THEOREM CountersStayHonest == StreamSpec => []CountersHonest
<1>1. StreamInv => CountersHonest
  BY DEF StreamInv, CountInv
<1>. QED  BY <1>1, StreamInvariant, PTL
==============================================================================
