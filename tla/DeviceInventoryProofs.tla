------------------------ MODULE DeviceInventoryProofs ------------------------
(***************************************************************************)
(* Theorems about DeviceInventory, for any set of requests to the two      *)
(* services, in any interleaving and with any number of failures: its      *)
(* types, that the topic tells of no change that was not committed, that   *)
(* it ends up with every device and rack where PostgreSQL has it, that the *)
(* slot engine finds the lowest free slot, and that bulk deployments run   *)
(* into nothing they could have seen.                                      *)
(***************************************************************************)
EXTENDS DeviceInventory, SequenceTheorems, WellFoundedInduction, TLAPS

Wheres == Entities \union Places \union {None}

\* What a request holds at await s: its events n and the racks r it has left.
Holds(q, s, n, r) ==
  /\ s \in Stages /\ n \in Seq(Events) /\ r \in Seq(Entities \union Places)
  /\ s \in {"place", "insert"} =>
       Body[q].op = "bulk" /\ r # <<>> /\ Len(r) + Len(n) <= Body[q].rows
  /\ s = "commit" => Body[q].op \in {"create", "move", "delete"}
  /\ s = "reread" => Body[q].op = "move"
  /\ s \in {"publish", "sent"} => n # <<>>
  /\ s \in {"new", "done", "commit", "reread"} => n = <<>>

\* The first of n is the last that buffer b has of q.
Queued(q, n, b) ==
  \E i \in 1..Len(b) : /\ b[i] = <<q, Head(n)>>
                       /\ \A j \in 1..Len(b) : i < j => b[j][1] # q

TypeInv ==
  /\ table \in [Entities -> Rows \union {None}]
  /\ stage \in [Requests -> Stages]
  /\ news \in [Requests -> Seq(Events)]
  /\ racks \in [Requests -> Seq(Entities \union Places)]
  /\ seen \in [Requests -> SUBSET (Rows \union {None})]
  /\ buffer \in [Services -> Seq(Requests \X Events)]
  /\ shown \in [Entities -> Wheres]
  /\ \A q \in Requests : Holds(q, stage[q], news[q], racks[q])
  /\ \A q \in Requests : stage[q] = "sent" =>
       Queued(q, news[q], buffer[Body[q].service])

\* A row its request has still to create.
Future(e) ==
  LET q == e[1] IN
  \/ Body[q].op = "create" /\ stage[q] \in {"new", "commit"}
  \/ /\ Body[q].op = "bulk"
     /\ \/ stage[q] = "new"
        \/ stage[q] \in {"place", "insert"} /\ Len(news[q]) < e[2]

\* Events n tell of facts in F.
Says(n, F) == \A i \in 1..Len(n) : <<n[i].entity, n[i].where>> \in F
Carries(b, F) ==
  \A i \in 1..Len(b) : <<b[i][2].entity, b[i][2].where>> \in F

Changing(q, s) ==
  s \in {"commit", "reread"} /\ Body[q].op \in {"move", "delete"}

\* Rows are created once, and never again: a move that still finds its row has
\* therefore committed.
FactInv ==
  /\ \A e \in Entities : table[e] # None => ~Future(e)
  /\ \A q \in Requests : Changing(q, stage[q]) => ~Future(Body[q].target)
  /\ \A q \in Requests :
       stage[q] = "reread" /\ table[Body[q].target] # None =>
         <<Body[q].target, Head(Body[q].racks)>> \in facts
  /\ \A q \in Requests : Says(news[q], facts)
  /\ \A s \in Services : Carries(buffer[s], facts)
  /\ \A e \in Entities : shown[e] # None => <<e, shown[e]>> \in facts

------------------------------------------------------------------------------
(* Requests and rows.                                                      *)

LEMMA Requested ==
  ASSUME NEW q \in Requests
  PROVE  /\ Body[q].service \in Services /\ Body[q].start \in Nat
         /\ Body[q].size \in Nat /\ Body[q].rows \in Nat
         /\ Body[q].racks \in Seq(Entities \union Places)
         /\ Body[q].op \in {"create", "bulk", "move", "delete"}
         /\ Body[q].op \in {"create", "move"} =>
              Head(Body[q].racks) \in Entities \union Places
         /\ Body[q].op \in {"move", "delete"} => Body[q].target \in Entities
         /\ Body[q].op = "bulk" => Len(Body[q].racks) <= Body[q].rows
<1>1. Body[q] \in Bodies
  BY ConstantsOK
<1>2. /\ Body[q].service \in Services /\ Body[q].start \in Nat
      /\ Body[q].size \in Nat /\ Body[q].rows \in Nat
      /\ Body[q].racks \in Seq(Entities \union Places)
      /\ Body[q].op \in {"create", "bulk", "move", "delete"}
      /\ Body[q].target \in Entities \union {None}
  BY <1>1 DEF Bodies
<1>3. Body[q].racks # <<>> => Head(Body[q].racks) \in Entities \union Places
  BY <1>2, HeadTailProperties
<1>. QED  BY <1>2, <1>3, ConstantsOK

LEMMA EntityParts ==
  ASSUME NEW e \in Entities
  PROVE  /\ e = <<e[1], e[2]>> /\ e[1] \in Requests
         /\ e[2] \in 1..Body[e[1]].rows
<1>1. PICK q \in Requests : e \in {<<q, k>> : k \in 1..Body[q].rows}
  BY DEF Entities
<1>2. PICK k \in 1..Body[q].rows : e = <<q, k>>
  BY <1>1
<1>. QED  BY <1>2

LEMMA EntityOf ==
  ASSUME NEW q \in Requests, NEW k \in 1..Body[q].rows
  PROVE  <<q, k>> \in Entities
BY DEF Entities

LEMMA TupleTyped ==
  ASSUME NEW S, NEW N \in Nat, NEW f \in [1..N -> S]
  PROVE  f \in Seq(S) /\ Len(f) = N
OBVIOUS

LEMMA EventTyped ==
  ASSUME NEW e \in Entities, NEW w \in Wheres
  PROVE  /\ Event(e, w) \in Events
         /\ Event(e, w).entity = e /\ Event(e, w).where = w
         /\ <<Event(e, w)>> \in Seq(Events) /\ Len(<<Event(e, w)>>) = 1
         /\ <<Event(e, w)>> # <<>>
         /\ \A F : <<e, w>> \in F => Says(<<Event(e, w)>>, F)
<1>1. Event(e, w) \in Events /\ Event(e, w).entity = e /\ Event(e, w).where = w
  BY DEF Event, Events, Wheres
<1>2. /\ <<Event(e, w)>> \in Seq(Events) /\ Len(<<Event(e, w)>>) = 1
      /\ <<Event(e, w)>>[1] = Event(e, w)
  BY <1>1
<1>3. \A F : <<e, w>> \in F => Says(<<Event(e, w)>>, F)
  BY <1>1, <1>2 DEF Says
<1>. QED  BY <1>1, <1>2, <1>3

------------------------------------------------------------------------------
(* The slot engine.                                                        *)

LEMMA LeastOfNaturals ==
  ASSUME NEW S \in SUBSET Nat, S # {}
  PROVE  Least(S) \in S /\ \A v \in S : Least(S) <= v
<1> DEFINE R == OpToRel(<, Nat)
<1>1. R = {ss \in Nat \X Nat : ss[1] < ss[2]}
  BY DEF OpToRel
<1>2. IsWellFoundedOn(R, Nat)
  BY NatLessThanWellFounded, Zenon
<1> HIDE DEF R
<1>3. PICK u \in S : \A v \in S : <<v, u>> \notin R
  BY <1>2, WFMin
<1>4. ASSUME NEW v \in S PROVE u <= v
  <2>1. u \in Nat /\ v \in Nat /\ <<v, u>> \notin R
    BY <1>3
  <2>2. ~(v < u)
    BY <1>1, <2>1
  <2>. QED  BY <2>1, <2>2
<1>. QED  BY <1>4 DEF Least

\* find_next_available_slot returns a slot that lies inside the rack and is
\* free, the lowest of them, or -1 when there is none.
THEOREM SlotIsLowest ==
  ASSUME NEW size \in Nat, NEW height \in Nat, NEW rows
  PROVE  LET u == find_next_available_slot(size, height, rows)
             Free(v) == Units(v, size) \intersect Occupied(rows) = {}
         IN \/ u = -1 /\ \A v \in 1..(height - size + 1) : ~Free(v)
            \/ /\ u \in Nat \ {0} /\ u + size - 1 <= height /\ Free(u)
               /\ \A v \in 1..(height - size + 1) : Free(v) => u <= v
<1> DEFINE S == {u \in 1..(height - size + 1) :
                   Units(u, size) \intersect Occupied(rows) = {}}
<1>1. CASE S = {}
  BY <1>1 DEF find_next_available_slot
<1>2. CASE S # {}
  <2>1. find_next_available_slot(size, height, rows) = Least(S)
    BY <1>2 DEF find_next_available_slot
  <2>2. S \in SUBSET Nat
    OBVIOUS
  <2>3. Least(S) \in S /\ \A v \in S : Least(S) <= v
    BY <1>2, <2>2, LeastOfNaturals
  <2>. QED  BY <2>1, <2>3
<1>. QED  BY <1>1, <1>2

------------------------------------------------------------------------------
(* Steps.                                                                  *)

\* Request q goes on to s, with events n.
Moves(q, s, n) ==
  /\ stage' = [stage EXCEPT ![q] = s]
  /\ news' = [news EXCEPT ![q] = n]

\* What any request may do at a step: stay, or come nearer to its end.
Forward(q, s, n) ==
  \/ s = stage[q] /\ n = news[q]
  \/ /\ s # "new"
     /\ s = "commit" => stage[q] = "new"
     /\ s \in {"place", "insert"} =>
          \/ stage[q] = "new"
          \/ stage[q] \in {"place", "insert"} /\ Len(news[q]) <= Len(n)

\* Rows only appear where their request creates them.
Grows == \A e \in Entities :
           table'[e] # None => table[e] # None \/ (Future(e) /\ ~Future(e)')

LEMMA MovesOne ==
  ASSUME TypeInv, NEW q \in Requests, NEW s, NEW n, Moves(q, s, n)
  PROVE  /\ stage'[q] = s /\ news'[q] = n
         /\ \A p \in Requests : p # q => stage'[p] = stage[p] /\ news'[p] = news[p]
BY DEF TypeInv, Moves

LEMMA OneForward ==
  ASSUME TypeInv, NEW q \in Requests, NEW s, NEW n, Moves(q, s, n),
         Forward(q, s, n)
  PROVE  \A p \in Requests : Forward(p, stage'[p], news'[p])
<1>1. \A p \in Requests : p # q => Forward(p, stage'[p], news'[p])
  BY MovesOne DEF Forward
<1>. QED  BY <1>1, MovesOne

\* What was created stays so.
LEMMA FutureGone ==
  ASSUME TypeInv, TypeInv',
         \A p \in Requests : Forward(p, stage'[p], news'[p]),
         NEW e \in Entities, Future(e)'
  PROVE  Future(e)
<1>1. e[1] \in Requests /\ e[2] \in Nat
  BY EntityParts, Requested
<1> DEFINE q == e[1]
<1>2. /\ Len(news[q]) \in Nat /\ Len(news'[q]) \in Nat
  BY <1>1, LenProperties DEF TypeInv
<1>3. Forward(q, stage'[q], news'[q])
  BY <1>1
<1>. QED  BY <1>1, <1>2, <1>3 DEF Future, Forward

\* FactInv from one step to the next.
LEMMA FactsKept ==
  ASSUME TypeInv, FactInv, TypeInv', Grows, facts \subseteq facts',
         \A p \in Requests : Forward(p, stage'[p], news'[p]),
         \A p \in Requests : Changing(p, stage'[p]) => ~Future(Body[p].target),
         \A p \in Requests :
           stage'[p] = "reread" /\ table'[Body[p].target] # None =>
             <<Body[p].target, Head(Body[p].racks)>> \in facts',
         \A p \in Requests : Says(news'[p], facts'),
         \A s \in Services : Carries(buffer'[s], facts'),
         \A e \in Entities : shown'[e] # None => <<e, shown'[e]>> \in facts'
  PROVE  FactInv'
<1>1. \A e \in Entities : Future(e)' => Future(e)
  BY FutureGone
<1>2. \A e \in Entities : table'[e] # None => ~Future(e)'
  BY <1>1 DEF FactInv, Grows
<1>3. \A p \in Requests : Changing(p, stage'[p]) => ~Future(Body[p].target)'
  <2>1. \A p \in Requests : Changing(p, stage'[p]) => Body[p].target \in Entities
    BY Requested DEF Changing
  <2>. QED  BY <1>1, <2>1
<1>4. \A p \in Requests : Says(news[p], facts)'
  BY DEF Says
<1>5. \A s \in Services : Carries(buffer[s], facts)'
  BY DEF Carries
<1>6. \A p \in Requests : Changing(p, stage[p])' => ~Future(Body[p].target)'
  BY <1>3 DEF Changing
<1>. QED  BY <1>2, <1>4, <1>5, <1>6 DEF FactInv

\* Facts are never withdrawn.
LEMMA StillSaid ==
  ASSUME FactInv, NEW F, facts \subseteq F
  PROVE  /\ \A p \in Requests : Says(news[p], F)
         /\ \A s \in Services : Carries(buffer[s], F)
         /\ \A e \in Entities : shown[e] # None => <<e, shown[e]>> \in F
<1>1. \A p \in Requests : Says(news[p], F)
  BY DEF FactInv, Says
<1>2. \A s \in Services : Carries(buffer[s], F)
  BY DEF FactInv, Carries
<1>. QED  BY <1>1, <1>2 DEF FactInv

\* A step of one request that leaves Kafka alone.
LEMMA RequestTypes ==
  ASSUME TypeInv, NEW q \in Requests, NEW s, NEW n, NEW r, Moves(q, s, n),
         racks' = [racks EXCEPT ![q] = r], Holds(q, s, n, r), s # "sent",
         table' \in [Entities -> Rows \union {None}],
         seen' \in [Requests -> SUBSET (Rows \union {None})],
         UNCHANGED <<buffer, shown>>
  PROVE  TypeInv'
<1>1. s \in Stages /\ n \in Seq(Events) /\ r \in Seq(Entities \union Places)
  BY DEF Holds
<1>2. /\ stage' \in [Requests -> Stages] /\ news' \in [Requests -> Seq(Events)]
      /\ racks' \in [Requests -> Seq(Entities \union Places)]
  BY <1>1 DEF TypeInv, Moves
<1>3. \A p \in Requests : Holds(p, stage'[p], news'[p], racks'[p])
  <2>1. racks'[q] = r /\ \A p \in Requests : p # q => racks'[p] = racks[p]
    BY DEF TypeInv
  <2>2. Holds(q, stage'[q], news'[q], racks'[q])
    BY <2>1, MovesOne
  <2>. QED  BY <2>1, <2>2, MovesOne DEF TypeInv
<1>4. \A p \in Requests : Holds(p, stage[p], news[p], racks[p])'
  BY <1>3 DEF Holds
<1>5. \A p \in Requests : stage'[p] = "sent" =>
        Queued(p, news'[p], buffer'[Body[p].service])
  <2>1. \A p \in Requests : stage'[p] = "sent" =>
          p # q /\ stage[p] = "sent" /\ news'[p] = news[p]
    BY MovesOne
  <2>. QED  BY <2>1 DEF TypeInv
<1>6. \A p \in Requests : stage'[p] = "sent" =>
        Queued(p, news[p], buffer[Body[p].service])'
  BY <1>5 DEF Queued
<1>. QED  BY <1>2, <1>4, <1>6 DEF TypeInv

LEMMA RequestFacts ==
  ASSUME TypeInv, FactInv, TypeInv', Grows, facts \subseteq facts',
         NEW q \in Requests, NEW s, NEW n, Moves(q, s, n), Forward(q, s, n),
         Says(n, facts'),
         Changing(q, s) => ~Future(Body[q].target),
         s = "reread" /\ table'[Body[q].target] # None =>
           <<Body[q].target, Head(Body[q].racks)>> \in facts',
         UNCHANGED <<buffer, shown>>
  PROVE  FactInv'
<1>1. \A p \in Requests : Forward(p, stage'[p], news'[p])
  BY OneForward
<1>2. \A p \in Requests : Changing(p, stage'[p]) => ~Future(Body[p].target)
  BY MovesOne DEF FactInv
<1>3. ASSUME NEW p \in Requests, stage'[p] = "reread",
             table'[Body[p].target] # None
      PROVE  <<Body[p].target, Head(Body[p].racks)>> \in facts'
  <2>1. CASE p = q
    BY <1>3, <2>1, MovesOne
  <2>2. CASE p # q
    <3>1. stage[p] = "reread"
      BY <1>3, <2>2, MovesOne
    <3>2. Body[p].op = "move" /\ Body[p].target \in Entities
      BY <3>1, Requested DEF TypeInv, Holds
    <3>3. ~Future(Body[p].target)
      BY <3>1, <3>2 DEF FactInv, Changing
    <3>4. table[Body[p].target] # None
      BY <1>3, <3>2, <3>3 DEF Grows
    <3>. QED  BY <3>1, <3>4 DEF FactInv
  <2>. QED  BY <2>1, <2>2
<1>4. \A p \in Requests : Says(news'[p], facts')
  BY StillSaid, MovesOne
<1>5. /\ \A v \in Services : Carries(buffer'[v], facts')
      /\ \A e \in Entities : shown'[e] # None => <<e, shown'[e]>> \in facts'
  BY StillSaid
<1>. QED  BY <1>1, <1>2, <1>3, <1>4, <1>5, FactsKept

------------------------------------------------------------------------------
(* What each action does, of the requests that come and go.                *)

\* The rows a request reads.
LEMMA OccupancyTyped ==
  ASSUME TypeInv
  PROVE  \A r : Occupancy(r) \subseteq Rows \union {None}
BY DEF TypeInv, Occupancy

LEMMA ArriveStep ==
  ASSUME TypeInv, FactInv, NEW q \in Requests, Arrive(q)
  PROVE  TypeInv' /\ FactInv'
<1> DEFINE r == IF Body[q].op = "bulk" THEN Body[q].racks ELSE <<>>
<1>1. /\ stage[q] = "new" /\ racks' = [racks EXCEPT ![q] = r]
      /\ UNCHANGED <<table, seen, news, buffer, shown, facts>>
  BY DEF Arrive, kafka, ghosts
<1>2. PICK s : /\ stage' = [stage EXCEPT ![q] = s]
               /\ s = CASE Body[q].op = "bulk" /\ Body[q].racks # <<>> -> "place"
                      [] Body[q].op = "create" -> "commit"
                      [] Body[q].op \in {"move", "delete"}
                           /\ table[Body[q].target] # None -> "commit"
                      [] OTHER -> "done"
  BY DEF Arrive, Goto
<1>3. /\ s \in {"place", "commit", "done"}
      /\ s = "place" => Body[q].op = "bulk" /\ Body[q].racks # <<>>
      /\ s = "commit" => \/ Body[q].op = "create"
                         \/ /\ Body[q].op \in {"move", "delete"}
                            /\ table[Body[q].target] # None
  <2>1. CASE Body[q].op = "bulk" /\ Body[q].racks # <<>>
    BY <1>2, <2>1
  <2>2. CASE Body[q].op = "create"
    BY <1>2, <2>2
  <2>3. CASE Body[q].op \in {"move", "delete"} /\ table[Body[q].target] # None
    BY <1>2, <2>3
  <2>4. CASE /\ ~(Body[q].op = "bulk" /\ Body[q].racks # <<>>)
             /\ Body[q].op # "create"
             /\ ~(Body[q].op \in {"move", "delete"} /\ table[Body[q].target] # None)
    BY <1>2, <2>4
  <2>. QED  BY <2>1, <2>2, <2>3, <2>4
<1>4. news[q] = <<>> /\ <<>> \in Seq(Events)
  BY <1>1 DEF TypeInv, Holds
<1>5. r \in Seq(Entities \union Places)
  BY Requested
<1>6. Moves(q, s, <<>>)
  BY <1>1, <1>2, <1>4 DEF Moves, TypeInv
<1>7. s = "place" => /\ r # <<>> /\ Len(r) + Len(<<>>) <= Body[q].rows
  BY <1>3, Requested, LenProperties
<1>8. Holds(q, s, <<>>, r)
  BY <1>3, <1>4, <1>5, <1>7 DEF Holds, Stages
<1>9. TypeInv'
  BY <1>1, <1>3, <1>6, <1>8, RequestTypes DEF TypeInv
<1>10. Forward(q, s, <<>>)
  BY <1>1, <1>3 DEF Forward
<1>11. Changing(q, s) => ~Future(Body[q].target)
  BY <1>3, Requested DEF Changing, FactInv
<1>12. Says(<<>>, facts') /\ Grows
  BY <1>1 DEF Says, Grows
<1>. QED  BY <1>1, <1>3, <1>6, <1>9, <1>10, <1>11, <1>12, RequestFacts

LEMMA CreateStep ==
  ASSUME TypeInv, FactInv, NEW q \in Requests, Create(q)
  PROVE  TypeInv' /\ FactInv'
<1> DEFINE E == {<<q, k>> : k \in 1 .. Body[q].rows}
           r == Head(Body[q].racks)
           n == [k \in 1 .. Body[q].rows |-> Event(<<q, k>>, r)]
           s == IF Body[q].rows = 0 THEN "done" ELSE "publish"
           row == Row(r, Body[q].start, Body[q].size)
<1>1. /\ stage[q] = "commit" /\ Body[q].op = "create"
      /\ table' = [e \in Entities |-> IF e \in E THEN row ELSE table[e]]
      /\ Moves(q, s, n)
      /\ facts' = facts \union {<<e, [x \in E |-> r][e]>> : e \in E}
      /\ UNCHANGED <<racks, seen, buffer, shown>>
  BY DEF Create, Goto, Moves, Committed, kafka
<1>2. /\ r \in Entities \union Places /\ row \in Rows
      /\ Body[q].rows \in Nat
  BY <1>1, Requested DEF Row, Rows
<1>3. E \subseteq Entities
  BY EntityOf
<1>4. \A k \in 1 .. Body[q].rows :
        /\ Event(<<q, k>>, r) \in Events
        /\ Event(<<q, k>>, r).entity = <<q, k>> /\ Event(<<q, k>>, r).where = r
  <2>1. r \in Wheres
    BY <1>2 DEF Wheres
  <2> HIDE DEF r
  <2> SUFFICES ASSUME NEW k \in 1 .. Body[q].rows
               PROVE  /\ Event(<<q, k>>, r) \in Events
                      /\ Event(<<q, k>>, r).entity = <<q, k>>
                      /\ Event(<<q, k>>, r).where = r
    OBVIOUS
  <2>2. <<q, k>> \in Entities
    BY EntityOf
  <2>. QED  BY <2>1, <2>2, EventTyped
<1>5. n \in Seq(Events) /\ Len(n) = Body[q].rows
  <2>1. n \in [1 .. Body[q].rows -> Events]
    BY <1>4
  <2>2. Body[q].rows \in Nat
    BY <1>2
  <2> HIDE DEF n
  <2>. QED  BY <2>1, <2>2, TupleTyped, Zenon
<1>6. racks' = [racks EXCEPT ![q] = racks[q]]
  BY <1>1 DEF TypeInv
<1>7. Holds(q, s, n, racks[q])
  <2>1. racks[q] \in Seq(Entities \union Places)
    BY DEF TypeInv
  <2>2. CASE Body[q].rows = 0
    <3>1. n = <<>>
      BY <1>5, <2>2, EmptySeq
    <3>. QED  BY <1>5, <2>1, <2>2, <3>1 DEF Holds, Stages
  <2>3. CASE Body[q].rows # 0
    <3>1. n # <<>>
      BY <1>2, <1>5, <2>3, EmptySeq
    <3>. QED  BY <1>5, <2>1, <2>3, <3>1 DEF Holds, Stages
  <2>. QED  BY <2>2, <2>3
<1>8. table' \in [Entities -> Rows \union {None}]
  BY <1>1, <1>2 DEF TypeInv
<1>9. \A e \in E : <<e, r>> \in facts'
  BY <1>1
<1>10. Says(n, facts')
  BY <1>4, <1>5, <1>9 DEF Says
<1> HIDE DEF n, row
<1>11. TypeInv'
  BY <1>1, <1>6, <1>7, <1>8, RequestTypes DEF TypeInv
<1>12. Forward(q, s, n)
  BY DEF Forward
<1>13. Grows
  <2>1. ASSUME NEW e \in Entities, e \in E PROVE Future(e) /\ ~Future(e)'
    <3>1. e[1] = q
      BY <2>1
    <3>2. stage'[q] = s
      BY <1>1, MovesOne
    <3>. QED  BY <1>1, <3>1, <3>2 DEF Future
  <2>. QED  BY <1>1, <2>1 DEF Grows
<1>14. ~Changing(q, s) /\ s # "reread" /\ facts \subseteq facts'
  BY <1>1 DEF Changing
<1>. QED  BY <1>1, <1>10, <1>11, <1>12, <1>13, <1>14, RequestFacts

LEMMA MoveStep ==
  ASSUME TypeInv, FactInv, NEW q \in Requests, Move(q)
  PROVE  TypeInv' /\ FactInv'
<1> DEFINE e == Body[q].target
           r == Head(Body[q].racks)
<1>1. /\ stage[q] = "commit" /\ Body[q].op = "move"
      /\ stage' = [stage EXCEPT ![q] = "reread"]
      /\ UNCHANGED <<racks, news, seen, buffer, shown>>
  BY DEF Move, Goto, kafka
<1>2. /\ e \in Entities /\ r \in Entities \union Places
      /\ Body[q].start \in Nat
  BY <1>1, Requested
<1>3. /\ table' \in [Entities -> Rows \union {None}]
      /\ \A x \in Entities : table'[x] # None => table[x] # None
      /\ facts \subseteq facts'
      /\ table'[e] # None => <<e, r>> \in facts'
  <2>1. CASE table[e] = None
    <3>1. table' = table /\ facts' = facts
      BY <2>1 DEF Move
    <3>. QED  BY <2>1, <3>1 DEF TypeInv
  <2>2. CASE table[e] # None
    <3>1. /\ table' = [table EXCEPT ![e] =
                         Row(r, IF Body[q].start = 0 THEN @.start
                                ELSE Body[q].start, @.size)]
          /\ facts' = facts \union {<<y, [x \in {e} |-> r][y]>> : y \in {e}}
      BY <2>2 DEF Move, Committed
    <3>2. table[e] \in Rows
      BY <1>2, <2>2 DEF TypeInv
    <3>3. Row(r, IF Body[q].start = 0 THEN table[e].start ELSE Body[q].start,
              table[e].size) \in Rows
      BY <1>2, <3>2 DEF Row, Rows
    <3>4. <<e, r>> \in facts' /\ facts \subseteq facts'
      BY <3>1
    <3>5. \A x \in Entities : x # e => table'[x] = table[x]
      BY <3>1 DEF TypeInv
    <3>6. table' \in [Entities -> Rows \union {None}]
      BY <3>1, <3>3 DEF TypeInv
    <3>. QED  BY <2>2, <3>4, <3>5, <3>6
  <2>. QED  BY <2>1, <2>2
<1>4. Moves(q, "reread", <<>>) /\ news[q] = <<>>
  BY <1>1 DEF Moves, TypeInv, Holds
<1>5. racks' = [racks EXCEPT ![q] = racks[q]]
  BY <1>1 DEF TypeInv
<1>6. Holds(q, "reread", <<>>, racks[q])
  BY <1>1, <1>4 DEF Holds, TypeInv, Stages
<1>7. TypeInv'
  BY <1>1, <1>3, <1>4, <1>5, <1>6, RequestTypes DEF TypeInv
<1>8. ~Future(e)
  BY <1>1 DEF FactInv, Changing
<1>9. Forward(q, "reread", <<>>) /\ Says(<<>>, facts') /\ Grows
  BY <1>3 DEF Forward, Says, Grows
<1>. QED  BY <1>1, <1>3, <1>4, <1>7, <1>8, <1>9, RequestFacts

LEMMA RereadStep ==
  ASSUME TypeInv, FactInv, NEW q \in Requests, Reread(q)
  PROVE  TypeInv' /\ FactInv'
<1> DEFINE e == Body[q].target
           r == Head(Body[q].racks)
<1>1. /\ stage[q] = "reread"
      /\ UNCHANGED <<table, racks, seen, buffer, shown, facts>>
  BY DEF Reread, kafka, ghosts
<1>2. Body[q].op = "move" /\ news[q] = <<>>
  BY <1>1 DEF TypeInv, Holds
<1>3. e \in Entities /\ r \in Wheres
  BY <1>2, Requested DEF Wheres
<1>4. racks' = [racks EXCEPT ![q] = racks[q]] /\ Grows
  BY <1>1 DEF TypeInv, Grows
<1>5. CASE table[e] = None
  <2>1. Moves(q, "done", <<>>)
    BY <1>2, <1>5 DEF Reread, Goto, Moves, TypeInv
  <2>2. Holds(q, "done", <<>>, racks[q])
    BY <1>2 DEF Holds, Stages, TypeInv
  <2>3. TypeInv'
    BY <1>1, <1>4, <2>1, <2>2, RequestTypes DEF TypeInv
  <2>4. Forward(q, "done", <<>>) /\ Says(<<>>, facts') /\ ~Changing(q, "done")
    BY DEF Forward, Says, Changing
  <2>. QED  BY <1>1, <1>4, <2>1, <2>3, <2>4, RequestFacts
<1>6. CASE table[e] # None
  <2> DEFINE n == <<Event(e, r)>>
  <2>1. Moves(q, "publish", n)
    BY <1>6 DEF Reread, Goto, Moves
  <2>2. n \in Seq(Events) /\ n # <<>> /\ Says(n, facts)
    <3>1. <<e, r>> \in facts
      BY <1>1, <1>6 DEF FactInv
    <3>. QED  BY <1>3, <3>1, EventTyped
  <2> HIDE DEF n
  <2>3. Holds(q, "publish", n, racks[q])
    BY <2>2 DEF Holds, Stages, TypeInv
  <2>4. TypeInv'
    BY <1>1, <1>4, <2>1, <2>3, RequestTypes DEF TypeInv
  <2>5. Forward(q, "publish", n) /\ ~Changing(q, "publish")
    BY DEF Forward, Changing
  <2>. QED  BY <1>1, <1>4, <2>1, <2>2, <2>4, <2>5, RequestFacts
<1>. QED  BY <1>5, <1>6

LEMMA DeleteStep ==
  ASSUME TypeInv, FactInv, NEW q \in Requests, Delete(q)
  PROVE  TypeInv' /\ FactInv'
<1> DEFINE e == Body[q].target
<1>1. /\ stage[q] = "commit" /\ Body[q].op = "delete"
      /\ UNCHANGED <<racks, seen, buffer, shown>>
  BY DEF Delete, kafka
<1>2. e \in Entities /\ news[q] = <<>>
  BY <1>1, Requested DEF TypeInv, Holds
<1>3. racks' = [racks EXCEPT ![q] = racks[q]]
  BY <1>1 DEF TypeInv
<1>4. CASE table[e] = None
  <2>1. Moves(q, "done", <<>>) /\ UNCHANGED <<table, facts>>
    BY <1>2, <1>4 DEF Delete, Goto, Moves, TypeInv
  <2>2. Holds(q, "done", <<>>, racks[q])
    BY <1>2 DEF Holds, Stages, TypeInv
  <2>3. TypeInv'
    BY <1>1, <1>3, <2>1, <2>2, RequestTypes DEF TypeInv
  <2>4. /\ Forward(q, "done", <<>>) /\ Says(<<>>, facts') /\ ~Changing(q, "done")
        /\ Grows
    BY <2>1 DEF Forward, Says, Changing, Grows
  <2>. QED  BY <1>1, <2>1, <2>3, <2>4, RequestFacts
<1>5. CASE table[e] # None
  <2> DEFINE n == <<Event(e, None)>>
  <2>1. /\ Moves(q, "publish", n) /\ table' = [table EXCEPT ![e] = None]
        /\ facts' = facts \union {<<y, [x \in {e} |-> None][y]>> : y \in {e}}
    BY <1>5 DEF Delete, Goto, Moves, Committed
  <2>2. n \in Seq(Events) /\ n # <<>> /\ Says(n, facts')
    <3>1. <<e, None>> \in facts'
      BY <2>1
    <3>. QED  BY <1>2, <3>1, EventTyped DEF Wheres
  <2>3. table' \in [Entities -> Rows \union {None}] /\ Grows
    BY <1>2, <2>1 DEF TypeInv, Grows
  <2> HIDE DEF n
  <2>4. Holds(q, "publish", n, racks[q])
    BY <2>2 DEF Holds, Stages, TypeInv
  <2>5. TypeInv'
    BY <1>1, <1>3, <2>1, <2>3, <2>4, RequestTypes DEF TypeInv
  <2>6. Forward(q, "publish", n) /\ ~Changing(q, "publish") /\ facts \subseteq facts'
    BY <2>1 DEF Forward, Changing
  <2>. QED  BY <1>1, <2>1, <2>2, <2>3, <2>5, <2>6, RequestFacts
<1>. QED  BY <1>4, <1>5

LEMMA PlaceStep ==
  ASSUME TypeInv, FactInv, NEW q \in Requests, Place(q)
  PROVE  TypeInv' /\ FactInv'
<1>1. /\ stage[q] = "place" /\ stage' = [stage EXCEPT ![q] = "insert"]
      /\ seen' = [seen EXCEPT ![q] = Occupancy(Head(racks[q]))]
      /\ UNCHANGED <<table, racks, news, buffer, shown, facts>>
  BY DEF Place, Goto, kafka, ghosts
<1>2. /\ Moves(q, "insert", news[q]) /\ racks' = [racks EXCEPT ![q] = racks[q]]
      /\ seen' \in [Requests -> SUBSET (Rows \union {None})]
  BY <1>1, OccupancyTyped DEF Moves, TypeInv
<1>3. Holds(q, "insert", news[q], racks[q])
  BY <1>1 DEF TypeInv, Holds, Stages
<1>4. TypeInv'
  BY <1>1, <1>2, <1>3, RequestTypes DEF TypeInv
<1>5. Len(news[q]) \in Nat
  BY LenProperties DEF TypeInv
<1>6. /\ Forward(q, "insert", news[q]) /\ Says(news[q], facts')
      /\ ~Changing(q, "insert") /\ Grows
  BY <1>1, <1>5 DEF Forward, FactInv, Changing, Grows
<1>. QED  BY <1>1, <1>2, <1>4, <1>6, RequestFacts

\* The k-th event of a bulk deployment is of its k-th device.
LEMMA NextRow ==
  ASSUME TypeInv, NEW q \in Requests, stage[q] = "insert"
  PROVE  /\ Body[q].op = "bulk" /\ Len(news[q]) \in Nat
         /\ <<q, Len(news[q]) + 1>> \in Entities
         /\ Head(racks[q]) \in Entities \union Places
         /\ Tail(racks[q]) \in Seq(Entities \union Places)
         /\ Len(Tail(racks[q])) + Len(news[q]) + 1 <= Body[q].rows
<1>1. /\ Body[q].op = "bulk" /\ racks[q] # <<>>
      /\ racks[q] \in Seq(Entities \union Places) /\ news[q] \in Seq(Events)
      /\ Len(racks[q]) + Len(news[q]) <= Body[q].rows
  BY DEF TypeInv, Holds
<1>2. /\ Len(news[q]) \in Nat /\ Len(racks[q]) \in Nat \ {0}
      /\ Body[q].rows \in Nat
  BY <1>1, LenProperties, EmptySeq, Requested
<1>3. /\ Head(racks[q]) \in Entities \union Places
      /\ Tail(racks[q]) \in Seq(Entities \union Places)
      /\ Len(Tail(racks[q])) = Len(racks[q]) - 1
  BY <1>1, HeadTailProperties
<1> DEFINE a == Len(racks[q])
           b == Len(news[q])
           c == Body[q].rows
<1>4. /\ a \in Nat \ {0} /\ b \in Nat /\ c \in Nat /\ a + b <= c
      /\ Len(Tail(racks[q])) = a - 1
  BY <1>1, <1>2, <1>3
<1> HIDE DEF a, b, c
<1>5. b + 1 \in 1..c /\ Len(Tail(racks[q])) + b + 1 <= c
  BY <1>4
<1> USE DEF a, b, c
<1>6. <<q, b + 1>> \in Entities
  BY <1>5, EntityOf
<1>. QED  BY <1>1, <1>2, <1>3, <1>5, <1>6

\* What Insert does, whether it finds a slot or not.
LEMMA InsertEffect ==
  ASSUME NEW q \in Requests, Insert(q)
  PROVE  LET r == Head(racks[q])
             u == find_next_available_slot(Body[q].size, Height, seen[q])
             e == <<q, Len(news[q]) + 1>>
         IN /\ stage[q] = "insert"
            /\ \/ u = -1 /\ UNCHANGED <<table, news, facts, blind>>
               \/ /\ u # -1
                  /\ table' = [table EXCEPT ![e] = Row(r, u, Body[q].size)]
                  /\ news' = [news EXCEPT ![q] = Append(@, Event(e, r))]
                  /\ facts' = facts \union {<<e, r>>}
                  /\ blind' = IF Occupancy(r) = seen[q] THEN blind
                              ELSE blind \union {e}
            /\ racks' = [racks EXCEPT ![q] = Tail(@)]
            /\ seen' = [seen EXCEPT ![q] = {}]
            /\ stage' = [stage EXCEPT ![q] =
                 IF racks'[q] # <<>> THEN "place"
                 ELSE IF news'[q] # <<>> THEN "publish" ELSE "done"]
            /\ UNCHANGED <<buffer, shown, byHand>>
<1> DEFINE r == Head(racks[q])
           e == <<q, Len(news[q]) + 1>>
           u == find_next_available_slot(Body[q].size, Height, seen[q])
<1>1. CASE u = -1
  BY <1>1 DEF Insert, Goto, kafka
<1>2. CASE u # -1
  <2>1. facts' = facts \union {<<x, [y \in {e} |-> r][x]>> : x \in {e}}
    BY <1>2 DEF Insert, Committed
  <2>2. {<<x, [y \in {e} |-> r][x]>> : x \in {e}} = {<<e, r>>}
    OBVIOUS
  <2>. QED  BY <1>2, <2>1, <2>2 DEF Insert, Goto, kafka
<1>. QED  BY <1>1, <1>2

LEMMA InsertStep ==
  ASSUME TypeInv, FactInv, NEW q \in Requests, Insert(q)
  PROVE  TypeInv' /\ FactInv'
<1> DEFINE r == Head(racks[q])
           e == <<q, Len(news[q]) + 1>>
           u == find_next_available_slot(Body[q].size, Height, seen[q])
           row == Row(r, u, Body[q].size)
           n == news'[q]
           s == IF Tail(racks[q]) # <<>> THEN "place"
                ELSE IF n # <<>> THEN "publish" ELSE "done"
<1>1. /\ stage[q] = "insert"
      /\ \/ u = -1 /\ UNCHANGED <<table, news, facts>>
         \/ /\ u # -1 /\ table' = [table EXCEPT ![e] = row]
            /\ news' = [news EXCEPT ![q] = Append(@, Event(e, r))]
            /\ facts' = facts \union {<<e, r>>}
      /\ racks' = [racks EXCEPT ![q] = Tail(@)]
      /\ seen' = [seen EXCEPT ![q] = {}]
      /\ stage' = [stage EXCEPT ![q] =
           IF racks'[q] # <<>> THEN "place"
           ELSE IF news'[q] # <<>> THEN "publish" ELSE "done"]
      /\ UNCHANGED <<buffer, shown>>
  BY InsertEffect
<1>2. /\ Body[q].op = "bulk" /\ Len(news[q]) \in Nat /\ e \in Entities
      /\ r \in Entities \union Places
      /\ Tail(racks[q]) \in Seq(Entities \union Places)
      /\ Len(Tail(racks[q])) + Len(news[q]) + 1 <= Body[q].rows
      /\ Len(Tail(racks[q])) \in Nat /\ Body[q].rows \in Nat
  BY <1>1, NextRow, LenProperties, Requested
<1>3. racks'[q] = Tail(racks[q])
  BY <1>1 DEF TypeInv
<1>4. /\ n \in Seq(Events) /\ Says(n, facts') /\ Len(n) \in Nat
      /\ news' = [news EXCEPT ![q] = n]
      /\ u = -1 => n = news[q]
      /\ u # -1 => Len(n) = Len(news[q]) + 1
  <2>1. CASE u = -1
    <3>1. n = news[q] /\ news' = [news EXCEPT ![q] = n]
      BY <1>1, <2>1 DEF TypeInv
    <3>2. Says(news[q], facts) /\ news[q] \in Seq(Events)
      BY DEF FactInv, TypeInv
    <3>. QED  BY <1>1, <1>2, <2>1, <3>1, <3>2
  <2>2. CASE u # -1
    <3>1. n = Append(news[q], Event(e, r)) /\ news' = [news EXCEPT ![q] = n]
      BY <1>1, <2>2 DEF TypeInv
    <3>2. /\ Event(e, r) \in Events /\ Event(e, r).entity = e
          /\ Event(e, r).where = r
      <4>1. r \in Wheres
        BY <1>2 DEF Wheres
      <4>. QED  BY <1>2, <4>1, EventTyped
    <3>3. news[q] \in Seq(Events)
      BY DEF TypeInv
    <3>4. /\ n \in Seq(Events) /\ Len(n) = Len(news[q]) + 1
          /\ \A i \in 1..Len(news[q]) : n[i] = news[q][i]
          /\ n[Len(news[q]) + 1] = Event(e, r)
      BY <3>1, <3>2, <3>3, AppendProperties
    <3>5. <<e, r>> \in facts' /\ facts \subseteq facts'
      BY <1>1, <2>2
    <3>6. \A i \in 1..Len(news[q]) :
            <<news[q][i].entity, news[q][i].where>> \in facts'
      BY <3>5 DEF FactInv, Says
    <3>7. \A i \in 1..Len(n) : i \in 1..Len(news[q]) \/ i = Len(news[q]) + 1
      BY <1>2, <3>4
    <3>8. Says(n, facts')
      BY <3>2, <3>4, <3>5, <3>6, <3>7 DEF Says
    <3>9. Len(n) \in Nat
      BY <1>2, <3>4
    <3>. QED  BY <2>2, <3>1, <3>4, <3>8, <3>9
  <2>. QED  BY <2>1, <2>2
<1>5. Moves(q, s, n)
  BY <1>1, <1>3, <1>4 DEF Moves
<1>6. table' \in [Entities -> Rows \union {None}]
  <2>1. CASE u = -1
    BY <1>1, <2>1 DEF TypeInv
  <2>2. CASE u # -1
    <3>1. u \in Nat
      BY <2>2, SlotIsLowest, Requested DEF Height
    <3>2. row \in Rows
      BY <1>2, <3>1, Requested DEF Row, Rows
    <3>. QED  BY <1>1, <2>2, <3>2 DEF TypeInv
  <2>. QED  BY <2>1, <2>2
<1>7. seen' \in [Requests -> SUBSET (Rows \union {None})]
  BY <1>1 DEF TypeInv
<1>8. Grows
  <2>1. stage'[q] = s
    BY <1>5, MovesOne
  <2>2. CASE u # -1
    <3>1. ASSUME NEW x \in Entities, x = e
          PROVE  Future(x) /\ ~Future(x)'
      <4>1. /\ x[1] = q /\ x[2] = Len(news[q]) + 1
            /\ Len(news[q]) < x[2] /\ ~(Len(news'[q]) < x[2])
        <5>1. Len(news'[q]) = Len(news[q]) + 1
          BY <1>4, <2>2
        <5>2. x[1] = q /\ x[2] = Len(news[q]) + 1
          BY <3>1
        <5>. QED  BY <1>2, <5>1, <5>2
      <4>2. Future(x)
        BY <1>1, <1>2, <4>1 DEF Future
      <4>3. ~Future(x)'
        BY <1>2, <2>1, <4>1 DEF Future
      <4>. QED  BY <4>2, <4>3
    <3>2. \A x \in Entities : x # e => table'[x] = table[x]
      BY <1>1, <2>2 DEF TypeInv
    <3>3. ASSUME NEW x \in Entities, table'[x] # None
          PROVE  table[x] # None \/ (Future(x) /\ ~Future(x)')
      <4>1. CASE x = e
        BY <3>1, <4>1
      <4>2. CASE x # e
        BY <3>2, <3>3, <4>2
      <4>. QED  BY <4>1, <4>2
    <3>. QED  BY <3>3 DEF Grows
  <2>3. CASE u = -1
    BY <1>1, <2>3 DEF Grows
  <2>. QED  BY <2>2, <2>3
<1> HIDE DEF n, u, row
<1>9. Holds(q, s, n, Tail(racks[q]))
  <2>1. Len(n) <= Len(news[q]) + 1
    BY <1>2, <1>4
  <2>2. Len(Tail(racks[q])) + Len(n) <= Body[q].rows
    <3> DEFINE a == Len(Tail(racks[q]))
               b == Len(news[q])
               c == Body[q].rows
               d == Len(n)
    <3>1. /\ a \in Nat /\ b \in Nat /\ c \in Nat /\ d \in Nat
          /\ a + b + 1 <= c /\ d <= b + 1
      BY <1>2, <1>4, <2>1
    <3> HIDE DEF a, b, c, d
    <3>2. a + d <= c
      BY <3>1
    <3>. QED  BY <3>2 DEF a, c, d
  <2>. QED  BY <1>2, <1>4, <2>2 DEF Holds, Stages
<1>10. TypeInv'
  BY <1>1, <1>5, <1>6, <1>7, <1>9, RequestTypes
<1>11. Forward(q, s, n)
  BY <1>1, <1>2, <1>4 DEF Forward
<1>12. ~Changing(q, s) /\ s # "reread" /\ facts \subseteq facts'
  BY <1>1 DEF Changing
<1>. QED  BY <1>1, <1>4, <1>5, <1>8, <1>10, <1>11, <1>12, RequestFacts

------------------------------------------------------------------------------
(* Publishing.                                                             *)

\* The await and the events after publish_topology_event has returned.
Following(q) == IF Tail(news[q]) = <<>> THEN "done" ELSE "publish"

LEMMA GoesOn ==
  ASSUME TypeInv, FactInv, NEW q \in Requests, stage[q] \in {"publish", "sent"}
  PROVE  /\ Holds(q, Following(q), Tail(news[q]), racks[q])
         /\ Forward(q, Following(q), Tail(news[q]))
         /\ Says(Tail(news[q]), facts)
         /\ Head(news[q]) \in Events
         /\ <<Head(news[q]).entity, Head(news[q]).where>> \in facts
<1> DEFINE n == news[q]
<1>1. /\ n \in Seq(Events) /\ n # <<>>
      /\ racks[q] \in Seq(Entities \union Places)
  BY DEF TypeInv, Holds
<1>2. /\ Tail(n) \in Seq(Events) /\ Len(Tail(n)) = Len(n) - 1
      /\ \A i \in 1..Len(Tail(n)) : Tail(n)[i] = n[i + 1]
      /\ Head(n) \in Events /\ Head(n) = n[1]
      /\ Len(n) \in Nat \ {0}
  BY <1>1, HeadTailProperties, EmptySeq
<1>3. \A i \in 1..Len(n) : <<n[i].entity, n[i].where>> \in facts
  BY DEF FactInv, Says
<1> HIDE DEF n
<1>4. \A i \in 1..Len(Tail(n)) : i + 1 \in 1..Len(n)
  BY <1>2
<1>5. Says(Tail(n), facts)
  BY <1>2, <1>3, <1>4 DEF Says
<1>6. 1 \in 1..Len(n)
  BY <1>2
<1>7. <<Head(n).entity, Head(n).where>> \in facts
  BY <1>2, <1>3, <1>6
<1> USE DEF n
<1>8. Holds(q, Following(q), Tail(n), racks[q])
  BY <1>1, <1>2 DEF Holds, Following, Stages
<1>9. Forward(q, Following(q), Tail(n))
  BY DEF Forward, Following
<1>. QED  BY <1>2, <1>5, <1>7, <1>8, <1>9

\* Steps of a request that gives its event up, or stops waiting for it.
LEMMA SilentStep ==
  ASSUME TypeInv, FactInv, NEW q \in Requests, stage[q] \in {"publish", "sent"},
         GoOn(q), UNCHANGED <<table, racks, seen, buffer, shown, facts>>
  PROVE  TypeInv' /\ FactInv'
<1>1. Moves(q, Following(q), Tail(news[q]))
  BY DEF GoOn, Goto, Moves, Following, TypeInv
<1>2. racks' = [racks EXCEPT ![q] = racks[q]] /\ Grows
  BY DEF TypeInv, Grows
<1>3. Following(q) \in {"done", "publish"}
  BY DEF Following
<1>4. TypeInv'
  BY <1>1, <1>2, <1>3, GoesOn, RequestTypes DEF TypeInv
<1>5. ~Changing(q, Following(q))
  BY <1>3 DEF Changing
<1>. QED  BY <1>1, <1>2, <1>3, <1>4, <1>5, GoesOn, RequestFacts

\* What was queued stays so when others are added.
LEMMA QueuedAppend ==
  ASSUME NEW b \in Seq(Requests \X Events), NEW x \in Requests \X Events
  PROVE  LET c == Append(b, x)
         IN /\ c \in Seq(Requests \X Events)
            /\ \A p, n : x[1] # p /\ Queued(p, n, b) => Queued(p, n, c)
            /\ \A p, n : x = <<p, Head(n)>> => Queued(p, n, c)
            /\ \A F : Carries(b, F) /\ <<x[2].entity, x[2].where>> \in F
                      => Carries(c, F)
<1> DEFINE c == Append(b, x)
           N == Len(b)
<1>1. /\ c \in Seq(Requests \X Events) /\ Len(c) = N + 1
      /\ \A i \in 1..N : c[i] = b[i]
      /\ c[N + 1] = x /\ N \in Nat
  BY AppendProperties, LenProperties
<1> HIDE DEF c, N
<1>2. /\ \A i \in 1..(N + 1) : i \in 1..N \/ i = N + 1
      /\ \A i \in 1..N : i \in 1..(N + 1) /\ i < N + 1
      /\ N + 1 \in 1..(N + 1) /\ \A j \in 1..(N + 1) : ~(N + 1 < j)
  BY <1>1
<1>3. ASSUME NEW p, NEW n, x[1] # p, Queued(p, n, b) PROVE Queued(p, n, c)
  <2>1. PICK i \in 1..N : /\ b[i] = <<p, Head(n)>>
                          /\ \A j \in 1..N : i < j => b[j][1] # p
    BY <1>3 DEF Queued, N
  <2>2. i \in 1..(N + 1) /\ c[i] = <<p, Head(n)>>
    BY <1>1, <1>2, <2>1
  <2>3. \A j \in 1..(N + 1) : i < j => c[j][1] # p
    BY <1>1, <1>2, <1>3, <2>1
  <2>. QED  BY <1>1, <2>2, <2>3 DEF Queued
<1>4. ASSUME NEW p, NEW n, x = <<p, Head(n)>> PROVE Queued(p, n, c)
  <2>1. c[N + 1] = <<p, Head(n)>>
    BY <1>1, <1>4
  <2>. QED  BY <1>1, <1>2, <2>1 DEF Queued
<1>5. ASSUME NEW F, Carries(b, F), <<x[2].entity, x[2].where>> \in F
      PROVE  Carries(c, F)
  <2>1. \A i \in 1..N : <<c[i][2].entity, c[i][2].where>> \in F
    BY <1>1, <1>5 DEF Carries, N
  <2>2. \A i \in 1..(N + 1) : <<c[i][2].entity, c[i][2].where>> \in F
    BY <1>1, <1>2, <1>5, <2>1
  <2>. QED  BY <1>1, <2>2 DEF Carries
<1>. QED  BY <1>1, <1>3, <1>4, <1>5 DEF c

LEMMA SendStep ==
  ASSUME TypeInv, FactInv, NEW q \in Requests, Send(q)
  PROVE  TypeInv' /\ FactInv'
<1> DEFINE v == Body[q].service
           x == <<q, Head(news[q])>>
<1>1. /\ stage[q] = "publish" /\ UNCHANGED <<table, racks, seen, shown, facts>>
      /\ \/ /\ buffer' = [buffer EXCEPT ![v] = Append(@, x)]
            /\ stage' = [stage EXCEPT ![q] = "sent"] /\ UNCHANGED news
         \/ GoOn(q) /\ UNCHANGED buffer
  BY DEF Send, Goto
<1>2. CASE GoOn(q) /\ UNCHANGED buffer
  BY <1>1, <1>2, SilentStep
<1>3. CASE /\ buffer' = [buffer EXCEPT ![v] = Append(@, x)]
           /\ stage' = [stage EXCEPT ![q] = "sent"] /\ UNCHANGED news
  <2>1. x \in Requests \X Events /\ v \in Services /\ x[1] = q
        /\ <<x[2].entity, x[2].where>> \in facts
    BY <1>1, GoesOn, Requested
  <2>2. buffer[v] \in Seq(Requests \X Events)
    BY <2>1 DEF TypeInv
  <2>3. /\ buffer' \in [Services -> Seq(Requests \X Events)]
        /\ \A p \in Requests : \A n :
             p # q /\ Queued(p, n, buffer[Body[p].service])
                                  => Queued(p, n, buffer'[Body[p].service])
        /\ Queued(q, news[q], buffer'[v])
        /\ \A s \in Services : Carries(buffer'[s], facts')
    <3> DEFINE c == Append(buffer[v], x)
    <3>1. /\ c \in Seq(Requests \X Events)
          /\ \A p, n : x[1] # p /\ Queued(p, n, buffer[v]) => Queued(p, n, c)
          /\ Queued(q, news[q], c)
          /\ Carries(buffer[v], facts) => Carries(c, facts)
      BY <2>1, <2>2, QueuedAppend
    <3>2. /\ buffer' \in [Services -> Seq(Requests \X Events)]
          /\ buffer'[v] = c
          /\ \A s \in Services : s # v => buffer'[s] = buffer[s]
      BY <1>3, <2>1, <3>1 DEF TypeInv
    <3> HIDE DEF c, x
    <3>3. \A s \in Services : Carries(buffer'[s], facts')
      BY <1>1, <2>1, <3>1, <3>2 DEF FactInv
    <3>4. ASSUME NEW p \in Requests, NEW n, p # q,
                 Queued(p, n, buffer[Body[p].service])
          PROVE  Queued(p, n, buffer'[Body[p].service])
      <4>1. Body[p].service \in Services
        BY Requested
      <4>2. CASE Body[p].service = v
        BY <2>1, <3>1, <3>2, <3>4, <4>2
      <4>3. CASE Body[p].service # v
        BY <3>2, <3>4, <4>1, <4>3
      <4>. QED  BY <4>2, <4>3
    <3>. QED  BY <3>1, <3>2, <3>3, <3>4
  <2>4. /\ stage'[q] = "sent" /\ \A p \in Requests : p # q => stage'[p] = stage[p]
        /\ stage' \in [Requests -> Stages]
    BY <1>3 DEF TypeInv, Stages
  <2>5. Holds(q, "sent", news[q], racks[q])
    BY <1>1 DEF TypeInv, Holds, Stages
  <2>6. \A p \in Requests : Holds(p, stage[p], news[p], racks[p])'
    <3>1. \A p \in Requests : Holds(p, stage'[p], news[p], racks[p])
      BY <2>4, <2>5 DEF TypeInv
    <3>. QED  BY <1>1, <1>3, <3>1 DEF Holds
  <2>7. \A p \in Requests : stage'[p] = "sent" =>
          Queued(p, news'[p], buffer'[Body[p].service])
    BY <1>3, <2>3, <2>4 DEF TypeInv
  <2>8. TypeInv'
    <3>1. \A p \in Requests : stage'[p] = "sent" =>
            Queued(p, news[p], buffer[Body[p].service])'
      BY <2>7 DEF Queued
    <3>. QED  BY <1>1, <1>3, <2>3, <2>4, <2>6, <3>1 DEF TypeInv
  <2>9. /\ \A p \in Requests : Forward(p, stage'[p], news'[p])
        /\ Grows
    BY <1>1, <1>3, <2>4 DEF Forward, Grows
  <2>10. /\ \A p \in Requests : stage'[p] \in {"commit", "reread"} =>
              stage[p] = stage'[p]
    BY <2>4
  <2>11. /\ \A p \in Requests : Changing(p, stage'[p]) => ~Future(Body[p].target)
         /\ \A p \in Requests :
              stage'[p] = "reread" /\ table'[Body[p].target] # None =>
                <<Body[p].target, Head(Body[p].racks)>> \in facts'
    BY <1>1, <2>10 DEF FactInv, Changing
  <2>12. /\ \A p \in Requests : Says(news'[p], facts')
         /\ \A e \in Entities : shown'[e] # None => <<e, shown'[e]>> \in facts'
    BY <1>1, <1>3 DEF FactInv
  <2>. QED  BY <1>1, <2>3, <2>8, <2>9, <2>11, <2>12, FactsKept
<1>. QED  BY <1>1, <1>2, <1>3

\* The first event leaves a buffer: what else was queued stays so.
LEMMA QueuedTail ==
  ASSUME NEW b \in Seq(Requests \X Events), b # <<>>
  PROVE  LET c == Tail(b)
         IN /\ c \in Seq(Requests \X Events)
            /\ \A p, n : Queued(p, n, b) =>
                 \/ Queued(p, n, c)
                 \/ b[1][1] = p /\ \A j \in 2..Len(b) : b[j][1] # p
            /\ \A F : Carries(b, F) =>
                 Carries(c, F) /\ <<b[1][2].entity, b[1][2].where>> \in F
            /\ b[1] \in Requests \X Events
<1> DEFINE c == Tail(b)
           N == Len(b)
<1>1. /\ c \in Seq(Requests \X Events) /\ Len(c) = N - 1
      /\ \A i \in 1..(N - 1) : c[i] = b[i + 1]
      /\ N \in Nat \ {0}
      /\ \A i \in 1..N : b[i] \in Requests \X Events
  <2>1. Len(c) = N - 1 /\ c \in Seq(Requests \X Events)
    BY HeadTailProperties
  <2>2. \A i \in 1..Len(c) : c[i] = b[i + 1]
    BY HeadTailProperties
  <2>3. N \in Nat \ {0}
    BY EmptySeq
  <2>. QED  BY <2>1, <2>2, <2>3, ElementOfSeq
<1> HIDE DEF c, N
<1>2. /\ 1 \in 1..N
      /\ \A i \in 1..(N - 1) : i + 1 \in 1..N
      /\ \A i \in 1..N : i = 1 \/ (i - 1 \in 1..(N - 1) /\ (i - 1) + 1 = i)
      /\ \A i \in 1..N, j \in 1..(N - 1) : i - 1 < j => i < j + 1
      /\ \A j \in 2..N : j \in 1..N /\ 1 < j
  BY <1>1
<1>3. ASSUME NEW p, NEW n, Queued(p, n, b)
      PROVE  \/ Queued(p, n, c)
             \/ b[1][1] = p /\ \A j \in 2..N : b[j][1] # p
  <2>1. PICK i \in 1..N : /\ b[i] = <<p, Head(n)>>
                          /\ \A j \in 1..N : i < j => b[j][1] # p
    BY <1>3 DEF Queued, N
  <2>2. CASE i = 1
    BY <1>2, <2>1, <2>2
  <2>3. CASE i # 1
    <3> DEFINE k == i - 1
    <3>1. k \in 1..(N - 1) /\ k + 1 = i
      BY <1>2, <2>3
    <3>2. c[k] = <<p, Head(n)>>
      BY <1>1, <2>1, <3>1
    <3>3. \A j \in 1..(N - 1) : k < j => c[j][1] # p
      BY <1>1, <1>2, <2>1
    <3> HIDE DEF k
    <3>. QED  BY <1>1, <3>1, <3>2, <3>3 DEF Queued
  <2>. QED  BY <2>2, <2>3
<1>4. ASSUME NEW F, Carries(b, F)
      PROVE  Carries(c, F) /\ <<b[1][2].entity, b[1][2].where>> \in F
  <2>1. \A i \in 1..N : <<b[i][2].entity, b[i][2].where>> \in F
    BY <1>4 DEF Carries, N
  <2>2. \A i \in 1..(N - 1) : <<c[i][2].entity, c[i][2].where>> \in F
    BY <1>1, <1>2, <2>1
  <2>3. Carries(c, F)
    BY <1>1, <2>2 DEF Carries
  <2>. QED  BY <1>2, <2>1, <2>3
<1>5. b[1] \in Requests \X Events
  BY <1>1, <1>2
<1>. QED  BY <1>1, <1>3, <1>4, <1>5 DEF c, N

\* A step of the buffers: nobody's change is touched.
LEMMA BufferStep ==
  ASSUME TypeInv, FactInv,
         \A p \in Requests : Forward(p, stage'[p], news'[p]),
         \A p \in Requests : Holds(p, stage'[p], news'[p], racks'[p]),
         \A p \in Requests : Says(news'[p], facts'),
         stage' \in [Requests -> Stages], news' \in [Requests -> Seq(Events)],
         racks' \in [Requests -> Seq(Entities \union Places)],
         seen' \in [Requests -> SUBSET (Rows \union {None})],
         \A p \in Requests : stage'[p] = "sent" =>
           Queued(p, news'[p], buffer'[Body[p].service]),
         \A p \in Requests : stage'[p] \in {"commit", "reread"} =>
           stage[p] = stage'[p],
         buffer' \in [Services -> Seq(Requests \X Events)],
         \A s \in Services : Carries(buffer'[s], facts'),
         shown' \in [Entities -> Wheres],
         \A e \in Entities : shown'[e] # None => <<e, shown'[e]>> \in facts',
         UNCHANGED <<table, facts>>
  PROVE  TypeInv' /\ FactInv'
<1>1. \A p \in Requests : Holds(p, stage[p], news[p], racks[p])'
  BY DEF Holds
<1>2. \A p \in Requests : stage'[p] = "sent" =>
        Queued(p, news[p], buffer[Body[p].service])'
  BY DEF Queued
<1>3. TypeInv'
  BY <1>1, <1>2 DEF TypeInv
<1>4. /\ \A p \in Requests : Changing(p, stage'[p]) => ~Future(Body[p].target)
      /\ \A p \in Requests :
           stage'[p] = "reread" /\ table'[Body[p].target] # None =>
             <<Body[p].target, Head(Body[p].racks)>> \in facts'
  BY DEF FactInv, Changing
<1>5. Grows
  BY DEF Grows
<1>. QED  BY <1>3, <1>4, <1>5, FactsKept

\* Whoever waits for the first event of a buffer goes on when it leaves, and
\* nobody else is disturbed.
LEMMA LeaveStep ==
  ASSUME TypeInv, FactInv, NEW v \in Services, buffer[v] # <<>>,
         LeaveBuffer(v), UNCHANGED <<table, racks, seen, facts>>,
         \/ UNCHANGED shown
         \/ LET e == buffer[v][1][2]
            IN shown' = [shown EXCEPT ![e.entity] = e.where]
  PROVE  TypeInv' /\ FactInv'
<1> DEFINE b == buffer[v]
           x == b[1]
           c == Tail(b)
<1>1. b \in Seq(Requests \X Events) /\ Carries(b, facts) /\ b # <<>>
  BY DEF TypeInv, FactInv
<1>2. /\ c \in Seq(Requests \X Events)
      /\ \A p, n : Queued(p, n, b) =>
           \/ Queued(p, n, c)
           \/ x[1] = p /\ \A j \in 2..Len(b) : b[j][1] # p
      /\ Carries(c, facts) /\ <<x[2].entity, x[2].where>> \in facts
      /\ x \in Requests \X Events
  <2> HIDE DEF b
  <2>. QED  BY <1>1, QueuedTail
<1>3. /\ buffer' = [buffer EXCEPT ![v] = c]
      /\ \/ \E q \in Requests : Waiting(v, q) /\ GoOn(q)
         \/ /\ \A q \in Requests : ~Waiting(v, q)
            /\ UNCHANGED <<stage, news>>
  BY DEF LeaveBuffer
<1>4. /\ buffer' \in [Services -> Seq(Requests \X Events)] /\ buffer'[v] = c
      /\ \A s \in Services : s # v => buffer'[s] = buffer[s]
  BY <1>2, <1>3 DEF TypeInv
<1>5. \A s \in Services : Carries(buffer'[s], facts')
  BY <1>2, <1>4 DEF FactInv
<1>6. /\ shown' \in [Entities -> Wheres]
      /\ \A e \in Entities : shown'[e] # None => <<e, shown'[e]>> \in facts'
  <2>1. CASE UNCHANGED shown
    BY <2>1 DEF TypeInv, FactInv
  <2>2. CASE shown' = [shown EXCEPT ![x[2].entity] = x[2].where]
    <3>1. x[2].entity \in Entities /\ x[2].where \in Wheres
      BY <1>2 DEF Events, Wheres
    <3>. QED  BY <1>2, <2>2, <3>1 DEF TypeInv, FactInv
  <2>. QED  BY <2>1, <2>2
<1>7. \A p \in Requests : stage[p] = "sent" /\ ~Waiting(v, p) =>
        Queued(p, news[p], buffer'[Body[p].service])
  <2> SUFFICES ASSUME NEW p \in Requests, stage[p] = "sent", ~Waiting(v, p)
               PROVE  Queued(p, news[p], buffer'[Body[p].service])
    OBVIOUS
  <2>1. Queued(p, news[p], buffer[Body[p].service]) /\ Body[p].service \in Services
    BY Requested DEF TypeInv
  <2>2. CASE Body[p].service = v
    <3>1. ~(x[1] = p /\ \A j \in 2..Len(b) : b[j][1] # p)
      BY DEF Waiting
    <3>2. Queued(p, news[p], c)
      BY <1>2, <2>1, <2>2, <3>1
    <3>. QED  BY <1>4, <2>2, <3>2
  <2>3. CASE Body[p].service # v
    BY <1>4, <2>1, <2>3
  <2>. QED  BY <2>2, <2>3
<1> HIDE DEF b, c, x
<1>8. ASSUME \A p \in Requests : ~Waiting(v, p), UNCHANGED <<stage, news>>
      PROVE  /\ \A p \in Requests : Forward(p, stage'[p], news'[p])
             /\ \A p \in Requests : Holds(p, stage'[p], news'[p], racks'[p])
             /\ \A p \in Requests : Says(news'[p], facts')
             /\ stage' \in [Requests -> Stages] /\ news' \in [Requests -> Seq(Events)]
             /\ \A p \in Requests : stage'[p] = "sent" =>
                  Queued(p, news'[p], buffer'[Body[p].service])
             /\ \A p \in Requests : stage'[p] \in {"commit", "reread"} =>
                  stage[p] = stage'[p]
  BY <1>7, <1>8 DEF TypeInv, FactInv, Forward
<1>9. ASSUME NEW q \in Requests, Waiting(v, q), GoOn(q)
      PROVE  /\ \A p \in Requests : Forward(p, stage'[p], news'[p])
             /\ \A p \in Requests : Holds(p, stage'[p], news'[p], racks'[p])
             /\ \A p \in Requests : Says(news'[p], facts')
             /\ stage' \in [Requests -> Stages] /\ news' \in [Requests -> Seq(Events)]
             /\ \A p \in Requests : stage'[p] = "sent" =>
                  Queued(p, news'[p], buffer'[Body[p].service])
             /\ \A p \in Requests : stage'[p] \in {"commit", "reread"} =>
                  stage[p] = stage'[p]
  <2> DEFINE s == Following(q)
             n == Tail(news[q])
  <2>1. stage[q] = "sent"
    BY <1>9 DEF Waiting
  <2>2. Moves(q, s, n)
    BY <1>9 DEF GoOn, Goto, Moves, Following, TypeInv
  <2>3. /\ Holds(q, s, n, racks[q]) /\ Forward(q, s, n) /\ Says(n, facts)
    BY <2>1, GoesOn
  <2>4. s \in {"done", "publish"} /\ n \in Seq(Events)
    BY <2>3 DEF Following, Holds
  <2> HIDE DEF s, n
  <2>5. /\ stage'[q] = s /\ news'[q] = n
        /\ \A p \in Requests : p # q => stage'[p] = stage[p] /\ news'[p] = news[p]
    BY <2>2, MovesOne
  <2>6. \A p \in Requests : Forward(p, stage'[p], news'[p])
    BY <2>2, <2>3, OneForward
  <2>7. stage' \in [Requests -> Stages] /\ news' \in [Requests -> Seq(Events)]
    BY <2>2, <2>4 DEF Moves, TypeInv, Stages
  <2>8. \A p \in Requests : Holds(p, stage'[p], news'[p], racks'[p])
    BY <2>3, <2>5 DEF TypeInv
  <2>9. \A p \in Requests : Says(news'[p], facts')
    BY <2>3, <2>5 DEF FactInv
  <2>10. \A p \in Requests : p # q => ~Waiting(v, p)
    BY <1>9 DEF Waiting
  <2>11. \A p \in Requests : stage'[p] = "sent" =>
           Queued(p, news'[p], buffer'[Body[p].service])
    <3>1. \A p \in Requests : stage'[p] = "sent" =>
            p # q /\ stage[p] = "sent" /\ news'[p] = news[p]
      BY <2>4, <2>5
    <3>. QED  BY <1>7, <2>10, <3>1
  <2>12. \A p \in Requests : stage'[p] \in {"commit", "reread"} =>
           stage[p] = stage'[p]
    BY <2>4, <2>5
  <2>. QED  BY <2>6, <2>7, <2>8, <2>9, <2>11, <2>12
<1>10. /\ \A p \in Requests : Forward(p, stage'[p], news'[p])
       /\ \A p \in Requests : Holds(p, stage'[p], news'[p], racks'[p])
       /\ \A p \in Requests : Says(news'[p], facts')
       /\ stage' \in [Requests -> Stages] /\ news' \in [Requests -> Seq(Events)]
       /\ \A p \in Requests : stage'[p] = "sent" =>
            Queued(p, news'[p], buffer'[Body[p].service])
       /\ \A p \in Requests : stage'[p] \in {"commit", "reread"} =>
            stage[p] = stage'[p]
  <2>1. CASE \E q \in Requests : Waiting(v, q) /\ GoOn(q)
    BY <1>9, <2>1
  <2>2. CASE (\A q \in Requests : ~Waiting(v, q)) /\ UNCHANGED <<stage, news>>
    BY <1>8, <2>2
  <2>. QED  BY <1>3, <2>1, <2>2
<1>11. /\ racks' \in [Requests -> Seq(Entities \union Places)]
       /\ seen' \in [Requests -> SUBSET (Rows \union {None})]
  BY DEF TypeInv
<1>. QED  BY <1>4, <1>5, <1>6, <1>10, <1>11, BufferStep

LEMMA WaitSteps ==
  ASSUME TypeInv, FactInv, NEW q \in Requests, TimesOut(q) \/ SendFails(q)
  PROVE  TypeInv' /\ FactInv'
<1>1. /\ stage[q] \in {"publish", "sent"} /\ GoOn(q)
      /\ UNCHANGED <<table, racks, seen, buffer, shown, facts>>
  BY DEF TimesOut, SendFails, kafka, ghosts
<1>. QED  BY <1>1, SilentStep

LEMMA DeliverySteps ==
  ASSUME TypeInv, FactInv, NEW s \in Services, Deliver(s) \/ DeliveryFails(s)
  PROVE  TypeInv' /\ FactInv'
<1>1. CASE Deliver(s)
  <2>1. /\ buffer[s] # <<>> /\ LeaveBuffer(s)
        /\ UNCHANGED <<table, racks, seen, facts>>
        /\ LET e == buffer[s][1][2]
           IN shown' = [shown EXCEPT ![e.entity] = e.where]
    BY <1>1 DEF Deliver, ghosts
  <2>. QED  BY <2>1, LeaveStep
<1>2. CASE DeliveryFails(s)
  <2>1. /\ buffer[s] # <<>> /\ LeaveBuffer(s)
        /\ UNCHANGED <<table, racks, seen, facts>> /\ UNCHANGED shown
    BY <1>2 DEF DeliveryFails
  <2>. QED  BY <2>1, LeaveStep
<1>. QED  BY <1>1, <1>2

------------------------------------------------------------------------------
(* Failures.                                                               *)

\* Requests Q end, and the buffers keep what others wait for.
LEMMA EndStep ==
  ASSUME TypeInv, FactInv, NEW Q, EndAll(Q),
         \A q \in Q : stage[q] # "new",
         UNCHANGED <<table, shown, facts>>,
         buffer' \in [Services -> Seq(Requests \X Events)],
         \A s \in Services : buffer'[s] \in {buffer[s], <<>>},
         \A q \in Requests \ Q : stage[q] = "sent" =>
           buffer'[Body[q].service] = buffer[Body[q].service]
  PROVE  TypeInv' /\ FactInv'
<1>1. /\ \A q \in Requests : q \in Q =>
           stage'[q] = "done" /\ news'[q] = <<>> /\ racks'[q] = <<>>
      /\ \A q \in Requests : q \notin Q =>
           /\ stage'[q] = stage[q] /\ news'[q] = news[q] /\ racks'[q] = racks[q]
  BY DEF EndAll
<1>2. /\ <<>> \in Seq(Events) /\ <<>> \in Seq(Entities \union Places)
      /\ \A F : Says(<<>>, F) /\ Carries(<<>>, F)
  BY EmptySeq DEF Says, Carries
<1>3. stage' \in [Requests -> Stages]
  <2>1. \A q \in Requests : (IF q \in Q THEN "done" ELSE stage[q]) \in Stages
    BY DEF TypeInv, Stages
  <2>. QED  BY <2>1 DEF EndAll
<1>4. news' \in [Requests -> Seq(Events)]
  <2>1. \A q \in Requests : (IF q \in Q THEN <<>> ELSE news[q]) \in Seq(Events)
    BY <1>2 DEF TypeInv
  <2>. QED  BY <2>1 DEF EndAll
<1>5. racks' \in [Requests -> Seq(Entities \union Places)]
  <2>1. \A q \in Requests :
          (IF q \in Q THEN <<>> ELSE racks[q]) \in Seq(Entities \union Places)
    BY <1>2 DEF TypeInv
  <2>. QED  BY <2>1 DEF EndAll
<1>6. seen' \in [Requests -> SUBSET (Rows \union {None})]
  <2>1. \A q \in Requests :
          (IF q \in Q THEN {} ELSE seen[q]) \in SUBSET (Rows \union {None})
    BY DEF TypeInv
  <2>. QED  BY <2>1 DEF EndAll
<1>7. ASSUME NEW q \in Requests
      PROVE  /\ Forward(q, stage'[q], news'[q])
             /\ Holds(q, stage'[q], news'[q], racks'[q])
             /\ Says(news'[q], facts')
             /\ stage'[q] = "sent" =>
                  Queued(q, news'[q], buffer'[Body[q].service])
             /\ stage'[q] \in {"commit", "reread"} => stage[q] = stage'[q]
  <2>1. CASE q \in Q
    <3>1. Holds(q, "done", <<>>, <<>>)
      BY <1>2 DEF Holds, Stages
    <3>2. Forward(q, "done", <<>>)
      BY DEF Forward
    <3>3. Says(<<>>, facts')
      BY <1>2
    <3>4. stage'[q] = "done" /\ news'[q] = <<>> /\ racks'[q] = <<>>
      BY <1>1, <2>1
    <3>. QED  BY <3>1, <3>2, <3>3, <3>4
  <2>2. CASE q \notin Q
    <3>1. stage'[q] = stage[q] /\ news'[q] = news[q] /\ racks'[q] = racks[q]
      BY <1>1, <2>2
    <3>2. Forward(q, stage'[q], news'[q])
      BY <3>1 DEF Forward
    <3>3. Holds(q, stage[q], news[q], racks[q]) /\ Says(news[q], facts)
      BY DEF TypeInv, FactInv
    <3>4. stage[q] = "sent" => Queued(q, news[q], buffer[Body[q].service])
      BY DEF TypeInv
    <3>. QED  BY <2>2, <3>1, <3>2, <3>3, <3>4
  <2>. QED  BY <2>1, <2>2
<1>8. \A s \in Services : Carries(buffer'[s], facts')
  BY <1>2 DEF FactInv
<1>9. /\ shown' \in [Entities -> Wheres]
      /\ \A e \in Entities : shown'[e] # None => <<e, shown'[e]>> \in facts'
  BY DEF TypeInv, FactInv
<1>. QED  BY <1>3, <1>4, <1>5, <1>6, <1>7, <1>8, <1>9, BufferStep

LEMMA CallFailsStep ==
  ASSUME TypeInv, FactInv, NEW q \in Requests, CallFails(q)
  PROVE  TypeInv' /\ FactInv'
<1>1. /\ EndAll({q}) /\ stage[q] # "new"
      /\ UNCHANGED <<table, buffer, shown, facts>>
  BY DEF CallFails, kafka
<1>2. buffer' \in [Services -> Seq(Requests \X Events)]
  BY <1>1 DEF TypeInv
<1>. QED  BY <1>1, <1>2, EndStep

LEMMA CrashStep ==
  ASSUME TypeInv, FactInv, NEW v \in Services, Crash(v)
  PROVE  TypeInv' /\ FactInv'
<1> DEFINE Q == {q \in Requests : Body[q].service = v
                                  /\ stage[q] \notin {"new", "done"}}
<1>1. /\ EndAll(Q) /\ buffer' = [buffer EXCEPT ![v] = <<>>]
      /\ UNCHANGED <<table, shown, facts>>
  BY DEF Crash
<1>2. \A q \in Q : stage[q] # "new"
  OBVIOUS
<1>3. /\ buffer' \in [Services -> Seq(Requests \X Events)]
      /\ \A s \in Services : buffer'[s] \in {buffer[s], <<>>}
      /\ \A s \in Services : s # v => buffer'[s] = buffer[s]
  <2>1. <<>> \in Seq(Requests \X Events)
    BY EmptySeq
  <2>. QED  BY <1>1, <2>1 DEF TypeInv
<1>4. ASSUME NEW q \in Requests \ Q, stage[q] = "sent"
      PROVE  buffer'[Body[q].service] = buffer[Body[q].service]
  BY <1>3, <1>4, Requested
<1> HIDE DEF Q
<1>. QED  BY <1>1, <1>2, <1>3, <1>4, EndStep

------------------------------------------------------------------------------
(* What always holds.                                                      *)

LEMMA Initially ==
  ASSUME Init
  PROVE  TypeInv /\ FactInv
<1>1. /\ <<>> \in Seq(Events) /\ <<>> \in Seq(Entities \union Places)
      /\ <<>> \in Seq(Requests \X Events)
      /\ \A F : Says(<<>>, F) /\ Carries(<<>>, F)
  BY EmptySeq DEF Says, Carries
<1>2. TypeInv
  <2>1. \A q \in Requests : Holds(q, "new", <<>>, <<>>)
    BY <1>1 DEF Holds, Stages
  <2>2. \A q \in Requests : Holds(q, stage[q], news[q], racks[q])
    BY <2>1 DEF Init
  <2>. QED  BY <1>1, <2>2 DEF Init, TypeInv, Stages, Wheres
<1>3. FactInv
  BY <1>1 DEF Init, FactInv, Changing
<1>. QED  BY <1>2, <1>3

LEMMA Standing ==
  ASSUME TypeInv, FactInv, UNCHANGED vars
  PROVE  TypeInv' /\ FactInv'
<1>1. /\ EndAll({})
      /\ UNCHANGED <<table, shown, facts, buffer>>
  BY DEF vars, requests, kafka, ghosts, EndAll, TypeInv
<1>2. buffer' \in [Services -> Seq(Requests \X Events)]
  BY <1>1 DEF TypeInv
<1>. QED  BY <1>1, <1>2, EndStep

\* The invariant behind every theorem: who waits has its event in the buffer,
\* and whatever is told has happened.
LEMMA Always == Spec => [](TypeInv /\ FactInv)
<1>1. Init => TypeInv /\ FactInv
  BY Initially
<1>2. TypeInv /\ FactInv /\ [Next]_vars => (TypeInv /\ FactInv)'
  <2> SUFFICES ASSUME TypeInv, FactInv, [Next]_vars
               PROVE  TypeInv' /\ FactInv'
    OBVIOUS
  <2>1. CASE \E q \in Requests :
               Arrive(q) \/ Proceed(q) \/ SendFails(q) \/ CallFails(q)
    <3> SUFFICES ASSUME NEW q \in Requests,
                   Arrive(q) \/ Proceed(q) \/ SendFails(q) \/ CallFails(q)
                 PROVE  TypeInv' /\ FactInv'
      BY <2>1
    <3>1. CASE Arrive(q)
      BY <3>1, ArriveStep
    <3>2. CASE Proceed(q)
      <4>1. CASE Create(q)
        BY <4>1, CreateStep
      <4>2. CASE Move(q)
        BY <4>2, MoveStep
      <4>3. CASE Reread(q)
        BY <4>3, RereadStep
      <4>4. CASE Delete(q)
        BY <4>4, DeleteStep
      <4>5. CASE Place(q)
        BY <4>5, PlaceStep
      <4>6. CASE Insert(q)
        BY <4>6, InsertStep
      <4>7. CASE Send(q)
        BY <4>7, SendStep
      <4>8. CASE TimesOut(q)
        BY <4>8, WaitSteps
      <4>. QED
        BY <3>2, <4>1, <4>2, <4>3, <4>4, <4>5, <4>6, <4>7, <4>8 DEF Proceed
    <3>3. CASE SendFails(q)
      BY <3>3, WaitSteps
    <3>4. CASE CallFails(q)
      BY <3>4, CallFailsStep
    <3>. QED  BY <3>1, <3>2, <3>3, <3>4
  <2>2. CASE \E s \in Services : Deliver(s) \/ DeliveryFails(s) \/ Crash(s)
    <3> SUFFICES ASSUME NEW s \in Services,
                   Deliver(s) \/ DeliveryFails(s) \/ Crash(s)
                 PROVE  TypeInv' /\ FactInv'
      BY <2>2
    <3>1. CASE Deliver(s) \/ DeliveryFails(s)
      BY <3>1, DeliverySteps
    <3>2. CASE Crash(s)
      BY <3>2, CrashStep
    <3>. QED  BY <3>1, <3>2
  <2>3. CASE UNCHANGED vars
    BY <2>3, Standing
  <2>. QED  BY <2>1, <2>2, <2>3 DEF Next
<1>. QED  BY <1>1, <1>2, PTL DEF Spec

\* TypeOK always holds: each request holds what its stage says, and one that
\* waits has its event in its producer's buffer.
THEOREM TypeCorrect == Spec => []TypeOK
<1>1. TypeInv /\ FactInv => TypeOK
  <2> SUFFICES ASSUME TypeInv PROVE TypeOK
    OBVIOUS
  <2>1. \A e \in Entities : table[e] # None => table[e] \in Rows
    BY DEF TypeInv
  <2>2. ASSUME NEW q \in Requests
        PROVE  /\ stage[q] \in {"publish", "sent"} => news[q] # <<>>
               /\ stage[q] \in {"new", "done"} => news[q] = <<>>
               /\ stage[q] \in {"place", "insert"} => racks[q] # <<>>
               /\ stage[q] = "sent" =>
                    <<q, Head(news[q])>> \in Buffered(Body[q].service)
    <3>1. Holds(q, stage[q], news[q], racks[q])
      BY DEF TypeInv
    <3>2. ASSUME stage[q] = "sent"
          PROVE  <<q, Head(news[q])>> \in Buffered(Body[q].service)
      <4> DEFINE b == buffer[Body[q].service]
      <4>1. b \in Seq(Requests \X Events)
        BY Requested DEF TypeInv
      <4>2. PICK i \in 1..Len(b) : b[i] = <<q, Head(news[q])>>
        BY <3>2 DEF TypeInv, Queued
      <4> HIDE DEF b
      <4>3. i \in DOMAIN b
        BY <4>1, <4>2
      <4>4. <<q, Head(news[q])>> \in Range(b)
        BY <4>2, <4>3 DEF Range
      <4>. QED  BY <4>4 DEF Buffered, b
    <3>. QED  BY <3>1, <3>2 DEF Holds
  <2>3. ASSUME NEW s \in Services
        PROVE  Buffered(s) \subseteq Requests \X Events
    <3> DEFINE b == buffer[s]
    <3>1. b \in Seq(Requests \X Events)
      BY DEF TypeInv
    <3> HIDE DEF b
    <3>2. Range(b) \subseteq Requests \X Events
      BY <3>1, ElementOfSeq DEF Range
    <3>. QED  BY <3>2 DEF Buffered, b
  <2>. QED  BY <2>1, <2>2, <2>3 DEF TypeInv, TypeOK, Wheres
<1>. QED  BY <1>1, Always, PTL

\* EventsAreTrue always holds: through every crash, timeout and late delivery,
\* what is on the topic or on its way there tells of a committed change.
THEOREM EventsStayTrue == Spec => []EventsAreTrue
<1>1. TypeInv /\ FactInv => EventsAreTrue
  <2> SUFFICES ASSUME TypeInv, FactInv PROVE EventsAreTrue
    OBVIOUS
  <2>1. ASSUME NEW s \in Services, NEW x \in Buffered(s)
        PROVE  <<x[2].entity, x[2].where>> \in facts
    <3> DEFINE b == buffer[s]
    <3>1. b \in Seq(Requests \X Events)
      BY DEF TypeInv
    <3>2. x \in Range(b)
      BY <2>1 DEF Buffered
    <3>3. \A i \in 1..Len(b) : <<b[i][2].entity, b[i][2].where>> \in facts
      BY DEF FactInv, Carries
    <3> HIDE DEF b
    <3>4. PICK i \in DOMAIN b : x = b[i]
      BY <3>2 DEF Range
    <3>5. i \in 1..Len(b)
      BY <3>1, <3>4
    <3>. QED  BY <3>3, <3>4, <3>5
  <2>. QED  BY <2>1 DEF FactInv, EventsAreTrue
<1>. QED  BY <1>1, Always, PTL

------------------------------------------------------------------------------
(* Bulk deployments.                                                       *)

\* Rows that stay, go or are placed by hand disturb no bulk deployment.
LEMMA PlacementKept ==
  ASSUME BulkPlacement, byHand \subseteq byHand', blind \subseteq blind',
         \A e \in Entities : \/ table'[e] = table[e] \/ table'[e] = None
                             \/ e \in byHand'
  PROVE  BulkPlacement'
<1> SUFFICES ASSUME NEW a \in Entities, a \notin byHand', table'[a] # None
             PROVE  /\ Units(table'[a].start, table'[a].size) \subseteq 1..Height
                    /\ \A b \in Entities \ {a} :
                         table'[b] # None /\ Overlap(a, b)' =>
                           {a, b} \intersect (byHand' \union blind') # {}
  BY DEF BulkPlacement
<1>1. a \notin byHand /\ table'[a] = table[a]
  OBVIOUS
<1>2. Units(table'[a].start, table'[a].size) \subseteq 1..Height
  BY <1>1 DEF BulkPlacement
<1>3. ASSUME NEW b \in Entities \ {a}, table'[b] # None, Overlap(a, b)'
      PROVE  {a, b} \intersect (byHand' \union blind') # {}
  <2>1. CASE b \in byHand'
    BY <2>1
  <2>2. CASE b \notin byHand'
    <3>1. table'[b] = table[b] /\ table[b] # None
      BY <1>3, <2>2
    <3>2. Overlap(a, b)
      BY <1>1, <1>3, <3>1 DEF Overlap
    <3>3. {a, b} \intersect (byHand \union blind) # {}
      BY <1>1, <3>1, <3>2 DEF BulkPlacement
    <3>. QED  BY <3>3
  <2>. QED  BY <2>1, <2>2
<1>. QED  BY <1>2, <1>3

\* A bulk deployment puts its device where it saw room.
LEMMA InsertPlaces ==
  ASSUME TypeInv, FactInv, BulkPlacement, NEW q \in Requests, Insert(q)
  PROVE  BulkPlacement'
<1> DEFINE r == Head(racks[q])
           e == <<q, Len(news[q]) + 1>>
           u == find_next_available_slot(Body[q].size, Height, seen[q])
           z == Body[q].size
<1>1. CASE u = -1
  <2>1. UNCHANGED <<table, blind, byHand>>
    BY <1>1, InsertEffect
  <2>. QED  BY <2>1, PlacementKept
<1>2. CASE u # -1
  <2>1. /\ table' = [table EXCEPT ![e] = Row(r, u, z)]
        /\ blind' = IF Occupancy(r) = seen[q] THEN blind ELSE blind \union {e}
        /\ UNCHANGED byHand /\ stage[q] = "insert"
    BY <1>2, InsertEffect
  <2>2. e \in Entities /\ z \in Nat
    BY <2>1, NextRow, Requested
  <2>3. /\ u \in Nat /\ Units(u, z) \subseteq 1..Height
        /\ Units(u, z) \intersect Occupied(seen[q]) = {}
    <3>1. /\ u \in Nat \ {0} /\ u + z - 1 <= Height
          /\ Units(u, z) \intersect Occupied(seen[q]) = {}
      BY <1>2, <2>2, SlotIsLowest DEF Height
    <3> HIDE DEF u, z
    <3>2. u..(u + z - 1) \subseteq 1..Height
      BY <2>2, <3>1 DEF Height
    <3>. QED  BY <3>1, <3>2 DEF Units
  <2>4. /\ table'[e] = Row(r, u, z)
        /\ \A x \in Entities : x # e => table'[x] = table[x]
    BY <2>1, <2>2 DEF TypeInv
  <2> HIDE DEF u, z, e
  <2>5. ASSUME NEW b \in Entities, b # e, table'[b] # None, e \notin blind',
               table'[b].rack = r
        PROVE  Units(table'[b].start, table'[b].size) \intersect Units(u, z) = {}
    <3>1. Occupancy(r) = seen[q] /\ table'[b] = table[b]
      BY <2>1, <2>4, <2>5
    <3>2. table[b] \in seen[q]
      BY <2>5, <3>1 DEF Occupancy
    <3>3. Units(table[b].start, table[b].size) \subseteq Occupied(seen[q])
      BY <3>2 DEF Occupied
    <3>. QED  BY <2>3, <3>1, <3>3
  <2>6. Row(r, u, z).rack = r /\ Row(r, u, z).start = u /\ Row(r, u, z).size = z
    BY DEF Row
  <2>7. ASSUME NEW a \in Entities, a \notin byHand', table'[a] # None
        PROVE  /\ Units(table'[a].start, table'[a].size) \subseteq 1..Height
               /\ \A b \in Entities \ {a} :
                    table'[b] # None /\ Overlap(a, b)' =>
                      {a, b} \intersect (byHand' \union blind') # {}
    <3>1. CASE a = e
      <4>1. Units(table'[a].start, table'[a].size) \subseteq 1..Height
        BY <2>3, <2>4, <2>6, <3>1
      <4>2. ASSUME NEW b \in Entities \ {a}, table'[b] # None, Overlap(a, b)',
                   a \notin blind'
            PROVE  FALSE
        <5>1. /\ table'[b].rack = r
              /\ Units(u, z) \intersect
                   Units(table'[b].start, table'[b].size) # {}
          BY <2>4, <2>6, <3>1, <4>2 DEF Overlap
        <5>. QED  BY <2>5, <3>1, <4>2, <5>1
      <4>. QED  BY <4>1, <4>2
    <3>2. CASE a # e
      <4>1. table'[a] = table[a] /\ a \notin byHand
        BY <2>1, <2>4, <3>2, <2>7
      <4>2. Units(table'[a].start, table'[a].size) \subseteq 1..Height
        BY <2>7, <4>1 DEF BulkPlacement
      <4>3. ASSUME NEW b \in Entities \ {a}, table'[b] # None, Overlap(a, b)'
            PROVE  {a, b} \intersect (byHand' \union blind') # {}
        <5>1. CASE b = e
          <6>1. /\ table'[a].rack = r
                /\ Units(table'[a].start, table'[a].size)
                     \intersect Units(u, z) # {}
            BY <2>4, <2>6, <4>3, <5>1 DEF Overlap
          <6>2. e \in blind'
            BY <2>5, <2>7, <3>2, <6>1
          <6>. QED  BY <5>1, <6>2
        <5>2. CASE b # e
          <6>1. table'[b] = table[b] /\ Overlap(a, b)
            BY <2>4, <4>1, <4>3, <5>2 DEF Overlap
          <6>2. {a, b} \intersect (byHand \union blind) # {}
            BY <2>7, <4>1, <4>3, <6>1 DEF BulkPlacement
          <6>. QED  BY <2>1, <6>2
        <5>. QED  BY <5>1, <5>2
      <4>. QED  BY <4>2, <4>3
    <3>. QED  BY <3>1, <3>2
  <2>. QED  BY <2>7 DEF BulkPlacement
<1>. QED  BY <1>1, <1>2

\* BulkPlacement always holds: a device deployed in bulk stays in its rack, and
\* overlaps only what came after it by hand or was placed on a stale occupancy.
THEOREM BulkPlacementHolds == Spec => []BulkPlacement
<1>1. Init => BulkPlacement
  BY DEF Init, BulkPlacement
<1>2. TypeInv /\ FactInv /\ BulkPlacement /\ [Next]_vars => BulkPlacement'
  <2> SUFFICES ASSUME TypeInv, FactInv, BulkPlacement, [Next]_vars
               PROVE  BulkPlacement'
    OBVIOUS
  <2>1. ASSUME UNCHANGED <<table, byHand, blind>> PROVE BulkPlacement'
    BY <2>1, PlacementKept
  <2>2. ASSUME NEW q \in Requests, Create(q) PROVE BulkPlacement'
    <3>1. /\ \A e \in Entities : table'[e] = table[e] \/ e \in byHand'
          /\ byHand \subseteq byHand' /\ UNCHANGED blind
      BY <2>2 DEF Create
    <3>. QED  BY <3>1, PlacementKept
  <2>3. ASSUME NEW q \in Requests, Move(q) PROVE BulkPlacement'
    <3>1. /\ \A e \in Entities : table'[e] = table[e] \/ e \in byHand'
          /\ byHand \subseteq byHand' /\ UNCHANGED blind
      BY <2>3 DEF Move, TypeInv
    <3>. QED  BY <3>1, PlacementKept
  <2>4. ASSUME NEW q \in Requests, Delete(q) PROVE BulkPlacement'
    <3>1. /\ \A e \in Entities : table'[e] = table[e] \/ table'[e] = None
          /\ UNCHANGED <<byHand, blind>>
      BY <2>4 DEF Delete, TypeInv
    <3>. QED  BY <3>1, PlacementKept
  <2>5. CASE \E q \in Requests :
               Arrive(q) \/ Proceed(q) \/ SendFails(q) \/ CallFails(q)
    <3> SUFFICES ASSUME NEW q \in Requests,
                   Arrive(q) \/ Proceed(q) \/ SendFails(q) \/ CallFails(q)
                 PROVE  BulkPlacement'
      BY <2>5
    <3>1. CASE \/ Arrive(q) \/ Reread(q) \/ Place(q) \/ Send(q) \/ TimesOut(q)
               \/ SendFails(q) \/ CallFails(q)
      <4>1. UNCHANGED <<table, byHand, blind>>
        BY <3>1 DEF Arrive, Reread, Place, Send, TimesOut, SendFails, CallFails,
                    ghosts
      <4>. QED  BY <2>1, <4>1
    <3>2. CASE Create(q) \/ Move(q) \/ Delete(q) \/ Insert(q)
      BY <2>2, <2>3, <2>4, <3>2, InsertPlaces
    <3>. QED  BY <3>1, <3>2 DEF Proceed
  <2>6. CASE \E s \in Services : Deliver(s) \/ DeliveryFails(s) \/ Crash(s)
    <3>1. UNCHANGED <<table, byHand, blind>>
      BY <2>6 DEF Deliver, DeliveryFails, Crash, ghosts
    <3>. QED  BY <2>1, <3>1
  <2>7. CASE UNCHANGED vars
    BY <2>1, <2>7 DEF vars, ghosts
  <2>. QED  BY <2>5, <2>6, <2>7 DEF Next
<1>. QED  BY <1>1, <1>2, Always, PTL DEF Spec

------------------------------------------------------------------------------
(* What requests have still to send.                                       *)

\* The events among n a request at s has not handed to its producer.
UnsentOf(s, n) == {n[i] : i \in (IF s = "sent" THEN 2 ELSE 1)..Len(n)}
Unsent(q) == UnsentOf(stage[q], news[q])

\* The request has moved e, and has still to read it again.
Rereads(q, e) ==
  stage[q] = "reread" /\ Body[q].target = e /\ table[e] # None

Owes(q, e) == Rereads(q, e) \/ \E v \in Unsent(q) : v.entity = e

\* Whoever reads buffer b after having seen sh of e ends up with w.
Reads(e, b, sh, w) ==
  \/ \E i \in 1..Len(b) :
       /\ b[i][2].entity = e /\ b[i][2].where = w
       /\ \A j \in 1..Len(b) : i < j => b[j][2].entity # e
  \/ sh = w /\ \A j \in 1..Len(b) : b[j][2].entity # e

\* Where e is, unless a change was given up or overtaken: those who still owe an
\* event of it will say so, and if nobody does the buffer of its service has it
\* last, or the topic.
Tells(e) ==
  /\ \A q \in Requests : \A v \in Unsent(q) : v.entity = e => v.where = Where(e)
  /\ \A q \in Requests : Rereads(q, e) => Head(Body[q].racks) = Where(e)
  /\ (\A q \in Requests : ~Owes(q, e)) =>
       Reads(e, buffer[Home(e)], shown[e], Where(e))

TellInv == \A e \in Entities : e \notin unsaid \union raced => Tells(e)

\* A service tells of its own table, and a bulk deployment counts its rows.
Own(q, s, n) ==
  \A i \in 1..Len(n) :
    /\ Home(n[i].entity) = Body[q].service
    /\ s \in {"place", "insert"} => n[i].entity = <<q, i>>

Local(s, b) == \A i \in 1..Len(b) : Home(b[i][2].entity) = s

HomeInv ==
  /\ \A q \in Requests : Own(q, stage[q], news[q])
  /\ \A s \in Services : Local(s, buffer[s])

LEMMA UnsentEmpty == \A s : UnsentOf(s, <<>>) = {}
BY EmptySeq DEF UnsentOf

LEMMA UnsentHead ==
  ASSUME NEW n \in Seq(Events), n # <<>>
  PROVE  /\ UnsentOf("publish", n) = {Head(n)} \union UnsentOf("sent", n)
         /\ \A s : s # "sent" => UnsentOf(s, Tail(n)) = UnsentOf("sent", n)
<1> DEFINE N == Len(n)
           m == Tail(n)
<1>1. N \in Nat \ {0} /\ Head(n) = n[1]
  BY EmptySeq, HeadTailProperties
<1>2. Len(m) = N - 1 /\ \A i \in 1..Len(m) : m[i] = n[i + 1]
  BY HeadTailProperties
<1> HIDE DEF N, m
<1>3. \A i : i \in 1..N <=> i = 1 \/ i \in 2..N
  BY <1>1
<1>4. {n[i] : i \in 1..N} = {n[1]} \union {n[i] : i \in 2..N}
  BY <1>3
<1>5. /\ \A i \in 1..(N - 1) : i + 1 \in 2..N
      /\ \A i \in 2..N : i - 1 \in 1..(N - 1) /\ (i - 1) + 1 = i
  BY <1>1
<1>6. {m[i] : i \in 1..(N - 1)} = {n[i] : i \in 2..N}
  <2>1. {m[i] : i \in 1..(N - 1)} \subseteq {n[i] : i \in 2..N}
    BY <1>2, <1>5
  <2>2. ASSUME NEW i \in 2..N PROVE n[i] \in {m[k] : k \in 1..(N - 1)}
    <3>1. n[i] = m[i - 1]
      BY <1>2, <1>5
    <3>. QED  BY <1>5, <3>1
  <2>. QED  BY <2>1, <2>2
<1>. QED  BY <1>1, <1>2, <1>4, <1>6 DEF UnsentOf, N, m

LEMMA UnsentAppend ==
  ASSUME NEW n \in Seq(Events), NEW x \in Events, NEW s, NEW z,
         s # "sent", z # "sent"
  PROVE  UnsentOf(s, Append(n, x)) = UnsentOf(z, n) \union {x}
<1> DEFINE N == Len(n)
           m == Append(n, x)
<1>1. N \in Nat /\ Len(m) = N + 1 /\ m[N + 1] = x
  BY LenProperties, AppendProperties
<1>2. \A i \in 1..N : m[i] = n[i]
  BY AppendProperties
<1> HIDE DEF N, m
<1>3. \A i : i \in 1..(N + 1) <=> i \in 1..N \/ i = N + 1
  BY <1>1
<1>4. {m[i] : i \in 1..(N + 1)} = {m[i] : i \in 1..N} \union {m[N + 1]}
  BY <1>3
<1>5. {m[i] : i \in 1..N} = {n[i] : i \in 1..N}
  BY <1>2
<1>. QED  BY <1>1, <1>4, <1>5 DEF UnsentOf, N, m

\* What is not sent is not announced.
LEMMA UnsentAbout ==
  ASSUME TypeInv, NEW q \in Requests, NEW e, Owes(q, e)
  PROVE  e \in Unannounced(q)
<1>1. CASE Rereads(q, e)
  BY <1>1 DEF Rereads, Unannounced
<1>2. CASE \E v \in Unsent(q) : v.entity = e
  <2> DEFINE n == news[q]
  <2>1. n \in Seq(Events)
    BY DEF TypeInv
  <2>2. PICK i \in (IF stage[q] = "sent" THEN 2 ELSE 1)..Len(n) : n[i].entity = e
    BY <1>2 DEF Unsent, UnsentOf
  <2> HIDE DEF n
  <2>3. i \in DOMAIN n
    BY <2>1, <2>2, LenProperties
  <2>4. e \in About(n)
    BY <2>2, <2>3 DEF About
  <2>. QED  BY <2>4 DEF Unannounced, n
<1>. QED  BY <1>1, <1>2 DEF Owes

------------------------------------------------------------------------------
(* What readers of a buffer end up with.                                   *)

LEMMA ReadsAppend ==
  ASSUME NEW b \in Seq(Requests \X Events), NEW x \in Requests \X Events,
         NEW e, NEW sh
  PROVE  LET c == Append(b, x)
         IN /\ x[2].entity = e => Reads(e, c, sh, x[2].where)
            /\ \A w : x[2].entity # e /\ Reads(e, b, sh, w) => Reads(e, c, sh, w)
            /\ \A s : Local(s, b) /\ Home(x[2].entity) = s => Local(s, c)
<1> DEFINE c == Append(b, x)
           N == Len(b)
<1>1. /\ Len(c) = N + 1 /\ c[N + 1] = x /\ N \in Nat
      /\ \A i \in 1..N : c[i] = b[i]
  BY AppendProperties, LenProperties
<1> HIDE DEF c, N
<1>2. /\ \A i \in 1..(N + 1) : i \in 1..N \/ i = N + 1
      /\ \A i \in 1..N : i \in 1..(N + 1)
      /\ N + 1 \in 1..(N + 1) /\ \A j \in 1..(N + 1) : ~(N + 1 < j)
  BY <1>1
<1>3. ASSUME x[2].entity = e PROVE Reads(e, c, sh, x[2].where)
  BY <1>1, <1>2, <1>3 DEF Reads
<1>4. ASSUME NEW w, x[2].entity # e, Reads(e, b, sh, w)
      PROVE  Reads(e, c, sh, w)
  <2>1. CASE \E i \in 1..N : /\ b[i][2].entity = e /\ b[i][2].where = w
                             /\ \A j \in 1..N : i < j => b[j][2].entity # e
    <3>1. PICK i \in 1..N : /\ b[i][2].entity = e /\ b[i][2].where = w
                            /\ \A j \in 1..N : i < j => b[j][2].entity # e
      BY <2>1
    <3>2. \A j \in 1..(N + 1) : i < j => c[j][2].entity # e
      BY <1>1, <1>2, <1>4, <3>1
    <3>3. i \in 1..(N + 1) /\ c[i][2].entity = e /\ c[i][2].where = w
      BY <1>1, <1>2, <3>1
    <3>. QED  BY <1>1, <3>2, <3>3 DEF Reads
  <2>2. CASE sh = w /\ \A j \in 1..N : b[j][2].entity # e
    <3>1. \A j \in 1..(N + 1) : c[j][2].entity # e
      BY <1>1, <1>2, <1>4, <2>2
    <3>. QED  BY <1>1, <2>2, <3>1 DEF Reads
  <2>. QED  BY <1>4, <2>1, <2>2 DEF Reads, N
<1>5. ASSUME NEW s, Local(s, b), Home(x[2].entity) = s PROVE Local(s, c)
  <2>1. \A i \in 1..N : Home(c[i][2].entity) = s
    BY <1>1, <1>5 DEF Local, N
  <2>. QED  BY <1>1, <1>2, <1>5, <2>1 DEF Local
<1>. QED  BY <1>3, <1>4, <1>5 DEF c

\* The first event goes to the topic, or is not about e.
LEMMA ReadsTail ==
  ASSUME NEW b \in Seq(Requests \X Events), b # <<>>, NEW e, NEW sh, NEW w,
         Reads(e, b, sh, w)
  PROVE  LET c == Tail(b)
         IN /\ b[1][2].entity = e => Reads(e, c, b[1][2].where, w)
            /\ b[1][2].entity # e => Reads(e, c, sh, w)
<1> DEFINE c == Tail(b)
           N == Len(b)
<1>1. Len(c) = N - 1 /\ N \in Nat \ {0}
  BY HeadTailProperties, EmptySeq
<1>2. \A i \in 1..Len(c) : c[i] = b[i + 1]
  BY HeadTailProperties
<1> HIDE DEF c, N
<1>3. /\ 1 \in 1..N
      /\ \A i \in 1..(N - 1) : i + 1 \in 1..N /\ 1 < i + 1
      /\ \A i \in 1..N : i = 1 \/ (i - 1 \in 1..(N - 1) /\ (i - 1) + 1 = i)
      /\ \A i \in 1..N, j \in 1..(N - 1) : i - 1 < j => i < j + 1
  BY <1>1
<1>4. CASE \E i \in 1..N : /\ b[i][2].entity = e /\ b[i][2].where = w
                           /\ \A j \in 1..N : i < j => b[j][2].entity # e
  <2>1. PICK i \in 1..N : /\ b[i][2].entity = e /\ b[i][2].where = w
                          /\ \A j \in 1..N : i < j => b[j][2].entity # e
    BY <1>4
  <2>2. CASE i = 1
    <3>1. \A j \in 1..(N - 1) : c[j][2].entity # e
      BY <1>1, <1>2, <1>3, <2>1, <2>2
    <3>. QED  BY <1>1, <2>1, <2>2, <3>1 DEF Reads, c
  <2>3. CASE i # 1
    <3> DEFINE k == i - 1
    <3>1. k \in 1..(N - 1) /\ k + 1 = i
      BY <1>3, <2>3
    <3>2. c[k][2].entity = e /\ c[k][2].where = w
      BY <1>1, <1>2, <2>1, <3>1
    <3>3. \A j \in 1..(N - 1) : k < j => c[j][2].entity # e
      BY <1>1, <1>2, <1>3, <2>1
    <3> HIDE DEF k
    <3>4. \A sx : Reads(e, c, sx, w)
      BY <1>1, <3>1, <3>2, <3>3 DEF Reads
    <3>. QED  BY <3>4 DEF c
  <2>. QED  BY <2>2, <2>3
<1>5. CASE sh = w /\ \A j \in 1..N : b[j][2].entity # e
  <2>1. \A j \in 1..(N - 1) : c[j][2].entity # e
    BY <1>1, <1>2, <1>3, <1>5
  <2>2. b[1][2].entity # e
    BY <1>3, <1>5
  <2>. QED  BY <1>1, <1>5, <2>1, <2>2 DEF Reads, c
<1>. QED  BY <1>4, <1>5 DEF Reads, N

\* When nothing of e is left in the buffer, the topic has it right.
LEMMA ReadsNothing ==
  ASSUME NEW b, NEW e, NEW sh, NEW w, Reads(e, b, sh, w),
         \A i \in 1..Len(b) : b[i][2].entity # e
  PROVE  sh = w /\ Reads(e, <<>>, sh, w)
<1>1. sh = w
  BY DEF Reads
<1>2. \A j \in 1..Len(<<>>) : <<>>[j][2].entity # e
  BY EmptySeq
<1>. QED  BY <1>1, <1>2 DEF Reads

------------------------------------------------------------------------------
(* A service tells of its own table.                                       *)

LEMMA LocalTail ==
  ASSUME NEW b \in Seq(Requests \X Events), b # <<>>, NEW s, Local(s, b)
  PROVE  Local(s, Tail(b)) /\ Home(b[1][2].entity) = s
<1> DEFINE c == Tail(b)
           N == Len(b)
<1>1. Len(c) = N - 1 /\ N \in Nat \ {0}
  BY HeadTailProperties, EmptySeq
<1>2. \A i \in 1..Len(c) : c[i] = b[i + 1]
  BY HeadTailProperties
<1>3. \A i \in 1..N : Home(b[i][2].entity) = s
  BY DEF Local
<1> HIDE DEF c, N
<1>4. 1 \in 1..N /\ \A i \in 1..(N - 1) : i + 1 \in 1..N
  BY <1>1
<1>5. \A i \in 1..Len(c) : Home(c[i][2].entity) = s
  BY <1>1, <1>2, <1>3, <1>4
<1>. QED  BY <1>3, <1>4, <1>5 DEF Local, c

LEMMA OwnTail ==
  ASSUME NEW n \in Seq(Events), n # <<>>, NEW q, NEW s, Own(q, s, n)
  PROVE  /\ Home(Head(n).entity) = Body[q].service
         /\ \A z : z \notin {"place", "insert"} => Own(q, z, Tail(n))
<1> DEFINE m == Tail(n)
           N == Len(n)
<1>1. Len(m) = N - 1 /\ N \in Nat \ {0} /\ Head(n) = n[1]
  BY HeadTailProperties, EmptySeq
<1>2. \A i \in 1..Len(m) : m[i] = n[i + 1]
  BY HeadTailProperties
<1>3. \A i \in 1..N : Home(n[i].entity) = Body[q].service
  BY DEF Own
<1> HIDE DEF m, N
<1>4. 1 \in 1..N /\ \A i \in 1..(N - 1) : i + 1 \in 1..N
  BY <1>1
<1>5. \A i \in 1..Len(m) : Home(m[i].entity) = Body[q].service
  BY <1>1, <1>2, <1>3, <1>4
<1>. QED  BY <1>1, <1>3, <1>4, <1>5 DEF Own, m

LEMMA OwnOne ==
  ASSUME NEW q, NEW e \in Entities, NEW w \in Wheres,
         Home(e) = Body[q].service
  PROVE  \A s : s \notin {"place", "insert"} => Own(q, s, <<Event(e, w)>>)
<1>1. Event(e, w).entity = e
  BY EventTyped
<1>2. Len(<<Event(e, w)>>) = 1 /\ <<Event(e, w)>>[1] = Event(e, w)
  BY EventTyped
<1>3. \A i \in 1..1 : i = 1
  OBVIOUS
<1>. QED  BY <1>1, <1>2, <1>3 DEF Own

LEMMA OwnEmpty == \A q, s : Own(q, s, <<>>)
BY EmptySeq DEF Own

LEMMA OwnKept ==
  ASSUME TypeInv, HomeInv, NEW q \in Requests, NEW s, NEW n, Moves(q, s, n),
         Own(q, s, n), UNCHANGED buffer
  PROVE  HomeInv'
<1>1. \A p \in Requests : Own(p, stage'[p], news'[p])
  BY MovesOne DEF HomeInv
<1>2. \A p \in Requests : Own(p, stage[p], news[p])'
  BY <1>1 DEF Own
<1>3. \A v \in Services : Local(v, buffer[v])'
  BY DEF HomeInv, Local
<1>. QED  BY <1>2, <1>3 DEF HomeInv

------------------------------------------------------------------------------
(* One entity, from one step to the next.                                  *)

\* The row stays, and nobody has anything new to say of it.
LEMMA Shifts ==
  ASSUME NEW e \in Entities, Tells(e), table'[e] = table[e],
         \A p \in Requests : \A v \in Unsent(p)' : v.entity = e =>
           \/ v \in Unsent(p)
           \/ Rereads(p, e) /\ v.where = Head(Body[p].racks),
         \A p \in Requests : Rereads(p, e)' => Rereads(p, e),
         (\A p \in Requests : ~Owes(p, e)') =>
           Reads(e, buffer'[Home(e)], shown'[e], Where(e))
  PROVE  Tells(e)'
<1>1. Where(e)' = Where(e)
  BY DEF Where
<1>2. \A p \in Requests : \A v \in Unsent(p)' : v.entity = e => v.where = Where(e)
  BY DEF Tells
<1>3. \A p \in Requests : Rereads(p, e)' => Head(Body[p].racks) = Where(e)
  BY DEF Tells
<1>4. (\A p \in Requests : ~Owes(p, e)') =>
        Reads(e, buffer[Home(e)], shown[e], Where(e))'
  BY <1>1 DEF Reads
<1>. QED  BY <1>1, <1>2, <1>3, <1>4 DEF Tells

\* One request goes on, and owes what it owed.
LEMMA Quiet ==
  ASSUME TypeInv, NEW q \in Requests, NEW s, NEW n, Moves(q, s, n),
         UNCHANGED <<buffer, shown>>,
         NEW e \in Entities, Tells(e), table'[e] = table[e],
         \A v \in UnsentOf(s, n) : v.entity = e =>
           \/ v \in Unsent(q)
           \/ Rereads(q, e) /\ v.where = Head(Body[q].racks),
         s = "reread" /\ Body[q].target = e => table[e] = None,
         Owes(q, e) => \E v \in UnsentOf(s, n) : v.entity = e
  PROVE  Tells(e)'
<1>1. /\ Unsent(q)' = UnsentOf(s, n) /\ stage'[q] = s
      /\ \A p \in Requests : p # q => Unsent(p)' = Unsent(p) /\ stage'[p] = stage[p]
  BY MovesOne DEF Unsent, UnsentOf
<1>2. \A p \in Requests : Rereads(p, e)' => Rereads(p, e)
  BY <1>1 DEF Rereads
<1>3. \A p \in Requests : Owes(p, e) => Owes(p, e)'
  <2>1. Owes(q, e) => Owes(q, e)'
    BY <1>1 DEF Owes
  <2>2. \A p \in Requests : p # q => (Rereads(p, e) => Rereads(p, e)')
    BY <1>1 DEF Rereads
  <2>3. \A p \in Requests : p # q => (Owes(p, e) => Owes(p, e)')
    BY <1>1, <2>2 DEF Owes
  <2>. QED  BY <2>1, <2>3
<1>4. (\A p \in Requests : ~Owes(p, e)') =>
        Reads(e, buffer'[Home(e)], shown'[e], Where(e))
  BY <1>3 DEF Tells
<1>5. \A p \in Requests : \A v \in Unsent(p)' : v.entity = e =>
        \/ v \in Unsent(p)
        \/ Rereads(p, e) /\ v.where = Head(Body[p].racks)
  BY <1>1
<1>. QED  BY <1>2, <1>4, <1>5, Shifts

\* q commits a change that nobody overtakes: nobody else has anything to say,
\* and q owes an event that tells of it.
LEMMA Committing ==
  ASSUME TypeInv, NEW q \in Requests, NEW s, NEW n, Moves(q, s, n),
         NEW E, NEW where, Committed(q, E, where),
         NEW e \in Entities, e \in E, e \notin raced', NEW w, Where(e)' = w,
         \A v \in UnsentOf(s, n) : v.entity = e => v.where = w,
         s = "reread" /\ Body[q].target = e => Head(Body[q].racks) = w,
         \/ \E v \in UnsentOf(s, n) : v.entity = e
         \/ s = "reread" /\ Body[q].target = e /\ table'[e] # None
  PROVE  Tells(e)'
<1>1. /\ Unsent(q)' = UnsentOf(s, n) /\ stage'[q] = s
      /\ \A p \in Requests : p # q => Unsent(p)' = Unsent(p) /\ stage'[p] = stage[p]
  BY MovesOne DEF Unsent, UnsentOf
<1>2. \A p \in Requests : p # q => e \notin Unannounced(p)
  BY DEF Committed
<1>3. ASSUME NEW p \in Requests, p # q
      PROVE  (\A v \in Unsent(p)' : v.entity # e) /\ ~Rereads(p, e)'
  <2>1. ~Owes(p, e)
    BY <1>2, <1>3, UnsentAbout
  <2>2. stage[p] = "reread" => Body[p].target # e
    BY <1>2, <1>3 DEF Unannounced
  <2>3. \A v \in Unsent(p)' : v.entity # e
    BY <1>1, <1>3, <2>1 DEF Owes
  <2>. QED  BY <1>1, <1>3, <2>2, <2>3 DEF Rereads
<1>4. \A p \in Requests : \A v \in Unsent(p)' : v.entity = e => v.where = w
  BY <1>1, <1>3
<1>5. \A p \in Requests : Rereads(p, e)' => Head(Body[p].racks) = w
  BY <1>1, <1>3 DEF Rereads
<1>6. Owes(q, e)'
  BY <1>1 DEF Owes, Rereads
<1>. QED  BY <1>4, <1>5, <1>6 DEF Tells

\* Requests Q end that have nothing to say of e.
LEMMA Ending ==
  ASSUME TypeInv, NEW Q, EndAll(Q), UNCHANGED table,
         NEW e \in Entities, Tells(e),
         \A p \in Requests : p \in Q => ~Owes(p, e),
         Reads(e, buffer[Home(e)], shown[e], Where(e)) =>
           Reads(e, buffer'[Home(e)], shown'[e], Where(e))
  PROVE  Tells(e)'
<1>1. /\ \A p \in Requests : p \in Q => Unsent(p)' = {} /\ stage'[p] = "done"
      /\ \A p \in Requests : p \notin Q =>
           Unsent(p)' = Unsent(p) /\ stage'[p] = stage[p]
  <2>1. \A p \in Requests :
          /\ p \in Q => stage'[p] = "done" /\ news'[p] = <<>>
          /\ p \notin Q => stage'[p] = stage[p] /\ news'[p] = news[p]
    BY DEF EndAll
  <2>2. \A p \in Requests : Unsent(p)' = UnsentOf(stage'[p], news'[p])
    BY DEF Unsent, UnsentOf
  <2>. QED  BY <2>1, <2>2, UnsentEmpty DEF Unsent
<1>2. \A p \in Requests : Rereads(p, e)' <=> p \notin Q /\ Rereads(p, e)
  BY <1>1 DEF Rereads
<1>3. \A p \in Requests : Owes(p, e) => Owes(p, e)'
  BY <1>1, <1>2 DEF Owes
<1>4. \A p \in Requests : \A v \in Unsent(p)' : v \in Unsent(p)
  BY <1>1
<1>5. (\A p \in Requests : ~Owes(p, e)') =>
        Reads(e, buffer'[Home(e)], shown'[e], Where(e))
  BY <1>3 DEF Tells
<1>. QED  BY <1>2, <1>4, <1>5, Shifts

------------------------------------------------------------------------------
(* Every step keeps TellInv: requests.                                     *)

LEMMA NothingOwed ==
  ASSUME TypeInv, NEW q \in Requests, stage[q] \in {"new", "commit", "done"}
  PROVE  news[q] = <<>> /\ Unsent(q) = {} /\ \A e : ~Owes(q, e)
<1>1. news[q] = <<>>
  BY DEF TypeInv, Holds
<1>2. Unsent(q) = {}
  BY <1>1, UnsentEmpty DEF Unsent
<1>. QED  BY <1>1, <1>2 DEF Owes, Rereads

LEMMA HomeOfTarget ==
  ASSUME NEW q \in Requests, Body[q].op \in {"move", "delete"}
  PROVE  Home(Body[q].target) = Body[q].service
BY ConstantsOK

LEMMA ArriveTells ==
  ASSUME TypeInv, HomeInv, TellInv, NEW q \in Requests, Arrive(q)
  PROVE  HomeInv' /\ TellInv'
<1>1. stage[q] = "new" /\ UNCHANGED <<table, news, buffer, shown, unsaid, raced>>
  BY DEF Arrive, kafka, ghosts
<1>2. PICK s : /\ stage' = [stage EXCEPT ![q] = s]
               /\ s = CASE Body[q].op = "bulk" /\ Body[q].racks # <<>> -> "place"
                      [] Body[q].op = "create" -> "commit"
                      [] Body[q].op \in {"move", "delete"}
                           /\ table[Body[q].target] # None -> "commit"
                      [] OTHER -> "done"
  BY DEF Arrive, Goto
<1>3. s # "reread"
  <2>1. CASE Body[q].op = "bulk" /\ Body[q].racks # <<>>
    BY <1>2, <2>1
  <2>2. CASE Body[q].op = "create"
    BY <1>2, <2>2
  <2>3. CASE Body[q].op \in {"move", "delete"} /\ table[Body[q].target] # None
    BY <1>2, <2>3
  <2>4. CASE /\ ~(Body[q].op = "bulk" /\ Body[q].racks # <<>>)
             /\ Body[q].op # "create"
             /\ ~(Body[q].op \in {"move", "delete"} /\ table[Body[q].target] # None)
    BY <1>2, <2>4
  <2>. QED  BY <2>1, <2>2, <2>3, <2>4
<1>4. news[q] = <<>> /\ \A e : ~Owes(q, e)
  BY <1>1, NothingOwed
<1>5. Moves(q, s, <<>>)
  BY <1>1, <1>2, <1>4 DEF Moves, TypeInv
<1>6. HomeInv'
  BY <1>1, <1>5, OwnEmpty, OwnKept
<1>7. TellInv'
  <2> SUFFICES ASSUME NEW e \in Entities, e \notin unsaid' \union raced'
               PROVE  Tells(e)'
    BY DEF TellInv
  <2>1. Tells(e) /\ table'[e] = table[e]
    BY <1>1 DEF TellInv
  <2>2. \A v \in UnsentOf(s, <<>>) : FALSE
    BY UnsentEmpty
  <2>. QED  BY <1>1, <1>3, <1>4, <1>5, <2>1, <2>2, Quiet
<1>. QED  BY <1>6, <1>7

LEMMA CreateTells ==
  ASSUME TypeInv, HomeInv, TellInv, NEW q \in Requests, Create(q)
  PROVE  HomeInv' /\ TellInv'
<1> DEFINE E == {<<q, k>> : k \in 1 .. Body[q].rows}
           r == Head(Body[q].racks)
           n == [k \in 1 .. Body[q].rows |-> Event(<<q, k>>, r)]
           s == IF Body[q].rows = 0 THEN "done" ELSE "publish"
           row == Row(r, Body[q].start, Body[q].size)
<1>1. /\ stage[q] = "commit"
      /\ table' = [e \in Entities |-> IF e \in E THEN row ELSE table[e]]
      /\ Moves(q, s, n)
      /\ Committed(q, E, [x \in E |-> r])
      /\ UNCHANGED <<buffer, shown, unsaid>>
  BY DEF Create, Goto, Moves, kafka
<1>2. /\ Len(n) = Body[q].rows
      /\ \A k \in 1..Body[q].rows :
           n[k].entity = <<q, k>> /\ n[k].where = r
  <2>1. Body[q].rows \in Nat
    BY Requested
  <2>. QED  BY <2>1 DEF Event
<1>3. UnsentOf(s, n) = {n[k] : k \in 1..Body[q].rows}
  BY <1>2 DEF UnsentOf
<1>4. \A v \in UnsentOf(s, n) : v.entity \in E /\ v.where = r
  BY <1>2, <1>3
<1>5. \A e \in E : \E v \in UnsentOf(s, n) : v.entity = e
  BY <1>2, <1>3
<1>6. s \notin {"place", "insert", "reread"}
  OBVIOUS
<1>7. Own(q, s, n)
  <2>1. \A k : Home(<<q, k>>) = Body[q].service
    BY DEF Home
  <2> HIDE DEF n, s
  <2>. QED  BY <1>2, <1>6, <2>1 DEF Own
<1>8. row.rack = r /\ row # None
  <2>1. row \in Rows /\ row.rack = r
    BY Requested DEF Row, Create, Rows
  <2>. QED  BY <2>1, ConstantsOK
<1> HIDE DEF n, s, row, r
<1>9. HomeInv'
  BY <1>1, <1>7, OwnKept
<1>10. TellInv'
  <2> SUFFICES ASSUME NEW e \in Entities, e \notin unsaid' \union raced'
               PROVE  Tells(e)'
    BY DEF TellInv
  <2>1. CASE e \in E
    <3>1. Where(e)' = r
      BY <1>1, <1>8, <2>1 DEF Where
    <3>. QED  BY <1>1, <1>4, <1>5, <1>6, <2>1, <3>1, Committing
  <2>2. CASE e \notin E
    <3>1. e \notin unsaid \union raced
      BY <1>1 DEF Committed
    <3>2. Tells(e) /\ table'[e] = table[e]
      BY <1>1, <2>2, <3>1 DEF TellInv
    <3>3. ~Owes(q, e)
      BY <1>1, NothingOwed
    <3>. QED  BY <1>1, <1>4, <1>6, <2>2, <3>2, <3>3, Quiet
  <2>. QED  BY <2>1, <2>2
<1>. QED  BY <1>9, <1>10

LEMMA MoveTells ==
  ASSUME TypeInv, HomeInv, TellInv, NEW q \in Requests, Move(q)
  PROVE  HomeInv' /\ TellInv'
<1> DEFINE t == Body[q].target
           r == Head(Body[q].racks)
           row == Row(r, IF Body[q].start = 0 THEN table[t].start
                         ELSE Body[q].start, table[t].size)
<1>1. /\ stage[q] = "commit" /\ Body[q].op = "move"
      /\ stage' = [stage EXCEPT ![q] = "reread"]
      /\ UNCHANGED <<news, buffer, shown, unsaid>>
  BY DEF Move, Goto, kafka
<1>2. t \in Entities /\ r \in Entities \union Places /\ Body[q].start \in Nat
  BY <1>1, Requested
<1>3. news[q] = <<>> /\ \A e : ~Owes(q, e)
  BY <1>1, NothingOwed
<1>4. Moves(q, "reread", <<>>)
  BY <1>1, <1>3 DEF Moves, TypeInv
<1>5. HomeInv'
  BY <1>1, <1>4, OwnEmpty, OwnKept
<1>6. \A v \in UnsentOf("reread", <<>>) : FALSE
  BY UnsentEmpty
<1>7. CASE table[t] = None
  <2>1. UNCHANGED <<table, raced>>
    BY <1>7 DEF Move
  <2>2. ASSUME NEW e \in Entities, e \notin unsaid' \union raced'
        PROVE  Tells(e)'
    <3>1. Tells(e) /\ table'[e] = table[e]
      BY <1>1, <2>1, <2>2 DEF TellInv
    <3>. QED  BY <1>1, <1>3, <1>4, <1>6, <1>7, <3>1, Quiet
  <2>. QED  BY <1>5, <2>2 DEF TellInv
<1>8. CASE table[t] # None
  <2>1. /\ table' = [table EXCEPT ![t] = row]
        /\ Committed(q, {t}, [x \in {t} |-> r])
    BY <1>8 DEF Move
  <2>2. row \in Rows /\ row.rack = r
    <3>1. table[t] \in Rows
      BY <1>2, <1>8 DEF TypeInv
    <3>. QED  BY <1>2, <3>1 DEF Row, Rows
  <2>3. row # None
    BY <2>2, ConstantsOK
  <2> HIDE DEF row
  <2>4. ASSUME NEW e \in Entities, e \notin unsaid' \union raced'
        PROVE  Tells(e)'
    <3>1. CASE e = t
      <4>1. table'[e] = row
        BY <2>1, <3>1 DEF TypeInv
      <4>2. Where(e)' = r
        BY <2>2, <2>3, <4>1 DEF Where
      <4>. QED  BY <1>4, <1>6, <2>1, <2>3, <2>4, <3>1, <4>1, <4>2, Committing
    <3>2. CASE e # t
      <4>1. e \notin unsaid \union raced
        BY <1>1, <2>1, <2>4 DEF Committed
      <4>2. Tells(e) /\ table'[e] = table[e]
        BY <2>1, <3>2, <4>1 DEF TellInv, TypeInv
      <4>. QED  BY <1>1, <1>3, <1>4, <1>6, <3>2, <4>2, Quiet
    <3>. QED  BY <3>1, <3>2
  <2>. QED  BY <1>5, <2>4 DEF TellInv
<1>. QED  BY <1>7, <1>8

LEMMA EventAlone ==
  ASSUME NEW e \in Entities, NEW w \in Wheres, NEW s, s # "sent"
  PROVE  UnsentOf(s, <<Event(e, w)>>) = {Event(e, w)}
<1>1. Len(<<Event(e, w)>>) = 1 /\ <<Event(e, w)>>[1] = Event(e, w)
  BY EventTyped
<1>2. \A i : i \in 1..1 <=> i = 1
  OBVIOUS
<1>. QED  BY <1>1, <1>2 DEF UnsentOf

LEMMA RereadTells ==
  ASSUME TypeInv, HomeInv, TellInv, NEW q \in Requests, Reread(q)
  PROVE  HomeInv' /\ TellInv'
<1> DEFINE t == Body[q].target
           r == Head(Body[q].racks)
<1>1. /\ stage[q] = "reread"
      /\ UNCHANGED <<table, buffer, shown, unsaid, raced>>
  BY DEF Reread, kafka, ghosts
<1>2. Body[q].op = "move" /\ news[q] = <<>>
  BY <1>1 DEF TypeInv, Holds
<1>3. t \in Entities /\ r \in Wheres /\ Home(t) = Body[q].service
  BY <1>2, Requested, HomeOfTarget DEF Wheres
<1>4. Unsent(q) = {}
  BY <1>2, UnsentEmpty DEF Unsent
<1>5. ASSUME NEW e \in Entities, e \notin unsaid' \union raced'
      PROVE  Tells(e) /\ table'[e] = table[e]
  BY <1>1, <1>5 DEF TellInv
<1>6. CASE table[t] = None
  <2>1. Moves(q, "done", <<>>)
    BY <1>2, <1>6 DEF Reread, Goto, Moves, TypeInv
  <2>2. HomeInv'
    BY <1>1, <2>1, OwnEmpty, OwnKept
  <2>3. \A v \in UnsentOf("done", <<>>) : FALSE
    BY UnsentEmpty
  <2>4. \A e : ~Owes(q, e)
    BY <1>4, <1>6 DEF Owes, Rereads
  <2>5. ASSUME NEW e \in Entities, e \notin unsaid' \union raced'
        PROVE  Tells(e)'
    BY <1>1, <1>5, <2>1, <2>3, <2>4, <2>5, Quiet
  <2>. QED  BY <2>2, <2>5 DEF TellInv
<1>7. CASE table[t] # None
  <2> DEFINE x == Event(t, r)
             n == <<x>>
  <2>1. Moves(q, "publish", n)
    BY <1>7 DEF Reread, Goto, Moves
  <2>2. Own(q, "publish", n)
    BY <1>3, OwnOne
  <2>3. x.entity = t /\ x.where = r
    BY <1>3, EventTyped
  <2>4. UnsentOf("publish", n) = {x}
    BY <1>3, EventAlone
  <2>5. Rereads(q, t)
    BY <1>1, <1>7 DEF Rereads
  <2>6. \A e : Owes(q, e) => e = t
    BY <1>4 DEF Owes, Rereads
  <2> HIDE DEF x, n
  <2>7. HomeInv'
    BY <1>1, <2>1, <2>2, OwnKept
  <2>8. ASSUME NEW e \in Entities, e \notin unsaid' \union raced'
        PROVE  Tells(e)'
    <3>1. /\ \A v \in UnsentOf("publish", n) : v.entity = e =>
               Rereads(q, e) /\ v.where = r
          /\ Owes(q, e) => \E v \in UnsentOf("publish", n) : v.entity = e
      BY <2>3, <2>4, <2>5, <2>6
    <3>. QED  BY <1>1, <1>5, <2>1, <2>8, <3>1, Quiet
  <2>. QED  BY <2>7, <2>8 DEF TellInv
<1>. QED  BY <1>6, <1>7

LEMMA DeleteTells ==
  ASSUME TypeInv, HomeInv, TellInv, NEW q \in Requests, Delete(q)
  PROVE  HomeInv' /\ TellInv'
<1> DEFINE t == Body[q].target
<1>1. /\ stage[q] = "commit" /\ Body[q].op = "delete"
      /\ UNCHANGED <<buffer, shown, unsaid>>
  BY DEF Delete, kafka
<1>2. /\ t \in Entities /\ Home(t) = Body[q].service /\ news[q] = <<>>
      /\ \A e : ~Owes(q, e)
  BY <1>1, Requested, HomeOfTarget, NothingOwed
<1>3. CASE table[t] = None
  <2>1. Moves(q, "done", <<>>) /\ UNCHANGED <<table, raced>>
    BY <1>2, <1>3 DEF Delete, Goto, Moves, TypeInv
  <2>2. HomeInv'
    BY <1>1, <2>1, OwnEmpty, OwnKept
  <2>3. \A v \in UnsentOf("done", <<>>) : FALSE
    BY UnsentEmpty
  <2>4. ASSUME NEW e \in Entities, e \notin unsaid' \union raced'
        PROVE  Tells(e)'
    <3>1. Tells(e) /\ table'[e] = table[e]
      BY <1>1, <2>1, <2>4 DEF TellInv
    <3>. QED  BY <1>1, <1>2, <2>1, <2>3, <3>1, Quiet
  <2>. QED  BY <2>2, <2>4 DEF TellInv
<1>4. CASE table[t] # None
  <2> DEFINE x == Event(t, None)
             n == <<x>>
  <2>1. /\ Moves(q, "publish", n) /\ table' = [table EXCEPT ![t] = None]
        /\ Committed(q, {t}, [y \in {t} |-> None])
    BY <1>4 DEF Delete, Goto, Moves
  <2>2. None \in Wheres
    BY DEF Wheres
  <2>3. Own(q, "publish", n) /\ x.entity = t /\ x.where = None
    BY <1>2, <2>2, OwnOne, EventTyped
  <2>4. UnsentOf("publish", n) = {x}
    BY <1>2, <2>2, EventAlone
  <2> HIDE DEF x, n
  <2>5. HomeInv'
    BY <1>1, <2>1, <2>3, OwnKept
  <2>6. ASSUME NEW e \in Entities, e \notin unsaid' \union raced'
        PROVE  Tells(e)'
    <3>1. CASE e = t
      <4>1. Where(e)' = None
        BY <1>2, <2>1, <3>1 DEF Where, TypeInv
      <4>. QED  BY <2>1, <2>3, <2>4, <2>6, <3>1, <4>1, Committing
    <3>2. CASE e # t
      <4>1. e \notin unsaid \union raced
        BY <1>1, <2>1, <2>6 DEF Committed
      <4>2. Tells(e) /\ table'[e] = table[e]
        BY <2>1, <3>2, <4>1 DEF TellInv, TypeInv
      <4>. QED  BY <1>1, <1>2, <2>1, <2>3, <2>4, <3>2, <4>2, Quiet
    <3>. QED  BY <3>1, <3>2
  <2>. QED  BY <2>5, <2>6 DEF TellInv
<1>. QED  BY <1>3, <1>4

LEMMA PlaceTells ==
  ASSUME TypeInv, HomeInv, TellInv, NEW q \in Requests, Place(q)
  PROVE  HomeInv' /\ TellInv'
<1>1. /\ stage[q] = "place" /\ stage' = [stage EXCEPT ![q] = "insert"]
      /\ UNCHANGED <<table, news, buffer, shown, unsaid, raced>>
  BY DEF Place, Goto, kafka, ghosts
<1>2. Moves(q, "insert", news[q])
  BY <1>1 DEF Moves, TypeInv
<1>3. Own(q, "insert", news[q])
  BY <1>1 DEF HomeInv, Own
<1>4. UnsentOf("insert", news[q]) = Unsent(q)
  BY <1>1 DEF Unsent, UnsentOf
<1>5. \A e : Owes(q, e) => \E v \in Unsent(q) : v.entity = e
  BY <1>1 DEF Owes, Rereads
<1>6. HomeInv'
  BY <1>1, <1>2, <1>3, OwnKept
<1>7. ASSUME NEW e \in Entities, e \notin unsaid' \union raced'
      PROVE  Tells(e)'
  <2>1. Tells(e) /\ table'[e] = table[e]
    BY <1>1, <1>7 DEF TellInv
  <2>. QED  BY <1>1, <1>2, <1>4, <1>5, <2>1, Quiet
<1>. QED  BY <1>6, <1>7 DEF TellInv

LEMMA InsertTells ==
  ASSUME TypeInv, HomeInv, TellInv, NEW q \in Requests, Insert(q)
  PROVE  HomeInv' /\ TellInv'
<1> DEFINE r == Head(racks[q])
           e == <<q, Len(news[q]) + 1>>
           u == find_next_available_slot(Body[q].size, Height, seen[q])
           row == Row(r, u, Body[q].size)
           n == news'[q]
           s == stage'[q]
           x == Event(e, r)
<1>1. /\ stage[q] = "insert" /\ Moves(q, s, n)
      /\ s \in {"place", "publish", "done"}
      /\ UNCHANGED <<buffer, shown, unsaid>>
  <2>1. /\ stage' = [stage EXCEPT ![q] =
             IF racks'[q] # <<>> THEN "place"
             ELSE IF news'[q] # <<>> THEN "publish" ELSE "done"]
        /\ \/ UNCHANGED news
           \/ news' = [news EXCEPT ![q] = Append(@, x)]
        /\ stage[q] = "insert" /\ UNCHANGED <<buffer, shown, unsaid>>
    <3>1. UNCHANGED unsaid
      BY DEF Insert
    <3>. QED  BY <3>1, InsertEffect, Zenon
  <2>2. stage' = [stage EXCEPT ![q] = s] /\ s \in {"place", "publish", "done"}
    BY <2>1 DEF TypeInv
  <2>3. news' = [news EXCEPT ![q] = n]
    BY <2>1 DEF TypeInv
  <2>. QED  BY <2>1, <2>2, <2>3 DEF Moves
<1>2. /\ e \in Entities /\ r \in Wheres /\ r \in Entities \union Places
      /\ news[q] \in Seq(Events) /\ Len(news[q]) \in Nat
  BY <1>1, NextRow DEF Wheres, TypeInv
<1>3. \A i \in 1..Len(news[q]) :
        news[q][i].entity = <<q, i>> /\ Home(news[q][i].entity) = Body[q].service
  BY <1>1 DEF HomeInv, Own
<1>4. \A a : Owes(q, a) => \E v \in Unsent(q) : v.entity = a
  BY <1>1 DEF Owes, Rereads
<1>5. CASE u = -1
  <2>1. UNCHANGED <<table, raced>> /\ n = news[q]
    BY <1>5, InsertEffect DEF Insert
  <2>2. Own(q, s, n)
    BY <1>3, <2>1 DEF Own
  <2>3. UnsentOf(s, n) = Unsent(q)
    BY <1>1, <2>1 DEF Unsent, UnsentOf
  <2>4. ASSUME NEW a \in Entities, a \notin unsaid' \union raced'
        PROVE  Tells(a)'
    <3>1. Tells(a) /\ table'[a] = table[a]
      BY <1>1, <2>1, <2>4 DEF TellInv
    <3>. QED  BY <1>1, <1>4, <2>3, <3>1, Quiet
  <2>. QED  BY <1>1, <2>2, <2>4, OwnKept DEF TellInv
<1>6. CASE u # -1
  <2>1. /\ table' = [table EXCEPT ![e] = row]
        /\ Committed(q, {e}, [y \in {e} |-> r])
        /\ n = Append(news[q], x)
    BY <1>6 DEF Insert, TypeInv
  <2>2. x \in Events /\ x.entity = e /\ x.where = r
    BY <1>2, EventTyped
  <2>3. row \in Rows /\ row.rack = r /\ row # None
    <3>1. u \in Nat
      BY <1>6, SlotIsLowest, Requested DEF Height
    <3>2. row \in Rows /\ row.rack = r
      BY <1>2, <3>1, Requested DEF Row, Rows
    <3>. QED  BY <3>2, ConstantsOK
  <2>4. UnsentOf(s, n) = Unsent(q) \union {x}
    <3> HIDE DEF x, n, s
    <3>1. UnsentOf(s, Append(news[q], x)) = UnsentOf("insert", news[q]) \union {x}
      BY <1>1, <1>2, <2>2, UnsentAppend
    <3>. QED  BY <1>1, <2>1, <3>1 DEF Unsent
  <2>5. \A v \in Unsent(q) : v.entity # e
    <3>1. Unsent(q) = {news[q][i] : i \in 1..Len(news[q])}
      BY <1>1 DEF Unsent, UnsentOf
    <3>2. \A i \in 1..Len(news[q]) : i # Len(news[q]) + 1
      BY <1>2
    <3>. QED  BY <1>3, <3>1, <3>2
  <2>6. Own(q, s, n)
    <3> DEFINE N == Len(news[q])
    <3>1. Len(n) = N + 1 /\ n[N + 1] = x /\ \A i \in 1..N : n[i] = news[q][i]
      BY <1>2, <2>1, <2>2, AppendProperties
    <3>2. Home(e) = Body[q].service
      BY DEF Home
    <3> HIDE DEF n, x, s
    <3>3. /\ \A i \in 1..N : n[i].entity = <<q, i>>
                             /\ Home(n[i].entity) = Body[q].service
          /\ n[N + 1].entity = <<q, N + 1>>
          /\ Home(n[N + 1].entity) = Body[q].service
      BY <1>3, <2>2, <3>1, <3>2
    <3> HIDE DEF N
    <3>4. \A i \in 1..(N + 1) : i \in 1..N \/ i = N + 1
      BY <1>2 DEF N
    <3>. QED  BY <3>1, <3>3, <3>4 DEF Own
  <2> HIDE DEF row, x, n, s, e
  <2>7. ASSUME NEW a \in Entities, a \notin unsaid' \union raced'
        PROVE  Tells(a)'
    <3>1. CASE a = e
      <4>1. table'[a] = row
        BY <2>1, <3>1 DEF TypeInv
      <4>2. Where(a)' = r
        BY <2>3, <4>1 DEF Where
      <4>3. /\ \A v \in UnsentOf(s, n) : v.entity = a => v.where = r
            /\ \E v \in UnsentOf(s, n) : v.entity = a
        BY <2>2, <2>4, <2>5, <3>1
      <4>. QED  BY <1>1, <2>1, <2>7, <3>1, <4>2, <4>3, Committing
    <3>2. CASE a # e
      <4>1. a \notin unsaid \union raced
        BY <1>1, <2>1, <2>7 DEF Committed
      <4>2. Tells(a) /\ table'[a] = table[a]
        BY <2>1, <3>2, <4>1 DEF TellInv, TypeInv
      <4>3. /\ \A v \in UnsentOf(s, n) : v.entity = a => v \in Unsent(q)
            /\ Owes(q, a) => \E v \in UnsentOf(s, n) : v.entity = a
        BY <1>4, <2>2, <2>4, <3>2
      <4>. QED  BY <1>1, <4>2, <4>3, Quiet
    <3>. QED  BY <3>1, <3>2
  <2>. QED  BY <1>1, <2>6, <2>7, OwnKept DEF TellInv
<1>. QED  BY <1>5, <1>6

------------------------------------------------------------------------------
(* Every step keeps TellInv: publishing.                                   *)

\* publish_topology_event returns: what was still to be sent is so.
LEMMA GoingOn ==
  ASSUME TypeInv, HomeInv, NEW q \in Requests, stage[q] \in {"publish", "sent"},
         GoOn(q)
  PROVE  /\ Moves(q, Following(q), Tail(news[q]))
         /\ Following(q) \notin {"place", "insert", "reread", "sent"}
         /\ Own(q, Following(q), Tail(news[q]))
         /\ UnsentOf(Following(q), Tail(news[q])) \subseteq Unsent(q)
         /\ \A v \in Unsent(q) :
              \/ stage[q] = "publish" /\ v = Head(news[q])
              \/ v \in UnsentOf(Following(q), Tail(news[q]))
         /\ \A e : Owes(q, e) => \E v \in Unsent(q) : v.entity = e
<1>1. Moves(q, Following(q), Tail(news[q]))
  BY DEF GoOn, Goto, Moves, Following, TypeInv
<1>2. Following(q) \notin {"place", "insert", "reread", "sent"}
  BY DEF Following
<1>3. news[q] \in Seq(Events) /\ news[q] # <<>>
  BY DEF TypeInv, Holds
<1>4. Own(q, Following(q), Tail(news[q]))
  BY <1>2, <1>3, OwnTail DEF HomeInv
<1>5. /\ UnsentOf("publish", news[q])
           = {Head(news[q])} \union UnsentOf("sent", news[q])
      /\ UnsentOf(Following(q), Tail(news[q])) = UnsentOf("sent", news[q])
  BY <1>2, <1>3, UnsentHead
<1>6. \A e : Owes(q, e) => \E v \in Unsent(q) : v.entity = e
  BY DEF Owes, Rereads
<1>. QED  BY <1>1, <1>2, <1>4, <1>5, <1>6 DEF Unsent

\* A request gives its event up, or stops waiting for it.
LEMMA GivesUp ==
  ASSUME TypeInv, HomeInv, TellInv, NEW q \in Requests,
         stage[q] \in {"publish", "sent"}, GoOn(q),
         UNCHANGED <<table, buffer, shown, raced>>, unsaid \subseteq unsaid',
         stage[q] = "publish" => Head(news[q]).entity \in unsaid'
  PROVE  HomeInv' /\ TellInv'
<1>1. HomeInv'
  BY GoingOn, OwnKept
<1>2. ASSUME NEW e \in Entities, e \notin unsaid' \union raced'
      PROVE  Tells(e)'
  <2> DEFINE s == Following(q)
             n == Tail(news[q])
  <2>1. Tells(e) /\ table'[e] = table[e]
    BY <1>2 DEF TellInv
  <2>2. /\ Moves(q, s, n) /\ s # "reread"
        /\ UnsentOf(s, n) \subseteq Unsent(q)
        /\ Owes(q, e) => \E v \in UnsentOf(s, n) : v.entity = e
    <3>1. /\ Moves(q, s, n) /\ s # "reread" /\ UnsentOf(s, n) \subseteq Unsent(q)
      BY GoingOn
    <3>2. ASSUME Owes(q, e) PROVE \E v \in UnsentOf(s, n) : v.entity = e
      <4>1. PICK v \in Unsent(q) : v.entity = e
        BY <3>2, GoingOn
      <4>2. \/ stage[q] = "publish" /\ v = Head(news[q])
            \/ v \in UnsentOf(s, n)
        BY GoingOn
      <4>. QED  BY <1>2, <4>1, <4>2
    <3>. QED  BY <3>1, <3>2
  <2> HIDE DEF s, n
  <2>. QED  BY <2>1, <2>2, Quiet
<1>. QED  BY <1>1, <1>2 DEF TellInv

LEMMA WaitTells ==
  ASSUME TypeInv, HomeInv, TellInv, NEW q \in Requests,
         TimesOut(q) \/ SendFails(q)
  PROVE  HomeInv' /\ TellInv'
<1>1. CASE TimesOut(q)
  <2>1. /\ stage[q] = "sent" /\ GoOn(q)
        /\ UNCHANGED <<table, buffer, shown, raced, unsaid>>
    BY <1>1 DEF TimesOut, kafka, ghosts
  <2>. QED  BY <2>1, GivesUp
<1>2. CASE SendFails(q)
  <2>1. /\ stage[q] = "publish" /\ GoOn(q)
        /\ unsaid' = unsaid \union {Head(news[q]).entity}
        /\ UNCHANGED <<table, buffer, shown, raced>>
    BY <1>2 DEF SendFails, kafka
  <2>. QED  BY <2>1, GivesUp
<1>. QED  BY <1>1, <1>2

\* The producer takes the event of q.
LEMMA Taken ==
  ASSUME TypeInv, HomeInv, TellInv, NEW q \in Requests, stage[q] = "publish",
         buffer' = [buffer EXCEPT ![Body[q].service] =
                      Append(@, <<q, Head(news[q])>>)],
         stage' = [stage EXCEPT ![q] = "sent"],
         UNCHANGED <<table, news, shown, raced, unsaid>>
  PROVE  HomeInv' /\ TellInv'
<1> DEFINE z == Body[q].service
           h == Head(news[q])
           x == <<q, h>>
<1>1. /\ news[q] \in Seq(Events) /\ news[q] # <<>> /\ z \in Services
      /\ buffer[z] \in Seq(Requests \X Events)
  BY Requested DEF TypeInv, Holds
<1>2. /\ x \in Requests \X Events /\ x[2] = h /\ h \in Events
      /\ Home(h.entity) = z
  <2>1. h \in Events
    BY <1>1, HeadTailProperties
  <2>2. Home(h.entity) = z
    BY <1>1, OwnTail DEF HomeInv
  <2>. QED  BY <2>1, <2>2
<1>3. Moves(q, "sent", news[q]) /\ Own(q, "sent", news[q])
  BY <1>1 DEF Moves, TypeInv, HomeInv, Own
<1>4. /\ Unsent(q) = {h} \union UnsentOf("sent", news[q])
      /\ Unsent(q)' = UnsentOf("sent", news[q])
      /\ \A p \in Requests : p # q => Unsent(p)' = Unsent(p) /\ stage'[p] = stage[p]
  BY <1>1, <1>3, MovesOne, UnsentHead DEF Unsent, UnsentOf
<1>5. stage'[q] = "sent"
  BY <1>3, MovesOne
<1>6. /\ buffer'[z] = Append(buffer[z], x)
      /\ \A s \in Services : s # z => buffer'[s] = buffer[s]
  BY <1>1 DEF TypeInv
<1> HIDE DEF z, h, x
<1>7. HomeInv'
  <2>1. \A s \in Services : Local(s, buffer'[s])
    <3>1. Local(z, buffer[z]) /\ \A s \in Services : Local(s, buffer[s])
      BY <1>1 DEF HomeInv
    <3>2. Local(z, Append(buffer[z], x))
      BY <1>1, <1>2, <3>1, ReadsAppend
    <3>. QED  BY <1>6, <3>1, <3>2
  <2>2. \A p \in Requests : Own(p, stage'[p], news'[p])
    BY <1>3, MovesOne DEF HomeInv
  <2>3. /\ \A p \in Requests : Own(p, stage[p], news[p])'
        /\ \A s \in Services : Local(s, buffer[s])'
    BY <2>1, <2>2 DEF Own, Local
  <2>. QED  BY <2>3 DEF HomeInv
<1>8. ASSUME NEW e \in Entities, e \notin unsaid' \union raced'
      PROVE  Tells(e)'
  <2>1. Tells(e) /\ table'[e] = table[e] /\ shown'[e] = shown[e]
    BY <1>8 DEF TellInv
  <2>2. \A p \in Requests : Rereads(p, e)' <=> Rereads(p, e)
    BY <1>4, <1>5 DEF Rereads
  <2>3. \A p \in Requests : \A v \in Unsent(p)' : v \in Unsent(p)
    BY <1>4
  <2>4. CASE h.entity = e
    <3>1. h.where = Where(e)
      BY <1>4, <2>1, <2>4 DEF Tells
    <3>2. Reads(e, buffer'[Home(e)], shown'[e], Where(e))
      <4>1. Reads(e, Append(buffer[z], x), shown[e], h.where)
        BY <1>1, <1>2, <2>4, ReadsAppend
      <4>. QED  BY <1>2, <1>6, <2>1, <2>4, <3>1, <4>1
    <3>. QED  BY <2>1, <2>2, <2>3, <3>2, Shifts
  <2>5. CASE h.entity # e
    <3>1. \A p \in Requests : Owes(p, e) => Owes(p, e)'
      BY <1>4, <2>2, <2>5 DEF Owes
    <3>2. ASSUME Reads(e, buffer[Home(e)], shown[e], Where(e))
          PROVE  Reads(e, buffer'[Home(e)], shown'[e], Where(e))
      <4>1. CASE Home(e) = z
        <5>1. Reads(e, Append(buffer[z], x), shown[e], Where(e))
          BY <1>1, <1>2, <2>5, <3>2, <4>1, ReadsAppend
        <5>. QED  BY <1>6, <2>1, <4>1, <5>1
      <4>2. CASE Home(e) # z
        <5>1. Home(e) \in Services
          BY EntityParts, Requested DEF Home
        <5>. QED  BY <1>6, <2>1, <3>2, <4>2, <5>1
      <4>. QED  BY <4>1, <4>2
    <3>3. (\A p \in Requests : ~Owes(p, e)') =>
            Reads(e, buffer'[Home(e)], shown'[e], Where(e))
      BY <2>1, <3>1, <3>2 DEF Tells
    <3>. QED  BY <2>1, <2>2, <2>3, <3>3, Shifts
  <2>. QED  BY <2>4, <2>5
<1>. QED  BY <1>7, <1>8 DEF TellInv

LEMMA SendTells ==
  ASSUME TypeInv, HomeInv, TellInv, NEW q \in Requests, Send(q)
  PROVE  HomeInv' /\ TellInv'
<1>1. /\ stage[q] = "publish" /\ UNCHANGED <<table, shown, raced>>
      /\ \/ /\ buffer' = [buffer EXCEPT ![Body[q].service] =
                            Append(@, <<q, Head(news[q])>>)]
            /\ stage' = [stage EXCEPT ![q] = "sent"]
            /\ UNCHANGED <<news, unsaid>>
         \/ /\ unsaid' = unsaid \union {Head(news[q]).entity}
            /\ GoOn(q) /\ UNCHANGED buffer
  BY DEF Send, Goto
<1>2. CASE /\ buffer' = [buffer EXCEPT ![Body[q].service] =
                           Append(@, <<q, Head(news[q])>>)]
           /\ stage' = [stage EXCEPT ![q] = "sent"]
           /\ UNCHANGED <<news, unsaid>>
  BY <1>1, <1>2, Taken
<1>3. CASE /\ unsaid' = unsaid \union {Head(news[q]).entity}
           /\ GoOn(q) /\ UNCHANGED buffer
  BY <1>1, <1>3, GivesUp
<1>. QED  BY <1>1, <1>2, <1>3

\* A buffer loses its first event: what requests owe stays the same.
LEMMA Leaving ==
  ASSUME TypeInv, HomeInv, NEW v \in Services, buffer[v] # <<>>,
         LeaveBuffer(v), UNCHANGED table
  PROVE  /\ HomeInv'
         /\ buffer'[v] = Tail(buffer[v])
         /\ \A s \in Services : s # v => buffer'[s] = buffer[s]
         /\ \A p \in Requests : Unsent(p)' = Unsent(p)
         /\ \A p \in Requests, e \in Entities : Rereads(p, e)' <=> Rereads(p, e)
<1>1. /\ buffer'[v] = Tail(buffer[v])
      /\ \A s \in Services : s # v => buffer'[s] = buffer[s]
      /\ buffer[v] \in Seq(Requests \X Events)
  BY DEF LeaveBuffer, TypeInv
<1>2. \A s \in Services : Local(s, buffer'[s])
  BY <1>1, LocalTail DEF HomeInv
<1>3. /\ \A p \in Requests : Own(p, stage'[p], news'[p])
      /\ \A p \in Requests : Unsent(p)' = Unsent(p)
      /\ \A p \in Requests : stage'[p] = "reread" <=> stage[p] = "reread"
  <2>1. CASE UNCHANGED <<stage, news>>
    BY <2>1 DEF HomeInv, Unsent, UnsentOf
  <2>2. CASE \E q \in Requests : Waiting(v, q) /\ GoOn(q)
    <3>1. PICK q \in Requests : Waiting(v, q) /\ GoOn(q)
      BY <2>2
    <3> DEFINE s == Following(q)
               n == Tail(news[q])
    <3>2. stage[q] = "sent"
      BY <3>1 DEF Waiting
    <3>3. /\ Moves(q, s, n) /\ s # "reread" /\ Own(q, s, n)
          /\ UnsentOf(s, n) = Unsent(q)
      BY <3>1, <3>2, GoingOn
    <3> HIDE DEF s, n
    <3>4. /\ stage'[q] = s /\ news'[q] = n
          /\ \A p \in Requests : p # q => stage'[p] = stage[p] /\ news'[p] = news[p]
      BY <3>3, MovesOne
    <3>5. \A p \in Requests : Unsent(p)' = UnsentOf(stage'[p], news'[p])
      BY DEF Unsent, UnsentOf
    <3>. QED  BY <3>2, <3>3, <3>4, <3>5 DEF HomeInv, Unsent
  <2>. QED  BY <2>1, <2>2 DEF LeaveBuffer
<1>4. HomeInv'
  <2>1. /\ \A p \in Requests : Own(p, stage[p], news[p])'
        /\ \A s \in Services : Local(s, buffer[s])'
    BY <1>2, <1>3 DEF Own, Local
  <2>. QED  BY <2>1 DEF HomeInv
<1>. QED  BY <1>1, <1>3, <1>4 DEF Rereads

LEMMA DeliveryTells ==
  ASSUME TypeInv, HomeInv, TellInv, NEW v \in Services,
         Deliver(v) \/ DeliveryFails(v)
  PROVE  HomeInv' /\ TellInv'
<1> DEFINE b == buffer[v]
           x == b[1][2]
<1>1. /\ b # <<>> /\ LeaveBuffer(v) /\ UNCHANGED <<table, raced>>
      /\ unsaid \subseteq unsaid'
      /\ \/ shown' = [shown EXCEPT ![x.entity] = x.where]
         \/ UNCHANGED shown /\ x.entity \in unsaid'
  BY DEF Deliver, DeliveryFails, ghosts
<1>2. b \in Seq(Requests \X Events) /\ Local(v, b)
  BY DEF TypeInv, HomeInv
<1>3. Home(x.entity) = v
  BY <1>1, <1>2, LocalTail
<1>4. /\ HomeInv' /\ buffer'[v] = Tail(b)
      /\ \A s \in Services : s # v => buffer'[s] = buffer[s]
      /\ \A p \in Requests : Unsent(p)' = Unsent(p)
      /\ \A p \in Requests, e \in Entities : Rereads(p, e)' <=> Rereads(p, e)
  BY <1>1, Leaving
<1>5. ASSUME NEW e \in Entities, e \notin unsaid' \union raced'
      PROVE  Tells(e)'
  <2>1. Tells(e) /\ table'[e] = table[e]
    BY <1>1, <1>5 DEF TellInv
  <2>2. \A p \in Requests : Owes(p, e)' <=> Owes(p, e)
    BY <1>4 DEF Owes
  <2>3. /\ x.entity = e => shown'[e] = x.where
        /\ x.entity # e => shown'[e] = shown[e]
    BY <1>1, <1>5 DEF TypeInv
  <2>4. ASSUME Reads(e, buffer[Home(e)], shown[e], Where(e))
        PROVE  Reads(e, buffer'[Home(e)], shown'[e], Where(e))
    <3>1. CASE Home(e) = v
      <4>1. Reads(e, b, shown[e], Where(e))
        BY <2>4, <3>1
      <4>2. /\ x.entity = e => Reads(e, Tail(b), x.where, Where(e))
            /\ x.entity # e => Reads(e, Tail(b), shown[e], Where(e))
        BY <1>1, <1>2, <4>1, ReadsTail
      <4>. QED  BY <1>4, <2>3, <3>1, <4>2
    <3>2. CASE Home(e) # v
      <4>1. Home(e) \in Services /\ x.entity # e
        BY <1>3, <3>2, EntityParts, Requested DEF Home
      <4>. QED  BY <1>4, <2>3, <2>4, <3>2, <4>1
    <3>. QED  BY <3>1, <3>2
  <2>5. (\A p \in Requests : ~Owes(p, e)') =>
          Reads(e, buffer'[Home(e)], shown'[e], Where(e))
    BY <2>1, <2>2, <2>4 DEF Tells
  <2>. QED  BY <1>4, <2>1, <2>5, Shifts
<1>. QED  BY <1>4, <1>5 DEF TellInv

------------------------------------------------------------------------------
(* Every step keeps TellInv: failures.                                     *)

LEMMA EndHome ==
  ASSUME HomeInv, NEW Q, EndAll(Q),
         \A s \in Services : buffer'[s] \in {buffer[s], <<>>}
  PROVE  HomeInv'
<1>1. \A p \in Requests : \/ stage'[p] = stage[p] /\ news'[p] = news[p]
                          \/ news'[p] = <<>>
  BY DEF EndAll
<1>2. \A p \in Requests : Own(p, stage'[p], news'[p])
  BY <1>1, OwnEmpty DEF HomeInv
<1>3. \A s : Local(s, <<>>)
  BY EmptySeq DEF Local
<1>4. \A s \in Services : Local(s, buffer'[s])
  BY <1>3 DEF HomeInv
<1>5. /\ \A p \in Requests : Own(p, stage[p], news[p])'
      /\ \A s \in Services : Local(s, buffer[s])'
  BY <1>2, <1>4 DEF Own, Local
<1>. QED  BY <1>5 DEF HomeInv

LEMMA CallFailsTells ==
  ASSUME TypeInv, HomeInv, TellInv, NEW q \in Requests, CallFails(q)
  PROVE  HomeInv' /\ TellInv'
<1>1. /\ EndAll({q}) /\ unsaid' = unsaid \union Unannounced(q)
      /\ UNCHANGED <<table, buffer, shown, raced>>
  BY DEF CallFails, kafka
<1>2. HomeInv'
  BY <1>1, EndHome
<1>3. ASSUME NEW e \in Entities, e \notin unsaid' \union raced'
      PROVE  Tells(e)'
  <2>1. Tells(e)
    BY <1>1, <1>3 DEF TellInv
  <2>2. ~Owes(q, e)
    BY <1>1, <1>3, UnsentAbout
  <2>. QED  BY <1>1, <2>1, <2>2, Ending
<1>. QED  BY <1>2, <1>3 DEF TellInv

LEMMA CrashTells ==
  ASSUME TypeInv, HomeInv, TellInv, NEW v \in Services, Crash(v)
  PROVE  HomeInv' /\ TellInv'
<1> DEFINE Q == {q \in Requests : Body[q].service = v
                                  /\ stage[q] \notin {"new", "done"}}
           b == buffer[v]
<1>1. /\ EndAll(Q) /\ UNCHANGED <<table, shown, raced>>
      /\ unsaid' = unsaid \union {b[i][2].entity : i \in DOMAIN b}
                     \union UNION {Unannounced(q) : q \in Q}
      /\ buffer' = [buffer EXCEPT ![v] = <<>>]
  BY DEF Crash
<1>2. buffer'[v] = <<>> /\ \A s \in Services : s # v => buffer'[s] = buffer[s]
  BY <1>1 DEF TypeInv
<1>3. HomeInv'
  BY <1>1, <1>2, EndHome
<1>4. ASSUME NEW e \in Entities, e \notin unsaid' \union raced'
      PROVE  Tells(e)'
  <2>1. Tells(e)
    BY <1>1, <1>4 DEF TellInv
  <2>2. \A p \in Requests : p \in Q => ~Owes(p, e)
    <3>1. \A p \in Q : e \notin Unannounced(p)
      BY <1>1, <1>4
    <3>. QED  BY <3>1, UnsentAbout
  <2>3. ASSUME Reads(e, buffer[Home(e)], shown[e], Where(e))
        PROVE  Reads(e, buffer'[Home(e)], shown'[e], Where(e))
    <3>1. CASE Home(e) = v
      <4>1. b \in Seq(Requests \X Events)
        BY DEF TypeInv
      <4>2. \A i \in DOMAIN b : b[i][2].entity # e
        BY <1>1, <1>4
      <4> HIDE DEF b
      <4>3. \A i \in 1..Len(b) : b[i][2].entity # e
        BY <4>1, <4>2
      <4>4. Reads(e, b, shown[e], Where(e))
        BY <2>3, <3>1 DEF b
      <4>5. Reads(e, <<>>, shown[e], Where(e))
        BY <4>3, <4>4, ReadsNothing
      <4>. QED  BY <1>1, <1>2, <3>1, <4>5
    <3>2. CASE Home(e) # v
      <4>1. Home(e) \in Services
        BY EntityParts, Requested DEF Home
      <4>. QED  BY <1>1, <1>2, <2>3, <3>2, <4>1
    <3>. QED  BY <3>1, <3>2
  <2>. QED  BY <1>1, <2>1, <2>2, <2>3, Ending
<1>. QED  BY <1>3, <1>4 DEF TellInv

LEMMA InitTells == Init => HomeInv /\ TellInv
<1> SUFFICES ASSUME Init PROVE HomeInv /\ TellInv
  OBVIOUS
<1>1. \A s : Local(s, <<>>)
  BY EmptySeq DEF Local
<1>2. HomeInv
  BY <1>1, OwnEmpty DEF Init, HomeInv
<1>3. \A q \in Requests : Unsent(q) = {} /\ stage[q] = "new"
  BY UnsentEmpty DEF Init, Unsent
<1>4. ASSUME NEW e \in Entities PROVE Tells(e)
  <2>1. Where(e) = None /\ shown[e] = None
    BY DEF Init, Where
  <2>2. buffer[Home(e)] = <<>>
    BY EntityParts, Requested DEF Init, Home
  <2>3. Reads(e, buffer[Home(e)], shown[e], Where(e))
    BY <2>1, <2>2, EmptySeq DEF Reads
  <2>. QED  BY <1>3, <2>3 DEF Tells, Rereads
<1>. QED  BY <1>2, <1>4 DEF TellInv

LEMMA AlwaysTells == Spec => [](HomeInv /\ TellInv)
<1>1. TypeInv /\ HomeInv /\ TellInv /\ [Next]_vars => (HomeInv /\ TellInv)'
  <2> SUFFICES ASSUME TypeInv, HomeInv, TellInv, [Next]_vars
               PROVE  HomeInv' /\ TellInv'
    OBVIOUS
  <2>1. CASE \E q \in Requests :
               Arrive(q) \/ Proceed(q) \/ SendFails(q) \/ CallFails(q)
    <3> SUFFICES ASSUME NEW q \in Requests,
                   Arrive(q) \/ Proceed(q) \/ SendFails(q) \/ CallFails(q)
                 PROVE  HomeInv' /\ TellInv'
      BY <2>1
    <3>1. CASE Arrive(q) \/ Place(q) \/ Insert(q)
      BY <3>1, ArriveTells, PlaceTells, InsertTells
    <3>2. CASE Create(q) \/ Move(q) \/ Reread(q) \/ Delete(q)
      BY <3>2, CreateTells, MoveTells, RereadTells, DeleteTells
    <3>3. CASE Send(q) \/ TimesOut(q) \/ SendFails(q)
      BY <3>3, SendTells, WaitTells
    <3>4. CASE CallFails(q)
      BY <3>4, CallFailsTells
    <3>. QED  BY <3>1, <3>2, <3>3, <3>4 DEF Proceed
  <2>2. CASE \E s \in Services : Deliver(s) \/ DeliveryFails(s) \/ Crash(s)
    BY <2>2, DeliveryTells, CrashTells
  <2>3. CASE UNCHANGED vars
    <3>1. /\ EndAll({}) /\ UNCHANGED <<table, buffer, shown, unsaid, raced>>
      BY <2>3 DEF vars, requests, kafka, ghosts, EndAll, TypeInv
    <3>2. HomeInv'
      BY <3>1, EndHome
    <3>3. ASSUME NEW e \in Entities, e \notin unsaid' \union raced'
          PROVE  Tells(e)'
      BY <3>1, <3>3, Ending DEF TellInv
    <3>. QED  BY <3>2, <3>3 DEF TellInv
  <2>. QED  BY <2>1, <2>2, <2>3 DEF Next
<1>. QED  BY <1>1, InitTells, Always, PTL DEF Spec

\* TopicTells always holds: through every interleaving, abandoned wait, lost
\* event and restart, a topic at rest has each entity where PostgreSQL has it,
\* except those with a change given up or overtaken before it was announced.
THEOREM TopicTellsAll == Spec => []TopicTells
<1>1. TypeInv /\ TellInv => TopicTells
  <2> SUFFICES ASSUME TypeInv, TellInv, AtRest,
                      NEW e \in Entities, e \notin unsaid \union raced
               PROVE  shown[e] = Where(e)
    BY DEF TopicTells
  <2>1. Tells(e)
    BY DEF TellInv
  <2>2. \A q \in Requests : ~Owes(q, e)
    BY NothingOwed DEF AtRest
  <2>3. Reads(e, buffer[Home(e)], shown[e], Where(e))
    BY <2>1, <2>2 DEF Tells
  <2>4. buffer[Home(e)] = <<>>
    BY EntityParts, Requested DEF AtRest, Home
  <2>5. \A i \in 1..Len(<<>>) : FALSE
    BY EmptySeq
  <2>. QED  BY <2>3, <2>4, <2>5 DEF Reads
<1>. QED  BY <1>1, Always, AlwaysTells, PTL
==============================================================================
