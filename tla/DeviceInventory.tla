--------------------------- MODULE DeviceInventory ---------------------------
(***************************************************************************)
(* services/infra-device and infra-rack: the tables of devices and racks,  *)
(* and what the two services tell infra.topology.events about them.        *)
(*                                                                         *)
(* Each request commits to PostgreSQL and then publishes, one event after  *)
(* the other, through its service's Kafka producer, waiting at most        *)
(* TOPOLOGY_EVENTS_PUBLISH_TIMEOUT_S for each; a failure to publish is     *)
(* only logged.  Requests interleave at every await.  The producer sends   *)
(* what it was given in order, also after the request stopped waiting.     *)
(***************************************************************************)
EXTENDS Integers, Sequences, FiniteSets, SequencesExt

CONSTANTS
  Requests,   \* the requests of a behaviour
  Body,       \* [Requests -> what they ask for]
  Places,     \* halls, and racks that were there before
  MaxFaults,  \* bound: failing calls and crashes
  MaxCalls,   \* bound: requests let in
  None

Services == {"device", "rack"}

\* RACK_HEIGHT as bulk_deploy writes it.
Height == 42

\* What a request creates is named after it: the k-th row of request q.
Entities == UNION {{<<q, k>> : k \in 1 .. Body[q].rows} : q \in Requests}

Bodies ==
  [service : Services, op : {"create", "bulk", "move", "delete"},
   target : Entities \union {None},        \* of a move or a delete
   racks : Seq(Entities \union Places),    \* where to; each rack_id of a bulk
                                          \* deployment `count' times
   start : Nat,                            \* 0: not given
   size : Nat,
   rows : Nat]                             \* rows it may create

Rows == [rack : Entities \union Places, start : Nat, size : Nat]

\* The service whose table an entity is in, and that is asked about it.
Home(e) == Body[e[1]].service

ASSUME ConstantsOK ==
  /\ Body \in [Requests -> Bodies]
  /\ Places \intersect Entities = {}
  /\ None \notin Entities \union Places \union Rows
  /\ MaxFaults \in Nat /\ MaxCalls \in Nat
  /\ \A q \in Requests :
       /\ Body[q].op \in {"create", "move"} => Body[q].racks # <<>>
       /\ Body[q].op \in {"move", "delete"} =>
            /\ Body[q].target # None
            /\ Home(Body[q].target) = Body[q].service
       /\ Body[q].op = "bulk" => Len(Body[q].racks) <= Body[q].rows

VARIABLES
  table,   \* PostgreSQL: entity -> its row, None if there is none
  stage,   \* request -> the await it is at
  racks,   \* request -> the racks a bulk deployment has still to fill
  seen,    \* request -> the occupancy of the rack it is filling
  news,    \* request -> the events it has still to publish
  buffer,  \* service -> what its producer has still to deliver
  on,      \* service -> it has a producer
  shown,   \* entity -> where the last event delivered about it has it
  \* History, read by the properties only.
  facts,   \* <<entity, where>> for every change ever committed
  unsaid,  \* entities with a change whose event was given up
  raced,   \* entities changed while another request had a change to publish
  byHand,  \* devices placed by POST /devices or moved
  blind,   \* devices placed on an occupancy that was no longer current
  faults

requests == <<stage, racks, seen, news>>
kafka    == <<buffer, on, shown>>
ghosts   == <<facts, unsaid, raced, byHand, blind>>
vars == <<table, requests, kafka, ghosts, faults>>

------------------------------------------------------------------------------
(* Slots.                                                                  *)

Units(start, size) == start .. start + size - 1

Occupied(rows) == UNION {Units(d.start, d.size) : d \in rows}

Least(S) == CHOOSE u \in S : \A v \in S : u <= v

\* Mutant of find_next_available_slot: one position too many.
SlotPastTheTop(size, height, rows) ==
  LET free == {u \in 1 .. height - size + 2 :
                 Units(u, size) \intersect Occupied(rows) = {}}
  IN IF free = {} THEN -1 ELSE Least(free)

\* The lowest slot of that size, -1 if there is none.
find_next_available_slot(size, height, rows) ==
  LET free == {u \in 1 .. height - size + 1 :
                 Units(u, size) \intersect Occupied(rows) = {}}
  IN IF free = {} THEN -1 ELSE Least(free)

Row(r, start, size) == [rack |-> r, start |-> start, size |-> size]

\* get_rack_occupancy.
Occupancy(r) == {table[e] : e \in {x \in Entities : table[x] # None
                                                    /\ table[x].rack = r}}

------------------------------------------------------------------------------
(* Requests.                                                               *)

Fault == faults < MaxFaults /\ faults' = faults + 1

Event(e, where) == [entity |-> e, where |-> where]

About(events) == {events[i].entity : i \in DOMAIN events}

\* What q has committed and not yet handed to its producer.
Unannounced(q) ==
  About(news[q]) \union (IF stage[q] = "reread" THEN {Body[q].target} ELSE {})

\* q commits changes to the rows of E, which end up at where[e].
Committed(q, E, where) ==
  /\ facts' = facts \union {<<e, where[e]>> : e \in E}
  /\ raced' = raced \union
       {e \in E : \E p \in Requests \ {q} : e \in Unannounced(p)}

Goto(q, s) == stage' = [stage EXCEPT ![q] = s]

\* The request is let in; a move or delete looks for its row first.
Arrive(q) ==
  /\ stage[q] = "new"
  /\ Cardinality({p \in Requests : stage[p] # "new"}) < MaxCalls
  /\ racks' = [racks EXCEPT ![q] =
                 IF Body[q].op = "bulk" THEN Body[q].racks ELSE <<>>]
  /\ Goto(q, CASE Body[q].op = "bulk" /\ Body[q].racks # <<>> -> "place"
               [] Body[q].op = "create" -> "commit"
               [] Body[q].op \in {"move", "delete"}
                    /\ table[Body[q].target] # None -> "commit"
               [] OTHER -> "done")
  /\ UNCHANGED <<table, seen, news, kafka, ghosts, faults>>

\* POST /devices, /racks and /layouts/grid: the rows of one request are
\* committed together, and announced one by one.  A grid may be empty.
Create(q) ==
  /\ stage[q] = "commit" /\ Body[q].op = "create"
  /\ LET E == {<<q, k>> : k \in 1 .. Body[q].rows}
         r == Head(Body[q].racks)
     IN /\ table' = [e \in Entities |->
                       IF e \in E THEN Row(r, Body[q].start, Body[q].size)
                       ELSE table[e]]
        /\ news' = [news EXCEPT ![q] =
                      [k \in 1 .. Body[q].rows |-> Event(<<q, k>>, r)]]
        /\ Committed(q, E, [e \in E |-> r])
        /\ byHand' = byHand \union E
  /\ Goto(q, IF Body[q].rows = 0 THEN "done" ELSE "publish")
  /\ UNCHANGED <<racks, seen, kafka, unsaid, blind, faults>>

\* PATCH /devices/{id}/move: only what the request names is written.
Move(q) ==
  /\ stage[q] = "commit" /\ Body[q].op = "move"
  /\ LET e == Body[q].target
         r == Head(Body[q].racks)
     IN IF table[e] = None
        THEN UNCHANGED <<table, facts, raced, byHand>>
        ELSE /\ table' = [table EXCEPT ![e] =
                            Row(r, IF Body[q].start = 0 THEN @.start
                                   ELSE Body[q].start, @.size)]
             /\ Committed(q, {e}, [x \in {e} |-> r])
             /\ byHand' = byHand \union {e}
  /\ Goto(q, "reread")
  /\ UNCHANGED <<racks, seen, news, kafka, unsaid, blind, faults>>

\* Mutant of Reread: the event has the rack the device came from.
RereadOld(q) ==
  /\ stage[q] = "reread"
  /\ IF table[Body[q].target] = None
     THEN Goto(q, "done") /\ UNCHANGED news
     ELSE \E f \in facts :
          /\ f[1] = Body[q].target /\ f[2] # None
          /\ news' = [news EXCEPT ![q] = <<Event(Body[q].target, f[2])>>]
          /\ Goto(q, "publish")
  /\ UNCHANGED <<table, racks, seen, kafka, ghosts, faults>>

\* Then the row is read again.  The session knows the object already and keeps
\* the rack this request wrote, whatever another has written since.
Reread(q) ==
  /\ stage[q] = "reread"
  /\ IF table[Body[q].target] = None
     THEN Goto(q, "done") /\ UNCHANGED news
     ELSE /\ news' = [news EXCEPT ![q] =
                        <<Event(Body[q].target, Head(Body[q].racks))>>]
          /\ Goto(q, "publish")
  /\ UNCHANGED <<table, racks, seen, kafka, ghosts, faults>>

\* DELETE /devices/{id} and /racks/{id}.
Delete(q) ==
  /\ stage[q] = "commit" /\ Body[q].op = "delete"
  /\ LET e == Body[q].target
     IN IF table[e] = None
        THEN Goto(q, "done") /\ UNCHANGED <<table, news, facts, raced>>
        ELSE /\ table' = [table EXCEPT ![e] = None]
             /\ news' = [news EXCEPT ![q] = <<Event(e, None)>>]
             /\ Committed(q, {e}, [x \in {e} |-> None])
             /\ Goto(q, "publish")
  /\ UNCHANGED <<racks, seen, kafka, unsaid, byHand, blind, faults>>

\* POST /devices/bulk-deploy reads the occupancy of the next rack...  (Left out:
\* the session keeps the rows it has read, so that where a device is moved
\* between two reads of one request, the second still has its old start_u.)
Place(q) ==
  /\ stage[q] = "place"
  /\ seen' = [seen EXCEPT ![q] = Occupancy(Head(racks[q]))]
  /\ Goto(q, "insert")
  /\ UNCHANGED <<table, racks, news, kafka, ghosts, faults>>

\* ... and puts a device in the slot that was free, or skips the rack.
Insert(q) ==
  /\ stage[q] = "insert"
  /\ LET r == Head(racks[q])
         u == find_next_available_slot(Body[q].size, Height, seen[q])
         e == <<q, Len(news[q]) + 1>>
     IN IF u = -1
        THEN UNCHANGED <<table, news, facts, raced, blind>>
        ELSE /\ table' = [table EXCEPT ![e] = Row(r, u, Body[q].size)]
             /\ news' = [news EXCEPT ![q] = Append(@, Event(e, r))]
             /\ Committed(q, {e}, [x \in {e} |-> r])
             /\ blind' = IF Occupancy(r) = seen[q] THEN blind
                         ELSE blind \union {e}
  /\ racks' = [racks EXCEPT ![q] = Tail(@)]
  /\ seen' = [seen EXCEPT ![q] = {}]
  /\ Goto(q, IF racks'[q] # <<>> THEN "place"
             ELSE IF news'[q] # <<>> THEN "publish" ELSE "done")
  /\ UNCHANGED <<kafka, unsaid, byHand, faults>>

------------------------------------------------------------------------------
(* Publishing.                                                             *)

\* publish_topology_event returns to q.
GoOn(q) ==
  /\ news' = [news EXCEPT ![q] = Tail(@)]
  /\ Goto(q, IF Tail(news[q]) = <<>> THEN "done" ELSE "publish")

\* The producer takes the event; without a producer nothing is published.
Send(q) ==
  /\ stage[q] = "publish"
  /\ LET s == Body[q].service
         e == Head(news[q])
     IN \/ /\ on[s]
           /\ buffer' = [buffer EXCEPT ![s] = Append(@, <<q, e>>)]
           /\ Goto(q, "sent")
           /\ UNCHANGED <<news, unsaid>>
        \/ /\ ~on[s]
           /\ unsaid' = unsaid \union {e.entity}
           /\ GoOn(q)
           /\ UNCHANGED buffer
  /\ UNCHANGED <<table, racks, seen, on, shown, facts, raced, byHand, blind,
                 faults>>

\* The request that waits for the first event of s's buffer, if there is one.
Waiting(s, q) ==
  /\ stage[q] = "sent"
  /\ buffer[s][1][1] = q
  /\ \A i \in 2 .. Len(buffer[s]) : buffer[s][i][1] # q

\* The first event leaves the buffer, and the request waiting for it goes on.
LeaveBuffer(s) ==
  /\ buffer' = [buffer EXCEPT ![s] = Tail(@)]
  /\ \/ \E q \in Requests : Waiting(s, q) /\ GoOn(q)
     \/ /\ \A q \in Requests : ~Waiting(s, q)
        /\ UNCHANGED <<stage, news>>

\* Mutant of Deliver: the acknowledgement does not reach the request.
DeliverUnnoticed(s) ==
  /\ buffer[s] # <<>>
  /\ LET e == buffer[s][1][2] IN shown' = [shown EXCEPT ![e.entity] = e.where]
  /\ buffer' = [buffer EXCEPT ![s] = Tail(@)]
  /\ UNCHANGED <<table, stage, news, racks, seen, on, ghosts, faults>>

\* Kafka has the event.
Deliver(s) ==
  /\ buffer[s] # <<>>
  /\ LET e == buffer[s][1][2] IN shown' = [shown EXCEPT ![e.entity] = e.where]
  /\ LeaveBuffer(s)
  /\ UNCHANGED <<table, racks, seen, on, ghosts, faults>>

\* Mutant of TimesOut: wait_for is given no timeout.
TimesOutNever(q) ==
  /\ stage[q] = "sent"
  /\ ~on[Body[q].service]
  /\ GoOn(q)
  /\ UNCHANGED <<table, racks, seen, kafka, ghosts, faults>>

\* The request stops waiting; the event stays in the buffer.
TimesOut(q) ==
  /\ stage[q] = "sent"
  /\ GoOn(q)
  /\ UNCHANGED <<table, racks, seen, kafka, ghosts, faults>>

\* The producer does not take the event in time, or raises.
SendFails(q) ==
  /\ stage[q] = "publish"
  /\ Fault
  /\ unsaid' = unsaid \union {Head(news[q]).entity}
  /\ GoOn(q)
  /\ UNCHANGED <<table, racks, seen, kafka, facts, raced, byHand, blind>>

\* The producer gives up on an event.
DeliveryFails(s) ==
  /\ buffer[s] # <<>>
  /\ Fault
  /\ unsaid' = unsaid \union {buffer[s][1][2].entity}
  /\ LeaveBuffer(s)
  /\ UNCHANGED <<table, racks, seen, on, shown, facts, raced, byHand, blind>>

------------------------------------------------------------------------------
(* Failures.                                                               *)

\* q ends with an exception; what it had changed and not announced stays so.
EndAll(Q) ==
  /\ stage' = [q \in Requests |-> IF q \in Q THEN "done" ELSE stage[q]]
  /\ racks' = [q \in Requests |-> IF q \in Q THEN <<>> ELSE racks[q]]
  /\ seen' = [q \in Requests |-> IF q \in Q THEN {} ELSE seen[q]]
  /\ news' = [q \in Requests |-> IF q \in Q THEN <<>> ELSE news[q]]

\* Mutant of CallFails: the exception is swallowed and the move announced.
CallFailsUnnoticed(q) ==
  /\ stage[q] \in {"commit", "reread", "place", "insert"}
  /\ Fault
  /\ IF stage[q] = "commit" /\ Body[q].op = "move"
     THEN /\ Goto(q, "publish")
          /\ news' = [news EXCEPT ![q] =
                        <<Event(Body[q].target, Head(Body[q].racks))>>]
          /\ UNCHANGED <<racks, seen, unsaid>>
     ELSE EndAll({q}) /\ unsaid' = unsaid \union Unannounced(q)
  /\ UNCHANGED <<table, kafka, facts, raced, byHand, blind>>

\* A call to PostgreSQL raises and its transaction is rolled back.
CallFails(q) ==
  /\ stage[q] \in {"commit", "reread", "place", "insert"}
  /\ Fault
  /\ EndAll({q})
  /\ unsaid' = unsaid \union Unannounced(q)
  /\ UNCHANGED <<table, kafka, facts, raced, byHand, blind>>

\* The process dies and is restarted, with a producer or, after twenty failed
\* attempts, without.
Crash(s) ==
  /\ Fault
  /\ LET Q == {q \in Requests : Body[q].service = s
                                /\ stage[q] \notin {"new", "done"}}
     IN /\ EndAll(Q)
        /\ unsaid' = unsaid
                       \union {buffer[s][i][2].entity : i \in DOMAIN buffer[s]}
                       \union UNION {Unannounced(q) : q \in Q}
  /\ buffer' = [buffer EXCEPT ![s] = <<>>]
  /\ \E up \in BOOLEAN : on' = [on EXCEPT ![s] = up]
  /\ UNCHANGED <<table, shown, facts, raced, byHand, blind>>

------------------------------------------------------------------------------
Init ==
  /\ table = [e \in Entities |-> None]
  /\ stage = [q \in Requests |-> "new"]
  /\ racks = [q \in Requests |-> <<>>]
  /\ seen = [q \in Requests |-> {}]
  /\ news = [q \in Requests |-> <<>>]
  /\ buffer = [s \in Services |-> <<>>]
  /\ on = [s \in Services |-> TRUE]
  /\ shown = [e \in Entities |-> None]
  /\ facts = {} /\ unsaid = {} /\ raced = {} /\ byHand = {} /\ blind = {}
  /\ faults = 0

\* What a request does by itself once it is let in.
Proceed(q) ==
  \/ Create(q) \/ Move(q) \/ Reread(q) \/ Delete(q)
  \/ Place(q) \/ Insert(q) \/ Send(q) \/ TimesOut(q)

Next ==
  \/ \E q \in Requests : Arrive(q) \/ Proceed(q) \/ SendFails(q) \/ CallFails(q)
  \/ \E s \in Services : Deliver(s) \/ DeliveryFails(s) \/ Crash(s)

Spec == Init /\ [][Next]_vars

\* The event loop runs the requests and their timers.  Kafka is not trusted to
\* answer.
FairSpec == Spec /\ WF_vars(\E q \in Requests : Proceed(q))
------------------------------------------------------------------------------
(* Properties.                                                             *)

Stages == {"new", "place", "insert", "commit", "reread", "publish", "sent",
           "done"}

Events == [entity : Entities, where : Entities \union Places \union {None}]

Buffered(s) == Range(buffer[s])

\* Types, and what a request holds in which stage: one that waits has its event
\* in the buffer.
TypeOK ==
  /\ \A e \in Entities : table[e] # None => table[e] \in Rows
  /\ stage \in [Requests -> Stages]
  /\ news \in [Requests -> Seq(Events)]
  /\ \A q \in Requests :
       /\ stage[q] \in {"publish", "sent"} => news[q] # <<>>
       /\ stage[q] \in {"new", "done"} => news[q] = <<>>
       /\ stage[q] \in {"place", "insert"} => racks[q] # <<>>
       /\ stage[q] = "sent" =>
            <<q, Head(news[q])>> \in Buffered(Body[q].service)
  /\ \A s \in Services : Buffered(s) \subseteq Requests \X Events
  /\ shown \in [Entities -> Entities \union Places \union {None}]

Where(e) == IF table[e] = None THEN None ELSE table[e].rack

AtRest ==
  /\ \A q \in Requests : stage[q] \in {"new", "done"}
  /\ \A s \in Services : buffer[s] = <<>>

\* Once everything is sent, whoever follows the topic has each device and rack
\* where PostgreSQL has it, late events and abandoned waits included, except
\* those with a change given up, and those changed by one request while another
\* had a change of them to publish.
TopicTells ==
  AtRest => \A e \in Entities :
              shown[e] = Where(e) \/ e \in unsaid \union raced

\* No event, sent or on its way, tells of a change PostgreSQL never committed.
EventsAreTrue ==
  /\ \A s \in Services : \A b \in Buffered(s) :
       <<b[2].entity, b[2].where>> \in facts
  /\ \A e \in Entities : shown[e] # None => <<e, shown[e]>> \in facts

Overlap(a, b) ==
  /\ table[a].rack = table[b].rack
  /\ Units(table[a].start, table[a].size)
       \intersect Units(table[b].start, table[b].size) # {}

\* Bulk deployments stay inside the rack and run into nothing they could have
\* seen: when two devices overlap, one was placed by hand or on an occupancy
\* that had changed since it was read.
BulkPlacement ==
  \A a \in Entities \ byHand : table[a] # None =>
    /\ Units(table[a].start, table[a].size) \subseteq 1 .. Height
    /\ \A b \in Entities \ {a} :
         table[b] # None /\ Overlap(a, b) =>
           {a, b} \intersect (byHand \union blind) # {}

\* Requests always get their answer, whether Kafka answers or not.
RequestsEnd ==
  []<>(\A q \in Requests : stage[q] \in {"new", "done"})

\* What the service's documentation says of the SlotEngine (it "prevents
\* hardware overlapping"): no two devices of a rack overlap.
NoOverlap ==
  \A a, b \in Entities :
    a # b /\ table[a] # None /\ table[b] # None => ~Overlap(a, b)
==============================================================================
