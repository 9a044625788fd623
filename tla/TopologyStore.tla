---------------------------- MODULE TopologyStore ----------------------------
(***************************************************************************)
(* services/infra-topology: the graph of one workspace, kept in memory and *)
(* in MongoDB.                                                             *)
(*                                                                         *)
(* A consumer task applies the events of infra.topology.events, requests   *)
(* add edges by hand, both under one lock, and each works through a list   *)
(* of changes: first in memory, then, after an await, in MongoDB.  Queries *)
(* take no lock; the first one to meet a workspace that is not in memory   *)
(* loads it.  MongoDB and the group's offset outlive a crash.              *)
(***************************************************************************)
EXTENDS Integers, Sequences, FiniteSets, SequencesExt

CONSTANTS
  TopologyLog,   \* the workspace's events in infra.topology.events, in order
  ManualEdges,   \* bodies of POST /api/v1/topology/edges
  Racks, Devices,
  Sites,         \* halls and facilities
  MaxFaults,     \* bound: failing calls and crashes
  MaxCalls,      \* bound: edges added by hand
  None

\* What _apply_rack_cable_template adds to a rack, and the workspace's spine.
TOR(r) == <<"TOR", r>>
PDU(r) == <<"PDU", r>>
COOLING(r) == <<"COOLING", r>>
SPINE == <<"SPINE", None>>

Ids == Racks \union Devices \union Sites \union {SPINE}
         \union ({"TOR", "PDU", "COOLING"} \X Racks)

Types == {"structural", "network", "power", "cooling"}

Edges == [from : Ids, to : Ids, type : Types]

Graphs == [nodes : SUBSET Ids, edges : SUBSET Edges]

Events ==
  [event : {"FACILITY_CREATED", "RACK_CREATED", "RACK_DELETED",
            "DEVICE_CREATED", "DEVICE_MOVED", "DEVICE_DELETED", "OTHER"},
   rack : Racks \union {None}, device : Devices \union {None},
   hall : Sites \union {None}, facility : Sites \union {None}]

ASSUME ConstantsOK ==
  /\ Racks \intersect Devices = {}
  /\ None \notin Racks \union Devices \union Sites
  /\ None \notin Graphs
  /\ TopologyLog \in Seq(Events)
  /\ ManualEdges \subseteq [edge : Edges, typed : BOOLEAN]
  /\ MaxFaults \in Nat /\ MaxCalls \in Nat

VARIABLES
  up,
  \* Kafka.
  position, committed,
  \* The two graphs, [nodes, edges]; graphs has None while the workspace is
  \* not loaded.
  mongo, graph,
  \* Loads of the workspace in progress, by the holder of the lock and by a
  \* query: how far they are and what they have read.
  loading,
  \* The holder of the lock.
  lock,      \* "free", "event" or "edge"
  own,       \* its graph, once that is not the one in graphs any more
  todo,      \* the changes it has still to make
  pending,   \* calls to MongoDB for the change it is making
  \* History, read by the properties only.
  high,      \* how far the log has ever been consumed
  lost,      \* the events given up: failed, or cut by a crash and not replayed
  torn,      \* the changes that were cut short, ever
  split,     \* the calls to MongoDB that failed, in this process
  overtaken, \* a query's load has replaced a graph already in use
  faults, calls

holder  == <<lock, own, todo, pending>>
offsets == <<position, committed, high>>
ghosts  == <<lost, torn, split, overtaken>>
vars == <<up, offsets, mongo, graph, loading, holder, ghosts, faults, calls>>

------------------------------------------------------------------------------
(* Changes.                                                                *)

Empty == [nodes |-> {}, edges |-> {}]

Edge(a, b, t) == [from |-> a, to |-> b, type |-> t]

At(n, x) == n \in {x.from, x.to}

\* Mutant of Change: delete_many forgets the edges that come in.
ChangeDetachesOut(g, c) ==
  CASE c[1] = "node"   -> [g EXCEPT !.nodes = @ \union {c[2]}]
    [] c[1] = "edge"   -> [g EXCEPT !.edges = @ \union {c[2]}]
    [] c[1] = "unlink" -> [g EXCEPT !.edges = @ \ {c[2]}]
    [] c[1] = "drop"   -> [g EXCEPT !.nodes = @ \ {c[2]}]
    [] c[1] = "detach" -> [g EXCEPT !.edges = {x \in @ : x.from # c[2]}]

\* One call to MongoDB, or what it does in memory.  A node that add_edge makes
\* up has no type and is not counted among the nodes.
Change(g, c) ==
  CASE c[1] = "node"   -> [g EXCEPT !.nodes = @ \union {c[2]}]
    [] c[1] = "edge"   -> [g EXCEPT !.edges = @ \union {c[2]}]
    [] c[1] = "unlink" -> [g EXCEPT !.edges = @ \ {c[2]}]
    [] c[1] = "drop"   -> [g EXCEPT !.nodes = @ \ {c[2]}]
    [] c[1] = "detach" -> [g EXCEPT !.edges = {x \in @ : ~At(c[2], x)}]

\* delete_node is two calls, every other change is one.
Calls(c) == IF c[1] = "delete" THEN <<<<"drop", c[2]>>, <<"detach", c[2]>>>>
            ELSE <<c>>

\* The same in memory, where remove_node takes the edges along.
InMemory(g, c) ==
  IF c[1] = "delete" THEN Change(Change(g, <<"drop", c[2]>>), <<"detach", c[2]>>)
  ELSE Change(g, c)

\* _clear_device_structural_rack_edges: the edges of d to what the graph knows
\* to be a rack.
RackEdges(g, d) ==
  {x \in g.edges : x.from = d /\ x.type = "structural"
                   /\ x.to \in Racks \intersect g.nodes}

Node(n) == <<"node", n>>
Tie(a, b, t) == <<"edge", Edge(a, b, t)>>

\* _apply_rack_cable_template.
Cable(d, r) ==
  <<Node(TOR(r)), Node(SPINE), Node(PDU(r)), Node(COOLING(r)),
    Tie(d, TOR(r), "network"), Tie(TOR(r), SPINE, "network"),
    Tie(r, PDU(r), "power"), Tie(r, COOLING(r), "cooling")>>

Placed(d, r) ==
  IF r = None THEN <<>>
  ELSE <<Node(r), Tie(d, r, "structural")>> \o Cable(d, r)

Contained(r, s) ==
  IF s = None THEN <<>> ELSE <<Node(s), Tie(r, s, "structural")>>

\* _apply_event_locked: the changes an event asks for, in order.
Program(e) ==
  CASE e.event = "FACILITY_CREATED" /\ e.facility # None -> <<Node(e.facility)>>
    [] e.event = "RACK_CREATED" /\ e.rack # None ->
         <<Node(e.rack)>> \o Contained(e.rack, e.hall)
                          \o Contained(e.rack, e.facility)
    [] e.event = "RACK_DELETED" /\ e.rack # None -> <<<<"delete", e.rack>>>>
    [] e.event = "DEVICE_CREATED" /\ e.device # None ->
         <<Node(e.device)>> \o Placed(e.device, e.rack)
    [] e.event = "DEVICE_MOVED" /\ e.device # None ->
         <<Node(e.device), <<"clear", e.device>>>> \o Placed(e.device, e.rack)
    [] e.event = "DEVICE_DELETED" /\ e.device # None ->
         <<<<"delete", e.device>>>>
    [] OTHER -> <<>>

\* upsert_manual_edge.
ManualProgram(m) ==
  (IF m.typed THEN <<Node(m.edge.from), Node(m.edge.to)>> ELSE <<>>)
    \o <<<<"edge", m.edge>>>>

------------------------------------------------------------------------------
(* Loading.                                                                *)

Fault == faults < MaxFaults /\ faults' = faults + 1

NoLoad == [stage |-> "none", nodes |-> {}, edges |-> {}]

Loaders == {"holder", "query"}

Loading(w) == loading[w].stage # "none"

\* A query meets a workspace that is not in memory.
StartQuery ==
  /\ up
  /\ graph = None
  /\ ~Loading("query")
  /\ loading' = [loading EXCEPT !["query"].stage = "nodes"]
  /\ UNCHANGED <<up, offsets, mongo, graph, holder, ghosts, faults, calls>>

\* list_nodes ...
ListNodes(w) ==
  /\ loading[w].stage = "nodes"
  /\ loading' = [loading EXCEPT ![w].stage = "edges", ![w].nodes = mongo.nodes]
  /\ UNCHANGED <<up, offsets, mongo, graph, holder, ghosts, faults, calls>>

\* ... list_edges ...
ListEdges(w) ==
  /\ loading[w].stage = "edges"
  /\ loading' = [loading EXCEPT ![w].stage = "assign", ![w].edges = mongo.edges]
  /\ UNCHANGED <<up, offsets, mongo, graph, holder, ghosts, faults, calls>>

\* ... and graphs[workspace_id] = graph, whatever is there by now.  A holder
\* that has fetched its graph goes on with the one it has.
Assign(w) ==
  /\ loading[w].stage = "assign"
  /\ graph' = [nodes |-> loading[w].nodes, edges |-> loading[w].edges]
  /\ loading' = [loading EXCEPT ![w] = NoLoad]
  /\ own' = IF /\ w = "query" /\ graph # None
               /\ lock # "free" /\ ~Loading("holder") /\ own = None
            THEN graph ELSE own
  /\ overtaken' = (overtaken \/ (w = "query" /\ graph # None))
  /\ UNCHANGED <<up, offsets, mongo, lock, todo, pending, lost, torn, split,
                 faults, calls>>

------------------------------------------------------------------------------
(* The holder of the lock.                                                 *)

\* Mutant of Acquire: a workspace that is not in memory is not loaded.
AcquireUnloaded(who, changes) ==
  /\ up
  /\ lock = "free"
  /\ lock' = who
  /\ todo' = changes
  /\ UNCHANGED loading

\* async with self._lock, and _get_graph.
Acquire(who, changes) ==
  /\ up
  /\ lock = "free"
  /\ lock' = who
  /\ todo' = changes
  /\ loading' = IF graph = None
                THEN [loading EXCEPT !["holder"].stage = "nodes"] ELSE loading

\* consume_loop takes the next event.
ConsumeNext ==
  /\ position < Len(TopologyLog)
  /\ Acquire("event", Program(TopologyLog[position + 1]))
  /\ position' = position + 1
  /\ high' = IF position + 1 > high THEN position + 1 ELSE high
  /\ UNCHANGED <<up, committed, mongo, graph, own, pending, ghosts, faults,
                 calls>>

\* POST /api/v1/topology/edges.
AddEdge(m) ==
  /\ calls < MaxCalls
  /\ calls' = calls + 1
  /\ Acquire("edge", ManualProgram(m))
  /\ UNCHANGED <<up, offsets, mongo, graph, own, pending, ghosts, faults>>

Working == lock # "free" /\ ~Loading("holder")

HeldGraph == IF own = None THEN graph ELSE own

\* Mutant of ApplyInMemory: _delete_node leaves the node in memory.
ApplyInMemoryKeeps ==
  /\ Working /\ pending = <<>> /\ todo # <<>>
  /\ IF Head(todo)[1] = "clear"
     THEN /\ \E s \in SetToSeqs(RackEdges(HeldGraph, Head(todo)[2])) :
               todo' = [i \in DOMAIN s |-> <<"unlink", s[i]>>] \o Tail(todo)
          /\ UNCHANGED <<graph, own, pending>>
     ELSE LET g == IF Head(todo)[1] = "delete" THEN HeldGraph
                   ELSE InMemory(HeldGraph, Head(todo))
          IN /\ todo' = Tail(todo)
             /\ pending' = Calls(Head(todo))
             /\ IF own = None THEN graph' = g /\ UNCHANGED own
                ELSE own' = g /\ UNCHANGED graph
  /\ UNCHANGED <<up, offsets, mongo, loading, lock, ghosts, faults, calls>>

\* The next change, in memory; clearing a device's rack edges becomes one
\* removal for each edge there is.
ApplyInMemory ==
  /\ Working /\ pending = <<>> /\ todo # <<>>
  /\ IF Head(todo)[1] = "clear"
     THEN /\ \E s \in SetToSeqs(RackEdges(HeldGraph, Head(todo)[2])) :
               todo' = [i \in DOMAIN s |-> <<"unlink", s[i]>>] \o Tail(todo)
          /\ UNCHANGED <<graph, own, pending>>
     ELSE LET g == InMemory(HeldGraph, Head(todo))
          IN /\ todo' = Tail(todo)
             /\ pending' = Calls(Head(todo))
             /\ IF own = None THEN graph' = g /\ UNCHANGED own
                ELSE own' = g /\ UNCHANGED graph
  /\ UNCHANGED <<up, offsets, mongo, loading, lock, ghosts, faults, calls>>

\* The call to MongoDB returns.
Persist ==
  /\ pending # <<>>
  /\ mongo' = Change(mongo, Head(pending))
  /\ pending' = Tail(pending)
  /\ UNCHANGED <<up, offsets, graph, loading, lock, own, todo, ghosts, faults,
                 calls>>

\* The holder lets go of the lock and of its graph.
LetGo ==
  /\ lock' = "free"
  /\ own' = None
  /\ todo' = <<>>
  /\ pending' = <<>>

\* Mutant of Release: upsert_manual_edge keeps the lock.
ReleaseEventsOnly ==
  /\ Working /\ pending = <<>> /\ todo = <<>>
  /\ lock = "event"
  /\ LetGo
  /\ UNCHANGED <<up, offsets, mongo, graph, loading, ghosts, faults, calls>>

Release ==
  /\ Working /\ pending = <<>> /\ todo = <<>>
  /\ LetGo
  /\ UNCHANGED <<up, offsets, mongo, graph, loading, ghosts, faults, calls>>

------------------------------------------------------------------------------
(* Failures.                                                               *)

Cut == Range(todo) \union Range(pending)

\* A call of the holder raises, its effect done or not: the rest is given up.
\* consume_loop logs the exception and goes on to the next event.
CallFails ==
  /\ pending # <<>> \/ Loading("holder")
  /\ Fault
  /\ mongo' \in {mongo} \union
       {Change(mongo, c) : c \in IF pending = <<>> THEN {} ELSE {Head(pending)}}
  /\ split' = split \union Range(pending)
  /\ torn' = torn \union Cut
  /\ lost' = IF lock = "event" THEN lost \union {position} ELSE lost
  /\ loading' = [loading EXCEPT !["holder"] = NoLoad]
  /\ LetGo
  /\ UNCHANGED <<up, offsets, graph, overtaken, calls>>

QueryFails ==
  /\ Loading("query")
  /\ Fault
  /\ loading' = [loading EXCEPT !["query"] = NoLoad]
  /\ UNCHANGED <<up, offsets, mongo, graph, holder, ghosts, calls>>

\* The process dies or is stopped.  The group's offset has followed the
\* position some way (enable_auto_commit); an event in hand that it covers is
\* not delivered again.
Crash ==
  /\ up
  /\ Fault
  /\ up' = FALSE
  /\ graph' = None
  /\ loading' = [w \in Loaders |-> NoLoad]
  /\ \E o \in committed .. position :
       /\ committed' = o
       /\ lost' = IF lock = "event" /\ o = position
                  THEN lost \union {position} ELSE lost
  /\ torn' = torn \union Cut
  /\ split' = {}
  /\ LetGo
  /\ UNCHANGED <<position, high, mongo, overtaken, calls>>

\* Mutant of Restart: the graph is not loaded from MongoDB.
RestartEmpty ==
  /\ ~up
  /\ up' = TRUE
  /\ position' = committed
  /\ graph' = Empty
  /\ UNCHANGED <<committed, high, mongo, loading, holder, ghosts, faults, calls>>

\* start: every workspace that has nodes is loaded before anything is consumed
\* or served.
Restart ==
  /\ ~up
  /\ up' = TRUE
  /\ position' = committed
  /\ graph' = IF mongo.nodes = {} THEN None ELSE mongo
  /\ UNCHANGED <<committed, high, mongo, loading, holder, ghosts, faults, calls>>

------------------------------------------------------------------------------
Init ==
  /\ up = TRUE
  /\ position = 0
  /\ committed = 0
  /\ mongo = Empty
  /\ graph = None
  /\ loading = [w \in Loaders |-> NoLoad]
  /\ lock = "free"
  /\ own = None
  /\ todo = <<>>
  /\ pending = <<>>
  /\ high = 0
  /\ lost = {}
  /\ torn = {}
  /\ split = {}
  /\ overtaken = FALSE
  /\ faults = 0
  /\ calls = 0

Load(w) == ListNodes(w) \/ ListEdges(w) \/ Assign(w)

\* The consumer task, and whoever holds the lock.
Work ==
  \/ ConsumeNext
  \/ Load("holder")
  \/ ApplyInMemory
  \/ Persist
  \/ Release

Next ==
  \/ Work
  \/ Restart
  \/ StartQuery
  \/ Load("query")
  \/ \E m \in ManualEdges : AddEdge(m)
  \/ CallFails
  \/ QueryFails
  \/ Crash

Spec == Init /\ [][Next]_vars

\* The event loop runs the consumer; docker restarts the container.
FairSpec == Spec /\ WF_vars(Work) /\ WF_vars(Restart)
------------------------------------------------------------------------------
(* Properties.                                                             *)

\* Types, and who holds what.
TypeOK ==
  /\ committed <= position /\ position <= high /\ high <= Len(TopologyLog)
  /\ mongo \in Graphs /\ graph \in Graphs \union {None}
  /\ lock \in {"free", "event", "edge"}
  /\ lock = "free" => own = None /\ todo = <<>> /\ pending = <<>>
                      /\ ~Loading("holder")
  /\ Working => HeldGraph # None
  /\ ~up => lock = "free" /\ graph = None

AtRest == up /\ lock = "free" /\ graph # None

\* What the queries answer from is what MongoDB has, except where a call failed
\* and where a query's load replaced the graph while it was in use.
Agree ==
  AtRest /\ ~overtaken =>
    /\ \A n \in SymDiff(graph.nodes, mongo.nodes) :
         split \intersect {<<"node", n>>, <<"drop", n>>} # {}
    /\ \A x \in SymDiff(graph.edges, mongo.edges) :
         split \intersect {<<"edge", x>>, <<"unlink", x>>,
                           <<"detach", x.from>>, <<"detach", x.to>>} # {}

\* MongoDB never keeps an edge without its ends, which a restart would turn
\* into a node without a type, except in the middle of a deletion, after one
\* that was cut short, and for edges added by hand.
EdgesHaveEnds ==
  \A x \in mongo.edges : \A n \in {x.from, x.to} :
    \/ n \in mongo.nodes
    \/ <<"detach", n>> \in Range(pending) \union torn
    \/ \E m \in ManualEdges : m.edge = x

\* A change made at once, as if nothing came between.
Made(g, c) ==
  IF c[1] = "clear" THEN [g EXCEPT !.edges = @ \ RackEdges(g, c[2])]
  ELSE InMemory(g, c)

\* What a list of changes makes of a graph.
AllMade(g, q) ==
  LET made[i \in 0 .. Len(q)] == IF i = 0 THEN g ELSE Made(made[i - 1], q[i])
  IN made[Len(q)]

\* The graph the first k events describe.
Described[k \in 0 .. Len(TopologyLog)] ==
  IF k = 0 THEN Empty ELSE AllMade(Described[k - 1], Program(TopologyLog[k]))

\* Delivering events again is harmless: however often the process was lost and
\* part of the log replayed, once it has caught up MongoDB has the graph the
\* log describes, if no event was given up, no graph overtaken and no edge
\* added by hand.
ReplayConverges ==
  AtRest /\ position = high /\ lost = {} /\ ~overtaken /\ calls = 0 =>
    mongo = Described[high]

\* Failures being finite, the consumer gets to the end of the log: no failure
\* leaves the lock held.
LogConsumed == <>[](up /\ position = Len(TopologyLog) /\ lock = "free")

\* What the service's documentation says ("maintains per-workspace topology
\* graphs in-memory (NetworkX) plus persistence in MongoDB"): at rest the two
\* are the same graph.
GraphsAgree ==
  AtRest /\ ~Loading("query") => graph = mongo
==============================================================================
