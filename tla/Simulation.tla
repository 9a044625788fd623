------------------------------ MODULE Simulation ------------------------------
(***************************************************************************)
(* services/infra-simulation: a loop that turns the inventory into metrics *)
(* every second, and now and then reads the inventory again in the         *)
(* background.  One reading is a row of requests to three services, each   *)
(* of which goes on changing between them; part of what fails is swallowed.*)
(***************************************************************************)
EXTENDS Exposition, FiniteSetsExt

CONSTANTS
  Listed,      \* the facilities the facility service lists
  HallOf,      \* rack -> hall, None if it names none
  HallsFacility, HallCapacity,   \* hall -> facility, MW
  Levels,      \* kW a device may draw at a tick, noise and bad data included
  PageSize,    \* racks GET /racks lists at most
  MaxUpsets    \* bound: changes to the inventory, failing requests and crashes

Halls == DOMAIN HallsFacility

ASSUME SimulationOK ==
  /\ Listed \subseteq Facilities /\ Levels \subseteq Nat /\ PageSize \in Nat
  /\ HallOf \in [Racks -> Halls \union {None}]
  /\ HallsFacility \in [Halls -> Facilities] /\ HallCapacity \in [Halls -> Nat]
  /\ IsFiniteSet(Halls)
  /\ MaxUpsets \in Nat

VARIABLES
  \* The inventory, kept by other services.
  rackOf,      \* device -> the rack it is in, None: no such device
  standing,    \* the racks there are
  \* The simulation.
  graph,       \* the last reading
  reading,     \* the one under way
  ticking,     \* the loop has begun
  metrics,     \* what /metrics shows
  \* History, read by the properties only.
  touched,     \* devices and racks that changed since the reading began
  missed,      \* racks and halls whose request failed in it
  upsets

inventory == <<rackOf, standing>>
simvars == <<rackOf, standing, graph, reading, ticking, metrics, touched,
             missed, upsets>>

------------------------------------------------------------------------------
(* The inventory.                                                          *)

Upset == upsets < MaxUpsets /\ upsets' = upsets + 1

Change(what) ==
  /\ Upset
  /\ touched' = touched \union {what}
  /\ UNCHANGED <<graph, reading, ticking, metrics, missed>>

\* A device is created, moved or deleted.
PlaceDevice(d, r) ==
  /\ rackOf[d] # r /\ r \in standing \union {None}
  /\ rackOf' = [rackOf EXCEPT ![d] = r]
  /\ Change(d) /\ UNCHANGED standing

\* Racks go without a word to the device service.
ToggleRack(r) ==
  /\ standing' = SymDiff(standing, {r})
  /\ Change(r) /\ UNCHANGED rackOf

------------------------------------------------------------------------------
(* Reading it.                                                             *)

Idle == [at |-> "idle", devices |-> None, racks |-> None, halls |-> {},
         left |-> {}]
Core == [Idle EXCEPT !.at = "core"]

\* _maybe_refresh_graph: one reading at a time, in the background.
BeginRefresh ==
  /\ ticking /\ reading.at = "idle"
  /\ reading' = Core
  /\ touched' = {} /\ missed' = {}
  /\ UNCHANGED <<inventory, graph, ticking, metrics, upsets>>

\* The two lists are asked for together, and answered at two instants.
ListDevices ==
  /\ reading.at = "core" /\ reading.devices = None
  /\ reading' = [reading EXCEPT !.devices = rackOf]
  /\ UNCHANGED <<inventory, graph, ticking, metrics, touched, missed, upsets>>

\* The first page, in no order.
ListRacks ==
  /\ reading.at = "core" /\ reading.racks = None
  /\ \E page \in SUBSET standing :
       /\ Cardinality(page) = Min({PageSize, Cardinality(standing)})
       /\ reading' = [reading EXCEPT !.racks = page]
  /\ UNCHANGED <<inventory, graph, ticking, metrics, touched, missed, upsets>>

\* Mutant of AskForRacks: the page is taken for all there is.
AskForRacksNever ==
  /\ reading.at = "core" /\ reading.devices # None /\ reading.racks # None
  /\ reading' = [reading EXCEPT !.at = "racks"]
  /\ UNCHANGED <<inventory, graph, ticking, metrics, touched, missed, upsets>>

\* The racks devices name that were not on the page are asked for one by one.
AskForRacks ==
  /\ reading.at = "core" /\ reading.devices # None /\ reading.racks # None
  /\ reading' = [reading EXCEPT !.at = "racks",
       !.left = Range(reading.devices) \ (reading.racks \union {None})]
  /\ UNCHANGED <<inventory, graph, ticking, metrics, touched, missed, upsets>>

GetRack(r) ==
  /\ reading.at = "racks" /\ r \in reading.left
  /\ reading' = [reading EXCEPT !.left = @ \ {r},
       !.racks = @ \union ({r} \intersect standing)]
  /\ UNCHANGED <<inventory, graph, ticking, metrics, touched, missed, upsets>>

AskForHalls ==
  /\ reading.at = "racks" /\ reading.left = {}
  /\ reading' = [reading EXCEPT !.at = "halls",
       !.left = {HallOf[r] : r \in reading.racks} \ {None}]
  /\ UNCHANGED <<inventory, graph, ticking, metrics, touched, missed, upsets>>

GetHall(h) ==
  /\ reading.at = "halls" /\ h \in reading.left
  /\ reading' = [reading EXCEPT !.left = @ \ {h}, !.halls = @ \union {h}]
  /\ UNCHANGED <<inventory, graph, ticking, metrics, touched, missed, upsets>>

\* A rack or a hall that cannot be had is done without.
GetFails(x) ==
  /\ x \in reading.left
  /\ Upset
  /\ reading' = [reading EXCEPT !.left = @ \ {x}]
  /\ missed' = missed \union {x}
  /\ UNCHANGED <<inventory, graph, ticking, metrics, touched>>

\* Without one of the lists there is no graph, and the last one stays.
RefreshFails ==
  /\ reading.at = "core"
  /\ Upset
  /\ reading' = Idle
  /\ UNCHANGED <<inventory, graph, ticking, metrics, touched, missed>>

------------------------------------------------------------------------------
(* What a reading must have found: what did not change while it went on,   *)
(* and was not missed.                                                     *)

Calm(d) == {d, rackOf[d]} \intersect (touched \union missed) = {}

Present == {d \in Devices : rackOf[d] \in standing}

HallsOf(R) == {HallOf[r] : r \in R} \ {None}

CapacityOf(H) ==
  [f \in Facilities |->
     SumFunctionOnSet(HallCapacity, {h \in H : HallsFacility[h] = f})]

Due ==
  [in |-> {d \in Present : Calm(d)},
   out |-> {d \in Devices \ Present : Calm(d)},
   capacity |-> CapacityOf(
     HallsOf({rackOf[d] : d \in {d \in Present : Calm(d)}}) \ missed)]

Refreshed ==
  /\ reading.at = "halls" /\ reading.left = {}
  /\ LET at == RestrictValues(reading.devices, LAMBDA r : r \in reading.racks)
     IN graph' = [at |-> at, racks |-> reading.racks,
                  capacity |-> CapacityOf(reading.halls), due |-> Due]
  /\ reading' = Idle
  /\ UNCHANGED <<inventory, ticking, metrics, touched, missed, upsets>>

NoGraph == [at |-> <<>>, racks |-> {}, capacity |-> CapacityOf({}),
            due |-> [in |-> {}, out |-> {}, capacity |-> CapacityOf({})]]

------------------------------------------------------------------------------
(* The tick.                                                               *)

Rollup(g, kw) ==
  LET racks == [r \in g.racks |->
                  SumFunctionOnSet(kw, {d \in DOMAIN kw : g.at[d] = r})]
      named == {FacilityOf[r] : r \in g.racks} \ {None}
  IN [at |-> g.at, kw |-> kw, racks |-> racks,
      facilities |-> [f \in Listed \union named |->
        SumFunctionOnSet(racks, {r \in g.racks : FacilityOf[r] = f})]]

\* The first tick waits for the first reading, however it ended.
Tick ==
  /\ ticking \/ reading.at = "idle"
  /\ ticking' = TRUE
  /\ IF graph.racks = {} THEN metrics' = Nothing
     ELSE \E kw \in [DOMAIN graph.at -> Levels] : metrics' = Rollup(graph, kw)
  /\ UNCHANGED <<inventory, graph, reading, touched, missed, upsets>>

\* The process dies and starts over, with nothing to show.
SimulationCrash ==
  /\ Upset
  /\ graph' = NoGraph /\ reading' = Core /\ ticking' = FALSE
  /\ metrics' = Nothing /\ touched' = {} /\ missed' = {}
  /\ UNCHANGED inventory

Read ==
  \/ ListDevices \/ ListRacks \/ AskForRacks \/ AskForHalls \/ Refreshed
  \/ \E r \in Racks : GetRack(r)
  \/ \E h \in Halls : GetHall(h)

SimulationInit ==
  /\ graph = NoGraph /\ reading = Core /\ ticking = FALSE
  /\ metrics = Nothing /\ touched = {} /\ missed = {}
  /\ upsets = 0

SimulationNext ==
  \/ \E d \in Devices, r \in Racks \union {None} : PlaceDevice(d, r)
  \/ \E r \in Racks : ToggleRack(r)
  \/ BeginRefresh \/ Read \/ Tick
  \/ \E x \in Racks \union Halls : GetFails(x)
  \/ RefreshFails \/ SimulationCrash
------------------------------------------------------------------------------
(* Properties.                                                             *)

\* The types of the simulation's state; every device shown is in a rack shown.
SimulationTypeOK ==
  /\ rackOf \in [Devices -> Racks \union {None}] /\ standing \subseteq Racks
  /\ reading.at \in {"idle", "core", "racks", "halls"}
  /\ reading.left \subseteq Racks \union Halls /\ reading.halls \subseteq Halls
  /\ DOMAIN graph.at \subseteq Devices /\ graph.racks \subseteq Racks
  /\ Range(graph.at) \subseteq graph.racks
  /\ Shown(metrics) \subseteq Devices /\ DOMAIN metrics.kw = Shown(metrics)
  /\ Range(metrics.at) \subseteq DOMAIN metrics.racks
  /\ DOMAIN metrics.racks \subseteq Racks /\ ticking \in BOOLEAN
  /\ upsets \in 0..MaxUpsets

\* A graph holds every device that stood in a standing rack throughout the
\* reading it comes from, none that did not, but for what the swallowed
\* failures account for, and at least the halls of those devices' racks; and
\* whatever graph a tick took, its racks and facilities add up to the devices.
GraphIsWhole ==
  /\ graph.due.in \subseteq DOMAIN graph.at
  /\ graph.due.out \intersect DOMAIN graph.at = {}
  /\ \A f \in Facilities : graph.capacity[f] >= graph.due.capacity[f]
  /\ SumFunction(metrics.racks) = SumFunction(metrics.kw)
  /\ LET housed == {r \in DOMAIN metrics.racks : FacilityOf[r] # None}
     IN SumFunction(metrics.facilities) = SumFunctionOnSet(metrics.racks, housed)
==============================================================================
