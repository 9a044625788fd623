--------------------------- MODULE TelemetryProofs ----------------------------
(***************************************************************************)
(* Theorems about Telemetry, for any inventory, any sets of metrics and    *)
(* queries and any bounds: its types, that a graph holds what stood there  *)
(* all the while it was read and that what a tick makes of it adds up,     *)
(* that the adapter counts a rack's power once or twice, and what          *)
(* StreamProofs shows of the stream, with Prometheus in place of any rows. *)
(***************************************************************************)
EXTENDS Telemetry, StreamProofs, SumTheorems, TLAPS

\* What /metrics may show: the racks and the facilities add up.
Exposed(x) ==
  /\ Shown(x) \subseteq Devices /\ DOMAIN x.kw = Shown(x)
  /\ \A d \in Shown(x) : x.at[d] \in DOMAIN x.racks /\ x.kw[d] \in Nat
  /\ DOMAIN x.racks \subseteq Racks /\ DOMAIN x.facilities \subseteq Facilities
  /\ \A r \in DOMAIN x.racks :
       /\ x.racks[r] = SumFunctionOnSet(x.kw, In(x, r))
       /\ FacilityOf[r] # None => FacilityOf[r] \in DOMAIN x.facilities
  /\ \A f \in DOMAIN x.facilities :
       x.facilities[f] =
         SumFunctionOnSet(x.racks, {r \in DOMAIN x.racks : FacilityOf[r] = f})

\* A graph that ticks may use: every device is in one of its racks.
Housed(g) ==
  /\ DOMAIN g.at \subseteq Devices /\ g.racks \subseteq Racks
  /\ \A d \in DOMAIN g.at : g.at[d] \in g.racks

\* The simulation: its types, with what a reading holds at each of its steps.
SimInv ==
  /\ rackOf \in [Devices -> Racks \union {None}] /\ standing \subseteq Racks
  /\ reading = [at |-> reading.at, devices |-> reading.devices,
                racks |-> reading.racks, halls |-> reading.halls,
                left |-> reading.left]
  /\ reading.at \in {"idle", "core", "racks", "halls"}
  /\ reading.left \subseteq Racks \union Halls /\ reading.halls \subseteq Halls
  /\ reading.at = "core" =>
       /\ reading.devices \in [Devices -> Racks \union {None}] \union {None}
       /\ reading.racks \in (SUBSET Racks) \union {None}
  /\ reading.at \in {"racks", "halls"} =>
       /\ reading.devices \in [Devices -> Racks \union {None}]
       /\ reading.racks \subseteq Racks
  /\ Housed(graph) /\ Exposed(metrics)
  /\ ticking \in BOOLEAN /\ upsets \in 0..MaxUpsets

\* The lists a reading has.
HasDevices == \/ reading.at = "core" /\ reading.devices # None
              \/ reading.at \in {"racks", "halls"}
HasRacks == \/ reading.at = "core" /\ reading.racks # None
            \/ reading.at \in {"racks", "halls"}

\* What did not change since the reading began is there as it was listed; the
\* racks of the devices listed, and the halls of the racks, are had, missed or
\* still to be asked for.
ReadInv ==
  /\ HasDevices =>
       \A d \in Devices \ touched : reading.devices[d] = rackOf[d]
  /\ HasRacks => reading.racks \ touched \subseteq standing
  /\ reading.at \in {"racks", "halls"} =>
       \A d \in Devices :
         reading.devices[d] \in standing \ (touched \union missed) =>
           \/ reading.devices[d] \in reading.racks
           \/ reading.at = "racks" /\ reading.devices[d] \in reading.left
  /\ reading.at = "halls" =>
       HallsOf(reading.racks) \ missed \subseteq reading.halls \union reading.left

\* The graph holds what its reading ought to have found.
FoundInv ==
  /\ graph.due.in \subseteq DOMAIN graph.at
  /\ graph.due.out \intersect DOMAIN graph.at = {}
  /\ \A f \in Facilities : graph.capacity[f] >= graph.due.capacity[f]

------------------------------------------------------------------------------
(* What adds up.                                                           *)

LEMMA NothingExposed == Exposed(Nothing)
<1>1. \A x \in {} : FALSE
  OBVIOUS
<1>2. DOMAIN <<>> = {}
  OBVIOUS
<1>. QED  BY <1>1, <1>2 DEF Exposed, Nothing, Shown

LEMMA Finite ==
  /\ \A S : S \subseteq Devices \/ S \subseteq Racks \/ S \subseteq Facilities
              \/ S \subseteq Halls => IsFiniteSet(S)
  /\ None \notin Facilities /\ None \notin Racks /\ Devices \intersect Racks = {}
<1>1. /\ IsFiniteSet(Devices) /\ IsFiniteSet(Racks) /\ IsFiniteSet(Facilities)
      /\ IsFiniteSet(Halls)
  BY ExpositionOK, SimulationOK
<1>. QED  BY <1>1, FS_Subset, ExpositionOK

LEMMA RollupExposed ==
  ASSUME NEW g, Housed(g), NEW kw \in [DOMAIN g.at -> Levels]
  PROVE  Exposed(Rollup(g, kw))
<1> DEFINE x == Rollup(g, kw)
           named == {FacilityOf[r] : r \in g.racks} \ {None}
           racks == [r \in g.racks |->
                       SumFunctionOnSet(kw, {d \in DOMAIN kw : g.at[d] = r})]
           facilities == [f \in Listed \union named |->
                            SumFunctionOnSet(racks, {r \in g.racks : FacilityOf[r] = f})]
<1>1. x.at = g.at /\ x.kw = kw /\ x.racks = racks /\ x.facilities = facilities
  BY DEF Rollup
<1>2. Shown(x) = DOMAIN g.at /\ DOMAIN kw = DOMAIN g.at
  BY <1>1 DEF Shown
<1>3. \A d \in DOMAIN g.at : kw[d] \in Nat
  BY SimulationOK
<1>4. named \subseteq Facilities /\ Listed \subseteq Facilities
  BY ExpositionOK, SimulationOK DEF Housed
<1>5. DOMAIN racks = g.racks /\ DOMAIN facilities = Listed \union named
  OBVIOUS
<1>6. \A r \in g.racks : racks[r] = SumFunctionOnSet(kw, In(x, r))
  BY <1>1, <1>2 DEF In
<1>7. \A r \in g.racks : FacilityOf[r] # None => FacilityOf[r] \in named
  OBVIOUS
<1>8. \A f \in Listed \union named :
        facilities[f] = SumFunctionOnSet(racks, {r \in g.racks : FacilityOf[r] = f})
  OBVIOUS
<1> HIDE DEF x, racks, named, facilities
<1>9. Exposed(x)
  BY <1>1, <1>2, <1>3, <1>4, <1>5, <1>6, <1>7, <1>8 DEF Exposed, Housed
<1>. QED  BY <1>9 DEF x

\* Racks have the sums of their devices, and facilities those of their racks.
LEMMA ExposedAddsUp ==
  ASSUME NEW x, Exposed(x)
  PROVE  /\ \A r : SumFunctionOnSet(x.kw, In(x, r)) \in Nat
         /\ SumFunction(x.racks) = SumFunction(x.kw)
         /\ LET housed == {r \in DOMAIN x.racks : FacilityOf[r] # None}
            IN SumFunction(x.facilities) = SumFunctionOnSet(x.racks, housed)
<1>1. /\ Shown(x) \subseteq Devices /\ DOMAIN x.kw = Shown(x)
      /\ \A d \in Shown(x) : x.at[d] \in DOMAIN x.racks /\ x.kw[d] \in Nat
      /\ IsFiniteSet(Shown(x)) /\ IsFiniteSet(DOMAIN x.racks)
      /\ IsFiniteSet(DOMAIN x.facilities)
  BY Finite DEF Exposed
<1>2. \A r : SumFunctionOnSet(x.kw, In(x, r)) \in Nat
  <2> SUFFICES ASSUME NEW r PROVE SumFunctionOnSet(x.kw, In(x, r)) \in Nat
    OBVIOUS
  <2>1. In(x, r) \subseteq Shown(x) /\ IsFiniteSet(In(x, r))
    BY <1>1, FS_Subset DEF In
  <2>. QED  BY <1>1, <2>1, SumNatural
<1>3. SumFunction(x.racks) = SumFunction(x.kw)
  <2> DEFINE f == x.kw
             h == x.racks
             R == DOMAIN h
             at == x.at
  <2>1. \A r \in R : h[r] = SumFunctionOnSet(f, {d \in Shown(x) : at[d] = r})
    BY DEF Exposed, In
  <2>2. \A d \in Shown(x) : at[d] \in R /\ f[d] \in Nat
    BY <1>1
  <2>3. IsFiniteSet(Shown(x)) /\ IsFiniteSet(R)
    BY <1>1
  <2> HIDE DEF f, h, R, at
  <2>4. SumFunctionOnSet(h, R) = SumFunctionOnSet(f, Shown(x))
    BY <2>1, <2>2, <2>3, SumGrouped
  <2>. QED  BY <1>1, <2>4 DEF f, h, R, SumFunction
<1>4. LET housed == {r \in DOMAIN x.racks : FacilityOf[r] # None}
      IN SumFunction(x.facilities) = SumFunctionOnSet(x.racks, housed)
  <2> DEFINE f == x.racks
             h == x.facilities
             R == DOMAIN h
             at == FacilityOf
             housed == {r \in DOMAIN f : FacilityOf[r] # None}
  <2>1. \A r \in housed : FacilityOf[r] \in R /\ f[r] \in Nat
    BY <1>2 DEF Exposed
  <2>2. IsFiniteSet(housed) /\ IsFiniteSet(R)
    BY <1>1, FS_Subset
  <2>3. ASSUME NEW g \in R
        PROVE  h[g] = SumFunctionOnSet(f, {r \in housed : FacilityOf[r] = g})
    <3>1. g # None
      BY <2>3, Finite DEF Exposed
    <3>2. {r \in housed : FacilityOf[r] = g} = {r \in DOMAIN f : FacilityOf[r] = g}
      BY <3>1
    <3>. QED  BY <2>3, <3>2 DEF Exposed
  <2>4. /\ \A g \in R : h[g] = SumFunctionOnSet(f, {r \in housed : at[r] = g})
        /\ \A r \in housed : at[r] \in R /\ f[r] \in Nat
    BY <2>1, <2>3
  <2> HIDE DEF f, h, R, housed, at
  <2>5. SumFunctionOnSet(h, R) = SumFunctionOnSet(f, housed)
    BY <2>2, <2>4, SumGrouped
  <2>. QED  BY <2>5 DEF f, h, R, housed, SumFunction
<1>. QED  BY <1>2, <1>3, <1>4

\* The more halls, the more capacity.
LEMMA CapacityGrows ==
  ASSUME NEW H \in SUBSET Halls, NEW G \in SUBSET H, NEW f \in Facilities
  PROVE  CapacityOf(H)[f] >= CapacityOf(G)[f]
<1> DEFINE At(S) == {h \in S : HallsFacility[h] = f}
<1>1. /\ CapacityOf(H)[f] = SumFunctionOnSet(HallCapacity, At(H))
      /\ CapacityOf(G)[f] = SumFunctionOnSet(HallCapacity, At(G))
  BY DEF CapacityOf
<1>2. At(G) \in SUBSET At(H) /\ IsFiniteSet(At(H))
  BY Finite
<1>3. \A h \in At(H) : HallCapacity[h] \in Nat
  BY SimulationOK
<1> HIDE DEF At
<1>4. /\ SumFunctionOnSet(HallCapacity, At(G)) \in Nat
      /\ SumFunctionOnSet(HallCapacity, At(H)) \in Nat
      /\ SumFunctionOnSet(HallCapacity, At(G)) <= SumFunctionOnSet(HallCapacity, At(H))
  BY <1>2, <1>3, SumMonotone
<1>. QED  BY <1>1, <1>4

------------------------------------------------------------------------------
(* The simulation.                                                         *)

LEMMA SimUnchanged ==
  ASSUME SimInv, UNCHANGED <<rackOf, standing, graph, reading, ticking, metrics>>,
         upsets' \in 0..MaxUpsets
  PROVE  SimInv'
BY DEF SimInv

LEMMA Upsetting ==
  ASSUME SimInv, Upset
  PROVE  upsets' \in 0..MaxUpsets
BY SimulationOK DEF SimInv, Upset

LEMMA PlaceDeviceTyped ==
  ASSUME SimInv, NEW d \in Devices, NEW r \in Racks \union {None}, PlaceDevice(d, r)
  PROVE  SimInv'
<1>1. /\ rackOf' \in [Devices -> Racks \union {None}]
      /\ UNCHANGED <<standing, graph, reading, ticking, metrics>>
  BY DEF PlaceDevice, Change, SimInv
<1>2. upsets' \in 0..MaxUpsets
  BY Upsetting DEF PlaceDevice, Change
<1>. QED  BY <1>1, <1>2 DEF SimInv

LEMMA ToggleRackTyped ==
  ASSUME SimInv, NEW r \in Racks, ToggleRack(r)
  PROVE  SimInv'
<1>1. /\ standing' \subseteq Racks
      /\ UNCHANGED <<rackOf, graph, reading, ticking, metrics>>
  BY DEF ToggleRack, Change, SimInv, SymDiff
<1>2. upsets' \in 0..MaxUpsets
  BY Upsetting DEF ToggleRack, Change
<1>. QED  BY <1>1, <1>2 DEF SimInv

\* The reading goes on.
LEMMA ReadingTyped ==
  ASSUME SimInv, UNCHANGED <<rackOf, standing, graph, ticking, metrics>>,
         upsets' \in 0..MaxUpsets,
         NEW at \in {"idle", "core", "racks", "halls"}, NEW devices, NEW racks,
         NEW halls \in SUBSET Halls, NEW rest \in SUBSET (Racks \union Halls),
         at = "core" =>
           /\ devices \in [Devices -> Racks \union {None}] \union {None}
           /\ racks \in (SUBSET Racks) \union {None},
         at \in {"racks", "halls"} =>
           devices \in [Devices -> Racks \union {None}] /\ racks \subseteq Racks,
         reading' = [at |-> at, devices |-> devices, racks |-> racks,
                     halls |-> halls, left |-> rest]
  PROVE  SimInv'
<1>1. /\ reading'.at = at /\ reading'.devices = devices /\ reading'.racks = racks
      /\ reading'.halls = halls /\ reading'.left = rest
  OBVIOUS
<1>2. reading' = [at |-> reading'.at, devices |-> reading'.devices,
                  racks |-> reading'.racks, halls |-> reading'.halls,
                  left |-> reading'.left]
  OBVIOUS
<1>. QED  BY <1>1, <1>2 DEF SimInv

LEMMA BeginRefreshTyped ==
  ASSUME SimInv, BeginRefresh
  PROVE  SimInv'
<1>1. /\ reading' = [at |-> "core", devices |-> None, racks |-> None, halls |-> {},
                     left |-> {}]
      /\ UNCHANGED <<rackOf, standing, graph, ticking, metrics, upsets>>
  BY DEF BeginRefresh, Core, Idle, inventory
<1>2. upsets' \in 0..MaxUpsets
  BY <1>1 DEF SimInv
<1>. QED  BY <1>1, <1>2, ReadingTyped

LEMMA ReadTyped ==
  ASSUME SimInv, Read
  PROVE  SimInv'
<1> DEFINE Same == UNCHANGED <<rackOf, standing, graph, ticking, metrics, upsets>>
           With(at, devices, racks, halls, rest) ==
             reading' = [at |-> at, devices |-> devices, racks |-> racks,
                         halls |-> halls, left |-> rest]
<1>1. /\ upsets \in 0..MaxUpsets
      /\ reading = [at |-> reading.at, devices |-> reading.devices,
                    racks |-> reading.racks, halls |-> reading.halls,
                    left |-> reading.left]
      /\ reading.halls \in SUBSET Halls /\ reading.left \in SUBSET (Racks \union Halls)
  BY DEF SimInv
<1>2. reading.at = "core" =>
        /\ reading.devices \in [Devices -> Racks \union {None}] \union {None}
        /\ reading.racks \in (SUBSET Racks) \union {None}
  BY DEF SimInv
<1>3. reading.at \in {"racks", "halls"} =>
        /\ reading.devices \in [Devices -> Racks \union {None}]
        /\ reading.racks \subseteq Racks
  BY DEF SimInv
<1>4. CASE ListDevices
  <2>1. /\ Same /\ reading.at = "core"
        /\ With("core", rackOf, reading.racks, reading.halls, reading.left)
    BY <1>1, <1>4 DEF ListDevices, inventory
  <2>2. rackOf \in [Devices -> Racks \union {None}]
    BY DEF SimInv
  <2>. QED  BY <1>1, <1>2, <2>1, <2>2, ReadingTyped
<1>5. CASE ListRacks
  <2>1. PICK page \in SUBSET standing :
          /\ Same /\ reading.at = "core"
          /\ With("core", reading.devices, page, reading.halls, reading.left)
    BY <1>1, <1>5 DEF ListRacks, inventory
  <2>2. page \in SUBSET Racks
    BY DEF SimInv
  <2>. QED  BY <1>1, <1>2, <2>1, <2>2, ReadingTyped
<1>6. CASE AskForRacks
  <2> DEFINE rest == Range(reading.devices) \ (reading.racks \union {None})
  <2>1. /\ Same /\ reading.at = "core"
        /\ reading.devices # None /\ reading.racks # None
        /\ With("racks", reading.devices, reading.racks, reading.halls, rest)
    BY <1>1, <1>6 DEF AskForRacks, inventory
  <2>2. /\ reading.devices \in [Devices -> Racks \union {None}]
        /\ reading.racks \subseteq Racks
    BY <1>2, <2>1
  <2>3. rest \in SUBSET (Racks \union Halls)
    BY <2>2 DEF Range
  <2> HIDE DEF rest
  <2>. QED  BY <1>1, <2>1, <2>2, <2>3, ReadingTyped
<1>7. CASE AskForHalls
  <2> DEFINE rest == {HallOf[r] : r \in reading.racks} \ {None}
  <2>1. /\ Same /\ reading.at = "racks"
        /\ With("halls", reading.devices, reading.racks, reading.halls, rest)
    BY <1>1, <1>7 DEF AskForHalls, inventory
  <2>2. rest \in SUBSET (Racks \union Halls)
    BY <1>3, <2>1, SimulationOK
  <2> HIDE DEF rest
  <2>. QED  BY <1>1, <1>3, <2>1, <2>2, ReadingTyped
<1>8. CASE Refreshed
  <2> DEFINE at == RestrictValues(reading.devices, LAMBDA r : r \in reading.racks)
  <2>1. /\ reading.at = "halls"
        /\ graph' = [at |-> at, racks |-> reading.racks,
                     capacity |-> CapacityOf(reading.halls), due |-> Due]
        /\ UNCHANGED <<rackOf, standing, ticking, metrics, upsets>>
        /\ With("idle", None, None, {}, {})
    BY <1>8 DEF Refreshed, Idle, inventory
  <2>2. /\ DOMAIN at = {d \in Devices : reading.devices[d] \in reading.racks}
        /\ \A d \in DOMAIN at : at[d] = reading.devices[d]
    BY <1>3, <2>1 DEF RestrictValues, Restrict
  <2>3. graph'.at = at /\ graph'.racks = reading.racks
    BY <2>1
  <2>4. Housed(graph)'
    <3> HIDE DEF at
    <3>. QED  BY <1>3, <2>1, <2>2, <2>3 DEF Housed
  <2>5. /\ reading' = [at |-> reading'.at, devices |-> reading'.devices,
                       racks |-> reading'.racks, halls |-> reading'.halls,
                       left |-> reading'.left]
        /\ reading'.at = "idle" /\ reading'.halls = {} /\ reading'.left = {}
    BY <2>1
  <2>. QED  BY <1>1, <2>1, <2>4, <2>5 DEF SimInv
<1>9. ASSUME NEW r \in Racks, GetRack(r) PROVE SimInv'
  <2> DEFINE rest == reading.left \ {r}
             racks == reading.racks \union ({r} \intersect standing)
  <2>1. /\ Same /\ reading.at = "racks"
        /\ With("racks", reading.devices, racks, reading.halls, rest)
    BY <1>1, <1>9 DEF GetRack, inventory
  <2>2. rest \in SUBSET (Racks \union Halls) /\ racks \subseteq Racks
    BY <1>1, <1>3, <2>1
  <2> HIDE DEF rest, racks
  <2>. QED  BY <1>1, <1>3, <2>1, <2>2, ReadingTyped
<1>10. ASSUME NEW h \in Halls, GetHall(h) PROVE SimInv'
  <2> DEFINE rest == reading.left \ {h}
             halls == reading.halls \union {h}
  <2>1. /\ Same /\ reading.at = "halls"
        /\ With("halls", reading.devices, reading.racks, halls, rest)
    BY <1>1, <1>10 DEF GetHall, inventory
  <2>2. rest \in SUBSET (Racks \union Halls) /\ halls \in SUBSET Halls
    BY <1>1
  <2> HIDE DEF rest, halls
  <2>. QED  BY <1>1, <1>3, <2>1, <2>2, ReadingTyped
<1>. QED  BY <1>4, <1>5, <1>6, <1>7, <1>8, <1>9, <1>10 DEF Read

LEMMA FailuresTyped ==
  ASSUME SimInv, (\E x \in Racks \union Halls : GetFails(x)) \/ RefreshFails
  PROVE  SimInv'
<1>1. CASE RefreshFails
  <2>1. /\ reading' = [at |-> "idle", devices |-> None, racks |-> None, halls |-> {},
                       left |-> {}]
        /\ UNCHANGED <<rackOf, standing, graph, ticking, metrics>> /\ Upset
    BY <1>1 DEF RefreshFails, Idle, inventory
  <2>2. upsets' \in 0..MaxUpsets
    BY <2>1, Upsetting
  <2>. QED  BY <2>1, <2>2, ReadingTyped
<1>2. ASSUME NEW x \in Racks \union Halls, GetFails(x) PROVE SimInv'
  <2> DEFINE rest == reading.left \ {x}
  <2>1. reading = [at |-> reading.at, devices |-> reading.devices,
                   racks |-> reading.racks, halls |-> reading.halls,
                   left |-> reading.left]
    BY DEF SimInv
  <2>2. /\ reading' = [at |-> reading.at, devices |-> reading.devices,
                       racks |-> reading.racks, halls |-> reading.halls,
                       left |-> rest]
        /\ UNCHANGED <<rackOf, standing, graph, ticking, metrics>> /\ Upset
    BY <1>2, <2>1 DEF GetFails, inventory
  <2>3. upsets' \in 0..MaxUpsets
    BY <2>2, Upsetting
  <2>4. rest \in SUBSET (Racks \union Halls) /\ reading.halls \in SUBSET Halls
    BY DEF SimInv
  <2>5. /\ reading.at \in {"idle", "core", "racks", "halls"}
        /\ reading.at = "core" =>
             /\ reading.devices \in [Devices -> Racks \union {None}] \union {None}
             /\ reading.racks \in (SUBSET Racks) \union {None}
        /\ reading.at \in {"racks", "halls"} =>
             /\ reading.devices \in [Devices -> Racks \union {None}]
             /\ reading.racks \subseteq Racks
    BY DEF SimInv
  <2> HIDE DEF rest
  <2>. QED  BY <2>2, <2>3, <2>4, <2>5, ReadingTyped
<1>. QED  BY <1>1, <1>2

LEMMA TickTyped ==
  ASSUME SimInv, Tick
  PROVE  SimInv'
<1>1. /\ ticking' \in BOOLEAN
      /\ UNCHANGED <<rackOf, standing, graph, reading, upsets>>
  BY DEF Tick, inventory
<1>2. Exposed(metrics')
  <2>1. CASE metrics' = Nothing
    BY <2>1, NothingExposed
  <2>2. CASE \E kw \in [DOMAIN graph.at -> Levels] : metrics' = Rollup(graph, kw)
    BY <2>2, RollupExposed DEF SimInv
  <2>. QED  BY <2>1, <2>2 DEF Tick
<1>3. Exposed(metrics)'
  BY <1>2 DEF Exposed, Shown, In
<1>. QED  BY <1>1, <1>3 DEF SimInv

LEMMA SimulationCrashTyped ==
  ASSUME SimInv, SimulationCrash
  PROVE  SimInv'
<1>1. /\ graph' = NoGraph /\ metrics' = Nothing /\ ticking' = FALSE
      /\ reading' = [at |-> "core", devices |-> None, racks |-> None, halls |-> {},
                     left |-> {}]
      /\ UNCHANGED <<rackOf, standing>>
  BY DEF SimulationCrash, Core, Idle, inventory
<1>2. upsets' \in 0..MaxUpsets
  BY Upsetting DEF SimulationCrash
<1>3. Housed(graph)'
  <2>1. graph'.at = <<>> /\ graph'.racks = {} /\ DOMAIN <<>> = {}
    BY <1>1 DEF NoGraph
  <2>. QED  BY <2>1 DEF Housed
<1>4. Exposed(metrics)'
  BY <1>1, NothingExposed DEF Exposed, Shown, In
<1>5. /\ reading' = [at |-> reading'.at, devices |-> reading'.devices,
                     racks |-> reading'.racks, halls |-> reading'.halls,
                     left |-> reading'.left]
      /\ reading'.at = "core" /\ reading'.halls = {} /\ reading'.left = {}
      /\ reading'.devices = None /\ reading'.racks = None
  BY <1>1
<1>. QED  BY <1>1, <1>2, <1>3, <1>4, <1>5 DEF SimInv

LEMMA SimStep ==
  ASSUME SimInv, SimulationNext
  PROVE  SimInv'
BY PlaceDeviceTyped, ToggleRackTyped, BeginRefreshTyped, ReadTyped, TickTyped,
   FailuresTyped, SimulationCrashTyped DEF SimulationNext

------------------------------------------------------------------------------
(* What a reading finds.                                                   *)

\* While the inventory changes, what changed is touched.
LEMMA ReadingStands ==
  ASSUME SimInv, ReadInv, UNCHANGED reading, touched \subseteq touched',
         missed \subseteq missed', standing' \subseteq Racks,
         \A d \in Devices \ touched' : rackOf'[d] = rackOf[d],
         \A r \in Racks \ touched' : r \in standing' <=> r \in standing
  PROVE  ReadInv'
<1>1. (HasDevices' <=> HasDevices) /\ (HasRacks' <=> HasRacks)
  BY DEF HasDevices, HasRacks
<1>2. HasDevices => \A d \in Devices \ touched' : reading.devices[d] = rackOf'[d]
  BY DEF ReadInv
<1>3. HasRacks => reading.racks \ touched' \subseteq standing'
  <2> SUFFICES ASSUME HasRacks, NEW r \in reading.racks, r \notin touched'
               PROVE  r \in standing'
    OBVIOUS
  <2>1. r \in standing
    BY DEF ReadInv
  <2>. QED  BY <2>1 DEF SimInv
<1>4. ASSUME reading.at \in {"racks", "halls"}, NEW d \in Devices,
             reading.devices[d] \in standing' \ (touched' \union missed')
      PROVE  reading.devices[d] \in standing \ (touched \union missed)
  <2> DEFINE r == reading.devices[d]
  <2>1. r \in Racks \union {None}
    BY <1>4 DEF SimInv
  <2>. QED  BY <1>4, <2>1, Finite
<1>5. HallsOf(reading.racks) \ missed' \subseteq HallsOf(reading.racks) \ missed
  OBVIOUS
<1>. QED  BY <1>1, <1>2, <1>3, <1>4, <1>5 DEF ReadInv

LEMMA NothingRead ==
  ASSUME \/ reading'.at = "idle"
         \/ reading'.at = "core" /\ reading'.devices = None /\ reading'.racks = None
  PROVE  ReadInv'
BY DEF ReadInv, HasDevices, HasRacks

LEMMA ReadStep ==
  ASSUME SimInv, ReadInv, Read
  PROVE  ReadInv'
<1>1. /\ reading = [at |-> reading.at, devices |-> reading.devices,
                    racks |-> reading.racks, halls |-> reading.halls,
                    left |-> reading.left]
      /\ standing \subseteq Racks
  BY DEF SimInv
<1>2. CASE ListDevices
  <2>1. /\ UNCHANGED <<rackOf, standing, touched, missed>> /\ reading.at = "core"
        /\ reading' = [at |-> "core", devices |-> rackOf, racks |-> reading.racks,
                       halls |-> reading.halls, left |-> reading.left]
    BY <1>1, <1>2 DEF ListDevices, inventory
  <2>2. reading'.at = "core" /\ reading'.devices = rackOf /\ reading'.racks = reading.racks
    BY <2>1
  <2>3. HasRacks' => HasRacks
    BY <2>1, <2>2 DEF HasRacks
  <2>. QED  BY <2>1, <2>2, <2>3 DEF ReadInv
<1>3. CASE ListRacks
  <2>1. PICK page \in SUBSET standing :
          /\ UNCHANGED <<rackOf, standing, touched, missed>> /\ reading.at = "core"
          /\ reading' = [at |-> "core", devices |-> reading.devices, racks |-> page,
                         halls |-> reading.halls, left |-> reading.left]
    BY <1>1, <1>3 DEF ListRacks, inventory
  <2>2. reading'.at = "core" /\ reading'.devices = reading.devices /\ reading'.racks = page
    BY <2>1
  <2>3. HasDevices' => HasDevices
    BY <2>1, <2>2 DEF HasDevices
  <2>. QED  BY <2>1, <2>2, <2>3 DEF ReadInv
<1>4. CASE AskForRacks
  <2> DEFINE rest == Range(reading.devices) \ (reading.racks \union {None})
  <2>1. /\ UNCHANGED <<rackOf, standing, touched, missed>> /\ reading.at = "core"
        /\ reading.devices # None /\ reading.racks # None
        /\ reading' = [at |-> "racks", devices |-> reading.devices,
                       racks |-> reading.racks, halls |-> reading.halls,
                       left |-> rest]
    BY <1>1, <1>4 DEF AskForRacks, inventory
  <2>2. HasDevices /\ HasRacks
    BY <2>1 DEF HasDevices, HasRacks
  <2>3. reading.devices \in [Devices -> Racks \union {None}]
    BY <2>1 DEF SimInv
  <2>4. \A d \in Devices : reading.devices[d] \in standing =>
                             reading.devices[d] \in reading.racks \union rest
    <3> SUFFICES ASSUME NEW d \in Devices, reading.devices[d] \in standing
                 PROVE  reading.devices[d] \in reading.racks \union rest
      OBVIOUS
    <3>1. reading.devices[d] # None
      BY <1>1, Finite
    <3>2. reading.devices[d] \in Range(reading.devices)
      BY <2>3 DEF Range
    <3>. QED  BY <3>1, <3>2
  <2> HIDE DEF rest
  <2>5. /\ reading'.at = "racks" /\ reading'.devices = reading.devices
        /\ reading'.racks = reading.racks /\ reading'.left = rest
    BY <2>1
  <2>. QED  BY <2>1, <2>2, <2>4, <2>5 DEF ReadInv
<1>5. CASE AskForHalls
  <2>1. /\ UNCHANGED <<rackOf, standing, touched, missed>> /\ reading.at = "racks"
        /\ reading.left = {}
        /\ reading' = [at |-> "halls", devices |-> reading.devices,
                       racks |-> reading.racks, halls |-> reading.halls,
                       left |-> HallsOf(reading.racks)]
    BY <1>1, <1>5 DEF AskForHalls, inventory, HallsOf
  <2>2. /\ reading'.at = "halls" /\ reading'.devices = reading.devices
        /\ reading'.racks = reading.racks /\ reading'.left = HallsOf(reading.racks)
    BY <2>1
  <2>3. HasDevices /\ HasRacks
    BY <2>1 DEF HasDevices, HasRacks
  <2>. QED  BY <2>1, <2>2, <2>3 DEF ReadInv
<1>6. CASE Refreshed
  <2>1. reading'.at = "idle"
    BY <1>6 DEF Refreshed, Idle
  <2>. QED  BY <2>1, NothingRead
<1>7. ASSUME NEW r \in Racks, GetRack(r) PROVE ReadInv'
  <2> DEFINE had == reading.racks \union ({r} \intersect standing)
  <2>1. /\ UNCHANGED <<rackOf, standing, touched, missed>> /\ reading.at = "racks"
        /\ reading' = [at |-> "racks", devices |-> reading.devices, racks |-> had,
                       halls |-> reading.halls, left |-> reading.left \ {r}]
    BY <1>1, <1>7 DEF GetRack, inventory
  <2>2. /\ reading'.at = "racks" /\ reading'.devices = reading.devices
        /\ reading'.racks = had /\ reading'.left = reading.left \ {r}
    BY <2>1
  <2>3. HasDevices /\ HasRacks
    BY <2>1 DEF HasDevices, HasRacks
  <2>4. had \ touched \subseteq standing
    BY <2>3 DEF ReadInv
  <2>5. ASSUME NEW d \in Devices,
               reading.devices[d] \in standing \ (touched \union missed)
        PROVE  reading.devices[d] \in had \union (reading.left \ {r})
    <3>1. reading.devices[d] \in reading.racks \union reading.left
      BY <2>1, <2>5 DEF ReadInv
    <3>. QED  BY <2>5, <3>1
  <2> HIDE DEF had
  <2>. QED  BY <2>1, <2>2, <2>3, <2>4, <2>5 DEF ReadInv
<1>8. ASSUME NEW h \in Halls, GetHall(h) PROVE ReadInv'
  <2>1. /\ UNCHANGED <<rackOf, standing, touched, missed>> /\ reading.at = "halls"
        /\ reading' = [at |-> "halls", devices |-> reading.devices,
                       racks |-> reading.racks, halls |-> reading.halls \union {h},
                       left |-> reading.left \ {h}]
    BY <1>1, <1>8 DEF GetHall, inventory
  <2>2. /\ reading'.at = "halls" /\ reading'.devices = reading.devices
        /\ reading'.racks = reading.racks
        /\ reading.halls \union reading.left \subseteq reading'.halls \union reading'.left
    BY <2>1
  <2>3. HasDevices /\ HasRacks
    BY <2>1 DEF HasDevices, HasRacks
  <2>. QED  BY <2>1, <2>2, <2>3 DEF ReadInv
<1>. QED  BY <1>2, <1>3, <1>4, <1>5, <1>6, <1>7, <1>8 DEF Read

LEMMA GetFailsRead ==
  ASSUME SimInv, ReadInv, NEW x, GetFails(x)
  PROVE  ReadInv'
<1>1. reading = [at |-> reading.at, devices |-> reading.devices,
                 racks |-> reading.racks, halls |-> reading.halls,
                 left |-> reading.left]
  BY DEF SimInv
<1>2. /\ UNCHANGED <<rackOf, standing, touched>> /\ missed' = missed \union {x}
      /\ reading' = [at |-> reading.at, devices |-> reading.devices,
                     racks |-> reading.racks, halls |-> reading.halls,
                     left |-> reading.left \ {x}]
  BY <1>1 DEF GetFails, inventory
<1>3. /\ reading'.at = reading.at /\ reading'.devices = reading.devices
      /\ reading'.racks = reading.racks /\ reading'.halls = reading.halls
      /\ reading'.left = reading.left \ {x}
  BY <1>2
<1>4. (HasDevices' <=> HasDevices) /\ (HasRacks' <=> HasRacks)
  BY <1>3 DEF HasDevices, HasRacks
<1>. QED  BY <1>2, <1>3, <1>4 DEF ReadInv

LEMMA ReadInvStep ==
  ASSUME SimInv, ReadInv, SimulationNext
  PROVE  ReadInv'
<1>1. ASSUME NEW d \in Devices, NEW r \in Racks \union {None}, PlaceDevice(d, r)
      PROVE  ReadInv'
  <2>1. /\ UNCHANGED <<reading, standing, missed>> /\ touched' = touched \union {d}
        /\ rackOf' = [rackOf EXCEPT ![d] = r]
    BY <1>1 DEF PlaceDevice, Change
  <2>2. \A c \in Devices \ touched' : rackOf'[c] = rackOf[c]
    BY <2>1 DEF SimInv
  <2>3. standing' \subseteq Racks
    BY <2>1 DEF SimInv
  <2>. QED  BY <2>1, <2>2, <2>3, ReadingStands
<1>2. ASSUME NEW r \in Racks, ToggleRack(r) PROVE ReadInv'
  <2>1. /\ UNCHANGED <<reading, rackOf, missed>> /\ touched' = touched \union {r}
        /\ standing' = (standing \ {r}) \union ({r} \ standing)
    BY <1>2 DEF ToggleRack, Change, SymDiff
  <2>2. standing' \subseteq Racks
    BY <1>2, <2>1 DEF SimInv
  <2>. QED  BY <2>1, <2>2, ReadingStands
<1>3. ASSUME BeginRefresh \/ RefreshFails \/ SimulationCrash PROVE ReadInv'
  <2>1. reading' = Core \/ reading' = Idle
    BY <1>3 DEF BeginRefresh, RefreshFails, SimulationCrash
  <2>2. \/ reading'.at = "idle"
        \/ reading'.at = "core" /\ reading'.devices = None /\ reading'.racks = None
    BY <2>1 DEF Core, Idle
  <2>. QED  BY <2>2, NothingRead
<1>4. ASSUME Tick PROVE ReadInv'
  <2>1. UNCHANGED <<rackOf, standing, reading, touched, missed>>
    BY <1>4 DEF Tick, inventory
  <2>2. standing' \subseteq Racks
    BY <2>1 DEF SimInv
  <2>. QED  BY <2>1, <2>2, ReadingStands
<1>. QED
  BY <1>1, <1>2, <1>3, <1>4, ReadStep, GetFailsRead DEF SimulationNext

\* A reading that ends has found everything it ought to.
LEMMA RefreshedFound ==
  ASSUME SimInv, ReadInv, Refreshed
  PROVE  FoundInv'
<1> DEFINE at == RestrictValues(reading.devices, LAMBDA r : r \in reading.racks)
           listed == reading.devices
           had == reading.racks
           Due1 == {d \in Present : Calm(d)}
<1>1. /\ reading.at = "halls" /\ reading.left = {}
      /\ graph' = [at |-> at, racks |-> had, capacity |-> CapacityOf(reading.halls),
                   due |-> Due]
  BY DEF Refreshed
<1>2. /\ listed \in [Devices -> Racks \union {None}] /\ had \subseteq Racks
      /\ reading.halls \subseteq Halls
  BY <1>1 DEF SimInv
<1>3. DOMAIN at = {d \in Devices : listed[d] \in had}
  BY <1>2 DEF RestrictValues, Restrict
<1>4. HasDevices /\ HasRacks
  BY <1>1 DEF HasDevices, HasRacks
<1> HIDE DEF at
<1>5. ASSUME NEW d \in Devices, Calm(d)
      PROVE  /\ listed[d] = rackOf[d]
             /\ rackOf[d] \in standing <=> d \in DOMAIN at
  <2>1. d \notin touched /\ rackOf[d] \notin touched \union missed
    BY <1>5 DEF Calm
  <2>2. listed[d] = rackOf[d]
    BY <1>4, <2>1 DEF ReadInv
  <2>3. rackOf[d] \in standing => rackOf[d] \in had
    BY <1>1, <2>1, <2>2 DEF ReadInv
  <2>4. rackOf[d] \in had => rackOf[d] \in standing
    BY <1>4, <2>1 DEF ReadInv
  <2>. QED  BY <1>3, <2>2, <2>3, <2>4
<1>6. /\ graph'.at = at /\ graph'.capacity = CapacityOf(reading.halls)
      /\ graph'.due = Due
  BY <1>1
<1>7. /\ Due.in = Due1 /\ Due.out = {d \in Devices \ Present : Calm(d)}
      /\ Due.capacity = CapacityOf(HallsOf({rackOf[d] : d \in Due1}) \ missed)
  BY DEF Due
<1>8. Due.in \subseteq DOMAIN at
  BY <1>5, <1>7 DEF Present
<1>9. Due.out \intersect DOMAIN at = {}
  BY <1>5, <1>7 DEF Present
<1>10. HallsOf({rackOf[d] : d \in Due1}) \ missed \subseteq reading.halls
  <2>1. {rackOf[d] : d \in Due1} \subseteq had
    BY <1>3, <1>5 DEF Present
  <2>2. HallsOf({rackOf[d] : d \in Due1}) \subseteq HallsOf(had)
    BY <2>1 DEF HallsOf
  <2>. QED  BY <1>1, <2>2 DEF ReadInv
<1>11. \A f \in Facilities : CapacityOf(reading.halls)[f] >= Due.capacity[f]
  BY <1>2, <1>7, <1>10, CapacityGrows
<1>. QED  BY <1>6, <1>8, <1>9, <1>11 DEF FoundInv

LEMMA NoGraphFound ==
  ASSUME graph' = NoGraph
  PROVE  FoundInv'
<1>1. /\ graph'.at = <<>> /\ graph'.due.in = {} /\ graph'.due.out = {}
      /\ graph'.capacity = CapacityOf({}) /\ graph'.due.capacity = CapacityOf({})
  BY DEF NoGraph
<1>2. \A f \in Facilities : CapacityOf({})[f] >= CapacityOf({})[f]
  BY CapacityGrows
<1>. QED  BY <1>1, <1>2 DEF FoundInv

LEMMA FoundStep ==
  ASSUME SimInv, ReadInv, FoundInv, SimulationNext
  PROVE  FoundInv'
<1>1. \/ graph' = graph \/ Refreshed \/ graph' = NoGraph
  BY DEF SimulationNext, PlaceDevice, ToggleRack, Change, BeginRefresh, Read,
     ListDevices, ListRacks, AskForRacks, GetRack, AskForHalls, GetHall, Tick,
     GetFails, RefreshFails, SimulationCrash
<1>. QED  BY <1>1, RefreshedFound, NoGraphFound DEF FoundInv

------------------------------------------------------------------------------
(* The adapter.                                                            *)

\* Power p of rack r is what one scrape says it draws, once or twice, if saw
\* has no other.
Counted(p, saw, r) ==
  LET seenIn == saw \ {Nothing}
  IN Cardinality(seenIn) = 1 =>
       \A x \in seenIn :
         LET draw == SumFunctionOnSet(x.kw, In(x, r))
         IN p \in {draw, 2 * draw}

\* The adapter's types, and scrapes as answers of the queries of a round.
AdapterInv ==
  /\ AdapterTypeOK /\ RackPowerCounted
  /\ rows = [q \in Queries |-> rows[q]]
  /\ \A q \in Queries : rows[q] = None \/ Exposed(rows[q])
  /\ round \in {"entities", "racks"} => \A q \in Queries : Exposed(rows[q])
  /\ cache = [e \in Entities |-> cache[e]]

LEMMA OneScrape ==
  ASSUME NEW x, {rows[q] : q \in Queries} \ {Nothing} = {x}
  PROVE  \A q : Got(q) = x \/ Got(q) = Nothing
<1> SUFFICES ASSUME NEW q PROVE Got(q) = x \/ Got(q) = Nothing
  OBVIOUS
<1>1. CASE q \in Queries
  <2>1. rows[q] = Nothing \/ rows[q] \in {rows[p] : p \in Queries} \ {Nothing}
    BY <1>1
  <2>. QED  BY <1>1, <2>1 DEF Got
<1>2. CASE q \notin Queries
  BY <1>2 DEF Got
<1>. QED  BY <1>1, <1>2

LEMMA GotExposed ==
  ASSUME \A q \in Queries : Exposed(rows[q])
  PROVE  \A q : Exposed(Got(q))
BY NothingExposed DEF Got

LEMMA NothingShown == Shown(Nothing) = {} /\ DOMAIN Nothing.racks = {}
<1>1. DOMAIN <<>> = {}
  OBVIOUS
<1>. QED  BY <1>1 DEF Nothing, Shown

\* The sets a round counts its racks' power in.
LEMMA RoundTypes ==
  ASSUME \A q \in Queries : Exposed(rows[q])
  PROVE  /\ Measured \subseteq Entities /\ Aggregated \subseteq Racks
         /\ \A q : Shown(Got(q)) \subseteq Devices /\ DOMAIN Got(q).racks \subseteq Racks
<1>1. \A q : Shown(Got(q)) \subseteq Devices /\ DOMAIN Got(q).racks \subseteq Racks
  BY GotExposed DEF Exposed
<1>2. Measured \subseteq Entities
  <2> SUFFICES ASSUME NEW e \in Measured PROVE e \in Entities
    OBVIOUS
  <2>1. PICK q \in {"temperature", "power"} : e \in Shown(Got(q)) \union DOMAIN Got(q).racks
    BY Zenon DEF Measured
  <2>. QED  BY <1>1, <2>1 DEF Entities
<1>3. Aggregated \subseteq Racks
  <2> SUFFICES ASSUME NEW e \in Aggregated PROVE e \in Racks
    OBVIOUS
  <2>1. PICK q \in {"avg_temperature", "total_power"} : e \in DOMAIN Got(q).racks
    BY Zenon DEF Aggregated
  <2>. QED  BY <1>1, <2>1
<1>. QED  BY <1>1, <1>2, <1>3

\* The power of a rack, as an entity and as a rack.
LEMMA RackPower ==
  ASSUME \A q \in Queries : Exposed(rows[q]), NEW r \in Racks,
         NEW p \in {PowerOf(r), TotalPower(r)}, p # None
  PROVE  Counted(p, {rows[q] : q \in Queries}, r)
<1> DEFINE seenIn == {rows[q] : q \in Queries} \ {Nothing}
<1>1. SUFFICES ASSUME Cardinality(seenIn) = 1, NEW x \in seenIn
               PROVE  p \in {SumFunctionOnSet(x.kw, In(x, r)),
                             2 * SumFunctionOnSet(x.kw, In(x, r))}
  BY DEF Counted
<1>2. IsFiniteSet(seenIn)
  <2>1. IsFiniteSet(Asked)
    <3>1. IsFiniteSet({"temperature"} \union {"power"})
      BY FS_Singleton, FS_Union
    <3>2. IsFiniteSet({"avg_temperature"} \union {"total_power"})
      BY FS_Singleton, FS_Union
    <3>3. Asked = ({"temperature"} \union {"power"})
                    \union ({"avg_temperature"} \union {"total_power"})
      BY DEF Asked
    <3>. QED  BY <3>1, <3>2, <3>3, FS_Union
  <2>2. IsFiniteSet(Queries)
    BY <2>1, FS_Subset, AdapterOK
  <2>3. IsFiniteSet({rows[q] : q \in Queries})
    <3> DEFINE T == {rows[q] : q \in Queries}
               f == [q \in Queries |-> rows[q]]
    <3>1. f \in Surjection(Queries, T)
      BY DEF Surjection
    <3>. QED  BY <2>2, <3>1, FS_Surjection
  <2>. QED  BY <2>3, FS_Subset
<1>3. seenIn = {x}
  <2>1. PICK y : seenIn = {y}
    BY <1>1, <1>2, FS_Singleton
  <2>. QED  BY <1>1, <2>1
<1>4. \A q : Got(q) = x \/ Got(q) = Nothing
  BY <1>3, OneScrape
<1>5. Exposed(x)
  BY <1>1
<1> DEFINE draw == SumFunctionOnSet(x.kw, In(x, r))
<1>6. draw \in Nat
  BY <1>5, ExposedAddsUp
<1>7. Shown(Nothing) = {} /\ DOMAIN Nothing.racks = {}
  BY NothingShown
<1>8. \A q : r \in DOMAIN Got(q).racks => Got(q) = x /\ Got(q).racks[r] = draw
  BY <1>4, <1>5, <1>7 DEF Exposed
<1>9. CASE p = PowerOf(r)
  <2>1. r \notin Shown(Got("power"))
    BY RoundTypes, Finite
  <2>2. r \in DOMAIN Got("power").racks /\ p = Got("power").racks[r]
    BY <1>9, <2>1 DEF PowerOf
  <2>. QED  BY <1>8, <2>2
<1>10. CASE p = TotalPower(r)
  <2> DEFINE drawing == Grouped(r) \intersect Shown(Got("power"))
  <2>1. CASE r \in DOMAIN Got("total_power").racks
    <3>1. TotalPower(r) = RackTotal(Got("total_power"), r)
      BY <2>1 DEF TotalPower
    <3>2. p = draw + draw
      BY <1>8, <1>10, <2>1, <3>1 DEF RackTotal
    <3> HIDE DEF draw
    <3>3. p = 2 * draw
      BY <1>6, <3>2
    <3>. QED  BY <3>3 DEF draw
  <2>2. CASE r \notin DOMAIN Got("total_power").racks
    <3>1. drawing # {} /\ p = SumFunctionOnSet(Got("power").kw, drawing)
      BY <1>10, <2>2 DEF TotalPower
    <3>2. Got("power") = x
      BY <1>4, <1>7, <3>1
    <3>3. drawing = In(x, r)
      <4>1. Shown(x) \subseteq Measured \intersect Devices
        <5>1. Shown(Got("power")) \subseteq Measured
          BY Zenon DEF Measured
        <5>. QED  BY <1>5, <3>2, <5>1 DEF Exposed
      <4>2. \A d \in Shown(x) : RackIn(d) = x.at[d]
        BY <3>2 DEF RackIn
      <4>. QED  BY <3>2, <4>1, <4>2 DEF Grouped, In
    <3>. QED  BY <3>1, <3>2, <3>3
  <2>. QED  BY <2>1, <2>2
<1>. QED  BY <1>9, <1>10

\* Whoever stores power p of e, which counts right if e is a rack.
LEMMA PutCounted ==
  ASSUME AdapterInv, NEW e \in Entities, NEW p, Put(e, p),
         (e \in Racks /\ p # None) => Counted(p, {rows[q] : q \in Queries}, e),
         round' = round, rows' = rows, lapses' = lapses, left' \subseteq left
  PROVE  AdapterInv'
<1> DEFINE stored == [power |-> p, saw |-> {rows[q] : q \in Queries}]
<1>1. /\ cache' = [cache EXCEPT ![e] = stored] /\ index' = index \union {e}
      /\ cache = [x \in Entities |-> cache[x]]
  BY DEF Put, AdapterInv
<1>2. stored.power = p /\ stored.saw = {rows[q] : q \in Queries}
  OBVIOUS
<1> HIDE DEF stored
<1>3. /\ cache' = [x \in Entities |-> cache'[x]]
      /\ cache'[e] = stored /\ \A x \in Entities : x # e => cache'[x] = cache[x]
  BY <1>1
<1>4. \A x \in Entities : cache'[x] # None => x \in index'
  BY <1>1, <1>3 DEF AdapterInv, AdapterTypeOK
<1>5. RackPowerCounted'
  <2> SUFFICES ASSUME NEW r \in Racks, cache'[r] # None, cache'[r].power # None
               PROVE  Counted(cache'[r].power, cache'[r].saw, r)
    BY DEF RackPowerCounted, Counted, In, Shown
  <2>1. r \in Entities
    BY DEF Entities
  <2>2. CASE r = e
    BY <1>2, <1>3, <2>2
  <2>3. CASE r # e
    <3>1. cache'[r] = cache[r]
      BY <1>3, <2>1, <2>3
    <3>. QED  BY <3>1 DEF AdapterInv, RackPowerCounted, Counted
  <2>. QED  BY <2>2, <2>3
<1>6. index' \subseteq Entities /\ left' \subseteq Entities
  BY <1>1 DEF AdapterInv, AdapterTypeOK
<1>7. AdapterTypeOK'
  BY <1>4, <1>6 DEF AdapterInv, AdapterTypeOK
<1>8. \A q \in Queries : Exposed(rows'[q]) <=> Exposed(rows[q])
  OBVIOUS
<1>. QED  BY <1>3, <1>5, <1>7, <1>8 DEF AdapterInv, Exposed, Shown, In

\* Nothing is stored: the cache stays, or loses an entity.
LEMMA RoundMoves ==
  ASSUME AdapterInv, round' \in {"asking", "entities", "racks", "sleeping"},
         left' \subseteq Entities, lapses' \in 0..MaxMissed, UNCHANGED cache,
         index' = index \/ (index' = {} /\ \A e \in Entities : cache[e] = None),
         NEW new \in [Queries -> {None} \union {rows[q] : q \in Queries} \union
                                   {Nothing}],
         rows' = new,
         round' \in {"entities", "racks"} =>
           rows' = rows /\ \A q \in Queries : Exposed(rows[q])
  PROVE  AdapterInv'
<1>1. /\ rows' = [q \in Queries |-> rows'[q]]
      /\ \A q \in Queries : rows'[q] = None \/ Exposed(rows'[q])
  BY NothingExposed DEF AdapterInv
<1>2. /\ cache' = [e \in Entities |-> cache'[e]]
      /\ \A e \in Entities : cache'[e] # None => e \in index'
      /\ index' \subseteq Entities
  BY DEF AdapterInv, AdapterTypeOK
<1>3. RackPowerCounted'
  BY DEF AdapterInv, RackPowerCounted, In, Shown
<1>4. AdapterTypeOK'
  BY <1>1, <1>2 DEF AdapterTypeOK
<1>5. (\A q \in Queries : rows[q] = None \/ Exposed(rows[q]))'
  BY <1>1
<1>6. (round \in {"entities", "racks"} => \A q \in Queries : Exposed(rows[q]))'
  OBVIOUS
<1>. QED  BY <1>1, <1>2, <1>3, <1>4, <1>5, <1>6 DEF AdapterInv

LEMMA SameRows ==
  ASSUME AdapterInv
  PROVE  /\ rows \in [Queries -> {None} \union {rows[q] : q \in Queries} \union
                                   {Nothing}]
         /\ Unasked \in [Queries -> {None} \union {rows[q] : q \in Queries} \union
                                      {Nothing}]
         /\ lapses \in 0..MaxMissed /\ left \subseteq Entities
         /\ (lapses < MaxMissed /\ lapses' = lapses + 1) => lapses' \in 0..MaxMissed
<1>1. \A q \in Queries : rows[q] \in {rows[p] : p \in Queries}
  OBVIOUS
<1>2. lapses \in 0..MaxMissed /\ left \subseteq Entities
  BY DEF AdapterInv, AdapterTypeOK
<1>3. rows = [q \in Queries |-> rows[q]]
  BY DEF AdapterInv
<1>. QED  BY <1>1, <1>2, <1>3, AdapterOK DEF Unasked

LEMMA AskKeeps ==
  ASSUME AdapterInv, NEW q \in Queries, NEW x, Exposed(x), Ask(q, x)
  PROVE  AdapterInv'
<1>1. /\ round = "asking" /\ rows' = [rows EXCEPT ![q] = x]
      /\ UNCHANGED <<round, left, cache, index, lapses>>
  BY DEF Ask
<1>2. /\ rows' = [p \in Queries |-> rows'[p]]
      /\ \A p \in Queries : rows'[p] = IF p = q THEN x ELSE rows[p]
  BY <1>1 DEF AdapterInv
<1>3. \A p \in Queries : rows'[p] = None \/ Exposed(rows'[p])
  BY <1>2 DEF AdapterInv
<1>4. RackPowerCounted'
  BY <1>1 DEF AdapterInv, RackPowerCounted, In, Shown
<1>5. AdapterTypeOK'
  BY <1>1, <1>2 DEF AdapterInv, AdapterTypeOK
<1>. QED  BY <1>1, <1>2, <1>3, <1>4, <1>5 DEF AdapterInv, Exposed, Shown, In

LEMMA StoreKeeps ==
  ASSUME AdapterInv, Store
  PROVE  AdapterInv'
<1>1. CASE GatherRows
  <2>1. /\ round = "asking" /\ \A q \in Queries : rows[q] # None
        /\ round' = "entities" /\ left' = Measured
        /\ UNCHANGED <<rows, cache, index, lapses>>
    BY <1>1 DEF GatherRows
  <2>2. \A q \in Queries : Exposed(rows[q])
    BY <2>1 DEF AdapterInv
  <2>3. left' \subseteq Entities
    BY <2>1, <2>2, RoundTypes
  <2>4. lapses' \in 0..MaxMissed
    BY <2>1, SameRows
  <2>. QED  BY <2>1, <2>2, <2>3, <2>4, SameRows, RoundMoves
<1>2. CASE GroupRacks
  <2>1. /\ round = "entities" /\ round' = "racks"
        /\ left' = Aggregated \union {r \in Racks : Grouped(r) # {}}
        /\ UNCHANGED <<rows, cache, index, lapses>>
    BY <1>2 DEF GroupRacks
  <2>2. \A q \in Queries : Exposed(rows[q])
    BY <2>1 DEF AdapterInv
  <2>3. left' \subseteq Entities
    BY <2>1, <2>2, RoundTypes DEF Entities
  <2>4. lapses' \in 0..MaxMissed
    BY <2>1, SameRows
  <2>. QED  BY <2>1, <2>2, <2>3, <2>4, SameRows, RoundMoves
<1>3. CASE EndRound
  <2>1. /\ round' = "sleeping" /\ rows' = Unasked
        /\ UNCHANGED <<left, cache, index, lapses>>
    BY <1>3 DEF EndRound
  <2>2. left' \subseteq Entities /\ lapses' \in 0..MaxMissed
    BY <2>1, SameRows
  <2>. QED  BY <2>1, <2>2, SameRows, RoundMoves
<1>4. CASE StartRound
  <2>1. /\ round' = "asking" /\ UNCHANGED <<rows, left, cache, index, lapses>>
    BY <1>4 DEF StartRound
  <2>2. left' \subseteq Entities /\ lapses' \in 0..MaxMissed
    BY <2>1, SameRows
  <2>. QED  BY <2>1, <2>2, SameRows, RoundMoves
<1>5. ASSUME NEW e \in Entities, CacheEntity(e) PROVE AdapterInv'
  <2>1. /\ round = "entities" /\ Put(e, PowerOf(e)) /\ left' = left \ {e}
        /\ UNCHANGED <<round, rows, lapses>>
    BY <1>5 DEF CacheEntity
  <2>2. \A q \in Queries : Exposed(rows[q])
    BY <2>1 DEF AdapterInv
  <2>3. (e \in Racks /\ PowerOf(e) # None) =>
          Counted(PowerOf(e), {rows[q] : q \in Queries}, e)
    BY <2>2, RackPower
  <2>. QED  BY <2>1, <2>3, PutCounted
<1>6. ASSUME NEW r \in Racks, CacheRack(r) PROVE AdapterInv'
  <2>1. /\ round = "racks" /\ Put(r, TotalPower(r)) /\ left' = left \ {r}
        /\ UNCHANGED <<round, rows, lapses>>
    BY <1>6 DEF CacheRack
  <2>2. \A q \in Queries : Exposed(rows[q])
    BY <2>1 DEF AdapterInv
  <2>3. TotalPower(r) # None => Counted(TotalPower(r), {rows[q] : q \in Queries}, r)
    BY <2>2, RackPower
  <2>4. r \in Entities
    BY DEF Entities
  <2>. QED  BY <2>1, <2>3, <2>4, PutCounted
<1>. QED  BY <1>1, <1>2, <1>3, <1>4, <1>5, <1>6 DEF Store

LEMMA ExpireKeeps ==
  ASSUME AdapterInv, NEW e \in Entities, Expire(e)
  PROVE  AdapterInv'
<1>1. /\ cache' = [cache EXCEPT ![e] = None]
      /\ UNCHANGED <<round, rows, left, index, lapses>>
      /\ cache = [x \in Entities |-> cache[x]]
  BY DEF Expire, AdapterInv
<1>2. /\ cache' = [x \in Entities |-> cache'[x]]
      /\ \A x \in Entities : cache'[x] = IF x = e THEN None ELSE cache[x]
  BY <1>1
<1>3. RackPowerCounted'
  <2> SUFFICES ASSUME NEW r \in Racks, cache'[r] # None, cache'[r].power # None
               PROVE  Counted(cache'[r].power, cache'[r].saw, r)
    BY DEF RackPowerCounted, Counted, In, Shown
  <2>1. r \in Entities
    BY DEF Entities
  <2>2. cache'[r] = cache[r]
    BY <1>2, <2>1
  <2>. QED  BY <2>2 DEF AdapterInv, RackPowerCounted, Counted
<1>4. AdapterTypeOK'
  BY <1>1, <1>2 DEF AdapterInv, AdapterTypeOK
<1>5. /\ (\A q \in Queries : rows[q] = None \/ Exposed(rows[q]))'
      /\ (round \in {"entities", "racks"} => \A q \in Queries : Exposed(rows[q]))'
  BY <1>1 DEF AdapterInv
<1>. QED  BY <1>1, <1>2, <1>3, <1>4, <1>5 DEF AdapterInv

LEMMA RestKeeps ==
  ASSUME AdapterInv, AdapterRest
  PROVE  AdapterInv'
<1>1. CASE PutFails \/ AdapterCrash
  <2>1. /\ round' \in {"asking", "sleeping"} /\ rows' = Unasked /\ left' = {}
        /\ UNCHANGED <<cache, index>> /\ lapses < MaxMissed /\ lapses' = lapses + 1
    BY <1>1 DEF PutFails, AdapterCrash, Lapse
  <2>2. left' \subseteq Entities /\ lapses' \in 0..MaxMissed
    BY <2>1, SameRows
  <2>. QED  BY <2>1, <2>2, SameRows, RoundMoves
<1>2. CASE IndexExpires
  <2>1. /\ \A e \in Entities : cache[e] = None
        /\ index' = {} /\ UNCHANGED <<round, rows, left, cache, lapses>>
    BY <1>2 DEF IndexExpires
  <2>2. /\ left' \subseteq Entities /\ lapses' \in 0..MaxMissed
        /\ round' \in {"asking", "entities", "racks", "sleeping"}
    BY <2>1, SameRows DEF AdapterInv, AdapterTypeOK
  <2>3. round' \in {"entities", "racks"} =>
          rows' = rows /\ \A q \in Queries : Exposed(rows[q])
    BY <2>1 DEF AdapterInv
  <2>. QED  BY <2>1, <2>2, <2>3, SameRows, RoundMoves
<1>3. ASSUME NEW q \in Queries, AskFails(q) PROVE AdapterInv'
  <2>1. /\ round = "asking" /\ rows' = [rows EXCEPT ![q] = Nothing]
        /\ UNCHANGED <<round, left, cache, index>>
        /\ lapses < MaxMissed /\ lapses' = lapses + 1
    BY <1>3 DEF AskFails, Lapse
  <2>2. rows' \in [Queries -> {None} \union {rows[p] : p \in Queries} \union {Nothing}]
    BY <2>1, SameRows
  <2>3. left' \subseteq Entities /\ lapses' \in 0..MaxMissed
    BY <2>1, SameRows
  <2>. QED  BY <2>1, <2>2, <2>3, RoundMoves
<1>. QED  BY <1>1, <1>2, <1>3 DEF AdapterRest

------------------------------------------------------------------------------
(* The stream, which reads Prometheus.                                     *)

LEMMA SamplesAreRows ==
  ASSUME NEW x, Exposed(x), NEW m \in Polled
  PROVE  Samples(x, m) \subseteq Rows
<1>1. /\ m \in {"facility_power_mw", "rack_power_kw", "device_power_kw"}
      /\ [metric : Polled, facility : Facilities \union {None},
          rack : Racks \union {None}, device : Devices \union {None}] \subseteq Rows
  BY TelemetryOK
<1>2. /\ \A d \in Shown(x) : d \in Devices /\ x.at[d] \in Racks
      /\ DOMAIN x.racks \subseteq Racks /\ DOMAIN x.facilities \subseteq Facilities
      /\ \A r \in Racks : FacilityOf[r] \in Facilities \union {None}
  BY ExpositionOK DEF Exposed
<1> SUFFICES ASSUME NEW s \in Samples(x, m)
             PROVE  s \in [metric : Polled, facility : Facilities \union {None},
                           rack : Racks \union {None}, device : Devices \union {None}]
  BY <1>1
<1>3. CASE m = "facility_power_mw"
  BY <1>2, <1>3 DEF Samples
<1>4. CASE m = "rack_power_kw"
  BY <1>2, <1>4 DEF Samples
<1>5. CASE m = "device_power_kw"
  BY <1>2, <1>5 DEF Samples
<1>. QED  BY <1>1, <1>3, <1>4, <1>5

LEMMA StreamKeeps ==
  ASSUME StreamInv, Exposed(scraped), Stream
  PROVE  StreamInv'
<1>1. ASSUME NEW m \in Polled, NEW rs \in {{}, Samples(scraped, m)}, Poll(m, rs)
      PROVE  \E rs2 \in SUBSET Rows : Poll(m, rs2)
  <2>1. rs \in SUBSET Rows
    BY <1>1, SamplesAreRows
  <2>. QED  BY <1>1, <2>1
<1>2. StreamNext
  BY <1>1 DEF Stream, StreamNext
<1>. QED  BY <1>2, StreamStep

------------------------------------------------------------------------------
(* The timeline.                                                           *)

\* The timeline's types; an alert is remediated once it is raised.
TimelineInv ==
  /\ raised \in 0..MaxAlerts /\ open \subseteq 1..raised
  /\ verified \in Seq([alert : Ids, success : BOOLEAN])
  /\ acted \in Seq([alert : Ids])
  /\ remedy \in [alert : 0..raised, tries : 0..Tries, again : BOOLEAN,
                 at : {"idle", "verifying", "resolving", "recording"}]
  /\ remedy.at # "idle" \/ remedy.again => remedy.alert # 0
  /\ remedy.at = "verifying" => remedy.tries < Tries
  /\ request = [at |-> request.at, of |-> request.of, limit |-> request.limit,
                got |-> request.got, failed |-> request.failed,
                rows |-> request.rows]
  /\ request.at \in {"none", "asking", "answered"} /\ request.of \subseteq Keys
  /\ DOMAIN request.got \subseteq Lists /\ request.failed \subseteq Lists
  /\ mishaps \in 0..MaxMishaps

\* What the services behind it do.
LEMMA ServicesTyped ==
  ASSUME TimelineInv, UNCHANGED request,
         \/ Raise \/ Remedy \/ ResolveVerified \/ RemedyFails \/ Record
         \/ RuntimeDies
         \/ \E success \in BOOLEAN : Verify(success)
         \/ \E a \in Ids : ResolveByHand(a)
  PROVE  TimelineInv'
<1>1. /\ raised \in Nat /\ remedy.alert \in 0..raised /\ remedy.tries \in 0..Tries
      /\ remedy = [alert |-> remedy.alert, at |-> remedy.at, tries |-> remedy.tries,
                   again |-> remedy.again]
      /\ raised \in 0..MaxAlerts /\ remedy.again \in BOOLEAN
  BY TimelineOK DEF TimelineInv
<1>2. remedy.at # "idle" => remedy.alert \in Ids
  BY <1>1, TimelineOK DEF TimelineInv, Ids
<1>3. (mishaps < MaxMishaps /\ mishaps' = mishaps + 1) => mishaps' \in 0..MaxMishaps
  BY TimelineOK DEF TimelineInv
<1>4. CASE Raise
  BY <1>4, TimelineOK DEF Raise, TimelineInv
<1>5. CASE Remedy
  <2>1. PICK a \in (remedy.alert + 1)..raised \union {remedy.alert} :
          /\ a # remedy.alert \/ remedy.again
          /\ remedy' = [alert |-> a, at |-> "verifying", tries |-> 0, again |-> FALSE]
    BY <1>5 DEF Remedy
  <2>2. a \in 0..raised /\ a # 0
    BY <1>1, <2>1 DEF TimelineInv
  <2>3. UNCHANGED <<raised, open, verified, acted, mishaps>>
    BY <1>5 DEF Remedy
  <2>. QED  BY <2>1, <2>2, <2>3, TimelineOK DEF TimelineInv
<1>6. CASE ResolveVerified
  <2>1. /\ remedy.at = "resolving"
        /\ remedy' = [alert |-> remedy.alert, at |-> "recording",
                      tries |-> remedy.tries, again |-> remedy.again]
        /\ open' \subseteq open
        /\ UNCHANGED <<raised, verified, acted, mishaps>>
    BY <1>1, <1>6 DEF ResolveVerified
  <2>. QED  BY <1>1, <2>1 DEF TimelineInv
<1>7. CASE Record
  <2>1. /\ remedy.at = "recording"
        /\ remedy' = [alert |-> remedy.alert, at |-> "idle", tries |-> remedy.tries,
                      again |-> remedy.again]
        /\ acted' = Append(acted, [alert |-> remedy.alert]) \/ acted' = acted
        /\ mishaps' = mishaps \/ (mishaps < MaxMishaps /\ mishaps' = mishaps + 1)
        /\ UNCHANGED <<raised, open, verified>>
    BY <1>1, <1>7 DEF Record, Mishap
  <2>2. acted' \in Seq([alert : Ids])
    <3>1. [alert |-> remedy.alert] \in [alert : Ids] /\ acted \in Seq([alert : Ids])
      BY <1>2, <2>1 DEF TimelineInv
    <3>2. Append(acted, [alert |-> remedy.alert]) \in Seq([alert : Ids])
      BY <3>1
    <3>. QED  BY <2>1, <3>1, <3>2
  <2>. QED  BY <1>1, <1>3, <2>1, <2>2 DEF TimelineInv
<1>8. CASE RuntimeDies
  <2>1. /\ remedy' = [alert |-> remedy.alert, at |-> "idle", tries |-> remedy.tries,
                      again |-> TRUE]
        /\ remedy.alert # 0
        /\ mishaps < MaxMishaps /\ mishaps' = mishaps + 1
        /\ UNCHANGED <<raised, open, verified, acted>>
    BY <1>1, <1>8 DEF RuntimeDies, Mishap
  <2>. QED  BY <1>1, <1>3, <2>1 DEF TimelineInv
<1>11. CASE RemedyFails
  <2>1. /\ remedy.at \in {"verifying", "resolving"}
        /\ remedy' = [alert |-> remedy.alert, at |-> "recording",
                      tries |-> remedy.tries, again |-> remedy.again]
        /\ mishaps < MaxMishaps /\ mishaps' = mishaps + 1
        /\ UNCHANGED <<raised, open, verified, acted>>
    BY <1>1, <1>11 DEF RemedyFails, Mishap
  <2>. QED  BY <1>1, <1>3, <2>1 DEF TimelineInv
<1>9. ASSUME NEW success \in BOOLEAN, Verify(success) PROVE TimelineInv'
  <2> DEFINE next == CASE success -> "resolving"
                       [] ~success /\ remedy.tries + 1 < Tries -> "verifying"
                       [] OTHER -> "recording"
  <2>1. /\ remedy.at = "verifying" /\ remedy.tries < Tries
        /\ remedy' = [alert |-> remedy.alert, at |-> next,
                      tries |-> remedy.tries + 1, again |-> remedy.again]
        /\ verified' = Append(verified, [alert |-> remedy.alert, success |-> success])
        /\ UNCHANGED <<raised, open, acted, mishaps>>
    BY <1>1, <1>9 DEF Verify, TimelineInv
  <2>2. /\ next \in {"resolving", "verifying", "recording"}
        /\ next = "verifying" => remedy.tries + 1 < Tries
    OBVIOUS
  <2>3. verified' \in Seq([alert : Ids, success : BOOLEAN])
    BY <1>2, <2>1 DEF TimelineInv
  <2>4. remedy.tries + 1 \in 0..Tries
    BY <1>1, <2>1, TimelineOK
  <2> HIDE DEF next
  <2>. QED  BY <1>1, <2>1, <2>2, <2>3, <2>4 DEF TimelineInv
<1>10. ASSUME NEW a \in Ids, ResolveByHand(a) PROVE TimelineInv'
  <2>1. /\ open' \subseteq open /\ mishaps < MaxMishaps /\ mishaps' = mishaps + 1
        /\ UNCHANGED <<raised, verified, acted, remedy>>
    BY <1>10 DEF ResolveByHand, Mishap
  <2>. QED  BY <1>3, <2>1 DEF TimelineInv
<1>. QED  BY <1>4, <1>5, <1>6, <1>7, <1>8, <1>9, <1>10, <1>11

\* The request.
LEMMA RequestTyped ==
  ASSUME TimelineInv, UNCHANGED <<raised, open, verified, acted, remedy>>,
         \/ \E of \in SUBSET Keys \ {{}}, limit \in Limits : AskTimeline(of, limit)
         \/ \E l \in Lists : Fetch(l)
         \/ Join
  PROVE  TimelineInv'
<1> DEFINE Shaped(r) == /\ r = [at |-> r.at, of |-> r.of, limit |-> r.limit,
                                got |-> r.got, failed |-> r.failed, rows |-> r.rows]
                        /\ r.at \in {"none", "asking", "answered"}
                        /\ r.of \subseteq Keys /\ DOMAIN r.got \subseteq Lists
                        /\ r.failed \subseteq Lists
<1>1. Shaped(request)
  BY DEF TimelineInv
<1>2. (mishaps < MaxMishaps /\ mishaps' = mishaps + 1) => mishaps' \in 0..MaxMishaps
  BY TimelineOK DEF TimelineInv
<1>3. SUFFICES /\ Shaped(request')
               /\ mishaps' = mishaps \/ (mishaps < MaxMishaps /\ mishaps' = mishaps + 1)
  BY <1>2 DEF TimelineInv
<1>4. ASSUME NEW of \in SUBSET Keys, NEW limit \in Limits, AskTimeline(of, limit)
      PROVE  Shaped(request') /\ mishaps' = mishaps
  <2>1. /\ request' = [at |-> "asking", of |-> of, limit |-> limit, got |-> <<>>,
                       failed |-> {}, rows |-> <<>>]
        /\ mishaps' = mishaps
    BY <1>4 DEF AskTimeline, NoRequest
  <2>2. of \subseteq Keys /\ DOMAIN <<>> = {}
    OBVIOUS
  <2>. QED  BY <2>1, <2>2
<1>5. ASSUME NEW l \in Lists, Fetch(l)
      PROVE  /\ Shaped(request')
             /\ mishaps' = mishaps \/ (mishaps < MaxMishaps /\ mishaps' = mishaps + 1)
  <2>1. ASSUME NEW answer, NEW failed \in SUBSET Lists,
               request' = [at |-> request.at, of |-> request.of,
                           limit |-> request.limit,
                           got |-> AlsoGot(l, answer),
                           failed |-> failed, rows |-> request.rows]
        PROVE  Shaped(request')
    <3>1. DOMAIN AlsoGot(l, answer) = DOMAIN request.got \union {l}
      BY DEF AlsoGot
    <3>2. DOMAIN AlsoGot(l, answer) \subseteq Lists
      BY <1>1, <3>1
    <3>. QED  BY <1>1, <2>1, <3>2
  <2>2. CASE /\ request' = [request EXCEPT !.got = AlsoGot(l, Answer(l))]
             /\ UNCHANGED mishaps
    <3>1. request' = [at |-> request.at, of |-> request.of,
                      limit |-> request.limit,
                      got |-> AlsoGot(l, Answer(l)),
                      failed |-> request.failed, rows |-> request.rows]
      BY <1>1, <2>2
    <3>. QED  BY <1>1, <2>1, <2>2, <3>1
  <2>3. CASE /\ Mishap
             /\ request' = [request EXCEPT !.got = AlsoGot(l, <<>>),
                                           !.failed = @ \union {l}]
    <3>1. request' = [at |-> request.at, of |-> request.of,
                      limit |-> request.limit,
                      got |-> AlsoGot(l, <<>>),
                      failed |-> request.failed \union {l}, rows |-> request.rows]
      BY <1>1, <2>3
    <3>2. request.failed \union {l} \in SUBSET Lists
      BY <1>1
    <3>. QED  BY <2>1, <2>3, <3>1, <3>2 DEF Mishap
  <2>. QED  BY <1>5, <2>2, <2>3 DEF Fetch
<1>6. ASSUME Join PROVE Shaped(request') /\ mishaps' = mishaps
  <2> DEFINE joined == [i \in DOMAIN request.got["alerts"] |->
                          Row(request.got["alerts"][i])]
  <2>1. /\ request' = [request EXCEPT !.at = "answered", !.rows = joined]
        /\ mishaps' = mishaps
    BY <1>6 DEF Join
  <2> HIDE DEF joined
  <2>2. request' = [at |-> "answered", of |-> request.of, limit |-> request.limit,
                    got |-> request.got, failed |-> request.failed,
                    rows |-> joined]
    BY <1>1, <2>1
  <2>. QED  BY <1>1, <2>1, <2>2
<1>. QED  BY <1>4, <1>5, <1>6

LEMMA TimelineStep ==
  ASSUME TimelineInv, TimelineNext
  PROVE  TimelineInv'
<1>1. CASE \/ Raise \/ Remedy \/ ResolveVerified \/ RemedyFails \/ Record
           \/ RuntimeDies
           \/ \E success \in BOOLEAN : Verify(success)
           \/ \E a \in Ids : ResolveByHand(a)
  <2>1. UNCHANGED request
    BY <1>1 DEF Raise, Remedy, ResolveVerified, RemedyFails, Record, RuntimeDies, Verify,
       ResolveByHand
  <2>. QED  BY <1>1, <2>1, ServicesTyped
<1>2. CASE \/ \E of \in SUBSET Keys \ {{}}, limit \in Limits : AskTimeline(of, limit)
           \/ \E l \in Lists : Fetch(l)
           \/ Join
  <2>1. UNCHANGED <<raised, open, verified, acted, remedy>>
    BY <1>2 DEF AskTimeline, Fetch, Join
  <2>. QED  BY <1>2, <2>1, RequestTyped
<1>. QED  BY <1>1, <1>2 DEF TimelineNext

------------------------------------------------------------------------------
(* What the timeline tells.                                                *)

\* Lists only grow.
Longer(t, s) == Len(s) <= Len(t) /\ \A i \in 1..Len(s) : t[i] = s[i]

\* A page of s, which had what is in o before, lacks what is too old for it.
Fair(page, s, o) ==
  /\ \A i \in DOMAIN page : /\ i \in 1..Len(s) /\ page[i] = s[i]
                            /\ KeyOf[s[i].alert] \in request.of
  /\ \A i \in 1..Len(o) :
       KeyOf[o[i].alert] \in request.of =>
         i \in DOMAIN page \/ Cardinality(Newer(s, i)) >= request.limit

\* A page of alerts.
FairAlerts(page) ==
  /\ \A a \in DOMAIN page : /\ a \in 1..raised /\ page[a].alert = a
                            /\ KeyOf[a] \in request.of
                            /\ page[a].resolved \in BOOLEAN
                            /\ page[a].resolved => a \notin open
  /\ \A a \in 1..before.raised :
       KeyOf[a] \in request.of /\ a \notin DOMAIN page =>
         Cardinality({b \in DOMAIN page : b > a}) >= request.limit

\* The lists since the request came.
SinceInv ==
  /\ before.raised \in 0..raised
  /\ before.verified \in Seq([alert : Ids, success : BOOLEAN])
  /\ before.acted \in Seq([alert : Ids])
  /\ Longer(verified, before.verified) /\ Longer(acted, before.acted)

\* What the request has got of them.
GotInv ==
  /\ request.limit \in Nat
  /\ request.at = "none" => DOMAIN request.got = {}
  /\ request.failed \subseteq DOMAIN request.got
  /\ \A l \in DOMAIN request.got :
       IF l \in request.failed THEN request.got[l] = <<>>
       ELSE /\ l = "alerts" => FairAlerts(request.got[l])
            /\ l = "verifications" =>
                 Fair(request.got[l], verified, before.verified)
            /\ l = "actions" => Fair(request.got[l], acted, before.acted)

LEMMA Greatest ==
  ASSUME NEW n \in Nat, NEW S \in SUBSET (1..n), S # {}
  PROVE  \E u \in S : \A v \in S : v <= u
<1> DEFINE D == {n - x : x \in S}
<1>1. D \in SUBSET Nat /\ D # {}
  <2>1. \A x \in S : n - x \in Nat
    OBVIOUS
  <2>. QED  BY <2>1
<1>2. PICK d \in D : \A e \in D : d <= e
  BY <1>1, LeastNumber
<1>3. PICK u \in S : d = n - u
  BY <1>2
<1>4. ASSUME NEW v \in S PROVE v <= u
  <2>1. n - u <= n - v
    BY <1>2, <1>3
  <2>. QED  BY <2>1
<1>. QED  BY <1>4

\* The newer are finitely many, and fewer of the newer.
LEMMA FewerNewer ==
  ASSUME NEW n \in Nat, NEW s, DOMAIN s = 1..n, NEW i \in Int
  PROVE  /\ Newer(s, i) \subseteq 1..n /\ IsFiniteSet(Newer(s, i))
         /\ Cardinality(Newer(s, i)) \in Nat
         /\ \A T \in SUBSET Newer(s, i) :
              Cardinality(T) \in Nat /\ Cardinality(T) <= Cardinality(Newer(s, i))
<1>1. Newer(s, i) \subseteq 1..n
  BY DEF Newer
<1>2. IsFiniteSet(1..n)
  BY FS_Interval
<1>3. IsFiniteSet(Newer(s, i))
  BY <1>1, <1>2, FS_Subset
<1>4. \A T \in SUBSET Newer(s, i) : IsFiniteSet(T) /\
        Cardinality(T) <= Cardinality(Newer(s, i))
  BY <1>3, FS_Subset
<1>. QED  BY <1>1, <1>3, <1>4, FS_CardinalityType

\* What is on a page and what is not.
LEMMA PageFair ==
  ASSUME NEW n \in Nat, NEW s, DOMAIN s = 1..n, request.limit \in Nat
  PROVE  /\ \A i \in DOMAIN Page(s) : /\ i \in 1..n /\ Page(s)[i] = s[i]
                                      /\ KeyOf[s[i].alert] \in request.of
         /\ \A i \in 1..n : KeyOf[s[i].alert] \in request.of =>
              i \in DOMAIN Page(s) \/ Cardinality(Newer(s, i)) >= request.limit
<1>1. \A i \in 1..n : Cardinality(Newer(s, i)) \in Nat
  BY FewerNewer
<1>. QED  BY <1>1 DEF Page

\* A page that leaves out an element is full of newer ones.
LEMMA PageFull ==
  ASSUME NEW n \in Nat, NEW s, DOMAIN s = 1..n, request.limit \in Nat,
         NEW i \in 1..n, KeyOf[s[i].alert] \in request.of, i \notin DOMAIN Page(s)
  PROVE  Cardinality({j \in DOMAIN Page(s) : j > i}) >= request.limit
<1> DEFINE P == {j \in DOMAIN Page(s) : j > i}
           L == Newer(s, i) \ P
<1>1. /\ Newer(s, i) \subseteq 1..n /\ IsFiniteSet(Newer(s, i))
      /\ Cardinality(Newer(s, i)) \in Nat
  BY FewerNewer
<1>2. Cardinality(Newer(s, i)) >= request.limit
  BY PageFair
<1>3. P \subseteq Newer(s, i)
  BY DEF Page, Newer
<1>4. Cardinality(P) \in Nat
  BY <1>3, FewerNewer
<1>5. SUFFICES ASSUME Cardinality(P) < request.limit PROVE FALSE
  BY <1>4
<1>6. L # {}
  <2> HIDE DEF P
  <2>1. Newer(s, i) # P
    BY <1>1, <1>2, <1>4, <1>5
  <2>. QED  BY <1>3, <2>1
<1>7. PICK g \in L : \A j \in L : j <= g
  BY <1>1, <1>6, Greatest
<1>8. g \in 1..n /\ g > i /\ KeyOf[s[g].alert] \in request.of
  BY <1>1, <1>7 DEF Newer
<1>9. Newer(s, g) \subseteq P
  <2> SUFFICES ASSUME NEW j \in Newer(s, g) PROVE j \in P
    OBVIOUS
  <2>1. j \in Newer(s, i) /\ j \in 1..n /\ g < j
    BY <1>8 DEF Newer
  <2>2. j \notin L
    BY <1>7, <1>8, <2>1
  <2>. QED  BY <2>1, <2>2
<1>10. IsFiniteSet(P)
  BY <1>1, <1>3, FS_Subset
<1>11. Cardinality(Newer(s, g)) <= Cardinality(P)
  BY <1>9, <1>10, FS_Subset
<1>12. Cardinality(Newer(s, g)) \in Nat
  BY <1>8, FewerNewer
<1>13. g \in DOMAIN Page(s)
  BY <1>4, <1>5, <1>8, <1>11, <1>12 DEF Page
<1>. QED  BY <1>7, <1>8, <1>13

\* What is too old stays so.
LEMMA NewerGrow ==
  ASSUME NEW R, NEW s \in Seq(R), NEW t \in Seq(R), Longer(t, s), NEW i \in Nat,
         UNCHANGED request
  PROVE  /\ Cardinality(Newer(s, i)) \in Nat /\ Cardinality(Newer(t, i)) \in Nat
         /\ Cardinality(Newer(s, i)) <= Cardinality(Newer(t, i))
<1>1. /\ DOMAIN s = 1..Len(s) /\ DOMAIN t = 1..Len(t)
      /\ Len(s) \in Nat /\ Len(t) \in Nat
  OBVIOUS
<1>2. Newer(s, i) \subseteq Newer(t, i)
  BY <1>1 DEF Newer, Longer
<1>3. i \in Int
  OBVIOUS
<1>4. Cardinality(Newer(s, i)) \in Nat
  BY <1>1, <1>3, FewerNewer
<1>5. /\ Cardinality(Newer(t, i)) \in Nat
      /\ \A T \in SUBSET Newer(t, i) : Cardinality(T) <= Cardinality(Newer(t, i))
  BY <1>1, <1>3, FewerNewer
<1>. QED  BY <1>2, <1>4, <1>5

\* What the services behind the timeline do to the lists.
LEMMA ServicesWrite ==
  ASSUME TimelineInv,
         \/ Raise \/ Remedy \/ ResolveVerified \/ RemedyFails \/ Record
         \/ RuntimeDies
         \/ \E success \in BOOLEAN : Verify(success)
         \/ \E a \in Ids : ResolveByHand(a)
  PROVE  /\ UNCHANGED <<request, before>>
         /\ raised' \in raised..(raised + 1) /\ raised \in Nat
         /\ open' \intersect (1..raised) \subseteq open
         /\ verified \in Seq([alert : Ids, success : BOOLEAN])
         /\ verified' \in Seq([alert : Ids, success : BOOLEAN])
         /\ acted \in Seq([alert : Ids]) /\ acted' \in Seq([alert : Ids])
         /\ Longer(verified', verified) /\ Longer(acted', acted)
<1>1. UNCHANGED <<request, before>>
  BY DEF Raise, Remedy, ResolveVerified, RemedyFails, Record, RuntimeDies, Verify,
     ResolveByHand
<1>2. TimelineInv'
  BY <1>1, ServicesTyped
<1>3. /\ verified \in Seq([alert : Ids, success : BOOLEAN])
      /\ verified' \in Seq([alert : Ids, success : BOOLEAN])
      /\ acted \in Seq([alert : Ids]) /\ acted' \in Seq([alert : Ids])
      /\ raised \in Nat
  BY <1>2, TimelineOK DEF TimelineInv
<1>4. /\ raised' \in raised..(raised + 1)
      /\ open' \intersect (1..raised) \subseteq open
  <2>1. CASE Raise
    BY <1>3, <2>1 DEF Raise
  <2>2. CASE raised' = raised /\ open' \subseteq open
    BY <1>3, <2>2
  <2>3. Raise \/ (raised' = raised /\ open' \subseteq open)
    BY DEF Remedy, ResolveVerified, RemedyFails, Record, RuntimeDies, Verify,
       ResolveByHand
  <2>. QED  BY <2>1, <2>2, <2>3
<1>5. \/ verified' = verified
      \/ \E v : verified' = Append(verified, v)
  BY DEF Raise, Remedy, ResolveVerified, RemedyFails, Record, RuntimeDies, Verify,
     ResolveByHand
<1>6. \/ acted' = acted
      \/ \E v : acted' = Append(acted, v)
  BY DEF Raise, Remedy, ResolveVerified, RemedyFails, Record, RuntimeDies, Verify,
     ResolveByHand
<1>7. \A R : \A s \in Seq(R) : Longer(s, s) /\ \A v : Longer(Append(s, v), s)
  BY DEF Longer
<1>. QED  BY <1>1, <1>3, <1>4, <1>5, <1>6, <1>7

LEMMA LongerStill ==
  ASSUME NEW R, NEW s \in Seq(R), NEW t \in Seq(R), NEW u \in Seq(R),
         Longer(t, s), Longer(u, t)
  PROVE  Longer(u, s)
<1>1. Len(s) \in Nat /\ Len(t) \in Nat /\ Len(u) \in Nat
  OBVIOUS
<1>. QED  BY <1>1 DEF Longer

\* A page stays fair while its list grows.
LEMMA StaysFair ==
  ASSUME NEW R, NEW s \in Seq(R), NEW t \in Seq(R), NEW o \in Seq(R),
         Longer(t, s), Longer(s, o), NEW page, UNCHANGED request,
         request.limit \in Nat, Fair(page, s, o)
  PROVE  /\ \A i \in DOMAIN page : /\ i \in 1..Len(t) /\ page[i] = t[i]
                                   /\ KeyOf[t[i].alert] \in request.of
         /\ \A i \in 1..Len(o) :
              KeyOf[o[i].alert] \in request.of =>
                i \in DOMAIN page \/ Cardinality(Newer(t, i)) >= request.limit
<1>1. Len(s) \in Nat /\ Len(t) \in Nat /\ Len(o) \in Nat
  OBVIOUS
<1>2. \A i \in DOMAIN page : /\ i \in 1..Len(t) /\ page[i] = t[i]
                             /\ KeyOf[t[i].alert] \in request.of
  BY <1>1 DEF Fair, Longer
<1>3. ASSUME NEW i \in 1..Len(o), KeyOf[o[i].alert] \in request.of,
             i \notin DOMAIN page
      PROVE  Cardinality(Newer(t, i)) >= request.limit
  <2>1. Cardinality(Newer(s, i)) >= request.limit
    BY <1>3 DEF Fair
  <2>2. /\ Cardinality(Newer(s, i)) \in Nat /\ Cardinality(Newer(t, i)) \in Nat
        /\ Cardinality(Newer(s, i)) <= Cardinality(Newer(t, i))
    BY NewerGrow
  <2>. QED  BY <2>1, <2>2
<1>. QED  BY <1>2, <1>3

TellInv == SinceInv /\ GotInv /\ TimelineFaithful

LEMMA ServicesTell ==
  ASSUME TimelineInv, SinceInv, GotInv, request.at # "answered",
         \/ Raise \/ Remedy \/ ResolveVerified \/ RemedyFails \/ Record
         \/ RuntimeDies
         \/ \E success \in BOOLEAN : Verify(success)
         \/ \E a \in Ids : ResolveByHand(a)
  PROVE  SinceInv' /\ GotInv' /\ TimelineFaithful'
<1> DEFINE V == [alert : Ids, success : BOOLEAN]
           A == [alert : Ids]
<1>1. /\ UNCHANGED <<request, before>>
      /\ raised' \in raised..(raised + 1) /\ raised \in Nat
      /\ open' \intersect (1..raised) \subseteq open
      /\ verified \in Seq(V) /\ verified' \in Seq(V)
      /\ acted \in Seq(A) /\ acted' \in Seq(A)
      /\ Longer(verified', verified) /\ Longer(acted', acted)
  BY ServicesWrite
<1>2. /\ before.raised \in 0..raised
      /\ before.verified \in Seq(V) /\ before.acted \in Seq(A)
      /\ Longer(verified, before.verified) /\ Longer(acted, before.acted)
  BY DEF SinceInv
<1> HIDE DEF V, A
<1>3. SinceInv'
  <2>1. Longer(verified', before.verified) /\ Longer(acted', before.acted)
    BY <1>1, <1>2, LongerStill
  <2>2. before.raised \in 0..raised'
    BY <1>1, <1>2
  <2>. QED  BY <1>1, <1>2, <2>1, <2>2 DEF SinceInv, V, A, Longer
<1>4. request.limit \in Nat
  BY DEF GotInv
<1>5. ASSUME NEW page, FairAlerts(page) PROVE FairAlerts(page)'
  <2>1. \A a \in DOMAIN page : a \in 1..raised' /\ a \in 1..raised
    BY <1>1, <1>5 DEF FairAlerts
  <2>. QED  BY <1>1, <1>5, <2>1 DEF FairAlerts
<1>6. ASSUME NEW page, Fair(page, verified, before.verified)
      PROVE  Fair(page, verified, before.verified)'
  <2>1. UNCHANGED request
    BY <1>1
  <2>2. /\ \A i \in DOMAIN page : /\ i \in 1..Len(verified') /\ page[i] = verified'[i]
                                   /\ KeyOf[verified'[i].alert] \in request.of
        /\ \A i \in 1..Len(before.verified) :
             KeyOf[before.verified[i].alert] \in request.of =>
               \/ i \in DOMAIN page
               \/ Cardinality(Newer(verified', i)) >= request.limit
    BY <1>1, <1>2, <1>4, <1>6, <2>1, StaysFair
  <2>3. \A i : Newer(verified, i)' = Newer(verified', i)
    BY <2>1 DEF Newer
  <2>. QED  BY <1>1, <2>2, <2>3 DEF Fair
<1>7. ASSUME NEW page, Fair(page, acted, before.acted)
      PROVE  Fair(page, acted, before.acted)'
  <2>1. UNCHANGED request
    BY <1>1
  <2>2. /\ \A i \in DOMAIN page : /\ i \in 1..Len(acted') /\ page[i] = acted'[i]
                                   /\ KeyOf[acted'[i].alert] \in request.of
        /\ \A i \in 1..Len(before.acted) :
             KeyOf[before.acted[i].alert] \in request.of =>
               \/ i \in DOMAIN page
               \/ Cardinality(Newer(acted', i)) >= request.limit
    BY <1>1, <1>2, <1>4, <1>7, <2>1, StaysFair
  <2>3. \A i : Newer(acted, i)' = Newer(acted', i)
    BY <2>1 DEF Newer
  <2>. QED  BY <1>1, <2>2, <2>3 DEF Fair
<1>8. GotInv'
  <2>1. ASSUME NEW l \in DOMAIN request.got
        PROVE  IF l \in request.failed THEN request.got[l] = <<>>
               ELSE /\ l = "alerts" => FairAlerts(request.got[l])'
                    /\ l = "verifications" =>
                         Fair(request.got[l], verified, before.verified)'
                    /\ l = "actions" => Fair(request.got[l], acted, before.acted)'
    <3> DEFINE page == request.got[l]
    <3>1. page' = page
      BY <1>1
    <3>. QED  BY <1>1, <1>5, <1>6, <1>7, <3>1 DEF GotInv
  <2>. QED  BY <1>1, <2>1 DEF GotInv
<1>9. TimelineFaithful'
  BY <1>1 DEF TimelineFaithful
<1>. QED  BY <1>3, <1>8, <1>9

LEMMA FairPage ==
  ASSUME NEW R, NEW s \in Seq(R), NEW o \in Seq(R), Longer(s, o),
         request.limit \in Nat
  PROVE  Fair(Page(s), s, o)
<1>1. Len(s) \in Nat /\ Len(o) \in Nat /\ DOMAIN s = 1..Len(s)
  OBVIOUS
<1>2. /\ \A i \in DOMAIN Page(s) : /\ i \in 1..Len(s) /\ Page(s)[i] = s[i]
                                    /\ KeyOf[s[i].alert] \in request.of
      /\ \A i \in 1..Len(s) : KeyOf[s[i].alert] \in request.of =>
           i \in DOMAIN Page(s) \/ Cardinality(Newer(s, i)) >= request.limit
  BY <1>1, PageFair
<1>3. \A i \in 1..Len(o) : i \in 1..Len(s) /\ o[i] = s[i]
  BY <1>1 DEF Longer
<1>. QED  BY <1>2, <1>3 DEF Fair

\* The request gets one more list, or its failure.
LEMMA FetchTells ==
  ASSUME TimelineInv, SinceInv, GotInv, NEW l \in Lists, Fetch(l)
  PROVE  SinceInv' /\ GotInv' /\ TimelineFaithful'
<1>1. /\ request.at = "asking" /\ l \notin DOMAIN request.got
      /\ UNCHANGED <<raised, open, verified, acted, remedy, before>>
      /\ request = [at |-> request.at, of |-> request.of, limit |-> request.limit,
                    got |-> request.got, failed |-> request.failed,
                    rows |-> request.rows]
  BY DEF Fetch, TimelineInv
<1>2. \/ request' = [request EXCEPT !.got = AlsoGot(l, Answer(l))]
      \/ request' = [request EXCEPT !.got = AlsoGot(l, <<>>),
                                    !.failed = @ \union {l}]
  BY DEF Fetch
<1>3. /\ request'.at = "asking" /\ request'.of = request.of
      /\ request'.limit = request.limit
      /\ \/ request'.got = AlsoGot(l, Answer(l)) /\ request'.failed = request.failed
         \/ request'.got = AlsoGot(l, <<>>) /\ request'.failed = request.failed \union {l}
  BY <1>1, <1>2
<1>4. SinceInv'
  BY <1>1 DEF SinceInv, Longer
<1>5. TimelineFaithful'
  BY <1>3 DEF TimelineFaithful
<1>6. /\ request.limit \in Nat /\ request.failed \subseteq DOMAIN request.got
  BY DEF GotInv
<1>7. \A i : /\ Newer(verified, i)' = Newer(verified, i)
             /\ Newer(acted, i)' = Newer(acted, i)
  BY <1>1, <1>3 DEF Newer
<1>8. /\ Len(verified) \in Nat /\ DOMAIN verified = 1..Len(verified)
       /\ Len(acted) \in Nat /\ DOMAIN acted = 1..Len(acted)
       /\ raised \in Nat
  BY TimelineOK DEF TimelineInv
<1>9. Fair(Page(verified), verified, before.verified)
  BY <1>6, FairPage DEF SinceInv, TimelineInv
<1>10. Fair(Page(acted), acted, before.acted)
  BY <1>6, FairPage DEF SinceInv, TimelineInv
<1>11. FairAlerts(Page(Alerts))
  <2>1. /\ DOMAIN Alerts = 1..raised
        /\ \A a \in 1..raised : /\ Alerts[a].alert = a
                                /\ Alerts[a].resolved \in BOOLEAN
                                /\ Alerts[a].resolved => a \notin open
    BY DEF Alerts
  <2>2. \A a \in DOMAIN Page(Alerts) : /\ a \in 1..raised
                                       /\ Page(Alerts)[a] = Alerts[a]
                                       /\ KeyOf[Alerts[a].alert] \in request.of
    BY <1>6, <1>8, <2>1, PageFair
  <2>3. ASSUME NEW a \in 1..before.raised, KeyOf[a] \in request.of,
               a \notin DOMAIN Page(Alerts)
        PROVE  Cardinality({b \in DOMAIN Page(Alerts) : b > a}) >= request.limit
    <3>1. a \in 1..raised
      BY <1>8 DEF SinceInv
    <3>2. KeyOf[Alerts[a].alert] \in request.of
      BY <2>1, <2>3, <3>1
    <3>. QED  BY <1>6, <1>8, <2>1, <2>3, <3>1, <3>2, PageFull
  <2>. QED  BY <2>1, <2>2, <2>3 DEF FairAlerts
<1>12. /\ l = "alerts" => FairAlerts(Answer(l))
       /\ l = "verifications" => Fair(Answer(l), verified, before.verified)
       /\ l = "actions" => Fair(Answer(l), acted, before.acted)
  BY <1>9, <1>10, <1>11 DEF Answer
<1>13. \A answer : /\ DOMAIN AlsoGot(l, answer) = DOMAIN request.got \union {l}
                   /\ AlsoGot(l, answer)[l] = answer
                   /\ \A k \in DOMAIN request.got :
                        AlsoGot(l, answer)[k] = request.got[k]
  BY <1>1 DEF AlsoGot
<1>14. /\ DOMAIN request'.got = DOMAIN request.got \union {l}
       /\ \A k \in DOMAIN request.got : /\ request'.got[k] = request.got[k]
                                        /\ k \in request'.failed <=> k \in request.failed
       /\ request'.failed \subseteq DOMAIN request.got \union {l}
       /\ IF l \in request'.failed THEN request'.got[l] = <<>>
          ELSE request'.got[l] = Answer(l)
  BY <1>1, <1>3, <1>6, <1>13
<1> DEFINE Good(k) ==
      IF k \in request'.failed THEN request'.got[k] = <<>>
      ELSE /\ k = "alerts" => FairAlerts(request'.got[k])
           /\ k = "verifications" => Fair(request'.got[k], verified, before.verified)
           /\ k = "actions" => Fair(request'.got[k], acted, before.acted)
<1>15. \A k \in DOMAIN request.got : Good(k)
  BY <1>14 DEF GotInv
<1>16. Good(l)
  BY <1>12, <1>14
<1>17. \A k \in DOMAIN request'.got : Good(k)
  BY <1>14, <1>15, <1>16
<1>18. GotInv'
  <2>1. ASSUME NEW k \in DOMAIN request'.got
        PROVE  IF k \in request'.failed THEN request'.got[k] = <<>>
               ELSE /\ k = "alerts" => FairAlerts(request.got[k])'
                    /\ k = "verifications" =>
                         Fair(request.got[k], verified, before.verified)'
                    /\ k = "actions" => Fair(request.got[k], acted, before.acted)'
    <3> DEFINE page == request'.got[k]
    <3>1. /\ FairAlerts(page) => FairAlerts(request.got[k])'
          /\ Fair(page, verified, before.verified) =>
               Fair(request.got[k], verified, before.verified)'
          /\ Fair(page, acted, before.acted) =>
               Fair(request.got[k], acted, before.acted)'
      BY <1>1, <1>3, <1>7 DEF Fair, FairAlerts
    <3>. QED  BY <1>17, <3>1
  <2>. QED  BY <1>3, <1>6, <1>14, <2>1 DEF GotInv
<1>. QED  BY <1>4, <1>5, <1>18

\* The document of an alert: its own newest on the page, or else one akin.
LEMMA PageChosen ==
  ASSUME NEW n \in Nat, NEW page, DOMAIN page \subseteq 1..n, NEW a
  PROVE  /\ Own(page, a) # {} =>
              \E u \in Own(page, a) : /\ \A v \in Own(page, a) : v <= u
                                      /\ Chosen(page, a) = {page[u]}
         /\ Own(page, a) = {} =>
              \A d \in Chosen(page, a) : \E i \in Akin(page, a) : d = page[i]
         /\ page = <<>> => Chosen(page, a) = {}
<1>1. CASE Own(page, a) # {}
  <2>1. Own(page, a) \in SUBSET (1..n)
    BY DEF Own
  <2>2. PICK u \in Own(page, a) : \A v \in Own(page, a) : v <= u
    BY <1>1, <2>1, Greatest
  <2>3. {i \in Own(page, a) : \A j \in Own(page, a) : j <= i} = {u}
    BY <2>1, <2>2
  <2>4. Chosen(page, a) = {page[i] : i \in {u}}
    BY <1>1, <2>3 DEF Chosen
  <2>5. page # <<>>
    BY <1>1 DEF Own
  <2>. QED  BY <1>1, <2>2, <2>4, <2>5
<1>2. CASE Own(page, a) = {}
  BY <1>2 DEF Chosen, Akin
<1>. QED  BY <1>1, <1>2

\* What was known of an alert, and is not crowded out, is on a fair page.
LEMMA SeenKnown ==
  ASSUME NEW R, NEW s \in Seq(R), NEW o \in Seq(R), Longer(s, o), NEW page,
         Fair(page, s, o), request.limit \in Nat, NEW a, KeyOf[a] \in request.of,
         ~CrowdedOut(s, o, a)
  PROVE  \E i \in 1..Len(o) : /\ i \in Own(page, a) /\ s[i].alert = a
                              /\ Cardinality(Newer(s, i)) < request.limit
                              /\ Cardinality(Newer(s, i)) \in Nat
<1>1. DOMAIN o = 1..Len(o) /\ DOMAIN s = 1..Len(s) /\ Len(s) \in Nat
  OBVIOUS
<1>2. PICK i \in Own(o, a) : ~(Cardinality(Newer(s, i)) >= request.limit)
  BY DEF CrowdedOut
<1>3. i \in 1..Len(o) /\ o[i].alert = a
  BY <1>1, <1>2 DEF Own
<1>4. Cardinality(Newer(s, i)) \in Nat
  BY <1>1, <1>3, FewerNewer
<1>5. i \in DOMAIN page
  BY <1>2, <1>3 DEF Fair
<1>6. page[i] = s[i] /\ s[i] = o[i]
  BY <1>3, <1>5 DEF Fair, Longer
<1>. QED  BY <1>2, <1>3, <1>4, <1>5, <1>6 DEF Own

\* The document of an alert on a fair page, and whose it is.
LEMMA ChosenTold ==
  ASSUME NEW R, NEW s \in Seq(R), NEW o, NEW page, Fair(page, s, o), NEW a
  PROVE  /\ Own(page, a) # {} =>
              \E u \in 1..Len(s) : /\ Chosen(page, a) = {s[u]} /\ s[u].alert = a
                                   /\ u \in Own(page, a)
                                   /\ \A v \in Own(page, a) : v <= u
         /\ Own(page, a) = {} =>
              \A d \in Chosen(page, a) :
                \E i \in 1..Len(s) : d = s[i] /\ KeyOf[s[i].alert] = KeyOf[a]
<1>1. DOMAIN page \subseteq 1..Len(s) /\ Len(s) \in Nat
  BY DEF Fair
<1>2. ASSUME Own(page, a) # {}
      PROVE  \E u \in 1..Len(s) : /\ Chosen(page, a) = {s[u]} /\ s[u].alert = a
                                  /\ u \in Own(page, a)
                                  /\ \A v \in Own(page, a) : v <= u
  <2>1. PICK u \in Own(page, a) : /\ \A v \in Own(page, a) : v <= u
                                  /\ Chosen(page, a) = {page[u]}
    BY <1>1, <1>2, PageChosen
  <2>2. u \in DOMAIN page /\ page[u].alert = a
    BY <2>1 DEF Own
  <2>3. u \in 1..Len(s) /\ page[u] = s[u]
    BY <2>2 DEF Fair
  <2>. QED  BY <2>1, <2>2, <2>3
<1>3. ASSUME Own(page, a) = {}, NEW d \in Chosen(page, a)
      PROVE  \E i \in 1..Len(s) : d = s[i] /\ KeyOf[s[i].alert] = KeyOf[a]
  <2>1. PICK i \in Akin(page, a) : d = page[i]
    BY <1>1, <1>3, PageChosen
  <2>2. i \in DOMAIN page /\ KeyOf[page[i].alert] = KeyOf[a]
    BY <2>1 DEF Akin
  <2>. QED  BY <2>1, <2>2 DEF Fair
<1>. QED  BY <1>2, <1>3

\* What a row of the answer says of its alert.
RowTold(a, row) ==
  /\ row.status = "RESOLVED" => a \notin open \/ Told(a, TRUE)
  /\ row.status = "FAILED_REMEDIATION" => Told(a, FALSE)
  /\ row.status = "IN_PROGRESS" =>
       \/ "verifications" \in request.failed
       \/ CrowdedOut(verified, before.verified, a)
  /\ \/ row.acted \/ "actions" \in request.failed
     \/ CrowdedOut(acted, before.acted, a)

\* The document chosen on a fair page is not older than any known one of its
\* alert, or is a borrowed one, if those are crowded out.
LEMMA ChosenNewest ==
  ASSUME NEW R, NEW s \in Seq(R), NEW o \in Seq(R), Longer(s, o), NEW page,
         Fair(page, s, o), request.limit \in Nat, NEW a, KeyOf[a] \in request.of,
         NEW d \in Chosen(page, a)
  PROVE  \E i \in 1..Len(s) :
           /\ d = s[i]
           /\ \/ s[i].alert = a /\ \A k \in Own(o, a) : k <= i
              \/ CrowdedOut(s, o, a) /\ KeyOf[s[i].alert] = KeyOf[a]
<1>1. /\ DOMAIN o = 1..Len(o) /\ DOMAIN s = 1..Len(s)
      /\ Len(s) \in Nat /\ Len(o) \in Nat
  OBVIOUS
<1>2. CASE Own(page, a) = {}
  <2>1. PICK i \in 1..Len(s) : d = s[i] /\ KeyOf[s[i].alert] = KeyOf[a]
    BY <1>2, ChosenTold, SMTT(30)
  <2>2. CrowdedOut(s, o, a)
    BY <1>2, SeenKnown, SMTT(30)
  <2>. QED  BY <2>1, <2>2
<1>3. CASE Own(page, a) # {}
  <2>1. PICK u \in 1..Len(s) : /\ Chosen(page, a) = {s[u]} /\ s[u].alert = a
                               /\ u \in Own(page, a)
                               /\ \A v \in Own(page, a) : v <= u
    BY <1>3, ChosenTold, SMTT(30)
  <2>2. ASSUME NEW k \in Own(o, a), ~(k <= u) PROVE CrowdedOut(s, o, a)
    <3>1. k \in 1..Len(o) /\ o[k].alert = a /\ s[k] = o[k] /\ k \in 1..Len(s)
      BY <1>1 DEF Own, Longer
    <3>2. k \notin Own(page, a)
      BY <2>1, <2>2
    <3>3. k \notin DOMAIN page
      BY <3>1, <3>2 DEF Fair, Own
    <3>4. Cardinality(Newer(s, k)) >= request.limit
      BY <3>1, <3>3 DEF Fair
    <3>5. ASSUME NEW i \in Own(o, a) PROVE Cardinality(Newer(s, i)) >= request.limit
      <4>1. i \in 1..Len(o) /\ o[i].alert = a /\ s[i] = o[i] /\ i \in 1..Len(s)
        BY <1>1 DEF Own, Longer
      <4>2. CASE i <= k
        <5>1. Newer(s, k) \subseteq Newer(s, i)
          BY <1>1, <3>1, <4>1, <4>2 DEF Newer
        <5>2. /\ Cardinality(Newer(s, i)) \in Nat
              /\ \A T \in SUBSET Newer(s, i) : Cardinality(T) <= Cardinality(Newer(s, i))
              /\ Cardinality(Newer(s, k)) \in Nat
          BY <1>1, <3>1, <4>1, FewerNewer
        <5>. QED  BY <3>4, <5>1, <5>2
      <4>3. CASE ~(i <= k)
        <5>1. ~(i <= u)
          BY <2>2, <3>1, <4>1, <4>3
        <5>2. i \notin Own(page, a)
          BY <2>1, <5>1
        <5>3. i \notin DOMAIN page
          BY <4>1, <5>2 DEF Fair, Own
        <5>. QED  BY <4>1, <5>3 DEF Fair
      <4>. QED  BY <4>2, <4>3
    <3>. QED  BY <3>5 DEF CrowdedOut
  <2>3. d = s[u]
    BY <2>1
  <2>. QED  BY <2>1, <2>2, <2>3
<1>. QED  BY <1>2, <1>3

LEMMA RowsTell ==
  ASSUME TimelineInv, SinceInv, GotInv, DOMAIN request.got = Lists,
         NEW a \in DOMAIN request.got["alerts"]
  PROVE  RowTold(a, Row(request.got["alerts"][a]))
<1> DEFINE doc == request.got["alerts"][a]
           V == request.got["verifications"]
           A == request.got["actions"]
           row == Row(doc)
           D == [alert : Ids, success : BOOLEAN]
<1>1. /\ "verifications" \in DOMAIN request.got /\ "actions" \in DOMAIN request.got
      /\ "alerts" \in DOMAIN request.got
  BY DEF Lists
<1>2. /\ doc.alert = a /\ KeyOf[a] \in request.of
      /\ doc.resolved => a \notin open
  <2>1. "alerts" \notin request.failed
    BY <1>1 DEF GotInv
  <2>. QED  BY <1>1, <2>1 DEF GotInv, FairAlerts
<1>3. /\ IF "verifications" \in request.failed THEN V = <<>>
         ELSE Fair(V, verified, before.verified)
      /\ IF "actions" \in request.failed THEN A = <<>>
         ELSE Fair(A, acted, before.acted)
      /\ request.limit \in Nat
  BY <1>1 DEF GotInv
<1>4. /\ verified \in Seq(D) /\ before.verified \in Seq(D)
      /\ acted \in Seq([alert : Ids]) /\ before.acted \in Seq([alert : Ids])
      /\ Longer(verified, before.verified) /\ Longer(acted, before.acted)
  BY DEF TimelineInv, SinceInv
<1>5. /\ row.status = Status(doc.resolved, Chosen(V, a))
      /\ row.acted = (Chosen(A, a) # {})
  BY <1>2 DEF Row
<1>6. \A i \in 1..Len(verified) : verified[i] \in D
  BY <1>4, ElementOfSeq
<1>7. DOMAIN verified = 1..Len(verified)
  BY <1>4
<1> HIDE DEF doc, V, A, row, D
<1>8. ASSUME NEW d \in Chosen(V, a)
      PROVE  d.success \in BOOLEAN /\ Told(a, d.success)
  <2>1. "verifications" \notin request.failed
    <3>1. V = <<>> => Chosen(V, a) = {}
      <4>1. <<>> = V => DOMAIN V \subseteq 1..0
        OBVIOUS
      <4>. QED  BY <4>1, PageChosen
    <3>. QED  BY <1>3, <1>8, <3>1
  <2>2. Fair(V, verified, before.verified)
    BY <1>3, <2>1
  <2>3. PICK i \in 1..Len(verified) :
          /\ d = verified[i]
          /\ \/ verified[i].alert = a /\ \A k \in Own(before.verified, a) : k <= i
             \/ /\ CrowdedOut(verified, before.verified, a)
                /\ KeyOf[verified[i].alert] = KeyOf[a]
    BY <1>2, <1>3, <1>4, <2>2, ChosenNewest
  <2>4. d.success \in BOOLEAN
    BY <1>6, <2>3 DEF D
  <2>. QED  BY <1>7, <2>3, <2>4 DEF Told
<1>9. row.status = "RESOLVED" => a \notin open \/ Told(a, TRUE)
  <2> SUFFICES ASSUME row.status = "RESOLVED", a \in open PROVE Told(a, TRUE)
    OBVIOUS
  <2>1. PICK d \in Chosen(V, a) : d.success
    BY <1>2, <1>5 DEF Status
  <2>2. d.success = TRUE
    BY <1>8, <2>1
  <2>. QED  BY <1>8, <2>2
<1>10. row.status = "FAILED_REMEDIATION" => Told(a, FALSE)
  <2> SUFFICES ASSUME row.status = "FAILED_REMEDIATION" PROVE Told(a, FALSE)
    OBVIOUS
  <2>1. PICK d \in Chosen(V, a) : ~d.success
    BY <1>5 DEF Status
  <2>2. d.success = FALSE
    BY <1>8, <2>1
  <2>. QED  BY <1>8, <2>2
<1>11. row.status = "IN_PROGRESS" =>
         \/ "verifications" \in request.failed
         \/ CrowdedOut(verified, before.verified, a)
  <2> SUFFICES ASSUME row.status = "IN_PROGRESS",
                      "verifications" \notin request.failed,
                      ~CrowdedOut(verified, before.verified, a)
               PROVE  FALSE
    OBVIOUS
  <2>1. Fair(V, verified, before.verified)
    BY <1>3
  <2>2. Own(V, a) # {}
    BY <1>2, <1>3, <1>4, <2>1, SeenKnown
  <2>3. verified \in Seq(D)
    BY <1>4
  <2>4. \E u \in 1..Len(verified) : Chosen(V, a) = {verified[u]}
    BY <2>1, <2>2, <2>3, ChosenTold, SMTT(30)
  <2>. QED  BY <1>5, <2>4 DEF Status
<1>12. row.acted \/ "actions" \in request.failed \/ CrowdedOut(acted, before.acted, a)
  <2> SUFFICES ASSUME "actions" \notin request.failed,
                      ~CrowdedOut(acted, before.acted, a)
               PROVE  row.acted
    OBVIOUS
  <2>1. Fair(A, acted, before.acted)
    BY <1>3
  <2>2. Own(A, a) # {}
    BY <1>2, <1>3, <1>4, <2>1, SeenKnown
  <2>3. acted \in Seq([alert : Ids])
    BY <1>4
  <2>4. \E u \in 1..Len(acted) : Chosen(A, a) = {acted[u]}
    BY <2>1, <2>2, <2>3, ChosenTold, SMTT(30)
  <2>. QED  BY <1>5, <2>4
<1>. QED  BY <1>9, <1>10, <1>11, <1>12 DEF RowTold, row, doc

\* The lists joined, and what the alerts that have no row are left out for.
LEMMA JoinTells ==
  ASSUME TimelineInv, SinceInv, GotInv, Join
  PROVE  SinceInv' /\ GotInv' /\ TimelineFaithful'
<1> DEFINE told == DOMAIN request.got["alerts"]
<1>1. /\ DOMAIN request.got = Lists
      /\ UNCHANGED <<raised, open, verified, acted, remedy, before>>
      /\ request = [at |-> request.at, of |-> request.of, limit |-> request.limit,
                    got |-> request.got, failed |-> request.failed,
                    rows |-> request.rows]
      /\ request' = [request EXCEPT !.at = "answered",
            !.rows = [a \in told |-> Row(request.got["alerts"][a])]]
  BY DEF Join, TimelineInv
<1>2. /\ request'.at = "answered" /\ request'.of = request.of
      /\ request'.limit = request.limit /\ request'.got = request.got
      /\ request'.failed = request.failed
      /\ request'.rows = [a \in told |-> Row(request.got["alerts"][a])]
  BY <1>1
<1>3. SinceInv'
  BY <1>1 DEF SinceInv, Longer
<1>4. \A i : /\ Newer(verified, i)' = Newer(verified, i)
             /\ Newer(acted, i)' = Newer(acted, i)
  BY <1>1, <1>2 DEF Newer
<1>5. GotInv'
  <2>1. ASSUME NEW l \in DOMAIN request.got
        PROVE  /\ FairAlerts(request.got[l])' = FairAlerts(request.got[l])
               /\ Fair(request.got[l], verified, before.verified)' =
                    Fair(request.got[l], verified, before.verified)
               /\ Fair(request.got[l], acted, before.acted)' =
                    Fair(request.got[l], acted, before.acted)
    BY <1>1, <1>2, <1>4 DEF Fair, FairAlerts
  <2>. QED  BY <1>2, <2>1 DEF GotInv
<1>6. \A a : /\ CrowdedOut(verified, before.verified, a)' =
                  CrowdedOut(verified, before.verified, a)
             /\ CrowdedOut(acted, before.acted, a)' = CrowdedOut(acted, before.acted, a)
             /\ \A success : Told(a, success)' = Told(a, success)
  BY <1>1, <1>2, <1>4 DEF CrowdedOut, Own, Told
<1>7. ASSUME NEW a \in told PROVE RowTold(a, request.rows[a])'
  <2>1. RowTold(a, Row(request.got["alerts"][a]))
    BY <1>1, <1>7, RowsTell
  <2>2. request'.rows[a] = Row(request.got["alerts"][a])
    BY <1>2, <1>7
  <2>3. RowTold(a, request'.rows[a])
    BY <2>1, <2>2
  <2>. QED  BY <1>1, <1>2, <1>6, <2>3 DEF RowTold
<1>8. ASSUME NEW a \in 1..before.raised, KeyOf[a] \in request.of, a \notin told,
             "alerts" \notin request.failed
      PROVE  Cardinality({b \in told : b > a}) >= request.limit
  <2>1. "alerts" \in DOMAIN request.got
    BY <1>1 DEF Lists
  <2>2. FairAlerts(request.got["alerts"])
    BY <1>8, <2>1 DEF GotInv
  <2>. QED  BY <1>8, <2>2 DEF FairAlerts
<1>9. DOMAIN request'.rows = told
  BY <1>2
<1>10. TimelineFaithful'
  BY <1>1, <1>2, <1>7, <1>8, <1>9 DEF TimelineFaithful, RowTold
<1>. QED  BY <1>3, <1>5, <1>10

\* The request comes.
LEMMA AskTells ==
  ASSUME TimelineInv, GotInv, NEW of \in SUBSET Keys, NEW limit \in Limits,
         AskTimeline(of, limit)
  PROVE  SinceInv' /\ GotInv' /\ TimelineFaithful'
<1>1. /\ UNCHANGED <<raised, open, verified, acted>>
      /\ before' = [raised |-> raised, verified |-> verified, acted |-> acted]
      /\ request' = [NoRequest EXCEPT !.at = "asking", !.of = of, !.limit = limit]
  BY DEF AskTimeline
<1>2. NoRequest = [at |-> "none", of |-> {}, limit |-> 1, got |-> <<>>,
                   failed |-> {}, rows |-> <<>>]
  BY DEF NoRequest
<1>3. /\ request'.at = "asking" /\ request'.got = <<>> /\ request'.failed = {}
      /\ request'.limit = limit
  BY <1>1, <1>2
<1>4. limit \in Nat
  BY TimelineOK
<1>5. /\ raised \in Nat /\ verified \in Seq([alert : Ids, success : BOOLEAN])
      /\ acted \in Seq([alert : Ids])
  BY TimelineOK DEF TimelineInv
<1>6. /\ before'.raised = raised /\ before'.verified = verified
      /\ before'.acted = acted
  BY <1>1
<1>7. Longer(verified, verified) /\ Longer(acted, acted)
  BY <1>5 DEF Longer
<1>8. SinceInv'
  BY <1>1, <1>5, <1>6, <1>7 DEF SinceInv, Longer
<1>9. DOMAIN request'.got = {}
  BY <1>3
<1>10. GotInv'
  BY <1>3, <1>4, <1>9 DEF GotInv
<1>. QED  BY <1>3, <1>8, <1>10 DEF TimelineFaithful

LEMMA TellStep ==
  ASSUME TimelineInv, TellInv, TimelineNext
  PROVE  TellInv'
<1>1. /\ SinceInv /\ GotInv /\ request.at # "answered"
  BY DEF TellInv, TimelineNext
<1>3. CASE \/ Raise \/ Remedy \/ ResolveVerified \/ RemedyFails \/ Record
           \/ RuntimeDies
           \/ \E success \in BOOLEAN : Verify(success)
           \/ \E a \in Ids : ResolveByHand(a)
  BY <1>1, <1>3, ServicesTell DEF TellInv
<1>4. ASSUME NEW of \in SUBSET Keys, NEW limit \in Limits, AskTimeline(of, limit)
      PROVE  TellInv'
  BY <1>1, <1>4, AskTells DEF TellInv
<1>5. ASSUME NEW l \in Lists, Fetch(l) PROVE TellInv'
  BY <1>1, <1>5, FetchTells DEF TellInv
<1>6. CASE Join
  BY <1>1, <1>6, JoinTells DEF TellInv
<1>. QED  BY <1>3, <1>4, <1>5, <1>6 DEF TimelineNext

LEMMA TellStands ==
  ASSUME TellInv, UNCHANGED timelinevars
  PROVE  TellInv'
<1>1. UNCHANGED <<raised, open, verified, acted, remedy, request, before>>
  BY DEF timelinevars
<1>2. \A i : /\ Newer(verified, i)' = Newer(verified, i)
             /\ Newer(acted, i)' = Newer(acted, i)
  BY <1>1 DEF Newer
<1>3. SinceInv'
  BY <1>1 DEF TellInv, SinceInv, Longer
<1>4. ASSUME NEW l \in DOMAIN request.got
      PROVE  /\ FairAlerts(request.got[l])' = FairAlerts(request.got[l])
             /\ Fair(request.got[l], verified, before.verified)' =
                  Fair(request.got[l], verified, before.verified)
             /\ Fair(request.got[l], acted, before.acted)' =
                  Fair(request.got[l], acted, before.acted)
  BY <1>1, <1>2 DEF Fair, FairAlerts
<1>5. GotInv'
  BY <1>1, <1>4 DEF TellInv, GotInv
<1>6. \A a : /\ CrowdedOut(verified, before.verified, a)' =
                  CrowdedOut(verified, before.verified, a)
             /\ CrowdedOut(acted, before.acted, a)' = CrowdedOut(acted, before.acted, a)
  BY <1>1, <1>2 DEF CrowdedOut, Own
<1>7. \A a, success : Told(a, success)' = Told(a, success)
  BY <1>1, <1>6 DEF Told, Own
<1>8. TimelineFaithful'
  BY <1>1, <1>6, <1>7 DEF TellInv, TimelineFaithful
<1>. QED  BY <1>3, <1>5, <1>8 DEF TellInv

LEMMA TellBegins ==
  ASSUME TimelineInit
  PROVE  TellInv
<1>1. /\ raised = 0 /\ verified = <<>> /\ acted = <<>>
      /\ remedy.at = "idle"
      /\ request = [at |-> "none", of |-> {}, limit |-> 1, got |-> <<>>,
                    failed |-> {}, rows |-> <<>>]
      /\ before = [raised |-> 0, verified |-> <<>>, acted |-> <<>>]
  BY DEF TimelineInit, Free, NoRequest
<1>2. /\ Len(verified) = 0 /\ Len(acted) = 0 /\ DOMAIN request.got = {}
      /\ \A R : <<>> \in Seq(R)
  BY <1>1
<1>3. 1..0 = {}
  OBVIOUS
<1>5. SinceInv
  BY <1>1, <1>2, <1>3 DEF SinceInv, Longer
<1>6. GotInv
  BY <1>1, <1>2 DEF GotInv
<1>. QED  BY <1>1, <1>5, <1>6 DEF TellInv, TimelineFaithful

------------------------------------------------------------------------------
(* The whole.                                                              *)

TelemetryInv ==
  /\ SimInv /\ ReadInv /\ FoundInv /\ AdapterInv /\ StreamInv /\ TimelineInv
  /\ TellInv /\ Exposed(scraped)

LEMMA SimStands ==
  ASSUME SimInv, ReadInv, FoundInv, UNCHANGED simvars
  PROVE  SimInv' /\ ReadInv' /\ FoundInv'
<1>1. UNCHANGED <<rackOf, standing, graph, reading, ticking, metrics, touched,
                  missed, upsets>>
  BY DEF simvars
<1>2. SimInv'
  BY <1>1 DEF SimInv
<1>3. ReadInv'
  BY <1>1 DEF ReadInv, HasDevices, HasRacks
<1>4. FoundInv'
  BY <1>1 DEF FoundInv
<1>. QED  BY <1>2, <1>3, <1>4

LEMMA AdapterStands ==
  ASSUME AdapterInv, UNCHANGED adaptervars
  PROVE  AdapterInv'
<1>1. UNCHANGED <<round, rows, left, cache, index, lapses>>
  BY DEF adaptervars
<1>2. RackPowerCounted'
  BY <1>1 DEF AdapterInv, RackPowerCounted, In, Shown
<1>3. AdapterTypeOK'
  BY <1>1 DEF AdapterInv, AdapterTypeOK
<1>4. /\ (\A q \in Queries : rows[q] = None \/ Exposed(rows[q]))'
      /\ (round \in {"entities", "racks"} => \A q \in Queries : Exposed(rows[q]))'
  BY <1>1 DEF AdapterInv
<1>5. /\ rows' = [q \in Queries |-> rows'[q]]
      /\ cache' = [e \in Entities |-> cache'[e]]
  BY <1>1 DEF AdapterInv
<1>. QED  BY <1>2, <1>3, <1>4, <1>5 DEF AdapterInv

LEMMA TimelineStands ==
  ASSUME TimelineInv, UNCHANGED timelinevars
  PROVE  TimelineInv'
BY DEF timelinevars, TimelineInv

\* The simulation begins with nothing but an inventory.
LEMMA SimBegins ==
  ASSUME SimulationInit,
         rackOf \in [Devices -> Racks \union {None}], standing \subseteq Racks
  PROVE  SimInv /\ ReadInv /\ FoundInv
<1>1. /\ graph = NoGraph /\ reading = Core /\ ticking = FALSE
      /\ metrics = Nothing /\ upsets = 0
  BY DEF SimulationInit
<1>2. /\ graph.at = <<>> /\ graph.racks = {} /\ graph.due.in = {}
      /\ graph.due.out = {} /\ graph.capacity = CapacityOf({})
      /\ graph.due.capacity = CapacityOf({})
  BY <1>1 DEF NoGraph
<1>3. reading = [at |-> "core", devices |-> None, racks |-> None, halls |-> {},
                 left |-> {}]
  BY <1>1 DEF Core, Idle
<1>4. Housed(graph)
  BY <1>2 DEF Housed
<1>5. SimInv
  <2>1. /\ reading.at = "core" /\ reading.devices = None /\ reading.racks = None
        /\ reading.halls = {} /\ reading.left = {}
    BY <1>3
  <2>2. reading = [at |-> reading.at, devices |-> reading.devices,
                   racks |-> reading.racks, halls |-> reading.halls,
                   left |-> reading.left]
    BY <1>3
  <2>3. Exposed(metrics) /\ ticking \in BOOLEAN
    BY <1>1, NothingExposed, Zenon
  <2>4. upsets \in 0..MaxUpsets
    BY <1>1, SimulationOK
  <2>. QED  BY <1>4, <2>1, <2>2, <2>3, <2>4 DEF SimInv
<1>6. ReadInv
  BY <1>3 DEF ReadInv, HasDevices, HasRacks
<1>7. \A f \in Facilities : CapacityOf({})[f] >= CapacityOf({})[f]
  BY CapacityGrows
<1>8. FoundInv
  BY <1>2, <1>7 DEF FoundInv
<1>. QED  BY <1>5, <1>6, <1>8

LEMMA AdapterBegins ==
  ASSUME AdapterInit
  PROVE  AdapterInv
BY AdapterOK DEF AdapterInit, AdapterInv, AdapterTypeOK, RackPowerCounted, Unasked,
   Entities

LEMMA TimelineBegins ==
  ASSUME TimelineInit
  PROVE  TimelineInv
<1>1. /\ raised = 0 /\ open = {} /\ verified = <<>> /\ acted = <<>>
      /\ remedy = [alert |-> 0, at |-> "idle", tries |-> 0, again |-> FALSE]
      /\ request = [at |-> "none", of |-> {}, limit |-> 1, got |-> <<>>,
                    failed |-> {}, rows |-> <<>>]
      /\ mishaps = 0
  BY DEF TimelineInit, Free, NoRequest
<1>2. verified \in Seq([alert : Ids, success : BOOLEAN]) /\ acted \in Seq([alert : Ids])
  BY <1>1, EmptySeq
<1>3. remedy \in [alert : 0..raised, tries : 0..Tries, again : BOOLEAN,
                  at : {"idle", "verifying", "resolving", "recording"}]
  BY <1>1, TimelineOK
<1>4. request.got = <<>> /\ DOMAIN <<>> = {}
  BY <1>1
<1>. QED  BY <1>1, <1>2, <1>3, <1>4, TimelineOK DEF TimelineInv

LEMMA TelemetryBegins ==
  ASSUME TelemetryInit
  PROVE  TelemetryInv
<1>1. rackOf \in [Devices -> Racks \union {None}] /\ standing \subseteq Racks
  BY TelemetryOK DEF TelemetryInit
<1>2. /\ SimulationInit /\ AdapterInit /\ StreamInit /\ TimelineInit
      /\ scraped = Nothing
  BY DEF TelemetryInit
<1>. QED
  BY <1>1, <1>2, SimBegins, AdapterBegins, StreamInitInv, TimelineBegins,
     TellBegins, NothingExposed
  DEF TelemetryInv

LEMMA TelemetryStep ==
  ASSUME TelemetryInv, [TelemetryNext]_telemetryvars
  PROVE  TelemetryInv'
<1>1. /\ SimInv /\ ReadInv /\ FoundInv /\ AdapterInv /\ StreamInv /\ TimelineInv
      /\ TellInv /\ Exposed(scraped) /\ Exposed(metrics)
  BY DEF TelemetryInv, SimInv
<1>2. ASSUME SimulationNext, Beside PROVE TelemetryInv'
  <2>1. SimInv' /\ ReadInv' /\ FoundInv'
    BY <1>1, <1>2, SimStep, ReadInvStep, FoundStep
  <2>2. /\ UNCHANGED adaptervars /\ UNCHANGED streamvars /\ UNCHANGED timelinevars
        /\ UNCHANGED scraped
    BY <1>2 DEF Beside
  <2>. QED
    BY <1>1, <2>1, <2>2, AdapterStands, StreamStep, TimelineStands, TellStands
    DEF TelemetryInv
<1>3. ASSUME \/ \E q \in Queries : Ask(q, scraped)
             \/ Store \/ AdapterRest \/ \E e \in Entities : Expire(e),
             Apart
      PROVE  TelemetryInv'
  <2>1. AdapterInv'
    BY <1>1, <1>3, AskKeeps, StoreKeeps, RestKeeps, ExpireKeeps
  <2>2. /\ UNCHANGED simvars /\ UNCHANGED streamvars /\ UNCHANGED timelinevars
        /\ UNCHANGED scraped
    BY <1>3 DEF Apart
  <2>. QED
    BY <1>1, <2>1, <2>2, SimStands, StreamStep, TimelineStands, TellStands
    DEF TelemetryInv
<1>4. CASE Stream
  <2>1. /\ UNCHANGED simvars /\ UNCHANGED adaptervars /\ UNCHANGED timelinevars
        /\ UNCHANGED scraped
    BY <1>4 DEF Stream
  <2>. QED
    BY <1>1, <1>4, <2>1, SimStands, AdapterStands, StreamKeeps, TimelineStands,
       TellStands
    DEF TelemetryInv
<1>5. CASE ShowTimeline
  <2>1. /\ UNCHANGED simvars /\ UNCHANGED adaptervars /\ UNCHANGED streamvars
        /\ UNCHANGED scraped /\ TimelineNext
    BY <1>5 DEF ShowTimeline
  <2>. QED
    BY <1>1, <2>1, SimStands, AdapterStands, StreamStep, TimelineStep, TellStep
    DEF TelemetryInv
<1>6. CASE Scrape \/ UNCHANGED telemetryvars
  <2>1. /\ UNCHANGED simvars /\ UNCHANGED adaptervars /\ UNCHANGED streamvars
        /\ UNCHANGED timelinevars /\ (scraped' = scraped \/ scraped' = metrics)
    BY <1>6 DEF Scrape, telemetryvars
  <2>2. Exposed(scraped)'
    BY <1>1, <2>1
  <2>. QED
    BY <1>1, <2>1, <2>2, SimStands, AdapterStands, StreamStep, TimelineStands,
       TellStands
    DEF TelemetryInv
<1>7. CASE Refresh \/ ReadOn \/ TickOn \/ Disturb
  <2>1. SimulationNext /\ Beside
    BY <1>7 DEF Refresh, ReadOn, TickOn, Disturb, SimulationNext
  <2>. QED  BY <1>2, <2>1
<1>8. CASE AskPrometheus \/ StoreOn \/ AdapterFails \/ \E e \in Entities : ExpireOn(e)
  <2>1. /\ \/ \E q \in Queries : Ask(q, scraped)
           \/ Store \/ AdapterRest \/ \E e \in Entities : Expire(e)
        /\ Apart
    BY <1>8 DEF AskPrometheus, StoreOn, AdapterFails, ExpireOn
  <2>. QED  BY <1>3, <2>1
<1>. QED  BY <1>4, <1>5, <1>6, <1>7, <1>8 DEF TelemetryNext

LEMMA TelemetryInvariant == TelemetrySpec => []TelemetryInv
<1>1. TelemetryInit => TelemetryInv
  BY TelemetryBegins
<1>2. TelemetryInv /\ [TelemetryNext]_telemetryvars => TelemetryInv'
  BY TelemetryStep
<1>. QED  BY <1>1, <1>2, PTL DEF TelemetrySpec

------------------------------------------------------------------------------
(* The theorems.                                                           *)

LEMMA SimTyped ==
  ASSUME SimInv
  PROVE  SimulationTypeOK
<1>1. Range(graph.at) \subseteq graph.racks
  BY DEF SimInv, Housed, Range
<1>2. /\ Shown(metrics) \subseteq Devices /\ DOMAIN metrics.kw = Shown(metrics)
      /\ Range(metrics.at) \subseteq DOMAIN metrics.racks
      /\ DOMAIN metrics.racks \subseteq Racks
  BY DEF SimInv, Exposed, Range, Shown
<1>. QED  BY <1>1, <1>2 DEF SimInv, Housed, SimulationTypeOK

LEMMA TimelineTyped ==
  ASSUME TimelineInv
  PROVE  TimelineTypeOK
<1>1. /\ \A i \in DOMAIN verified : verified[i] \in [alert : Ids, success : BOOLEAN]
      /\ \A i \in DOMAIN acted : acted[i] \in [alert : Ids]
  <2>1. /\ verified \in Seq([alert : Ids, success : BOOLEAN])
        /\ acted \in Seq([alert : Ids])
    BY DEF TimelineInv
  <2>2. DOMAIN verified = 1..Len(verified) /\ DOMAIN acted = 1..Len(acted)
    BY <2>1
  <2>. QED  BY <2>1, <2>2, ElementOfSeq
<1>. QED  BY <1>1 DEF TimelineInv, TimelineTypeOK

\* The types of the simulation, the adapter, the stream and the timeline; every
\* device /metrics shows, and Prometheus had from it, is one of a rack it shows.
THEOREM TelemetryTypeCorrect == TelemetrySpec => []TypeOK
<1>1. TelemetryInv => TypeOK
  BY SimTyped, StreamTyped, TimelineTyped DEF TelemetryInv, AdapterInv, TypeOK, Exposed
<1>. QED  BY <1>1, TelemetryInvariant, PTL

\* Whatever changed, failed or crashed while _refresh_graph read the inventory,
\* the graph has every device that stood all the while in a standing rack, none
\* that did not, and the capacity of their halls; and what _tick makes of it
\* adds up: the racks to their devices, the facilities to their racks.
THEOREM GraphStaysWhole == TelemetrySpec => []GraphIsWhole
<1>1. TelemetryInv => GraphIsWhole
  <2> SUFFICES ASSUME TelemetryInv PROVE GraphIsWhole
    OBVIOUS
  <2>1. Exposed(metrics) /\ FoundInv
    BY DEF TelemetryInv, SimInv
  <2>. QED  BY <2>1, ExposedAddsUp DEF FoundInv, GraphIsWhole
<1>. QED  BY <1>1, TelemetryInvariant, PTL

\* Whichever of its queries failed, and wherever its rounds were cut off,
\* infra-metrics-adapter caches a rack's power as what its devices draw, or
\* twice that, when the queries were answered from one scrape.
THEOREM RackPowerStaysCounted == TelemetrySpec => []RackPowerCounted
<1>1. TelemetryInv => RackPowerCounted
  BY DEF TelemetryInv, AdapterInv
<1>. QED  BY <1>1, TelemetryInvariant, PTL

\* With Prometheus and the simulation behind it, infra-metrics-stream accounts
\* for every batch it built, as it does for any rows it may read.
THEOREM StreamedBatchesAccounted == TelemetrySpec => []BatchesAccounted
<1>1. TelemetryInv => BatchesAccounted
  BY DEF TelemetryInv, StreamInv, BatchInv
<1>. QED  BY <1>1, TelemetryInvariant, PTL

\* Likewise for the counters of /stream/status.
THEOREM StreamedCountersHonest == TelemetrySpec => []CountersHonest
<1>1. TelemetryInv => CountersHonest
  BY DEF TelemetryInv, StreamInv, CountInv
<1>. QED  BY <1>1, TelemetryInvariant, PTL

\* Whatever the alert engine and the runtime write while GET /api/v1/timeline
\* asks them for their lists, its rows never fall behind what was recorded when
\* it came, unless a list failed or was too short, and claim no result that was
\* not recorded of the alert or, failing one, of its entity and rule.
THEOREM TimelineStaysFaithful == TelemetrySpec => []TimelineFaithful
<1>1. TelemetryInv => TimelineFaithful
  BY DEF TelemetryInv, TellInv
<1>. QED  BY <1>1, TelemetryInvariant, PTL
==============================================================================
