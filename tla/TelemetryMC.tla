----------------------------- MODULE TelemetryMC ------------------------------
(***************************************************************************)
(* Two devices and two racks, of which one names no facility and is in a   *)
(* hall of another one, for Telemetry.                                     *)
(***************************************************************************)
EXTENDS Telemetry, TLC

CONSTANTS d1, d2, r1, r2, f1, f2, h1, h2

MCFacilityOf == (r1 :> f1) @@ (r2 :> None)
MCHallOf == (r1 :> h1) @@ (r2 :> h2)
MCHallsFacility == (h1 :> f1) @@ (h2 :> f2)
MCHallCapacity == (h1 :> 1) @@ (h2 :> 2)

MCRows ==
  [metric : {"facility_power_mw", "rack_power_kw", "device_power_kw"},
   facility : Facilities \union {None}, rack : Racks \union {None},
   device : Devices \union {None}]

World(at1, at2, R) == [rackOf |-> (d1 :> at1) @@ (d2 :> at2), standing |-> R]

\* Both alerts are of one entity and rule.
MCKeyOf == <<"hot", "hot">>

\* Where only one part is busy the rest is small.
MCWorlds ==
  [graph |-> {World(r1, r2, {r1, r2}), World(r1, r1, {r1, r2})},
   adapter |-> {World(r1, None, {r1})},
   stream |-> {World(r1, r1, {r1})},
   timeline |-> {World(None, None, {})}]
===============================================================================
