------------------------ MODULE RuntimeOrchestratorMC ------------------------
(* Two alerts about two racks of a zone, or one with the racks and a device *)
(* coming, moving and going.                                                *)
EXTENDS RuntimeOrchestrator

CONSTANTS r1, r2, d1, z1

MCIncoming ==
  <<[entity |-> r1, rule |-> "THERMAL_CRITICAL", about |-> "temp", value |-> 46,
     with_id |-> TRUE, valid |-> TRUE],
    [entity |-> r2, rule |-> "POWER_CRITICAL", about |-> "power", value |-> 22,
     with_id |-> FALSE, valid |-> TRUE]>>

MCOneIncoming ==
  <<[entity |-> r2, rule |-> "FABRIC_LATENCY", about |-> "latency", value |-> 30,
     with_id |-> TRUE, valid |-> TRUE]>>

MCRulebook ==
  [THERMAL_CRITICAL |-> [op |-> ">", threshold |-> 45],
   POWER_CRITICAL   |-> [op |-> ">", threshold |-> 20]]

Topo(e, r, z, d) == [event |-> e, rack |-> r, zone |-> z, device |-> d]

MCTopologyLog ==
  <<Topo("RACK_CREATED", r1, z1, None),
    Topo("RACK_CREATED", r2, z1, None)>>

MCLongTopologyLog ==
  <<Topo("RACK_CREATED", r1, z1, None),
    Topo("RACK_CREATED", r2, z1, None),
    Topo("DEVICE_CREATED", r1, None, d1),
    Topo("DEVICE_MOVED", r2, None, d1),
    Topo("RACK_DELETED", r2, None, None),
    Topo("RACK_CREATED", r2, z1, None),
    Topo("DEVICE_DELETED", None, None, d1)>>
==============================================================================
