--------------------------- MODULE TopologyStoreMC ---------------------------
(* A rack and a device come, the device moves on, the first rack goes.      *)
EXTENDS TopologyStore

CONSTANTS r1, r2, d1, h1, f1

Topo(e, d, r, h, f) ==
  [event |-> e, device |-> d, rack |-> r, hall |-> h, facility |-> f]

MCTopologyLog ==
  <<Topo("RACK_CREATED", None, r1, h1, f1),
    Topo("DEVICE_CREATED", d1, r1, None, None),
    Topo("DEVICE_MOVED", d1, r2, None, None),
    Topo("RACK_DELETED", None, r1, h1, f1)>>

\* A workspace's first two events.
MCShortTopologyLog ==
  <<Topo("FACILITY_CREATED", None, None, None, f1),
    Topo("RACK_CREATED", None, r1, h1, f1)>>

\* An operator ties the racks together, as nodes that may not be there.
MCManualEdges ==
  {[edge |-> Edge(r1, r2, "network"), typed |-> FALSE]}
==============================================================================
