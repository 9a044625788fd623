-------------------------- MODULE DeviceInventoryMC --------------------------
(* Racks and devices come, move and go.                                     *)
EXTENDS DeviceInventory

CONSTANTS create, twin, bulk, rival, move, back, remove, grid, drop, hall, r1, r2

Ask(s, o, t, r, u, z, n) ==
  [service |-> s, op |-> o, target |-> t, racks |-> r, start |-> u,
   size |-> z, rows |-> n]

d1 == <<create, 1>>

MCBody ==
  [q \in Requests |->
     CASE q = create -> Ask("device", "create", None, <<r1>>, 1, 1, 1)
       [] q = twin   -> Ask("device", "create", None, <<r1>>, 1, 2, 1)
       [] q = bulk   -> Ask("device", "bulk", None, <<r1, r1>>, 0, 21, 2)
       [] q = rival  -> Ask("device", "bulk", None, <<r1>>, 0, 2, 1)
       [] q = move   -> Ask("device", "move", d1, <<r2>>, 0, 0, 0)
       [] q = back   -> Ask("device", "move", d1, <<r1>>, 20, 0, 0)
       [] q = remove -> Ask("device", "delete", d1, <<>>, 0, 0, 0)
       [] q = grid   -> Ask("rack", "create", None, <<hall>>, 0, 0, 2)
       [] q = drop   -> Ask("rack", "delete", <<grid, 1>>, <<>>, 0, 0, 0)]
==============================================================================
