SPECIFICATION TelemetrySpec
CONSTANTS
  d1 = d1
  d2 = d2
  r1 = r1
  r2 = r2
  f1 = f1
  f2 = f2
  h1 = h1
  h2 = h2
  None = None
  Absent = None
  Devices = {d1, d2}
  Racks = {r1, r2}
  Facilities = {f1, f2}
  Listed = {f2}
  FacilityOf <- MCFacilityOf
  HallOf <- MCHallOf
  HallsFacility <- MCHallsFacility
  HallCapacity <- MCHallCapacity
  Levels = {1}
  PageSize = 1
  MaxUpsets = 2
  Queries = {"power", "total_power"}
  MaxMissed = 1
  Polled = {"facility_power_mw", "device_power_kw"}
  Rows <- MCRows
  MaxSamples = 1
  QueueMax = 1
  MaxTicks = 3
  MaxBroken = 1
  MaxAlerts = 2
  KeyOf <- MCKeyOf
  Limits = {1, 2}
  Tries = 1
  MaxMishaps = 1
  Worlds <- MCWorlds
INVARIANT TypeOK GraphIsWhole RackPowerCounted BatchesAccounted CountersHonest 
PROPERTY CatchesUp
CHECK_DEADLOCK FALSE
