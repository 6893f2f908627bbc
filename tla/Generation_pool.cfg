CONSTANTS
  Trips = {t1, t2}
  NoTrip = NoTrip
  NDays = 1
  Slots = {s1}
  Workers = 1
  PlanKinds = {"plan"}
  Drifts = {FALSE}
  DbFaults = FALSE
  MaxFaults = 0
SPECIFICATION Spec
SYMMETRY TripSymmetry
INVARIANTS SinglePlanner RegistryExact
