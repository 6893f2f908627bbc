CONSTANTS
  Trips = {t1}
  NoTrip = NoTrip
  NDays = 2
  Slots = {s1}
  Workers = 1
  PlanKinds = {"plan", "noplan"}
  Drifts = {FALSE, TRUE}
  DbFaults = TRUE
  MaxFaults = 1
SPECIFICATION Spec
INVARIANTS DeliveredInFull
PROPERTIES DeliveredDayKept
