CONSTANTS
  Trips = {t1}
  NoTrip = NoTrip
  NDays = 1
  Slots = {s1, s2}
  Workers = 1
  PlanKinds = {"plan", "sparse", "noplan"}
  Drifts = {FALSE}
  DbFaults = FALSE
  MaxFaults = 1
SPECIFICATION FairSpec
PROPERTIES Settles
