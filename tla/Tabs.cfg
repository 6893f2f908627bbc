CONSTANTS
  o1 = o1
  o2 = o2
  m1 = m1
  owner = owner
  member = member
  spot = spot
  inn = inn
  lodge = lodge
  Spots = {spot}
  Hotels = {inn}
  TripDays = 2
  DayItems = 3
  Clients = {o1, o2, m1}
  Users = {owner, member}
  Owner = owner
  UserOf <- MCUserOf
  Nothing = Nothing
  SnapshotTries = 2
  Scenarios <- MCScenarios
  MaxAttempts = 3
  MaxSentences = 1
  MaxReconnects = 0
SPECIFICATION TabsSpec
CHECK_DEADLOCK FALSE
INVARIANTS ErrorsChangeNothing TidyUnlessCrossed CacheFresh ReloadRepeatsNothing
PROPERTIES Undoable AppliedToItsBase
