CONSTANTS
  Names = {k1, k2}
  Nothing = Nothing
  Capacity = 1
  MaxFlips = 1
  Requests = {r1, r2, r3}
  NoKey = NoKey
  Taken = Taken
  Expiry = TRUE
SPECIFICATION Spec
CHECK_DEADLOCK FALSE
SYMMETRY Symmetry
INVARIANTS RetriesShareTrip RefusedNotReplayed
