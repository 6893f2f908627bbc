CONSTANTS
  Names = {k1}
  Nothing = Nothing
  Capacity = 1
  MaxFlips = 0
  Requests = {r1, r2}
  NoKey = NoKey
  Taken = Taken
  Expiry = FALSE
SPECIFICATION Spec
CHECK_DEADLOCK FALSE
INVARIANTS OneTripPerKey
