CONSTANTS
  Clients = {c1, c2}
  Keys = {k1}
  Lasting = {}
  None = None
  Left = Left
  Capacity = 1
  Cooldown = 1
  MaxFlips = 0
  MaxCrashes = 0
SPECIFICATION Spec
INVARIANTS RedisExclusive
