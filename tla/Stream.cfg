CONSTANTS
  Clients = {c1, c2}
  Limit = 1
  Buffer = 1
  MaxFrames = 2
  Enders = {"planner", "recovery"}
  MaxTurns = 3
  MaxTouches = 1
  ChatSlots = 2
  ChatWorkers = 1
  StreamDays = 2
  QueueMax = 1
SPECIFICATION StreamsSpec
CHECK_DEADLOCK FALSE
INVARIANTS NoLeakedSlot OpenMissesNothing RejectedTold CardIsPending LinesInOrder
PROPERTIES StreamsEnd
