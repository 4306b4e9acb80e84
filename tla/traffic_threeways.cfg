SPECIFICATION FairSpec
CONSTANTS
  Lane = {"NORTH", "WEST", "SOUTH"}
  Car <- ThreeWaysCars
  Arrivals <- ThreeWaysArrivals
  Capacity = 1
  PathSlots = 2
  Stale = {0, 1, 2, 3}
  Free = Free
  NoCar = NoCar
INVARIANTS NoCollision LaneLocksComeLast Delivered
PROPERTIES WritesUnderLock Termination ImplementsCarFlow
CHECK_DEADLOCK FALSE
