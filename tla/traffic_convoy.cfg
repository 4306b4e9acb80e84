SPECIFICATION Spec
CONSTANTS
  Lane = {"WEST", "SOUTH", "NORTH"}
  Car <- ConvoyCars
  Arrivals <- ConvoyArrivals
  Capacity = 2
  PathSlots = 2
  Stale = {0, 1, 2, 3}
  Free = Free
  NoCar = NoCar
INVARIANTS TypeOK QueueOrder NoLostWakeup
CHECK_DEADLOCK FALSE
