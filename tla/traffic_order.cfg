SPECIFICATION Spec
CONSTANTS
  Lane = {"WEST", "SOUTH", "NORTH"}
  Car <- ConvoyCars
  Arrivals <- ConvoyArrivals
  Capacity = 2
  PathSlots = 2
  Stale = {2}
  Free = Free
  NoCar = NoCar
INVARIANT QuadsInOrder
