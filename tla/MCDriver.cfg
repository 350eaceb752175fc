CONSTANTS
  Platforms = {"pci", "zynq"}
  Accels = {0, 1}
  Writers = {w1}
  MaxStores = 4
SPECIFICATION Spec
INVARIANTS
  HoldTypeOK HeldAgrees StallNeedsOverlap RanUnlessHeld
  LifeTypeOK RegistersMapped CleanUnbound SteadyIsSafe VectorNotEmpty DeafOnlyIfMissed
PROPERTIES OnlyOwnLine RunEnds InterruptServed
CHECK_DEADLOCK FALSE
