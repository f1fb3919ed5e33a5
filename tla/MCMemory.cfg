CONSTANTS
  junk = junk
  nowhere = nowhere
  place1 = place1
  place2 = place2
  h1 = h1
  h2 = h2
  h3 = h3
  h4 = h4
  Key = {1, 2, 3}
  SizeOf <- ThreeSizes
  ReadSizes <- ShortReads
  MaxSize = 4
  HitLimit = 4
  Attempts = 2
  MaxRefs = 2
  Handle = {h1, h2, h3, h4}
  Place = {place1, place2}
  Junk = junk
  Nowhere = nowhere
  Slot = {0, 1, 2}
  ArenaSize = 11
  Overhead = 1
  MinSplit = 2
  Sizes = {1, 4}
SPECIFICATION Either
SYMMETRY BlockSymmetry
INVARIANTS Validate Consistent RoomIsMade
PROPERTIES ImplementsHeapHandles PinnedStay
