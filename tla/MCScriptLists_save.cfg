CONSTANTS
  a = a b = b c = c i1 = i1 i2 = i2 i3 = i3 NIL = NIL
  Critters = {a, b} Items = {i1, i2, i3} Pals = {b}
  VarCount <- Two ExtentSize = 2 MaxDepth = 0 MaxOps = 5 MaxTrips = 3
SPECIFICATION Spec
INVARIANT SavedMapLoads
CHECK_DEADLOCK FALSE
