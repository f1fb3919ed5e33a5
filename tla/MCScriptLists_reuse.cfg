CONSTANTS
  a = a b = b c = c i1 = i1 i2 = i2 i3 = i3 NIL = NIL
  Critters = {a, b, c} Items = {} Pals = {b}
  VarCount <- Two ExtentSize = 2 MaxDepth = 1 MaxOps = 3 MaxTrips = 0
SPECIFICATION Spec
INVARIANT OwnScriptUsed
CHECK_DEADLOCK FALSE
