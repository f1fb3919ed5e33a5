CONSTANTS
  gl = gl sc = sc h1 = h1 h2 = h2
  Programs = {gl, sc}
  Global = {gl}
  HookTypes = {h1, h2}
  MaxPerType = 2
  MaxCallDepth = 3
  MaxReturns = 1
  StackLimit = 1
  MaxRaises = 2
  MaxFaults = 1
SPECIFICATION Spec
PROPERTIES HooksStay
CHECK_DEADLOCK FALSE
