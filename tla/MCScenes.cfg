CONSTANTS
  gl = gl sc = sc h1 = h1 h2 = h2
  Programs = {gl, sc}
  Global = {gl}
  HookTypes = {h1, h2}
  MaxPerType = 2
  MaxCallDepth = 2
  MaxReturns = 1
  StackLimit = 1
  MaxRaises = 2
  MaxFaults = 1
  NIL = NIL a = a b = b c = c i1 = i1 i2 = i2 i3 = i3
  dude = dude pal = pal trader = trader m1 = m1 m2 = m2
  Maps = {m1, m2} Faults = {"write", "crash"} Replaces = FALSE MaxSaves = 3 SavesAfterCrash = TRUE
SPECIFICATION Scenes
INVARIANTS LocalsFollow OneScriptEach OwnUnlessGone InputServed HandlersCalled LastWord NoneDangling
  GoodsKept TradeEnds AllOrNothing LastSaveSurvives LoadedWhole
PROPERTIES TraderRearmed
