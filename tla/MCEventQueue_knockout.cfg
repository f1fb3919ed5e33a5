CONSTANTS
  n1 = n1  n2 = n2  n3 = n3
  dude = dude  npc = npc  item = item
  Item = {}
  null = null  head = head  any = any
  Node = {n1, n2}
  Owner = {dude, npc}
  Party = {dude}
  Dude = dude
  NIL = null
  HEAD = head
  ANY = any
  EventTypes_ <- KnockoutTypes
  Delays = {0}
  MaxTime = 0
  Word = 16
  MaxDepth = 3
  MaxOps = 1
  LethalClear = FALSE
SPECIFICATION Spec
SYMMETRY NodeSymmetry
PROPERTIES HandledOwnersExist
