CONSTANTS
  n1 = n1  n2 = n2  n3 = n3
  dude = dude  npc = npc  item = item  pal = pal  jet = jet  psycho = psycho
  Item = {item}
  null = null  head = head  any = any
  Node = {n1, n2, n3}
  Owner = {dude, npc, item}
  Party = {dude}
  Dude = dude
  NIL = null
  HEAD = head
  ANY = any
  EventTypes_ <- QueueTypes
  Delays = {0, 1}
  MaxTime = 1
  Word = 16
  MaxDepth = 3
  MaxOps = 1
  LethalClear = FALSE
  Critters = {dude, pal} Drugs = {jet, psycho} Jet = jet
  Limit <- Limits Amount <- Amounts MaxDoses = 3 MaxLoads = 1
SPECIFICATION Either
SYMMETRY NodeSymmetry
INVARIANTS TypeOK Memory CursorsLive OwnersExist DrugsPass
PROPERTIES ImplementsTimedEvents
