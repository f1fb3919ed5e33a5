CONSTANTS
  a = a  b = b  shot = shot  nil = nil
  Slots = 3
  NonReserved = 2
  MaxDescs = 3
  MaxSads = 3
  Objects = {a, b, shot}
  Critters = {a, b}
  NIL = nil
  Plans <- CombatPlans
  MaxDepth = 4
  MaxBegins = 0
  Scripts = {}
  Minute = 2
  Day = 4
  PoisonDelay <- Delays
  MaxDose = 1
  SickDelay = {1}
  HealDelay = 7
  Leaps = {3}
  MaxTime = 9
  MaxAdjust = 2
SPECIFICATION Either
INVARIANTS Accounted OwnersExclusive StepsLiveSads CombatBalanced DaysPass AilmentsEnd
