CONSTANTS
  n1 = n1  n2 = n2  n3 = n3
  dude = dude  npc = npc  foe = foe  boss = boss  null = null  head = head  any = any
  junk = junk  nowhere = nowhere  place1 = place1  h1 = h1  h2 = h2
  a = a  b = b  c = c  nil = nil  s1 = s1  s2 = s2
  Sound = {s1, s2}
  BufferCount = 2
  MaxEffects = 1
  MaxUnplayed = 0
  Roles = {"music", "effect", "looping", "song"}
  NIL = nil  Nobody = nil
  Critters = {dude, foe, boss}  Dude = dude  Team <- Teams  Speed <- Speeds
  Roster = {dude, foe, boss}  Tile <- Tiles  Starters <- Duel
  MaxStrikes = 1  MaxRemovals = 2  MaxFights = 1
SPECIFICATION Either
INVARIANTS BuffersOwned SoundsHeld Partition EveryoneActsBut Forgiven
PROPERTIES DueLeaves CallsReturn TurnsEnd TurnComes TurnOfEach
