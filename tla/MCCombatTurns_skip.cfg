CONSTANTS
  dude = dude pal = pal foe = foe boss = boss Nobody = Nobody
  Critters = {dude, pal, foe, boss}
  Dude = dude
  Team <- Teams
  Speed <- Speeds
  Roster <- Here
  Tile <- Tiles
  Starters <- Pairs
  MaxStrikes = 1
  MaxRemovals = 1
  MaxFights = 1
SPECIFICATION TurnsSpec
INVARIANT EveryoneActs
CHECK_DEADLOCK FALSE
