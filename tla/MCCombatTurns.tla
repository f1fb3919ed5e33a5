---------------------------- MODULE MCCombatTurns ----------------------------
EXTENDS CombatTurns
CONSTANTS dude, pal, foe, boss
Teams == dude :> 0 @@ pal :> 0 @@ foe :> 1 @@ boss :> 1
Speeds == dude :> 2 @@ pal :> 1 @@ foe :> 4 @@ boss :> 3
Here == {pal, foe, dude}
Tiles == pal :> 1 @@ foe :> 2 @@ dude :> 3 @@ boss :> 4
Pairs == {<<dude, foe>>, <<boss, dude>>}
=============================================================================
