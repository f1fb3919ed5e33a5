---------------------------- MODULE MCSchedule -----------------------------
(* What is put off until later, by two components that share nothing; a       *)
(* behaviour is one of theirs.                                                *)
(*                                                                            *)
(* The slots of the animations: three mixes of what the game registers.       *)
(* Fidgets never meet errands with forced callbacks here: see the README on   *)
(* the flags a slot keeps.                                                    *)
(*                                                                            *)
(* The clock with midnight, the map's update, poison and radiation.           *)
EXTENDS MCAnimation, GameClock

Peace == INSTANCE Animation WITH
  Objects <- {a, b}, Plans <- PeacePlans, MaxSads <- 2, MaxDepth <- 3, Scripts <- {"steps"}
Errands == INSTANCE Animation WITH
  Plans <- ErrandPlans, MaxSads <- 2, MaxDepth <- 3, Scripts <- {"steps"}

\* Of poison: weak, and so strong that the next bite is overdue, perhaps since yesterday.
Delays == <<3, -3>>

VARIABLES scenario

EitherInit ==
  /\ ClockInit
  /\ \/ scenario = "peace" /\ Peace!Init
     \/ scenario = "errands" /\ Errands!Init
     \/ scenario \in {"combat", "clock"} /\ Init
MixNext ==
  /\ \/ scenario = "peace" /\ Peace!Next
     \/ scenario = "errands" /\ Errands!Next
     \/ scenario = "combat" /\ Next
  /\ UNCHANGED tvars
\* The clock's bounded history ends.
ClockGoes == scenario = "clock" /\ (ClockNext \/ UNCHANGED tvars) /\ UNCHANGED vars
Either ==
  EitherInit /\ [][(MixNext \/ ClockGoes) /\ UNCHANGED scenario]_<<vars, tvars, scenario>>
=============================================================================
