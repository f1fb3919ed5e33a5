------------------------------ MODULE MCEvents -----------------------------
(* The events to come: scripts at work, and leaving a map, each with its own *)
(* event types and owners; and what the events of drugs do. They share       *)
(* nothing that is modelled; a behaviour is one of them.                     *)
EXTENDS MCEventQueue

CONSTANTS Critters, Drugs, Jet, Limit, Amount, MaxDoses, MaxLoads, pal, jet, psycho
Limits == jet :> 2 @@ psycho :> 0
Amounts == jet :> <<2, -3, 1>> @@ psycho :> <<1, -2, 1>>

VARIABLES party, dead, bonus, wearing, wd, perk, addicted, doses, loads, scenario
cvars == <<party, dead, bonus, wearing, wd, perk, addicted, doses, loads>>

Scripted == INSTANCE EventQueue WITH
  EventTypes_ <- <<"SCRIPT", "POISON">>, Owner <- {dude, npc}, Item <- {}
Leaving == INSTANCE EventQueue WITH
  EventTypes_ <- <<"DRUG", "KNOCKOUT", "SCRIPT", "FLARE">>, Delays <- {0}, MaxTime <- 0
Chems == INSTANCE Chems

EitherInit ==
  /\ scenario \in {"scripted", "leaving", "chems"}
  /\ Scripted!Init /\ Chems!Init
  /\ scenario # "scripted" => now = 0
  /\ scenario # "chems" => party = {dude}
QueueStep ==
  /\ \/ scenario = "scripted" /\ Scripted!Next
     \/ scenario = "leaving" /\ Leaving!Next
  /\ UNCHANGED cvars
\* The bounded history of the drugs ends.
ChemsStep == scenario = "chems" /\ (Chems!Next \/ UNCHANGED cvars) /\ UNCHANGED vars
Either ==
  EitherInit /\ [][(QueueStep \/ ChemsStep) /\ UNCHANGED scenario]_<<vars, cvars, scenario>>

\* Nothing is left of a dose when its events are over, addictions and their perks begin and
\* end together, and the antidote leaves no trace (drugEffectEventProcess,
\* withdrawalEventProcess, drugItemTakeDrug); types included.
DrugsPass ==
  scenario = "chems" =>
    Chems!TypeOK /\ Chems!EffectsWearOff /\ Chems!AddictionsEnd /\ Chems!AntidoteCures
=============================================================================
