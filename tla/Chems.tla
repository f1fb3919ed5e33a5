------------------------------- MODULE Chems -------------------------------
(***************************************************************************)
(* Drugs and addiction (item.cc). A dose changes stats at once and queues  *)
(* two events that change them again; an addiction is an event that brings *)
(* the withdrawal on, followed by one that ends it. The events of one kind *)
(* are counted: how long they take varies with the drug, the critter's     *)
(* traits and the scripts' overrides, so that any of them may be the next. *)
(*                                                                         *)
(* What the player is addicted to is a global variable, for the player     *)
(* alone; the code asks it of everybody. Drugs with one variable (beer and *)
(* booze) are one drug here.                                               *)
(***************************************************************************)
EXTENDS Integers, FiniteSets, Functions

CONSTANTS
  Critters, Dude,
  Drugs, Jet,
  Limit,     \* maxActiveEffects, 0 for none
  Amount,    \* how a dose changes a stat: at once, in the first, in the second event
  MaxDoses, MaxLoads  \* bounds

Stages == {"onset", "end"}

VARIABLES
  party, dead,
  bonus,     \* of each critter and drug: the stat's change
  wearing,   \* pending effects: counts by event (1, 2) and whether it has a drugPid
  wd,        \* pending withdrawals: counts by stage
  perk,      \* how often the addiction's perk is in effect
  addicted,  \* the player's addictions
  doses, loads

vars == <<party, dead, bonus, wearing, wd, perk, addicted, doses, loads>>

Effects == {1, 2} \X BOOLEAN
Count(kinds, f) == FoldFunctionOnSet(LAMBDA n, sum : n + sum, 0, f, kinds)
Users == Critters \ dead

Init ==
  /\ party \in {{Dude}, Critters} /\ dead = {}
  /\ bonus = [c \in Critters |-> [d \in Drugs |-> 0]] /\ perk = bonus
  /\ wearing = [c \in Critters |-> [d \in Drugs |-> [e \in Effects |-> 0]]]
  /\ wd = [c \in Critters |-> [d \in Drugs |-> [s \in Stages |-> 0]]]
  /\ addicted = {} /\ doses = 0 /\ loads = 0

-----------------------------------------------------------------------------
(* drugItemTakeDrug                                                         *)

\* _drug_effect_allowed: counts the events that still know their drug.
Allowed(c, d) ==
  Limit[d] = 0 \/ Count({1, 2} \X {TRUE}, wearing[c][d]) < Limit[d]
\* _perform_drug_effect and two times _insert_drug_effect.
Dose(c, d) ==
  IF Allowed(c, d)
  THEN /\ bonus' = [bonus EXCEPT ![c][d] = @ + Amount[d][1]]
       /\ wearing' = [wearing EXCEPT ![c][d] =
            [e \in Effects |-> @[e] + IF e[2] THEN 1 ELSE 0]]
  ELSE UNCHANGED <<bonus, wearing>>

\* How much of the perk _item_wd_clear_all ends with an event of the stage.
PerkEnded(stage) == IF stage = "end" THEN 1 ELSE 0
\* Mutant: the event is taken and no other queued.
NotPostponed(w, stage) == [w EXCEPT ![stage] = @ - 1]
\* _item_wd_clear_all takes one event and queues an onset for it: the global it
\* compares with is reset, so that it takes no other.
Postponed(w, stage) == [w EXCEPT ![stage] = @ - 1, !["onset"] = @ + 1]

TakeDrug(c, d) ==
  /\ c \in Users /\ doses < MaxDoses /\ doses' = doses + 1
  /\ Dose(c, d)
  /\ \E stage \in {s \in Stages : wd[c][d][s] > 0} \cup {s \in {"none"} : Count(Stages, wd[c][d]) = 0},
        \* the roll against the drug's chance, made if the player is not addicted
        caught \in IF d \in addicted THEN {FALSE} ELSE BOOLEAN :
       LET w == IF stage = "none" THEN wd[c][d] ELSE Postponed(wd[c][d], stage)
       IN /\ wd' = [wd EXCEPT ![c][d] = [w EXCEPT !["onset"] = @ + IF caught THEN 1 ELSE 0]]
          /\ perk' = [perk EXCEPT ![c][d] = @ - PerkEnded(stage)]
          /\ addicted' = IF caught /\ c = Dude THEN addicted \cup {d} ELSE addicted
  /\ UNCHANGED <<party, dead, loads>>

\* The antidote to jet, for a player who is addicted: whoever takes it.
TakeAntidote(c) ==
  /\ c \in Users /\ Jet \in addicted
  /\ perk' = [perk EXCEPT ![c][Jet] = @ - 1]
  /\ addicted' = IF c = Dude THEN addicted \ {Jet} ELSE addicted
  /\ doses < MaxDoses /\ doses' = doses + 1
  /\ UNCHANGED <<party, dead, bonus, wearing, wd, loads>>

-----------------------------------------------------------------------------
(* The events                                                               *)

\* drugEffectEventProcess.
WearOff(c, d, e) ==
  /\ wearing[c][d][e] > 0
  /\ wearing' = [wearing EXCEPT ![c][d][e] = @ - 1]
  /\ bonus' = [bonus EXCEPT ![c][d] = @ + Amount[d][e[1] + 1]]
  /\ UNCHANGED <<party, dead, wd, perk, addicted, doses, loads>>
\* withdrawalEventProcess and performWithdrawalStart.
Withdraw(c, d) ==
  /\ wd[c][d]["onset"] > 0
  /\ wd' = [wd EXCEPT ![c][d] = [onset |-> @["onset"] - 1, end |-> @["end"] + 1]]
  /\ perk' = [perk EXCEPT ![c][d] = @ + 1]
  /\ UNCHANGED <<party, dead, bonus, wearing, addicted, doses, loads>>
\* withdrawalEventProcess and performWithdrawalEnd; from jet nobody recovers.
Recover(c, d) ==
  /\ wd[c][d]["end"] > 0
  /\ wd' = [wd EXCEPT ![c][d]["end"] = @ - 1]
  /\ IF d = Jet THEN UNCHANGED <<perk, addicted>>
     ELSE /\ perk' = [perk EXCEPT ![c][d] = @ - 1]
          /\ addicted' = IF c = Dude THEN addicted \ {d} ELSE addicted
  /\ UNCHANGED <<party, dead, bonus, wearing, doses, loads>>

-----------------------------------------------------------------------------
(* Maps, companions, deaths, saved games                                    *)

\* What drugItemClear applies of the pending effects.
AppliedEffects(c, d) ==
  FoldFunction(+, 0, [e \in Effects |-> wearing[c][d][e] * Amount[d][e[1] + 1]])
\* _queue_leaving_map: drugItemClear and withdrawalClear, of all but the party.
LeaveMap ==
  LET left == Critters \ party
  IN /\ left # {}
     /\ bonus' = [c \in Critters |-> [d \in Drugs |->
          bonus[c][d] + IF c \in left THEN AppliedEffects(c, d) ELSE 0]]
     /\ wearing' = [c \in Critters |-> IF c \in left
          THEN [d \in Drugs |-> [e \in Effects |-> 0]] ELSE wearing[c]]
     /\ perk' = [c \in Critters |-> [d \in Drugs |->
          perk[c][d] - IF c \in left THEN wd[c][d]["end"] ELSE 0]]
     /\ wd' = [c \in Critters |-> IF c \in left
          THEN [d \in Drugs |-> [s \in Stages |-> 0]] ELSE wd[c]]
     /\ UNCHANGED <<party, dead, addicted, doses, loads>>
\* partyMemberAdd and partyMemberRemove.
Companion(c) ==
  /\ c \in Users \ {Dude}
  /\ party' = IF c \in party THEN party \ {c} ELSE party \cup {c}
  /\ UNCHANGED <<dead, bonus, wearing, wd, perk, addicted, doses, loads>>
\* critterKill clears the effects, not the withdrawals.
Die(c) ==
  /\ c \in Users \ {Dude} /\ dead' = dead \cup {c} /\ party' = party \ {c}
  /\ wearing' = [wearing EXCEPT ![c] = [d \in Drugs |-> [e \in Effects |-> 0]]]
  /\ UNCHANGED <<bonus, wd, perk, addicted, doses, loads>>
\* drugEffectEventWrite and drugEffectEventRead: a saved effect forgets its drug.
\* Effects on current points, age and gender, which reading drops, are no bonus stats.
SaveAndLoad ==
  /\ loads < MaxLoads /\ loads' = loads + 1
  /\ wearing' = [c \in Critters |-> [d \in Drugs |-> [e \in Effects |->
       IF e[2] THEN 0 ELSE wearing[c][d][e] + wearing[c][d][<<e[1], TRUE>>]]]]
  /\ UNCHANGED <<party, dead, bonus, wd, perk, addicted, doses>>

Next ==
  \/ \E c \in Critters, d \in Drugs :
       TakeDrug(c, d) \/ Withdraw(c, d) \/ Recover(c, d) \/ \E e \in Effects : WearOff(c, d, e)
  \/ \E c \in Critters : TakeAntidote(c) \/ Companion(c) \/ Die(c)
  \/ LeaveMap \/ SaveAndLoad
Spec == Init /\ [][Next]_vars

-----------------------------------------------------------------------------
(* Properties                                                               *)

TypeOK ==
  /\ Dude \in party /\ party \subseteq Critters /\ dead \subseteq Critters
  /\ bonus \in [Critters -> [Drugs -> Int]] /\ perk \in [Critters -> [Drugs -> Int]]
  /\ wearing \in [Critters -> [Drugs -> [Effects -> 0..MaxDoses]]]
  /\ wd \in [Critters -> [Drugs -> [Stages -> 0..MaxDoses]]]
  /\ addicted \subseteq Drugs /\ doses \in 0..MaxDoses /\ loads \in 0..MaxLoads

\* What doses have changed in the stats is what the pending events will undo: once
\* they are over nothing is left of a dose, wherever the critter was left, however
\* often the game was saved, and whether its drug is known or not.
EffectsWearOff ==
  \A c \in Users, d \in Drugs :
    bonus[c][d] + FoldFunction(+, 0, [e \in Effects |-> wearing[c][d][e] * Amount[d][e[1] + 1]]) = 0

\* The player is addicted as long as one event of the addiction is pending, and
\* one only; the perk is in effect from the withdrawal's onset to its end, for
\* each event of its own, whatever was taken in between.
AddictionsEnd ==
  \A d \in Drugs \ {Jet} :
    /\ Count(Stages, wd[Dude][d]) = IF d \in addicted THEN 1 ELSE 0
    /\ \A c \in Critters : perk[c][d] = wd[c][d]["end"]

\* Jet is for ever, but the antidote leaves no trace: a player who is no longer
\* addicted and has no withdrawal pending is as before. (In between the antidote
\* may have ended a withdrawal that had not begun.)
AntidoteCures ==
  Jet \notin addicted /\ Count(Stages, wd[Dude][Jet]) = 0 => perk[Dude][Jet] = 0
=============================================================================
