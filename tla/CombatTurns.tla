---------------------------- MODULE CombatTurns ----------------------------
(***************************************************************************)
(* Who acts when in a fight (combat.cc). _combat_list has three parts: the *)
(* first com critters act in turn, the next noncom wait and may join, the  *)
(* rest are the dead that were dropped. A round is a walk over the first   *)
(* part by index; a turn may strike critters down, frighten them, or take  *)
(* them off the list (_combat_delete_critter: a script kills or destroys   *)
(* them or moves them to another elevation), the one whose turn it is      *)
(* included. Between rounds others join, each with a turn at once, and the *)
(* dead, the knocked out and the frightened drop out.                      *)
(*                                                                         *)
(* Indexes start at one here: cur is curIndex + 1.                         *)
(***************************************************************************)
EXTENDS Integers, FiniteSets, SequencesExt

CONSTANTS
  Critters, Dude, Nobody,
  Team,       \* of each critter
  Speed,      \* of each critter: its sequence, no two alike
  Roster,     \* the critters of this elevation
  Tile,       \* of each critter: where it stands, no two alike
  Starters,   \* pairs of attacker and defender a script's fight begins with
  MaxStrikes, MaxRemovals, MaxFights  \* bounds

TurnsConstants ==
  /\ IsFiniteSet(Critters) /\ Dude \in Critters /\ Nobody \notin Critters
  /\ Speed \in [Critters -> Int] /\ Tile \in [Critters -> Int] /\ Roster \subseteq Critters
  /\ \A pair \in Starters :
       /\ pair[1] \in Critters \cup {Nobody} /\ pair[2] \in Critters \cup {Nobody}
       /\ pair[1] = pair[2] => pair[1] = Nobody

VARIABLES
  phase,      \* "peace", "round", "turn", "joining", "dropping", "parking", "over"
  line,       \* _combat_list
  com, noncom,
  cur,        \* the index the loop under way has reached
  actor,      \* whose turn it is, Nobody between turns
  back,       \* the loop that called combatTurnHooked, in a turn
  savedCom,   \* savedListCom, in a turn
  shape,      \* of each critter: "up", "out", "dead", "gone"
  mood,       \* maneuver: {}, "engaging", "disengaging"
  target,     \* whoHitMe
  members,    \* who was listed at the beginning and not taken off since (history)
  acted,      \* who had a turn this round (history)
  cutShort,   \* was the round's walk broken off? (history)
  headLeft,   \* did all who had a turn leave the list in a turn? (history)
  strikes, removals, fights  \* counted against the bounds

turnVars == <<phase, line, com, noncom, cur, actor, back, savedCom, shape, mood, target,
              members, acted, cutShort, headLeft, strikes, removals, fights>>
parts == <<line, com, noncom>>
history == <<members, acted, cutShort, headLeft>>
counts == <<strikes, removals, fights>>

Prefix(n) == {line[i] : i \in 1..n}
Acting == Prefix(com)
Waiting == {line[i] : i \in (com + 1)..(com + noncom)}
Dropped == {line[i] : i \in (com + noncom + 1)..Len(line)}
Able(c) == shape[c] = "up"

TurnsInit ==
  /\ phase = "peace" /\ line = << >> /\ com = 0 /\ noncom = 0
  /\ cur = 1 /\ actor = Nobody /\ back = "round" /\ savedCom = 0
  /\ shape = [c \in Critters |-> "up"] /\ mood = [c \in Critters |-> {}]
  /\ target = [c \in Critters |-> Nobody]
  /\ members = {} /\ acted = {} /\ cutShort = FALSE /\ headLeft = FALSE
  /\ strikes = 0 /\ removals = 0 /\ fights = 0

-----------------------------------------------------------------------------
(* The beginning                                                            *)

\* A set's members by increasing key, however the code lists or sorts them.
Sorted(S, Key) ==
  {s \in [1..Cardinality(S) -> S] : \A i, j \in 1..Cardinality(S) : i < j => Key[s[i]] < Key[s[j]]}

\* The next place in front, behind the n that are there, goes to c, if c is listed.
ToFront(order, c) ==
  IF c \notin Range(order.l) THEN order
  ELSE LET i == CHOOSE j \in DOMAIN order.l : order.l[j] = c
           k == order.n + 1
       IN [l |-> [order.l EXCEPT ![i] = order.l[k], ![k] = c], n |-> k]
\* critterSetWhoHitMe: a critter does not turn on its own team.
Hates(t, c, other) ==
  IF other = Nobody \/ Team[c] # Team[other] THEN [t EXCEPT ![c] = other] ELSE t

\* _combat_enroll_csd_combatant: appended if it is not listed and not dead.
Enrolled(l, c) == IF c = Nobody \/ c \in Range(l) \/ shape[c] = "dead" THEN l ELSE Append(l, c)
\* The first round's order: attacker, defender, and the player if neither.
Led(all, a, d) ==
  LET two == ToFront(ToFront([l |-> all, n |-> 0], a), d)
  IN IF Dude \in {a, d} THEN two ELSE ToFront(two, Dude)
\* What those who fight remember at first.
FirstTargets(all, a, d) ==
  LET none == [c \in Critters |-> IF c \in Range(all) THEN Nobody ELSE target[c]]
      one == IF a = Nobody THEN none ELSE Hates(none, a, d)
  IN IF d = Nobody THEN one ELSE Hates(one, d, a)

\* _combat_begin and _combat_sequence_init. When the player is dead the game is over.
Begin(a, d) ==
  /\ phase = "peace" /\ fights < MaxFights /\ shape[Dude] # "dead"
  /\ \A c \in {a, d} \ {Nobody} : shape[c] = "up"
  /\ \E here \in Sorted({c \in Roster : shape[c] # "gone"}, Tile) :
       LET all == Enrolled(Enrolled(here, a), d)
           order == Led(all, a, d)
       IN /\ line' = order.l
          /\ com' = order.n /\ noncom' = Len(all) - order.n
          /\ target' = FirstTargets(all, a, d)
          /\ members' = Range(all)
  /\ mood' = [c \in Critters |-> mood[c] \cap {"engaging"}]
  /\ phase' = "round" /\ cur' = 1 /\ acted' = {} /\ cutShort' = FALSE /\ headLeft' = FALSE
  /\ fights' = fights + 1
  /\ UNCHANGED <<actor, back, savedCom, shape, strikes, removals>>

-----------------------------------------------------------------------------
(* A turn                                                                   *)

\* combatTurnHooked is called for c by the loop named.
TurnOf(c, loop) ==
  /\ phase' = "turn" /\ actor' = c /\ back' = loop
  /\ savedCom' = IF loop = "round" THEN com ELSE 0
  /\ acted' = acted \cup {c}

\* The round's loop reaches its next critter.
NextTurn ==
  /\ phase = "round" /\ cur <= com
  /\ TurnOf(line[cur], "round")
  /\ UNCHANGED <<parts, cur, shape, mood, target, members, cutShort, headLeft, counts>>

\* An attack by the one whose turn it is: the victim is hit, knocked out or
\* killed, remembers who did it, and onlookers take notice or do not.
Strike(v, result) ==
  /\ phase = "turn" /\ Able(actor) /\ strikes < MaxStrikes
  /\ v \in Acting \cup Waiting /\ v # actor /\ shape[v] \notin {"dead", "gone"}
  /\ shape' = [shape EXCEPT ![v] = result]
  /\ target' = Hates(Hates(target, actor, v), v, actor)
  /\ \E near \in {{}, Acting \cup Waiting} :
       mood' = [c \in Critters |-> IF c \in near THEN mood[c] \cup {"engaging"} ELSE mood[c]]
  /\ strikes' = strikes + 1
  /\ UNCHANGED <<phase, parts, cur, actor, back, savedCom, history, removals, fights>>

\* The critter has had enough (_combat_ai).
Flee ==
  /\ phase = "turn" /\ Able(actor) /\ actor # Dude
  /\ mood' = [mood EXCEPT ![actor] = @ \cup {"disengaging"}]
  /\ UNCHANGED <<phase, parts, cur, actor, back, savedCom, shape, target, history, counts>>

\* _combat_delete_critter: a script of anyone kills v or sends it elsewhere.
TakeOff(v, result) ==
  LET at == CHOOSE i \in DOMAIN line : line[i] = v
  IN /\ phase = "turn" /\ removals < MaxRemovals /\ v \in Range(line) \ {Dude}
     /\ line' = RemoveAt(line, at)
     /\ com' = IF at <= com THEN com - 1 ELSE com
     /\ noncom' = IF com < at /\ at <= com + noncom THEN noncom - 1 ELSE noncom
     /\ shape' = [shape EXCEPT ![v] = result]
     /\ target' = [target EXCEPT ![v] = Nobody]
     /\ removals' = removals + 1
     /\ members' = members \ {v}
     /\ UNCHANGED <<phase, cur, actor, back, savedCom, mood, acted, cutShort, headLeft, strikes, fights>>

\* Mutant: the round's loop goes on as if nobody had left.
ResumeKeepsPlace == cur
\* Mutant: compares with all that are listed, not with how many acted before.
ResumeByTotal == IF com < Len(line) THEN IF cur - (Len(line) - com) < 1 THEN 1 ELSE cur - (Len(line) - com)
                 ELSE cur
\* Where the round's loop is, after a turn: set back by as many as have left,
\* but not below the first place.
Resume == IF com < savedCom THEN IF cur - (savedCom - com) < 1 THEN 1 ELSE cur - (savedCom - com)
          ELSE cur
\* All who had a turn have left, the last of them too.
HeadLeft == com > 0 /\ Acting \cap acted = {}

TurnDone == actor' = Nobody /\ back' = "round" /\ savedCom' = 0
\* The turn is over. Without a request to end the fight, and while the player
\* lives, the loop goes on.
TurnEnds ==
  /\ phase = "turn" /\ shape[Dude] # "dead"
  /\ cur' = (IF back = "round" THEN Resume ELSE cur) + 1
  /\ phase' = back /\ TurnDone
  /\ headLeft' = (headLeft \/ (back = "round" /\ HeadLeft))
  /\ UNCHANGED <<parts, shape, mood, target, members, acted, cutShort, counts>>
\* combatTurnHooked answers -1: a hook, the player or the player's death ends the
\* fight; or the player was knocked out and the map's script says that is enough.
Broken(place) ==
  /\ phase = "turn" /\ back = "round"
  /\ phase' = IF place <= com THEN "over" ELSE "round"
  /\ cur' = place /\ cutShort' = TRUE /\ TurnDone
  /\ UNCHANGED <<parts, shape, mood, target, members, acted, headLeft,
                 counts>>
TurnAborts == Broken(cur)
PlayerFalls == shape[Dude] = "out" /\ Broken(Resume)
\* The same in the turn of one who has just joined.
JoinAborts ==
  /\ phase = "turn" /\ back = "joining"
  /\ com' = 0 /\ noncom' = Len(line) /\ phase' = "over" /\ TurnDone
  /\ UNCHANGED <<line, cur, shape, mood, target, history, counts>>

-----------------------------------------------------------------------------
(* Between rounds: _combat_sequence                                         *)

\* _combat_add_noncoms begins: the player's friends may take notice.
RoundEnds ==
  /\ phase = "round" /\ cur > com
  /\ phase' = "joining" /\ cur' = com + 1
  /\ \E near \in {{}, {c \in Range(line) : Team[c] = Team[Dude]}} :
       mood' = [c \in Critters |-> IF c \in near THEN mood[c] \cup {"engaging"} ELSE mood[c]]
  /\ UNCHANGED <<parts, actor, back, savedCom, shape, target, history, counts>>

Asking == phase = "joining" /\ cur <= com + noncom
\* _combatai_want_to_join says yes: the critter changes places with the first of
\* those who wait and has a turn at once.
Join ==
  LET who == line[cur]
  IN /\ Asking /\ Able(who)
     /\ line' = [line EXCEPT ![cur] = line[com + 1], ![com + 1] = who]
     /\ com' = com + 1 /\ noncom' = noncom - 1
     /\ mood' = [mood EXCEPT ![who] = {}]
     /\ TurnOf(who, "joining")
     /\ UNCHANGED <<cur, shape, target, members, cutShort, headLeft, counts>>
StayOut ==
  /\ Asking /\ ~(Able(line[cur]) /\ "engaging" \in mood[line[cur]])
  /\ cur' = cur + 1
  /\ UNCHANGED <<phase, parts, actor, back, savedCom, shape, mood, target, history, counts>>

JoinsEnd ==
  /\ phase = "joining" /\ cur > com + noncom
  /\ phase' = "dropping" /\ cur' = 1
  /\ UNCHANGED <<parts, actor, back, savedCom, shape, mood, target, history, counts>>

\* The two loops that drop critters from the acting part; com stands for the local
\* count, which nobody else sees. The one dropped changes places with the last that
\* counts, and if it is dead it goes on past those who wait.
At(step) == phase = step /\ cur <= com
Dead(c) == shape[c] = "dead"
\* Mutant: the dead stay next to those who wait.
DropDeadInPlace ==
  /\ At("dropping") /\ Dead(line[cur])
  /\ line' = [line EXCEPT ![cur] = line[com], ![com] = line[cur]] /\ com' = com - 1
  /\ UNCHANGED <<phase, noncom, cur, actor, back, savedCom, shape, mood, target, history, counts>>
DropDead ==
  /\ At("dropping") /\ Dead(line[cur])
  /\ line' = [line EXCEPT ![cur] = line[com], ![com] = line[com + noncom],
                         ![com + noncom] = line[cur]]
  /\ com' = com - 1
  /\ UNCHANGED <<phase, noncom, cur, actor, back, savedCom, shape, mood, target, history, counts>>
Parks(c) == c # Dude /\ (shape[c] = "out" \/ mood[c] = {"disengaging"})
Park ==
  /\ At("parking") /\ Parks(line[cur])
  /\ line' = [line EXCEPT ![cur] = line[com], ![com] = line[cur]]
  /\ com' = com - 1 /\ noncom' = noncom + 1
  /\ mood' = [mood EXCEPT ![line[cur]] = @ \ {"engaging"}]
  /\ UNCHANGED <<phase, cur, actor, back, savedCom, shape, target, history, counts>>
Keep ==
  /\ \/ At("dropping") /\ ~Dead(line[cur])
     \/ At("parking") /\ ~Parks(line[cur])
  /\ cur' = cur + 1
  /\ UNCHANGED <<phase, parts, actor, back, savedCom, shape, mood, target, history, counts>>
DropsEnd ==
  /\ phase = "dropping" /\ cur > com
  /\ phase' = "parking" /\ cur' = 1
  /\ UNCHANGED <<parts, actor, back, savedCom, shape, mood, target, history, counts>>

\* _combat_should_end, of those that act.
Hostile(c) ==
  LET t == target[c]
  IN /\ t # Nobody /\ shape[t] # "out"
     /\ IF Team[c] = Team[Dude] THEN mood[t] \cap {"disengaging"} = {} /\ shape[t] # "dead"
        ELSE Team[t] = Team[Dude] \/ shape[t] # "dead"
ShouldEnd == Cardinality(Acting) <= 1 \/ Dude \notin Acting \/ ~\E c \in Acting : Hostile(c)

\* Those who are left are sorted; the test for the next round.
Slowness == [c \in Critters |-> -Speed[c]]
NextRound ==
  /\ phase = "parking" /\ cur > com
  /\ \E order \in Sorted(Acting, Slowness) :
       line' = [i \in DOMAIN line |-> IF i <= com THEN order[i] ELSE line[i]]
  /\ phase' = IF ShouldEnd THEN "over" ELSE "round"
  /\ cur' = 1 /\ acted' = {} /\ cutShort' = FALSE /\ headLeft' = FALSE
  /\ UNCHANGED <<com, noncom, actor, back, savedCom, shape, mood, target, members, counts>>

-----------------------------------------------------------------------------
(* The end                                                                  *)

\* Mutant: only those who still act or wait are reset.
ForgetsPart == Acting \cup Waiting
\* Whose target and action points _combat_over resets.
Forgets == Range(line)
\* _combat_over; a player who lies knocked out gets up, unless somebody else ended
\* the fight.
Over ==
  /\ phase = "over" /\ phase' = "peace"
  /\ mood' = [c \in Critters |-> IF c \in Acting \cup Waiting THEN {} ELSE mood[c]]
  /\ target' = [c \in Critters |-> IF c \in Forgets THEN Nobody ELSE target[c]]
  /\ line' = << >>
  /\ \/ UNCHANGED shape
     \/ shape[Dude] = "out" /\ shape' = [shape EXCEPT ![Dude] = "up"]
  /\ UNCHANGED <<com, noncom, cur, actor, back, savedCom, history, counts>>

\* A knock-out ends (knockoutEventProcess): the queue is processed while a turn waits
\* for input or animations, too.
Wake(c) ==
  /\ phase \in {"peace", "turn"} /\ shape[c] = "out"
  /\ shape' = [shape EXCEPT ![c] = "up"]
  /\ mood' = IF phase = "turn" THEN [mood EXCEPT ![c] = @ \cup {"engaging"}] ELSE mood
  /\ UNCHANGED <<phase, parts, cur, actor, back, savedCom, target, history, counts>>

TurnsNext ==
  \/ \E pair \in Starters : Begin(pair[1], pair[2])
  \/ NextTurn \/ TurnEnds \/ TurnAborts \/ PlayerFalls \/ JoinAborts
  \/ \E v \in Critters, result \in {"up", "out", "dead"} : Strike(v, result)
  \/ \E v \in Critters, result \in {"dead", "gone"} : TakeOff(v, result)
  \/ Flee \/ RoundEnds \/ Join \/ StayOut \/ JoinsEnd
  \/ DropDead \/ Park \/ Keep \/ DropsEnd \/ NextRound \/ Over
  \/ \E c \in Critters : Wake(c)
TurnsSpec == TurnsInit /\ [][TurnsNext]_turnVars
\* One thread runs the loops; every turn ends. No fairness of attacks, of joining
\* or of ending the fight.
TurnsFairSpec ==
  /\ TurnsSpec /\ WF_turnVars(NextTurn) /\ WF_turnVars(TurnEnds \/ TurnAborts \/ JoinAborts)
  /\ WF_turnVars(RoundEnds \/ Join \/ StayOut \/ JoinsEnd)
  /\ WF_turnVars(DropDead \/ Park \/ Keep \/ DropsEnd \/ NextRound) /\ WF_turnVars(Over)

-----------------------------------------------------------------------------
(* Properties                                                               *)

Fighting == phase # "peace"
TypeOK ==
  /\ phase \in {"peace", "round", "turn", "joining", "dropping", "parking", "over"}
  /\ line \in Seq(Critters) /\ com \in Nat /\ noncom \in Nat
  /\ cur \in 1..(Cardinality(Critters) + 1)
  /\ actor \in Critters \cup {Nobody} /\ back \in {"round", "joining"} /\ savedCom \in Nat
  /\ shape \in [Critters -> {"up", "out", "dead", "gone"}]
  /\ mood \in [Critters -> SUBSET {"engaging", "disengaging"}]
  /\ target \in [Critters -> Critters \cup {Nobody}]
  /\ members \cup acted \subseteq Critters /\ {cutShort, headLeft} \subseteq BOOLEAN

\* _combat_list holds every critter once, the two counts fit in it, and only the
\* dead are dropped, and none of them acts when a round begins: whatever the loops
\* that swap its parts, the joiners and the removals do, nobody is lost and nobody
\* acts twice for being listed twice. Types included.
Partition ==
  TypeOK /\ (Fighting =>
    /\ IsInjective(line) /\ Range(line) = members /\ com + noncom <= Len(line)
    /\ \A c \in Dropped : shape[c] = "dead"
    /\ phase = "round" /\ acted = {} => \A c \in Acting : shape[c] # "dead")

\* When the round's walk has come to its end, everyone who acts had a turn,
\* although critters left the list under the walk; except when all those before
\* have left, with the one whose turn it was: then the next is passed over.
EveryoneActsBut == phase = "joining" /\ ~cutShort /\ ~headLeft => Acting \subseteq acted
\* The same without exception: no turn is skipped (combat.cc:3844).
EveryoneActs == phase = "joining" /\ ~cutShort => Acting \subseteq acted

\* After the fight nobody who took part remembers an enemy (_combat_over), the
\* dropped and the removed neither: a grudge would begin the next fight.
Forgiven == phase = "peace" => \A c \in Critters : target[c] = Nobody

\* Whoever is among those who act has a turn sooner or later, or drops out, or
\* the fight ends; also if the walk passes them over once.
TurnComes ==
  \A c \in Critters :
    (Fighting /\ c \in Acting) ~> ~Fighting \/ (phase = "turn" /\ actor = c) \/ c \notin Acting
=============================================================================
