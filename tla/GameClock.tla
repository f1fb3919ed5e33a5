----------------------------- MODULE GameClock -----------------------------
(***************************************************************************)
(* The game's clock and what happens by it: midnight and the map's update  *)
(* (scripts.cc), poison and radiation of the player (critter.cc). The clock*)
(* moves by ticks, by scripts, on the world map (worldmap.cc) and while    *)
(* resting (pipboy.cc); each of them has the due events handled. A map that*)
(* is entered or left adds a midnight to those already pending, a loaded   *)
(* game merges its queue into them (queue.cc), and a movie that plays      *)
(* swallows the midnights that come due.                                   *)
(***************************************************************************)
EXTENDS Integers, SequencesExt

CONSTANTS
  Minute, Day,        \* in ticks
  PoisonDelay,        \* until the next bite, of each level; negative for the worst
  MaxDose,            \* levels of radiation
  SickDelay,          \* 4 to 18 hours
  HealDelay,          \* a week
  Leaps,              \* by how much scripts, travel and rest move the clock
  MaxTime, MaxAdjust  \* bounds

\* A minute is 600 ticks, a day 864000; a delay to the next bite may be negative.
ASSUME ClockConstants ==
  /\ {Minute, Day} \subseteq Nat \ {0} /\ Minute <= Day
  /\ PoisonDelay \in Seq(Int) /\ MaxDose \in Nat
  /\ SickDelay \subseteq Nat /\ HealDelay \in Nat /\ Leaps \subseteq Nat
  /\ {MaxTime, MaxAdjust} \subseteq Nat

VARIABLES
  now, queue,
  named,      \* gMapHeader.name: is a map loaded?
  movie,      \* "none", "script" or "midnight": who plays one
  limit,      \* the time queueProcessEvents read on entry, 0 outside it
  resting,    \* the time projected last by the rest under way, 0 if none
  goal,       \* the time a rest sets next, 0 if none
  poison, dose,
  irradiated, \* CRITTER_DUDE_RADIATED
  ill,        \* the sum of the levels whose penalties the stats carry
  slot,       \* what a saved game keeps of all this
  lost,       \* the only midnight was swallowed, and none added since (history)
  lastDay, twice,  \* the last day whose midnight came; it came twice (history)
  peak,       \* the latest time of this game (history)
  setBack,    \* the clock was set back over a midnight (history)
  adjusted    \* doses, poisonings and saves, counted against the bound

body == <<poison, dose, irradiated, ill>>
clock == <<now, peak, limit, resting, goal>>
history == <<lastDay, twice, setBack>>
tvars == <<now, queue, named, movie, limit, resting, goal, poison, dose, irradiated, ill,
           slot, lost, lastDay, twice, peak, setBack, adjusted>>

MaxPoison == Len(PoisonDelay)
Idle == limit = 0 /\ goal = 0
AtPlay == Idle /\ movie = "none" /\ resting = 0

At(time, type, level) == [due |-> time, type |-> type, level |-> level]
ClockEvents == {"midnight", "map", "poison", "sick", "heal"}
\* queueAddEvent: before the first that is later.
Added(q, e) ==
  LET later == {i \in DOMAIN q : q[i].due > e.due}
  IN InsertAt(q, IF later = {} THEN Len(q) + 1 ELSE Min(later), e)
\* The events of these types, in their order.
With(q, types) ==
  LET kept[i \in 0..Len(q)] ==
        IF i = 0 THEN << >>
        ELSE IF q[i].type \in types THEN Append(kept[i - 1], q[i]) ELSE kept[i - 1]
  IN kept[Len(q)]
Without(q, types) == With(q, ClockEvents \ types)

DayOf(t) == t \div Day
\* In the first minute of the next day.
NextMidnight(t) == t + Day - Minute * ((t % Day) \div Minute)
\* gameTimeScheduleUpdateEvent at time t.
Scheduled(q, t, hasName) ==
  LET daily == Added(q, At(NextMidnight(t), "midnight", 0))
  IN IF hasName THEN Added(daily, At(t + Minute, "map", 0)) ELSE daily

ClockInit ==
  /\ now = 1 /\ queue = << >> /\ named = FALSE /\ movie = "none"
  /\ limit = 0 /\ resting = 0 /\ goal = 0 /\ poison = 0 /\ dose = 0 /\ irradiated = FALSE /\ ill = 0
  /\ slot = << >> /\ lost = TRUE /\ lastDay = 0 /\ twice = FALSE
  /\ peak = 1 /\ setBack = FALSE /\ adjusted = 0

-----------------------------------------------------------------------------
(* The clock moves                                                          *)

\* gameTimeSetTime and gameTimeAddTicks.
Moves(t) ==
  /\ now' = t
  /\ peak' = IF t > peak THEN t ELSE peak
  /\ setBack' = (setBack \/ DayOf(t) < DayOf(now))
\* queueProcessEvents begins.
Process == limit' = now'
Moved == UNCHANGED <<queue, named, movie, body, slot, lost, lastDay, twice, adjusted>>

\* _script_chk_timed_events; without a tick, the rest of what is due.
Tick ==
  /\ AtPlay /\ named /\ now < MaxTime
  /\ \E t \in {now, now + 1} : Moves(t)
  /\ Process /\ Moved /\ UNCHANGED <<resting, goal>>
\* game_time_advance, of a script or, while a movie plays, of a program.
Advance(d) ==
  /\ Idle /\ now + d <= MaxTime
  /\ Moves(now + d) /\ Process /\ Moved /\ UNCHANGED <<resting, goal>>
\* One round of wmGameTimeIncrement: not further than to the next event.
Travel(d) ==
  /\ AtPlay /\ ~named /\ queue # << >> /\ now + d <= MaxTime
  /\ Moves(IF now <= queue[1].due /\ queue[1].due < now + d THEN queue[1].due ELSE now + d)
  /\ Process /\ Moved /\ UNCHANGED <<resting, goal>>
\* One iteration of pipboyRest: the clock is set to just after the next event, if
\* there is one until the time projected, though it be overdue, and to the projected
\* time afterwards, though scripts have moved the clock past it meanwhile. The time
\* is projected from where the last iteration got to; at the start, and when the hours
\* follow the minutes, from the present time.
Rest(d) ==
  /\ Idle /\ movie = "none" /\ named
  /\ \E from \in {now} \cup ({resting} \ {0}) :
       /\ from + d <= MaxTime
       /\ IF queue # << >> /\ queue[1].due <= from + d
          THEN Moves(queue[1].due + 1) /\ goal' = from + d /\ Process
          ELSE Moves(from + d) /\ UNCHANGED <<limit, goal>>
       /\ resting' = from + d
  /\ Moved
\* The end of pipboyRest: what is overdue is handled.
EndRest ==
  /\ Idle /\ movie = "none" /\ resting > 0 /\ resting' = 0
  /\ limit' = IF queue # << >> /\ queue[1].due < now THEN now ELSE 0
  /\ Moved /\ UNCHANGED <<now, peak, setBack, goal>>

-----------------------------------------------------------------------------
(* The events                                                               *)

Due(type) ==
  /\ limit > 0 /\ queue # << >> /\ queue[1].due <= limit /\ queue[1].type = type
\* The handler has returned; if its answer is not 0 the processing stops, and a
\* rest with it.
Answers(stop) ==
  IF stop THEN limit' = 0 /\ goal' = 0 ELSE UNCHANGED <<limit, goal>>
\* Nothing more is due.
AllHandled ==
  /\ limit > 0 /\ (queue # << >> => queue[1].due > limit)
  /\ limit' = 0 /\ goal' = 0
  /\ Moves(IF goal > 0 THEN goal ELSE now)
  /\ Moved /\ UNCHANGED resting

\* Mutant: the other midnights stay.
OtherMidnightsStay == {}
\* What the handler of midnight clears.
MidnightClears == {"midnight"}
\* oldRadLevel, as _get_rad_damage_level leaves it.
OldLevel(q) ==
  LET all == With(q, {"sick", "heal"}) IN IF all = << >> THEN 0 ELSE Last(all).level
\* critterCheckRadiationEvent: the roll against endurance may add a level.
Checked(q, roll, delay) ==
  IF irradiated /\ dose + roll > OldLevel(q) THEN Added(q, At(now + delay, "sick", dose + roll)) ELSE q
\* gameTimeEventProcess behind the movie, with the queue it finds.
MidnightPasses(q) ==
  /\ \E roll \in {0, 1}, delay \in SickDelay :
       queue' = Scheduled(Without(Checked(q, roll, delay), MidnightClears), now, named)
  /\ irradiated' = FALSE
  /\ twice' = (twice \/ lastDay = DayOf(now))
  /\ lastDay' = DayOf(now) /\ lost' = FALSE /\ UNCHANGED setBack

\* No movie begins.
Midnight ==
  /\ Due("midnight") /\ movie = "none"
  /\ MidnightPasses(Tail(queue))
  /\ UNCHANGED <<clock, named, movie, poison, dose, ill, slot, adjusted>>
\* _scriptsCheckGameEvents shows one: meanwhile programs run.
MidnightShows ==
  /\ Due("midnight") /\ movie = "none"
  /\ queue' = Tail(queue) /\ movie' = "midnight" /\ limit' = 0 /\ goal' = 0
  /\ UNCHANGED <<now, peak, resting, named, body, slot, lost, history, adjusted>>
MidnightShown ==
  /\ Idle /\ movie = "midnight" /\ movie' = "none"
  /\ MidnightPasses(queue)
  /\ UNCHANGED <<clock, named, poison, dose, ill, slot, adjusted>>
\* A movie is playing already.
MidnightSwallowed ==
  /\ Due("midnight") /\ movie # "none"
  /\ queue' = Tail(queue)
  /\ lost' = (lost \/ (movie = "script" /\ With(Tail(queue), {"midnight"}) = << >>))
  /\ UNCHANGED <<clock, named, movie, body, slot, history, adjusted>>
\* A script's movie.
Show ==
  /\ AtPlay /\ named /\ movie' = "script"
  /\ UNCHANGED <<clock, queue, named, body, slot, lost, history, adjusted>>
Shown ==
  /\ Idle /\ movie = "script" /\ movie' = "none"
  /\ UNCHANGED <<clock, queue, named, body, slot, lost, history, adjusted>>

\* mapUpdateEventProcess.
MapUpdate ==
  /\ Due("map")
  /\ LET rest == Without(queue, {"map"})
     IN queue' = IF named THEN Added(rest, At(now + Minute, "map", 0)) ELSE rest
  /\ UNCHANGED <<clock, named, movie, body, slot, lost, history, adjusted>>

-----------------------------------------------------------------------------
(* Poison and radiation                                                     *)

\* Mutant: the bite that is pending stays.
NotRenewed(q, p) == Added(q, At(now + PoisonDelay[p], "poison", 0))
Renewed(q, p) == Added(Without(q, {"poison"}), At(now + PoisonDelay[p], "poison", 0))
\* Bound: no bite is due before the clock begins (times are unsigned).
Unwrapped(p) == p > 0 => now + PoisonDelay[p] >= 0
\* critterAdjustPoison, to p; a cure leaves the pending event.
Poisoned(q, p) == IF p > 0 THEN Renewed(q, p) ELSE q
AdjustPoison(p) ==
  /\ AtPlay /\ adjusted < MaxAdjust /\ (p < poison \/ p > 0) /\ Unwrapped(p)
  /\ poison' = p /\ queue' = Poisoned(queue, p) /\ adjusted' = adjusted + 1
  /\ UNCHANGED <<clock, named, movie, dose, irradiated, ill, slot, lost, history>>
\* poisonEventProcess: one level less, and a hit point, of which few stop the rest.
PoisonBites(stop) ==
  /\ Due("poison")
  /\ poison' = IF poison > 0 THEN poison - 1 ELSE 0
  /\ Unwrapped(poison')
  /\ queue' = IF poison > 0 THEN Poisoned(Tail(queue), poison - 1) ELSE Tail(queue)
  /\ Answers(stop)
  /\ UNCHANGED <<now, peak, resting, named, movie, dose, irradiated, ill, slot, lost, history, adjusted>>

\* critterAdjustRadiation.
AdjustRadiation(level) ==
  /\ AtPlay /\ adjusted < MaxAdjust
  /\ dose' = level /\ irradiated' = (irradiated \/ level >= dose)
  /\ adjusted' = adjusted + 1
  /\ UNCHANGED <<clock, queue, named, movie, poison, ill, slot, lost, history>>
Levels(q) ==
  LET sum[i \in 0..Len(q)] ==
        IF i = 0 THEN 0 ELSE sum[i - 1] + IF q[i].type = "heal" THEN q[i].level ELSE 0
  IN sum[Len(q)]
\* radiationClearDamage, of each radiation event that is cleared.
Undone(q) == Levels(q)
\* radiationEventProcess, of damage: it replaces all that is pending.
Sickens ==
  /\ Due("sick")
  /\ LET e == queue[1]
     IN /\ ill' = ill - Undone(Tail(queue)) + e.level
        /\ queue' = Added(Without(queue, {"sick", "heal"}), At(now + HealDelay, "heal", e.level))
  /\ Answers(TRUE)
  /\ UNCHANGED <<now, peak, resting, named, movie, poison, dose, irradiated, slot, lost, history, adjusted>>
\* The same, of healing.
Heals ==
  /\ Due("heal")
  /\ ill' = ill - queue[1].level /\ queue' = Tail(queue)
  /\ Answers(TRUE)
  /\ UNCHANGED <<now, peak, resting, named, movie, poison, dose, irradiated, slot, lost, history, adjusted>>

-----------------------------------------------------------------------------
(* Maps and saved games                                                     *)

\* The end of mapLoad.
EnterMap ==
  /\ AtPlay /\ ~named
  /\ named' = TRUE /\ queue' = Scheduled(queue, now, TRUE) /\ lost' = FALSE
  /\ UNCHANGED <<clock, movie, body, slot, history, adjusted>>
\* _map_save_in_game of a map that is left: _queue_leaving_map, then midnight and
\* the map's update while the map still has a name, midnight again without.
LeaveMap ==
  /\ AtPlay /\ named
  /\ named' = FALSE /\ lost' = FALSE
  /\ queue' = Scheduled(Scheduled(Without(queue, {"midnight", "map"}), now, TRUE), now, FALSE)
  /\ UNCHANGED <<clock, movie, body, slot, history, adjusted>>
Save ==
  /\ AtPlay /\ named /\ slot = << >> /\ adjusted < MaxAdjust /\ adjusted' = adjusted + 1
  /\ slot' = <<[now |-> now, queue |-> queue, poison |-> poison, dose |-> dose,
               irradiated |-> irradiated, ill |-> ill, lastDay |-> lastDay, peak |-> peak]>>
  /\ UNCHANGED <<clock, queue, named, movie, body, lost, history>>
\* _PrepLoad empties the queue and sets the clock, the map is loaded, and queueLoad
\* puts what the map has added into what the file holds.
Load ==
  /\ AtPlay /\ slot # << >>
  /\ LET s == slot[1]
         fresh == Scheduled(<< >>, s.now, TRUE)
     IN /\ now' = s.now /\ peak' = s.peak
        /\ queue' = Added(Added(s.queue, fresh[1]), fresh[2])
        /\ poison' = s.poison /\ dose' = s.dose /\ irradiated' = s.irradiated
        /\ ill' = s.ill /\ lastDay' = s.lastDay
  /\ named' = TRUE /\ lost' = FALSE
  /\ UNCHANGED <<movie, limit, resting, goal, slot, twice, setBack, adjusted>>

ClockNext ==
  \/ Tick \/ AllHandled \/ EndRest
  \/ \E d \in Leaps : Advance(d) \/ Travel(d) \/ Rest(d)
  \/ Midnight \/ MidnightShows \/ MidnightShown \/ MidnightSwallowed \/ Show \/ Shown
  \/ MapUpdate \/ EnterMap \/ LeaveMap \/ Save \/ Load
  \/ \E p \in 0..MaxPoison : AdjustPoison(p)
  \/ \E stop \in BOOLEAN : PoisonBites(stop)
  \/ \E level \in 0..MaxDose : AdjustRadiation(level)
  \/ Sickens \/ Heals
ClockSpec == ClockInit /\ [][ClockNext]_tvars

-----------------------------------------------------------------------------
(* Properties                                                               *)

ClockTypes ==
  /\ {now, peak, limit, goal, resting, poison, dose, ill, lastDay, adjusted} \subseteq Nat
  /\ \A i \in DOMAIN queue : queue[i] \in
       [due : Nat, type : ClockEvents, level : 0..(MaxDose + 1)]
  /\ \A i, j \in DOMAIN queue : i < j => queue[i].due <= queue[j].due
  /\ {named, irradiated, lost, twice, setBack} \subseteq BOOLEAN /\ Len(slot) <= 1
  /\ movie \in {"none", "script", "midnight"}

\* Outside a handler the next midnight is pending, not later than in the first minute
\* of the day after the latest the clock has shown, and on a map its next update, not
\* later than a minute behind that: both events re-add themselves, whatever was entered,
\* left, saved, loaded, skipped or rested; except when a script's movie swallowed the
\* only midnight.
ClockRuns ==
  Idle /\ movie = "none" /\ ~lost =>
    /\ \E e \in ToSet(With(queue, {"midnight"})) : e.due < Day * (DayOf(peak) + 1) + Minute
    /\ named => \E e \in ToSet(With(queue, {"map"})) : e.due <= peak + Minute

\* Midnight comes once a day, however many midnights maps and saved games have
\* added; except when the clock has been set back over a midnight.
OncePerDay == twice => setBack

\* The player who is poisoned will be bitten, by one event: neither never again nor
\* twice as often, also by a bite whose delay is negative.
OneBite ==
  LET bites == Len(With(queue, {"poison"}))
  IN bites <= 1 /\ (poison > 0 => bites = 1)

\* What radiation has taken from the stats is what pending events will give back,
\* one of them at most: no penalty stays, and none is given back twice.
IllnessEnds == ill = Levels(queue) /\ Len(With(queue, {"heal"})) <= 1

\* Midnight and the map's update stay pending whatever is entered, left, saved, loaded,
\* skipped or rested, and midnight comes once a day (gameTimeScheduleUpdateEvent,
\* gameTimeEventProcess); types included.
DaysPass == ClockTypes /\ ClockRuns /\ OncePerDay
\* Poison bites by one event, and what radiation took from the stats is what pending
\* events will give back (critterAdjustPoison, radiationEventProcess).
AilmentsEnd == OneBite /\ IllnessEnds
=============================================================================
