----------------------------- MODULE MCProgress -----------------------------
(* What must come to an end: the events that are due, a call that waits for  *)
(* room in the cache, the animations a combat turn waits for; what must come *)
(* round: the turns of a fight of three, with one attack and two taken off,   *)
(* the critters' scripts in the background, with three additions, removals or *)
(* companions; and what sounds leave behind when they end: the music, effects *)
(* and scripts' sounds compete for two buffers, or speech, lips, opcodes and  *)
(* scripts' sounds. They share nothing; a behaviour is one of them at work.   *)
EXTENDS Sounds, CombatTurns, TLC

CONSTANTS n1, n2, n3, dude, npc, foe, boss, null, head, any,
          junk, nowhere, place1, h1, h2, a, b, c, nil, s1, s2

VARIABLES
  now, queue, info, alloc, gone, qstack,
  entries, size, hits, marked, call, mode, contents, place,
  seqs, slot, building, sads, inBk, inStop, inCombat, running, cleanup,
  alive, begins, stack, ret,
  lists, sids, nextId, items, locals, where, party, packs, home, leaving, file, index,
  frames, wrote, traded, ops, trips,
  scenario

qvars == <<now, queue, info, alloc, gone, qstack>>
cvars == <<entries, size, hits, marked, call, mode, contents, place>>
avars == <<seqs, slot, building, sads, inBk, inStop, inCombat, running, cleanup,
           alive, begins, stack, ret>>
svars == <<lists, sids, nextId, items, locals, where, party, packs, home, leaving, file, index,
           frames, wrote, traded, ops, trips>>
all == <<vars, qvars, cvars, avars, turnVars, svars, scenario>>

Q == INSTANCE EventQueue WITH
  Node <- {n1, n2, n3}, Owner <- {dude, npc}, Item <- {}, Party <- {dude}, Dude <- dude,
  NIL <- null, HEAD <- head, ANY <- any, EventTypes_ <- <<"GAME_TIME">>, Delays <- {0, 1},
  MaxTime <- 1, Word <- 16, MaxDepth <- 3, MaxOps <- 1, LethalClear <- FALSE,
  stack <- qstack

C == INSTANCE Cache WITH
  Key <- {1, 2}, SizeOf <- [k \in {1, 2} |-> k], ReadSizes <- [k \in {1, 2} |-> 1..k],
  MaxSize <- 2, HitLimit <- 4, Attempts <- 2, MaxRefs <- 2, Handle <- {h1, h2},
  Place <- {place1}, Junk <- junk, Nowhere <- nowhere

Desc(kind, owner, delay) ==
  [kind |-> kind, owner |-> owner, delay |-> delay, forced |-> FALSE, target |-> 0]
Forced == [Desc("callback", nil, -1) EXCEPT !.forced = TRUE]
Walk == <<[request |-> {}, priority |-> FALSE,
           descs |-> <<Desc("move", a, 0), Forced, Desc("instant", a, -1)>>]>>
Attack == <<[request |-> {"reserved"}, priority |-> TRUE,
             descs |-> <<Desc("animate", a, 0), Desc("animate", b, 1), Forced>>]>>

A == INSTANCE Animation WITH
  Slots <- 2, NonReserved <- 1, MaxDescs <- 3, MaxSads <- 2, Objects <- {a, b},
  Critters <- {a, b}, NIL <- nil, Plans <- {Walk, Attack}, MaxDepth <- 4, MaxBegins <- 3,
  Scripts <- {}, cur <- slot

Teams == dude :> 0 @@ foe :> 1 @@ boss :> 1
Speeds == dude :> 2 @@ foe :> 3 @@ boss :> 1
Tiles == foe :> 1 @@ boss :> 2 @@ dude :> 3
Duel == {<<dude, foe>>}

OneVariable == [o \in {a, b, c} |-> 1]
S == INSTANCE ScriptLists WITH
  Critters <- {a, b, c}, Items <- {}, Pals <- {b}, VarCount <- OneVariable, NIL <- nil,
  ExtentSize <- 2, MaxDepth <- 1, MaxOps <- 3, MaxTrips <- 0, vars <- locals

Dialogue == INSTANCE Sounds WITH Roles <- {"speech", "lips", "program", "once"}
ASSUME ProgressConstants ==
  SoundConstants /\ Dialogue!SoundConstants /\ TurnsConstants

EitherInit ==
  /\ scenario \in {"queue", "cache", "animation", "fight", "scripts", "outdoors", "dialogue"}
  /\ Init /\ Q!Init /\ C!Init /\ A!Init /\ TurnsInit /\ S!Init
  /\ scenario # "queue" => now = 0

\* A step of the scenario's component, and the state of it.
In(name, step) == scenario = name /\ step /\ UNCHANGED scenario
own ==
  CASE scenario = "queue" -> qvars
    [] scenario = "cache" -> cvars
    [] scenario = "animation" -> avars
    [] scenario = "fight" -> turnVars
    [] scenario = "scripts" -> svars
    [] OTHER -> vars

QueueStep == In("queue", Q!Next) /\ UNCHANGED <<vars, cvars, avars, turnVars, svars>>
CacheStep == In("cache", C!Next) /\ UNCHANGED <<vars, qvars, avars, turnVars, svars>>
AnimationStep == In("animation", A!Next) /\ UNCHANGED <<vars, qvars, cvars, turnVars, svars>>
FightStep == In("fight", TurnsNext) /\ UNCHANGED <<vars, qvars, cvars, avars, svars>>
ScriptStep == In("scripts", S!Next) /\ UNCHANGED <<vars, qvars, cvars, avars, turnVars>>
SoundStep ==
  /\ In("outdoors", Next) \/ In("dialogue", Dialogue!Next)
  /\ UNCHANGED <<qvars, cvars, avars, turnVars, svars>>
\* The bounded histories of fights and scripts end.
Ends == scenario \in {"fight", "scripts"} /\ UNCHANGED all

\* The fairness of the five modules' FairSpec; none is assumed of sounds. A behaviour stays
\* in its scenario, so that one formula speaks of an action of each.
Either ==
  /\ EitherInit
  /\ [][QueueStep \/ CacheStep \/ AnimationStep \/ FightStep \/ ScriptStep \/ SoundStep \/ Ends]_all
  /\ WF_own(\/ In("queue", Q!Loop) \/ In("cache", C!Work) \/ In("animation", A!CallNext)
            \/ In("fight", NextTurn) \/ In("scripts", S!Resume))
  /\ WF_own(\/ In("queue", Q!ClearDrop) \/ In("animation", A!Update)
            \/ In("fight", TurnEnds \/ TurnAborts \/ JoinAborts))
  /\ WF_own(\/ In("queue", \E stop \in BOOLEAN : Q!HandlerReturn(stop))
            \/ In("fight", RoundEnds \/ Join \/ StayOut \/ JoinsEnd))
  /\ WF_own(In("fight", DropDead \/ Park \/ Keep \/ DropsEnd \/ NextRound))
  /\ WF_own(In("fight", Over))
  /\ SF_own(\/ In("queue", qstack = << >> /\ Q!StartProcess) \/ In("animation", A!SadDue)
            \/ In("scripts", frames = << >> /\ S!Round))
  /\ SF_own(In("animation", A!StepArrives))
  /\ SF_own(In("animation", A!PlayLastFrame))

\* Every event that is due is eventually handled or removed (queueProcessEvents).
DueLeaves == scenario = "queue" => Q!DueLeaves
\* Every cacheLock and cacheFlush returns.
CallsReturn == scenario = "cache" => C!CallsReturn
\* Every turn's animations come to an end (_combat_turn_run).
TurnsEnd == scenario = "animation" => A!TurnsEnd
\* The script of every critter gets its turn in the background round
\* (_script_chk_critters), or leaves the list.
TurnOfEach == scenario = "scripts" => S!TurnOfEach
=============================================================================
