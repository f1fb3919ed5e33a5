----------------------------- MODULE Animation ------------------------------
(***************************************************************************)
(* The animation scheduler (animation.cc). A caller fills a slot with a     *)
(* sequence of descriptions between reg_anim_begin and reg_anim_end; the    *)
(* sequence runs its descriptions in order, those that take time becoming  *)
(* entries of the sad list, which the background loop advances frame by     *)
(* frame. Running, ending and stopping sequences call back into scripts and *)
(* actions that use the same interface: the calls are frames of "stack",    *)
(* and only the top frame moves.                                           *)
(*                                                                         *)
(* A description is of one of these kinds:                                 *)
(*   move      walks or flies: takes time, arrives at once, or fails        *)
(*   animate   plays frames once: takes time or fails                       *)
(*   fade      plays frames, then hides; hides at once if it cannot play    *)
(*   forever   plays frames until its sequence is ended                     *)
(*   instant   turns, sets a flag, a fid or a light                         *)
(*   hide      hides; the owner is destroyed when the sequence ends         *)
(*   callback  calls code                                                  *)
(*   ping      starts a sequence that was told to wait                      *)
(***************************************************************************)
EXTENDS Integers, FiniteSets, SequencesExt

CONSTANTS
  Slots,        \* ANIMATION_SEQUENCE_LIST_CAPACITY
  NonReserved,  \* ANIMATION_NON_RESERVED_LIST_CAPACITY
  MaxDescs,     \* ANIMATION_DESCRIPTION_LIST_CAPACITY
  MaxSads,      \* ANIMATION_SAD_LIST_CAPACITY
  Objects, Critters,
  NIL,          \* no object
  Plans,        \* what callers register: sequences, one after the other
  MaxDepth,     \* bound: nested calls from which callers still begin sequences
  MaxBegins,    \* bound: sequences begun in a run, 0 when there is none
  Scripts       \* where scripts that begin sequences run: "steps", "damage"

Kinds == {"move", "animate", "fade", "forever", "instant", "hide", "callback", "ping"}
Flags == {"prioritized", "combat", "reserved", "accumulating",
          "waiting",         \* ANIM_SEQ_0x10
          "held",            \* ANIM_SEQ_0x20
          "insignificant", "noStand"}
Requests == SUBSET {"reserved", "insignificant", "noStand"}
COMPLETE == -1000

Desc == [kind : Kinds, owner : Objects \cup {NIL}, delay : Int, forced : BOOLEAN,
         target : 0..Slots]

ASSUME AnimationConstants ==
  /\ {Slots, NonReserved, MaxDescs, MaxSads, MaxDepth} \subseteq Nat
  /\ Critters \subseteq Objects /\ NIL \notin Objects
  /\ Plans \subseteq Seq([request : Requests, priority : BOOLEAN, descs : Seq(Desc)]) \ {<< >>}
  /\ MaxBegins \in Nat /\ Scripts \subseteq {"steps", "damage"}

VARIABLES
  seqs,      \* gAnimationSequences
  cur,       \* gAnimationSequenceCurrentIndex, 0 when none is being built
  building,  \* the descriptions registered for it so far
  sads,      \* gAnimationSads up to gAnimationCurrentSad
  inBk, inStop,
  inCombat,
  running,   \* _combat_turn_running
  cleanup,   \* _combat_cleanup_enabled
  alive,     \* objects not destroyed
  begins,    \* sequences begun, when that is bounded
  stack,     \* suspended calls, innermost last
  ret        \* what the last call to return returned

vars == <<seqs, cur, building, sads, inBk, inStop, inCombat, running,
          cleanup, alive, begins, stack, ret>>
slotVars == <<cur, building>>
gameVars == <<inCombat, running, cleanup, alive>>

Sequence == [step : Int, idx : Int, descs : Seq(Desc), flags : SUBSET Flags]
Sad == [obj : Objects, seq : 1..Slots, moves : BOOLEAN, kind : Kinds,
        step : {"new", "init", "going", "complete"}]

\* A suspended call: slot is the sequence it works on, at its loop counter or,
\* in a caller, where it is; plan what a caller still has to register.
Ops == {"main", "callback", "script", "standup",
        "run", "ping", "end", "finish", "animate", "stepping", "playing", "completed", "stop", "turnrun"}
Frame(op, slot, at) == [op |-> op, slot |-> slot, at |-> at, plan |-> << >>]

Init ==
  /\ seqs = [i \in 1..Slots |-> [step |-> COMPLETE, idx |-> -1, descs |-> << >>, flags |-> {}]]
  /\ cur = 0 /\ building = << >> /\ sads = << >>
  /\ inBk = FALSE /\ inStop = FALSE /\ inCombat = FALSE
  /\ running = 0 /\ cleanup = FALSE /\ alive = Objects /\ begins = 0
  /\ stack = <<Frame("main", 0, 0)>> /\ ret = 0

-----------------------------------------------------------------------------
Top == Last(stack)
TopIs(op) == Top.op = op
Below == Front(stack)
Replaced(f) == Append(Below, f)
Calling(fs) == stack \o fs

InProgress(i) == seqs[i].step # COMPLETE
IsCallback(d) == d.kind = "callback"
Owns(i, o) == \E k \in 1..Len(seqs[i].descs) :
                seqs[i].descs[k].owner = o /\ ~IsCallback(seqs[i].descs[k])

\* _anim_set_continue on a sequence in progress: the calls it makes.
Continued(i) == [seqs EXCEPT ![i].idx = @ + 1]
AllDone(i) == seqs[i].idx + 1 = Len(seqs[i].descs)
ContinueCalls(i, more) ==
  IF AllDone(i) THEN <<Frame("end", i, 0)>>
  ELSE IF more THEN <<Frame("run", i, 0)>> ELSE << >>

\* Sads belonging to a sequence, and the object's first one.
Completed(ks) == [k \in 1..Len(sads) |->
                    IF k \in ks THEN [sads[k] EXCEPT !.step = "complete"] ELSE sads[k]]
SadsOf(i) == {k \in 1..Len(sads) : sads[k].seq = i}
Live(k) == sads[k].step # "complete"

-----------------------------------------------------------------------------
(* What callers do: the main loop, callbacks, scripts and the standing up    *)
(* that follows an attack.                                                  *)

Caller == Top.op \in {"main", "callback", "script", "standup"}
\* at: 0 at leisure, 1 between begin and end, 2 after an end.
AtLeisure == Caller /\ Top.at = 0
Registering == Caller /\ Top.at = 1

Taken(i) == InProgress(i) \/ seqs[i].flags \cap {"accumulating", "held"} # {}
Crowd == Cardinality({i \in 1..Slots : Taken(i) /\ "reserved" \notin seqs[i].flags})
Open(pinging) == {i \in 1..Slots : ~Taken(i) /\ (pinging => "waiting" \notin seqs[i].flags)}
CanFreeSlot(request, pinging) ==
  Open(pinging) # {} /\ ("reserved" \in request \/ Crowd < NonReserved)
FreeSlot(pinging) == CHOOSE i \in Open(pinging) : \A j \in Open(pinging) : i <= j

\* reg_anim_begin and _register_priority for the first sequence of a plan.
\* Callers ignore the result of a begin that failed: inside somebody else's
\* begin and end they go on into that sequence.
BeginCalls(plan, attack) ==
  Replaced([Top EXCEPT !.at = 1, !.plan = plan,
                       !.slot = IF Top.op = "main" THEN (IF attack THEN 1 ELSE 0) ELSE @])
BeginPart(plan, attack) ==
  LET p == Head(plan)
      i == IF cur # 0 THEN cur ELSE FreeSlot(FALSE)
      priority == IF p.priority THEN {"prioritized"} ELSE {}
      fresh == IF cur # 0 THEN {} ELSE {"accumulating"} \cup p.request
  IN /\ seqs' = [seqs EXCEPT ![i].flags = @ \cup fresh \cup priority]
     /\ cur' = i
     /\ building' = IF cur # 0 THEN building ELSE << >>
     /\ stack' = BeginCalls(plan, attack)
     /\ UNCHANGED <<sads, inBk, inStop, ret, gameVars>>
CanBegin(p) == cur # 0 \/ (~inStop /\ CanFreeSlot(p.request, FALSE))

Begin(plan) ==
  /\ AtLeisure
  /\ Top.op # "main" => Len(stack) <= MaxDepth
  /\ MaxBegins = 0 \/ begins < MaxBegins
  /\ \A k \in 1..Len(plan) : \A m \in 1..Len(plan[k].descs) :
       plan[k].descs[m].owner \in alive \cup {NIL}
  /\ CanBegin(Head(plan))
  /\ BeginPart(plan, inCombat /\ Head(plan).priority)
  /\ begins' = IF MaxBegins = 0 THEN 0 ELSE begins + 1

\* A plan's next sequence (an attack's bystanders), or, at its end, the note
\* that damage is due when the attack's animations are over.
BeginNext ==
  /\ Caller /\ Top.at = 2
  /\ Top.plan # << >> /\ CanBegin(Head(Top.plan))
  /\ BeginPart(Top.plan, Top.slot = 1)
  /\ UNCHANGED begins
PlanDone ==
  /\ Caller /\ Top.at = 2
  /\ Top.plan # << >> => ~CanBegin(Head(Top.plan))
  /\ cleanup' = (cleanup \/ (Top.op = "main" /\ Top.slot = 1))
  /\ stack' = Replaced([Top EXCEPT !.at = 0, !.plan = << >>,
                                   !.slot = IF Top.op = "main" THEN 0 ELSE @])
  /\ UNCHANGED <<seqs, sads, inBk, inStop, begins, ret, slotVars, inCombat, running, alive>>

\* The description to register next, and the plan without it.
Pending == Registering /\ Head(Top.plan).descs # << >>
Upcoming == Head(Head(Top.plan).descs)
Shortened(p) == [p EXCEPT !.descs = Tail(@)]
Planned == Replaced([Top EXCEPT !.plan = <<Shortened(Head(@))>> \o Tail(@)])

\* _check_registry: sequences in progress that animate the owner already.
\* Mutant: the search stops at the sequence being built.
RivalsAhead(o) == {i \in 1..(cur - 1) : o # NIL /\ InProgress(i) /\ Owns(i, o)}
Rivals(o) == {i \in (1..Slots) \ {cur} : o # NIL /\ InProgress(i) /\ Owns(i, o)}
Blocked(o) == \E i \in Rivals(o) : "insignificant" \notin seqs[i].flags

\* With no sequence being built the call does nothing.
RegisterNothing ==
  /\ Pending /\ cur = 0
  /\ stack' = Planned
  /\ UNCHANGED <<seqs, sads, inBk, inStop, begins, ret, slotVars, gameVars>>

\* An insignificant rival is ended first.
RegisterEndsRival ==
  /\ Pending /\ cur # 0 /\ Len(building) < MaxDescs
  /\ Rivals(Upcoming.owner) # {} /\ ~Blocked(Upcoming.owner)
  /\ \E i \in Rivals(Upcoming.owner) : stack' = Calling(<<Frame("end", i, 0)>>)
  /\ UNCHANGED <<seqs, sads, inBk, inStop, begins, ret, slotVars, gameVars>>

\* animationRegisterPing finds the slot the next sequence is to be begun in and
\* marks it as waiting.
Register ==
  /\ Pending /\ cur # 0 /\ Len(building) < MaxDescs
  /\ Rivals(Upcoming.owner) = {}
  /\ IF Upcoming.kind # "ping"
     THEN building' = Append(building, Upcoming) /\ UNCHANGED seqs
     ELSE IF CanFreeSlot({"reserved"}, TRUE)
     THEN LET i == FreeSlot(TRUE) IN
          /\ building' = Append(building, [Upcoming EXCEPT !.target = i])
          /\ seqs' = [seqs EXCEPT ![i].flags = {"waiting"}]
     ELSE UNCHANGED <<building, seqs>>
  /\ stack' = Planned
  /\ UNCHANGED <<sads, inBk, inStop, begins, ret, cur, gameVars>>

\* _anim_cleanup: the sequence being built is abandoned, because it is full,
\* its owner is busy or its art cannot be read.
CleanedFlags(i) == seqs[i].flags \ {"accumulating", "waiting"}
NeedsArt(d) == d.kind \in {"move", "animate", "fade", "forever"}
RegisterFails ==
  /\ Pending /\ cur # 0
  /\ \/ Len(building) >= MaxDescs \/ Blocked(Upcoming.owner)
     \/ NeedsArt(Upcoming) /\ Rivals(Upcoming.owner) = {}
  /\ seqs' = [i \in 1..Slots |-> [seqs[i] EXCEPT !.flags = CleanedFlags(i)]]
  /\ cur' = 0 /\ building' = << >>
  /\ stack' = Planned
  /\ UNCHANGED <<sads, inBk, inStop, begins, ret, gameVars>>

\* reg_anim_end. When no sequence is being built it fails and the caller gives
\* up the rest of its plan.
StartFlags(i) == (seqs[i].flags \ {"accumulating"}) \cup (IF inCombat THEN {"combat"} ELSE {})
Waits(i) == "waiting" \in seqs[i].flags
Started(i) == [step |-> 0, idx |-> IF Waits(i) THEN -1 ELSE 0, flags |-> StartFlags(i),
               descs |-> IF building = << >> THEN << >> ELSE [building EXCEPT ![1].delay = 0]]
RegisterEnd ==
  /\ Registering /\ Head(Top.plan).descs = << >>
  /\ IF cur = 0
     THEN /\ stack' = Replaced([Top EXCEPT !.at = 0, !.plan = << >>])
          /\ UNCHANGED <<seqs, cur, building, running>>
     ELSE /\ seqs' = [seqs EXCEPT ![cur] = Started(cur)]
          /\ running' = IF inCombat THEN running + 1 ELSE running
          /\ cur' = 0 /\ building' = << >>
          /\ stack' = Replaced([Top EXCEPT !.at = 2, !.plan = Tail(@)]) \o
               (IF Waits(cur) THEN << >>
                ELSE <<Frame(IF building = << >> THEN "end" ELSE "run", cur, 0)>>)
  /\ UNCHANGED <<sads, inBk, inStop, inCombat, cleanup, alive, begins, ret>>

\* reg_anim_clear ends the first sequence that animates o, unless it has priority.
FirstOwning(i, o) ==
  /\ InProgress(i) /\ Owns(i, o)
  /\ \A j \in 1..(i - 1) : ~(InProgress(j) /\ Owns(j, o))
Ending(i) == \E k \in 1..Len(stack) : stack[k].op = "end" /\ stack[k].slot = i
\* Bound: a forced callback does not clear the sequence whose end runs it.
Clear(o) ==
  /\ AtLeisure
  /\ \E i \in 1..Slots :
       /\ FirstOwning(i, o) /\ "prioritized" \notin seqs[i].flags /\ ~Ending(i)
       /\ stack' = Calling(<<Frame("end", i, 0)>>)
  /\ UNCHANGED <<seqs, sads, inBk, inStop, begins, ret, slotVars, gameVars>>

\* A callback returns 0 or fails.
CallbackReturns ==
  /\ AtLeisure /\ TopIs("callback")
  /\ LET i == Top.slot IN
       \/ /\ InProgress(i)
          /\ seqs' = Continued(i)
          /\ stack' = Below \o ContinueCalls(i, FALSE)
       \/ /\ InProgress(i)
          /\ stack' = Below \o <<Frame("end", i, 0)>>
          /\ UNCHANGED seqs
       \/ /\ ~InProgress(i)
          /\ stack' = Below
          /\ UNCHANGED seqs
  /\ UNCHANGED <<sads, inBk, inStop, begins, ret, slotVars, gameVars>>

\* A script returns; the critter that stood up waits for the turn's animations.
ScriptReturns ==
  /\ AtLeisure /\ Top.op \in {"script", "standup"}
  /\ stack' = IF TopIs("script") THEN Below ELSE Replaced(Frame("turnrun", 0, 0))
  /\ UNCHANGED <<seqs, sads, inBk, inStop, begins, ret, slotVars, gameVars>>

-----------------------------------------------------------------------------
(* animationRunSequence                                                     *)

Running == TopIs("run")
S == seqs[Top.slot]
Returns(value) == stack' = Below /\ ret' = value

\* Mutant: ending the sequence is not reported.
RunResultZero(i) == 0
RunResult(i) == IF InProgress(i) THEN 0 ELSE -1

AtRest == S.step < Len(S.descs) => S.step > S.idx /\ S.descs[S.step + 1].delay # 0
RunReturns ==
  /\ Running
  /\ InProgress(Top.slot) => AtRest
  /\ Returns(RunResult(Top.slot))
  /\ IF InProgress(Top.slot) /\ S.step < Len(S.descs) /\ S.descs[S.step + 1].delay > 0
     THEN seqs' = [seqs EXCEPT ![Top.slot].descs[S.step + 1].delay = @ - 1]
     ELSE UNCHANGED seqs
  /\ UNCHANGED <<sads, inBk, inStop, begins, slotVars, gameVars>>

\* The description that is run next, if the sequence does not rest here.
Runs(kinds) == Running /\ InProgress(Top.slot) /\ ~AtRest /\ S.descs[S.step + 1].kind \in kinds
D == S.descs[S.step + 1]
Stepped == [seqs EXCEPT ![Top.slot].step = @ + 1]
SteppedOn == [seqs EXCEPT ![Top.slot].step = @ + 1, ![Top.slot].idx = @ + 1]
NewSad(step) == [obj |-> D.owner, seq |-> Top.slot, moves |-> D.kind = "move",
                 kind |-> D.kind, step |-> step]
Room == Len(sads) < MaxSads

RunInstant ==
  /\ \/ Runs({"instant", "hide"})
     \/ Runs({"fade"})                       \* it cannot be played
  /\ seqs' = SteppedOn
  /\ stack' = Calling(ContinueCalls(Top.slot, FALSE))
  /\ UNCHANGED <<sads, inBk, inStop, begins, ret, slotVars, gameVars>>

RunTakesTime ==
  /\ Runs({"move", "animate", "fade", "forever"}) /\ Room
  /\ seqs' = Stepped
  /\ sads' = Append(sads, NewSad(IF D.kind = "move" THEN "init" ELSE "new"))
  /\ UNCHANGED <<inBk, inStop, begins, ret, stack, slotVars, gameVars>>

\* A mover that has nowhere to go is done at once.
RunArrived ==
  /\ Runs({"move"}) /\ Room
  /\ seqs' = SteppedOn
  /\ sads' = Append(sads, NewSad("complete"))
  /\ stack' = Calling(ContinueCalls(Top.slot, FALSE))
  /\ UNCHANGED <<inBk, inStop, begins, ret, slotVars, gameVars>>

\* No path, no art or no room in the list of sads.
RunFails ==
  /\ Runs({"move", "animate", "forever"})
  /\ seqs' = Stepped
  /\ stack' = Calling(<<Frame("end", Top.slot, 0)>>)
  /\ UNCHANGED <<sads, inBk, inStop, begins, ret, slotVars, gameVars>>

RunCallback ==
  /\ Runs({"callback"})
  /\ seqs' = Stepped
  /\ stack' = Calling(<<Frame("callback", Top.slot, 0)>>)
  /\ UNCHANGED <<sads, inBk, inStop, begins, ret, slotVars, gameVars>>

RunPing ==
  /\ Runs({"ping"})
  /\ LET t == D.target IN
     IF InProgress(t)
     THEN /\ seqs' = [Stepped EXCEPT ![t].flags = @ \ {"waiting"}, ![t].idx = @ + 1]
          /\ ret' = 0
          /\ stack' = Calling(<<Frame("ping", Top.slot, 0)>> \o ContinueCalls(t, TRUE))
     ELSE /\ seqs' = [Stepped EXCEPT ![t].flags = @ \ {"waiting"}]
          /\ ret' = -1
          /\ stack' = Calling(<<Frame("ping", Top.slot, 0)>>)
  /\ UNCHANGED <<sads, inBk, inStop, begins, slotVars, gameVars>>

\* The pinged sequence's result decides whether this one goes on.
PingReturns ==
  /\ TopIs("ping")
  /\ LET i == Top.slot IN
     IF ~InProgress(i) THEN stack' = Below /\ UNCHANGED seqs
     ELSE IF ret = -1 THEN stack' = Replaced(Frame("end", i, 0)) /\ UNCHANGED seqs
     ELSE seqs' = Continued(i) /\ stack' = Below \o ContinueCalls(i, FALSE)
  /\ UNCHANGED <<sads, inBk, inStop, begins, ret, slotVars, gameVars>>

-----------------------------------------------------------------------------
(* _anim_set_end on a sequence in progress. Its sads are done with, the       *)
(* owners it hid are destroyed, its critters' first sads are dropped and they *)
(* stand; then its forced callbacks not run yet are run, one call each.       *)

EndStarts == TopIs("end") /\ Top.at = 0
\* Of an owner it destroys nothing more is done: ownerWasDestroyed is there for that.
\* But the code has set the owner's own descriptions to null by then, finds no null among
\* the destroyed, and reads through it. Bound: of the two outcomes of that read, the
\* program's end and going on, behaviours show the second; where the first happens they
\* stop, which no safety property forbids.
Hidden(i) == {seqs[i].descs[k].owner : k \in {k \in 1..Len(seqs[i].descs) :
                /\ seqs[i].descs[k].kind = "hide"
                /\ k - 1 < seqs[i].idx \/ seqs[i].descs[k].forced}}
Standing(i) == {seqs[i].descs[k].owner : k \in {k \in 1..Len(seqs[i].descs) :
                  ~IsCallback(seqs[i].descs[k]) /\ seqs[i].descs[k].kind # "ping"}}
               \cap (Critters \ Hidden(i))
FirstSads(os) == {k \in 1..Len(sads) :
                    /\ sads[k].obj \in os
                    /\ \A j \in 1..(k - 1) : sads[j].obj # sads[k].obj}
Forgotten(i) == [k \in 1..Len(seqs[i].descs) |->
                   IF seqs[i].descs[k].owner \in Hidden(i)
                   THEN [seqs[i].descs[k] EXCEPT !.owner = NIL] ELSE seqs[i].descs[k]]
\* Mutant: its other sads are left to run.
EndedSadsNone(i) == FirstSads(Standing(i))
EndedSads(i) == SadsOf(i) \cup FirstSads(Standing(i))
EndBegins ==
  /\ EndStarts
  /\ LET i == Top.slot IN
     /\ sads' = Completed(EndedSads(i))
     /\ alive' = alive \ Hidden(i)
     /\ seqs' = [seqs EXCEPT ![i].descs = Forgotten(i)]
     /\ stack' = Replaced([Top EXCEPT !.at = 1])
  /\ UNCHANGED <<inBk, inStop, begins, ret, slotVars, inCombat, running, cleanup>>

EndRuns == TopIs("end") /\ Top.at > 0
ForcedFrom(i, at) == {k \in at..Len(seqs[i].descs) :
                        /\ IsCallback(seqs[i].descs[k]) /\ seqs[i].descs[k].forced
                        /\ k - 1 >= seqs[i].step}
EndCallsBack ==
  /\ EndRuns /\ ForcedFrom(Top.slot, Top.at) # {}
  /\ LET k == CHOOSE k \in ForcedFrom(Top.slot, Top.at) :
                \A j \in ForcedFrom(Top.slot, Top.at) : k <= j
     IN stack' = Replaced([Top EXCEPT !.at = k + 1]) \o <<Frame("script", 0, 0)>>
  /\ UNCHANGED <<seqs, sads, inBk, inStop, begins, ret, slotVars, gameVars>>

\* The slot is freed, but within a pass of the background loop it is held back
\* until the pass is over. The last sequence of a turn is followed by
\* _combat_anim_finished: damage is dealt, and a fallen attacker stands up and
\* waits for that, before the slot's flags are written.
FreedFlags == IF inBk THEN {"held"} ELSE {}
Emptied(i, flags) ==
  [seqs EXCEPT ![i] = [step |-> COMPLETE, idx |-> -1, descs |-> << >>, flags |-> flags]]
CombatFlagged(i) == "combat" \in seqs[i].flags
TurnOver(i) == CombatFlagged(i) /\ running = 1
\* Mutant: a sequence that is ended early is not counted.
FinishedIfDone(i) ==
  IF CombatFlagged(i) /\ seqs[i].idx + 1 >= Len(seqs[i].descs) THEN running - 1 ELSE running
Finished(i) == IF CombatFlagged(i) THEN running - 1 ELSE running

EndReturns ==
  /\ EndRuns /\ ForcedFrom(Top.slot, Top.at) = {}
  /\ LET i == Top.slot IN
     /\ running' = Finished(i)
     /\ ret' = 0
     /\ IF TurnOver(i) /\ cleanup
        THEN /\ cleanup' = FALSE
             /\ seqs' = Emptied(i, seqs[i].flags)
             /\ \E fallen \in BOOLEAN :
                  stack' = Replaced(Frame("finish", i, 0))
                    \o (IF fallen THEN <<Frame("standup", 0, 0)>> ELSE << >>)
                    \o (IF "damage" \in Scripts THEN <<Frame("script", 0, 0)>> ELSE << >>)
        ELSE /\ seqs' = Emptied(i, FreedFlags)
             /\ stack' = Below
             /\ UNCHANGED cleanup
  /\ UNCHANGED <<sads, inBk, inStop, begins, slotVars, inCombat, alive>>

FinishReturns ==
  /\ TopIs("finish")
  /\ seqs' = [seqs EXCEPT ![Top.slot].flags = FreedFlags]
  /\ ret' = 0
  /\ stack' = Below
  /\ UNCHANGED <<sads, inBk, inStop, begins, slotVars, gameVars>>

-----------------------------------------------------------------------------
(* _object_animate: one pass over the sads.                                 *)

Pass ==
  IF sads = << >> THEN UNCHANGED <<stack, inBk>>
  ELSE stack' = Calling(<<Frame("animate", 0, 1)>>) /\ inBk' = TRUE
Update ==
  /\ AtLeisure /\ TopIs("main")
  /\ Pass
  /\ UNCHANGED <<seqs, sads, inStop, begins, ret, slotVars, gameVars>>

\* _combat_turn_run
TurnRun ==
  /\ TopIs("turnrun")
  /\ IF running > 0 THEN Pass ELSE stack' = Below /\ UNCHANGED inBk
  /\ UNCHANGED <<seqs, sads, inStop, begins, ret, slotVars, gameVars>>

Passing == TopIs("animate") /\ Top.at <= Len(sads)
Onward == [Top EXCEPT !.op = "animate", !.slot = 0, !.at = @ + 1]

\* Done with, or its next frame is not due yet.
SkipSad ==
  /\ Passing
  /\ stack' = Replaced(Onward)
  /\ UNCHANGED <<seqs, sads, inBk, inStop, begins, ret, slotVars, gameVars>>
SadDue ==
  /\ Passing /\ Live(Top.at)
  /\ stack' = Replaced([Top EXCEPT !.op = "stepping"]) \o <<Frame("run", sads[Top.at].seq, 0)>>
  /\ UNCHANGED <<seqs, sads, inBk, inStop, begins, ret, slotVars, gameVars>>
SadEnded ==
  /\ TopIs("stepping") /\ ret = -1
  /\ stack' = Replaced(Onward)
  /\ UNCHANGED <<seqs, sads, inBk, inStop, begins, ret, slotVars, gameVars>>

Stepping(moves) == TopIs("stepping") /\ ret # -1 /\ sads[Top.at].moves = moves
\* _anim_set_continue for the sequence of sad k.
SadCompletes(k) ==
  /\ sads' = Completed({k})
  /\ IF InProgress(sads[k].seq) THEN seqs' = Continued(sads[k].seq) ELSE UNCHANGED seqs
CompleteCalls(k) ==
  IF InProgress(sads[k].seq) THEN ContinueCalls(sads[k].seq, TRUE) ELSE << >>
MaybeScript == IF "steps" \in Scripts THEN {<< >>, <<Frame("script", 0, 0)>>} ELSE {<< >>}

\* _object_move and _object_straight_move: a step, and the spatial scripts.
StepOnWay ==
  /\ Stepping(TRUE)
  /\ sads' = [sads EXCEPT ![Top.at].step = "going"]
  /\ \E script \in MaybeScript : stack' = Replaced(Onward) \o script
  /\ UNCHANGED <<seqs, inBk, inStop, begins, ret, slotVars, gameVars>>
StepArrives ==
  /\ Stepping(TRUE)
  /\ SadCompletes(Top.at)
  /\ \E script \in MaybeScript :
       stack' = Replaced(Onward) \o script \o CompleteCalls(Top.at)
  /\ UNCHANGED <<inBk, inStop, begins, ret, slotVars, gameVars>>

\* An animation that starts cuts short the moves not begun and the animations
\* playing for its object.
CutShort == {k \in 1..Len(sads) : sads[k].obj = sads[Top.at].obj /\ sads[k].step = "init"}
StartPlaying ==
  /\ Stepping(FALSE)
  /\ stack' = Replaced([Top EXCEPT !.op = "playing"])
  /\ UNCHANGED <<seqs, sads, inBk, inStop, begins, ret, slotVars, gameVars>>
Playing == TopIs("playing")
IsNew == sads[Top.at].step = "new"
CutsShort ==
  /\ Playing /\ IsNew /\ CutShort # {}
  /\ LET k == CHOOSE k \in CutShort : \A j \in CutShort : k <= j
     IN SadCompletes(k) /\ stack' = Calling(CompleteCalls(k))
  /\ UNCHANGED <<inBk, inStop, begins, ret, slotVars, gameVars>>
PlayFrame ==
  /\ Playing /\ (IsNew => CutShort = {})
  /\ sads' = [sads EXCEPT ![Top.at].step = "init"]
  /\ stack' = Replaced(Onward)
  /\ UNCHANGED <<seqs, inBk, inStop, begins, ret, slotVars, gameVars>>
\* The last frame: the registered animation callback, then the sequence.
PlayLastFrame ==
  /\ Playing /\ (IsNew => CutShort = {}) /\ sads[Top.at].kind # "forever"
  /\ sads' = Completed({Top.at})
  /\ \E script \in MaybeScript :
       stack' = Replaced([Top EXCEPT !.op = "completed"]) \o script
  /\ UNCHANGED <<seqs, inBk, inStop, begins, ret, slotVars, gameVars>>
PlayCompleted ==
  /\ TopIs("completed")
  /\ SadCompletes(Top.at)
  /\ stack' = Replaced(Onward) \o CompleteCalls(Top.at)
  /\ UNCHANGED <<inBk, inStop, begins, ret, slotVars, gameVars>>

\* _object_anim_compact: the sads not done with move up, in their order.
LiveSads == {k \in 1..Len(sads) : Live(k)}
NthLive(n) == CHOOSE k \in LiveSads : Cardinality({j \in LiveSads : j <= k}) = n
PassReturns ==
  /\ TopIs("animate") /\ Top.at > Len(sads)
  /\ inBk' = FALSE
  /\ seqs' = [i \in 1..Slots |-> [seqs[i] EXCEPT !.flags = IF "held" \in @ THEN {} ELSE @]]
  /\ sads' = [n \in 1..Cardinality(LiveSads) |-> sads[NthLive(n)]]
  /\ stack' = Below
  /\ UNCHANGED <<inStop, begins, ret, slotVars, gameVars>>

-----------------------------------------------------------------------------
(* animationStop, and the two ends of combat.                               *)

AtRoot == AtLeisure /\ TopIs("main")
StopCalls == stack' = Calling(<<Frame("stop", 0, 1)>>)
Stopping == inStop' = TRUE /\ cur' = 0 /\ building' = << >>

Stop ==
  /\ AtRoot /\ ~inCombat /\ \E i \in 1..Slots : InProgress(i)
  /\ Stopping /\ StopCalls
  /\ UNCHANGED <<seqs, sads, inBk, begins, ret, gameVars>>

StopNext ==
  /\ TopIs("stop") /\ Top.at <= Slots
  /\ stack' = Replaced([Top EXCEPT !.at = @ + 1])
                \o (IF InProgress(Top.at) THEN <<Frame("end", Top.at, 0)>> ELSE << >>)
  /\ UNCHANGED <<seqs, sads, inBk, inStop, begins, ret, slotVars, gameVars>>
StopReturns ==
  /\ TopIs("stop") /\ Top.at > Slots
  /\ inStop' = FALSE /\ sads' = << >>
  /\ stack' = Below
  /\ UNCHANGED <<seqs, inBk, begins, ret, slotVars, gameVars>>

\* _combat_begin; a turn is over, and combat can be, when _combat_turn_run returns.
CombatBegin ==
  /\ AtRoot /\ ~inCombat
  /\ running' = 0 /\ inCombat' = TRUE
  /\ Stopping /\ StopCalls
  /\ UNCHANGED <<seqs, sads, inBk, begins, ret, cleanup, alive>>
CombatOver ==
  /\ AtRoot /\ inCombat /\ running <= 0
  /\ inCombat' = FALSE
  /\ UNCHANGED <<seqs, sads, inBk, inStop, begins, stack, ret, slotVars, running, cleanup, alive>>

-----------------------------------------------------------------------------
CallersNext ==
  \/ \E plan \in Plans : Begin(plan)
  \/ \E o \in Objects : Clear(o)
  \/ Stop \/ CombatBegin \/ CombatOver

CallNext ==
  \/ BeginNext \/ PlanDone \/ RegisterNothing \/ RegisterEndsRival \/ Register
  \/ RegisterFails \/ RegisterEnd \/ CallbackReturns \/ ScriptReturns
  \/ RunReturns \/ RunInstant \/ RunTakesTime \/ RunArrived \/ RunFails
  \/ RunCallback \/ RunPing \/ PingReturns
  \/ EndBegins \/ EndCallsBack \/ EndReturns \/ FinishReturns
  \/ TurnRun \/ SkipSad \/ SadDue \/ SadEnded
  \/ StepOnWay \/ StepArrives \/ StartPlaying \/ CutsShort \/ PlayFrame \/ PlayLastFrame
  \/ PlayCompleted \/ PassReturns \/ StopNext \/ StopReturns

Next == CallersNext \/ CallNext \/ Update

Spec == Init /\ [][Next]_vars

\* Calls return, the background loop runs for ever and visits every sad when it
\* is due; walks arrive and animations reach their last frame.
FairSpec ==
  /\ Spec
  /\ WF_vars(CallNext) /\ WF_vars(Update)
  /\ SF_vars(SadDue) /\ SF_vars(StepArrives) /\ SF_vars(PlayLastFrame)

-----------------------------------------------------------------------------
(* Properties.                                                              *)

TypeOK ==
  /\ seqs \in [1..Slots -> Sequence]
  /\ cur \in 0..Slots /\ building \in Seq(Desc)
  /\ sads \in Seq(Sad) /\ Len(sads) <= MaxSads
  /\ {inBk, inStop, inCombat, cleanup} \subseteq BOOLEAN
  /\ running \in 0..Slots /\ alive \subseteq Objects /\ begins \in Nat
  /\ stack # << >> /\ \A k \in 1..Len(stack) : stack[k].op \in Ops
  /\ ret \in {0, -1}

\* Between calls no free slot is kept from the next begin.
SlotsReturned ==
  AtRoot => \A i \in 1..Slots : ~InProgress(i) => seqs[i].flags \cap {"accumulating", "held"} = {}

\* Between calls, a sequence under way has as many live sads as descriptions it
\* has started and not completed, and at least one: it neither ends before its
\* animations do nor waits for one that will not come (animationRunSequence,
\* _anim_set_continue, _anim_set_end and the sads' own ends keep this together). And no
\* free slot is kept back; types included.
Accounted ==
  TypeOK /\ SlotsReturned /\ (AtRoot => \A i \in 1..Slots : (InProgress(i) /\ seqs[i].idx >= 0) =>
    LET live == Cardinality({k \in SadsOf(i) : Live(k)})
    IN live = seqs[i].step - seqs[i].idx /\ live > 0)

\* Two sequences in progress never animate the same object (_check_registry).
OwnersExclusive ==
  \A i, j \in 1..Slots : (i # j /\ InProgress(i) /\ InProgress(j)) =>
    ~\E o \in Objects : Owns(i, o) /\ Owns(j, o)

\* _combat_turn_running, which every turn waits on, is the number of sequences
\* in progress that started combat animation mode.
CombatBalanced == running = Cardinality({i \in 1..Slots : InProgress(i) /\ CombatFlagged(i)})

\* The pass over the sads is resumed, after everything a sequence's step may
\* have called, on a sad that is there (_object_animate).
PassInBounds ==
  (TopIs("stepping") /\ ret # -1) \/ Top.op \in {"playing", "completed"} => Top.at <= Len(sads)

\* That one is the sad it was interrupted at, still alive; no live sad animates a
\* destroyed object.
StepsLiveSads ==
  /\ PassInBounds
  /\ (Top.op \in {"stepping", "playing"} /\ ret # -1) => Live(Top.at)
  /\ \A k \in 1..Len(sads) : Live(k) => sads[k].obj \in alive

\* Every sequence that started combat animation mode balances it in the end:
\* a turn's animations come to an end and the next combatant can act.
TurnsEnd == (running > 0) ~> (running = 0)
=============================================================================
