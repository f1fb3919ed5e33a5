---------------------------- MODULE ScriptHooks ----------------------------
(***************************************************************************)
(* Programs that ask to be called when something happens in the game       *)
(* (sfall_script_hooks.cc), and the programs' lives (interpreter.cc,       *)
(* scripts.cc, sfall_global_scripts.cc). Raising a hook runs the programs  *)
(* registered for it, the last in the list first, over a copy of the list; *)
(* a handler runs opcodes that register, remove scripts and raise hooks    *)
(* again. A fatal error jumps to the innermost run of the program that is  *)
(* current, over every C++ function in between, without their destructors. *)
(*                                                                         *)
(* frames is the machine's stack: a run of a program, or a call of a hook. *)
(* A frame's position stands for its address, so that callStack, which the *)
(* code keeps by itself, may hold entries of calls that were jumped over.  *)
(***************************************************************************)
EXTENDS Integers, SequencesExt

CONSTANTS
  Programs,
  Global,        \* those of global scripts, which are on no list of programs
  HookTypes,
  MaxPerType, MaxCallDepth,  \* MAX_PER_TYPE_DEPTH, MAX_HOOK_CALL_DEPTH
  MaxReturns,
  StackLimit,    \* the calls an exited program's stack takes before it overflows
  MaxRaises, MaxFaults  \* bounds

VARIABLES
  hooks,      \* of each type: the list of programs registered
  exited, freed,
  frames, callStack, perType,
  pushed,     \* calls set up for an exited program and never run
  raises, faults  \* counted against the bounds

vars == <<hooks, exited, freed, frames, callStack, perType, pushed, raises, faults>>
lives == <<exited, freed, pushed, faults>>
calls == <<callStack, perType>>

NoHooks == [h \in HookTypes |-> << >>]
NoCalls == [h \in HookTypes |-> 0]

Init ==
  /\ hooks = NoHooks /\ exited = {} /\ freed = {}
  /\ frames = << >> /\ callStack = << >> /\ perType = NoCalls
  /\ pushed = [p \in Programs |-> 0] /\ raises = 0 /\ faults = 0

Run(p) == [kind |-> "run", prog |-> p]
Top == Last(frames)
WithTop(frame) == [frames EXCEPT ![Len(frames)] = frame]
InRun == frames # << >> /\ Top.kind = "run"
InCall == frames # << >> /\ Top.kind = "call"
\* The interpreter executes the next opcode of the program on top.
Acting == InRun /\ Top.prog \notin exited
\* Between the opcodes of no program: the engine itself.
AtRest == frames = << >>

-----------------------------------------------------------------------------
(* Registering, and the ends of programs *)

ProgramsOf(list) == {list[i] : i \in DOMAIN list}
\* In front, where it is called last, by register_hook_proc_spec; else at the end.
Placed(list, p, spec) == IF spec THEN <<p>> \o list ELSE Append(list, p)

Register(h, spec) ==
  /\ Acting /\ Top.prog \notin ProgramsOf(hooks[h])
  /\ hooks' = [hooks EXCEPT ![h] = Placed(@, Top.prog, spec)]
  /\ UNCHANGED <<lives, calls, frames, raises>>

\* The place of a program in a list, in which it is at most once.
PlaceOf(list, p) == CHOOSE i \in DOMAIN list : list[i] = p
WithoutHook(list, p) ==
  IF p \in ProgramsOf(list) THEN RemoveAt(list, PlaceOf(list, p)) ELSE list
\* MUTANT: only the first hook of a program is taken off.
UnregisteredOnce(p) ==
  LET has(h) == p \in ProgramsOf(hooks[h])
      first == CHOOSE h \in HookTypes : has(h) \/ \A g \in HookTypes : ~has(g)
  IN [h \in HookTypes |-> IF h = first THEN WithoutHook(hooks[h], p) ELSE hooks[h]]
Unregistered(p) == [h \in HookTypes |-> WithoutHook(hooks[h], p)]

\* A script is removed, with its object or without; its program stays in the list.
ScriptRemove(p) ==
  /\ AtRest \/ Acting
  /\ \E h \in HookTypes : p \in ProgramsOf(hooks[h])
  /\ hooks' = Unregistered(p)
  /\ UNCHANGED <<lives, calls, frames, raises>>

\* The background loop, which runs the programs of the list in turn, comes to one that has
\* exited and frees it; the input loop of a movie that a program plays runs it too.
UpdatePrograms(p) ==
  /\ AtRest \/ Acting
  /\ p \in exited \ (Global \cup freed) /\ freed' = freed \cup {p}
  /\ hooks' = Unregistered(p)
  /\ UNCHANGED <<exited, pushed, faults, calls, frames, raises>>

LeaveMap ==
  /\ AtRest /\ Programs \ (Global \cup freed) # {}
  /\ hooks' = NoHooks /\ callStack' = << >> /\ perType' = NoCalls
  /\ freed' = freed \cup (Programs \ Global)
  /\ UNCHANGED <<exited, pushed, faults, frames, raises>>

\* All programs are freed and created again.
LoadGame ==
  /\ AtRest /\ freed # {}
  /\ hooks' = NoHooks /\ callStack' = << >> /\ perType' = NoCalls
  /\ freed' = {} /\ exited' = {} /\ pushed' = [p \in Programs |-> 0]
  /\ UNCHANGED <<frames, raises, faults>>

-----------------------------------------------------------------------------
(* Running programs *)

RunProgram(p) ==
  /\ AtRest /\ p \notin exited \cup freed
  /\ frames' = <<Run(p)>>
  /\ UNCHANGED <<hooks, lives, calls, raises>>

ProgramReturns ==
  /\ InRun /\ frames' = Front(frames)
  /\ UNCHANGED <<hooks, lives, calls, raises>>

ProgramFails ==
  /\ Acting /\ faults < MaxFaults
  /\ faults' = faults + 1 /\ exited' = exited \cup {Top.prog}
  /\ frames' = Front(frames)
  /\ UNCHANGED <<hooks, freed, pushed, calls, raises>>

CallsAt == {i \in DOMAIN frames : frames[i].kind = "call"}
SetReturn ==
  /\ Acting /\ callStack # << >>
  /\ LET at == Last(callStack).at
     IN /\ at \in CallsAt /\ Len(frames[at].rets) < MaxReturns
        /\ frames' = [frames EXCEPT ![at].rets =
             Append(@, [prog |-> Top.prog, from |-> Len(frames)])]
  /\ UNCHANGED <<hooks, lives, calls, raises>>

-----------------------------------------------------------------------------
(* Calling hooks *)

Counted(stack) ==
  [h \in HookTypes |-> Len(SelectSeq(stack, LAMBDA entry : entry.hook = h))]
\* An entry of a call that was jumped over may lie where the new call lies: it is
\* below the frame of call or not. The entries lie in the order of their addresses,
\* so that those erased are the last of them.
Drained(same) ==
  LET here == Len(frames) + 1
      stale == {k \in DOMAIN callStack :
                  callStack[k].at > here \/ (~same /\ callStack[k].at = here)}
  IN IF stale = {} THEN callStack ELSE SubSeq(callStack, 1, Min(stale) - 1)
Accepted(h, stack) == Counted(stack)[h] < MaxPerType /\ Len(stack) < MaxCallDepth

\* list is the copy the loop goes over, index what is left of it; due and ran are
\* history: who was registered at first, and who was called.
NewCall(h) ==
  [kind |-> "call", hook |-> h, list |-> hooks[h], index |-> Len(hooks[h]),
   rets |-> << >>, due |-> ProgramsOf(hooks[h]), ran |-> << >>]

Raise(h, same) ==
  /\ AtRest \/ Acting
  /\ raises < MaxRaises /\ raises' = raises + 1
  /\ LET stack == Drained(same)
         entry == [at |-> Len(frames) + 1, hook |-> h]
     IN \/ /\ ~Accepted(h, stack)
           /\ callStack' = stack /\ perType' = Counted(stack) /\ UNCHANGED frames
        \/ /\ Accepted(h, stack)
           /\ callStack' = Append(stack, entry)
           /\ perType' = [Counted(stack) EXCEPT ![h] = @ + 1]
           /\ frames' = Append(frames, NewCall(h))
  /\ UNCHANGED <<hooks, lives>>

\* MUTANT: the list itself is walked instead of a copy.
WalkedLive(call) ==
  IF Len(hooks[call.hook]) >= call.index THEN hooks[call.hook] ELSE call.list
Walked(call) == call.list
NextHook(call) == Walked(call)[call.index]
\* MUTANT: what an earlier handler returned is not forgotten.
CalledOn(call) == [call EXCEPT !.index = @ - 1, !.ran = Append(@, NextHook(call))]
Called(call) ==
  [call EXCEPT !.index = @ - 1, !.rets = << >>, !.ran = Append(@, NextHook(call))]
AtHook == InCall /\ Top.index > 0

CallHandler ==
  /\ AtHook /\ NextHook(Top) \notin exited \cup freed
  /\ frames' = Append(WithTop(Called(Top)), Run(NextHook(Top)))
  /\ UNCHANGED <<hooks, lives, calls, raises>>

\* The call is set up on the stack of a program that executes nothing any more.
CallExited ==
  LET p == NextHook(Top)
  IN /\ AtHook /\ p \in exited \ freed /\ pushed[p] < StackLimit
     /\ pushed' = [pushed EXCEPT ![p] = @ + 1]
     /\ frames' = WithTop(Called(Top))
     /\ UNCHANGED <<hooks, exited, freed, faults, calls, raises>>

\* The stack is full: a fatal error of whoever is current; of nobody, the process aborts.
Runs == {i \in DOMAIN frames : frames[i].kind = "run"}
CallOverflows ==
  /\ AtHook
  /\ NextHook(Top) \in exited \ freed /\ pushed[NextHook(Top)] = StackLimit
  /\ \/ /\ Runs # {}
        /\ \E current \in Runs :
             /\ \A i \in Runs : i <= current
             /\ frames' = SubSeq(frames, 1, current - 1)
             /\ exited' = exited \cup {frames[current].prog}
     \/ Runs = {} /\ frames' = <<[kind |-> "aborted"]>> /\ UNCHANGED exited
  /\ UNCHANGED <<hooks, freed, pushed, faults, calls, raises>>

\* An earlier handler had the program freed, which the copy still names: what lies in its
\* place is used. It may end the process; as long as it is still what was freed, an exited
\* program, it executes nothing.
CallFreed ==
  /\ AtHook /\ NextHook(Top) \in freed
  /\ frames' \in {<<[kind |-> "aborted"]>>, WithTop(Called(Top))}
  /\ UNCHANGED <<hooks, lives, calls, raises>>

CallEnds ==
  /\ InCall /\ Top.index = 0
  /\ frames' = Front(frames) /\ callStack' = Front(callStack)
  /\ perType' = [perType EXCEPT ![Top.hook] = @ - 1]
  /\ UNCHANGED <<hooks, lives, raises>>

Next ==
  \/ \E h \in HookTypes, spec \in BOOLEAN : Register(h, spec)
  \/ \E p \in Programs \ Global : ScriptRemove(p) \/ UpdatePrograms(p)
  \/ LeaveMap \/ LoadGame
  \/ \E p \in Programs : RunProgram(p)
  \/ ProgramReturns \/ ProgramFails \/ SetReturn
  \/ \E h \in HookTypes, same \in BOOLEAN : Raise(h, same)
  \/ CallHandler \/ CallExited \/ CallOverflows \/ CallFreed \/ CallEnds

Spec == Init /\ [][Next]_vars

-----------------------------------------------------------------------------
(* Properties                                                               *)

CalledOnce(call, p) ==
  \E k \in DOMAIN call.ran : \A j \in DOMAIN call.ran : call.ran[j] = p <=> j = k

\* Whoever is registered for a hook before a call and after it is called once by it,
\* whatever the handlers register and remove meanwhile (ScriptHookCall::call,
\* scriptHooksRegister).
HandlersCalled ==
  \A i \in CallsAt :
    frames[i].index = 0 =>
      \A p \in frames[i].due \cap ProgramsOf(hooks[frames[i].hook]) : CalledOnce(frames[i], p)

\* What the raiser is told comes from the handler that was called last, in that call
\* and no other (R-05 in ScriptHookCall::call).
LastWord ==
  \A i \in CallsAt : \A k \in DOMAIN frames[i].rets :
    frames[i].rets[k] = [prog |-> Last(frames[i].ran), from |-> i + 1]

\* No hook names a program that was freed, whether it exited, was thrown away with its
\* map or registered again in between (_updatePrograms, scriptHooksUnregisterProgram).
NoneDangling == \A h \in HookTypes : ProgramsOf(hooks[h]) \cap freed = {}

\* A global script keeps its hooks until a game is loaded (scriptHooksReset).
HooksStay ==
  [][LoadGame \/ \A h \in HookTypes :
       Global \cap ProgramsOf(hooks[h]) \subseteq ProgramsOf(hooks'[h])]_vars
=============================================================================
