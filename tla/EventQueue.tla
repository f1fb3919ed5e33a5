----------------------------- MODULE EventQueue -----------------------------
(***************************************************************************)
(* The game event queue (queue.cc): one linked list of timed events, its   *)
(* dispatch loop and its bulk removals. Everything runs on one thread, but *)
(* an event's handler and a map-exit handler call back into the queue while *)
(* a loop over the list is suspended in the middle: the calls are frames of *)
(* "stack", and only the top frame moves.                                  *)
(*                                                                         *)
(* A Node is a memory cell: internal_malloc takes one that is not          *)
(* allocated, internal_free gives it back, and cells are reused.           *)
(***************************************************************************)
EXTENDS EventTypes, FiniteSets, SequencesExt

CONSTANTS
  Node,        \* cells the allocator can hand out
  Owner,       \* game objects
  Item,        \* the objects that are items; the others are critters
  Party,       \* the critters that survive a map change: dude and companions
  Dude,
  NIL,         \* the null pointer, as an owner and as a node
  HEAD,        \* the cursor &gQueueListHead
  ANY,         \* "no test on this field" in a bulk removal
  EventTypes_, \* the event types in play, in enum order
  Delays,      \* delays, in ticks, that callers ask for (may be negative)
  MaxTime,     \* bound: the last game time a run reaches
  Word,        \* 2^32: event times are unsigned
  MaxDepth,    \* bound: nested calls
  MaxOps,      \* bound: queue operations made by one handler
  LethalClear  \* do map-exit handlers kill critters? (see ClearEffects)

Types == {EventTypes_[i] : i \in 1..Len(EventTypes_)}

ASSUME QueueConstants ==
  /\ Item \subseteq Owner /\ Party \subseteq Owner \ Item /\ Dude \in Party
  /\ NIL \notin Owner \cup Node /\ HEAD \notin Node \cup {NIL}
  /\ ANY \notin Owner \cup Types \cup {NIL}
  /\ EventTypes_ \in Seq({AllEventTypes[i] : i \in 1..Len(AllEventTypes)})
  /\ EventTypes_ # << >>
  /\ Delays \subseteq Int /\ MaxTime \in Nat /\ Word \in Nat \ {0} /\ MaxTime < Word
  /\ MaxDepth \in Nat /\ MaxOps \in Nat /\ LethalClear \in BOOLEAN

\* The types in play keep the order of enum EventType.
ASSUME EnumOrder ==
  \A i, j \in 1..Len(EventTypes_) : i < j => Precedes(EventTypes_[i], EventTypes_[j])

VARIABLES
  now,    \* gGameTime
  queue,  \* the list from gQueueListHead, as a sequence of cells
  info,   \* time, type and owner stored in each cell
  alloc,  \* allocated cells
  gone,   \* destroyed objects
  stack   \* suspended calls, innermost last

vars == <<now, queue, info, alloc, gone, stack>>

Info == [time : 0..(Word - 1), type : Types, owner : Owner \cup {NIL}]

\* One suspended call. node is the cell its handler is running for (NIL when
\* none is), prev the cell whose next field queueClearByEventType's "ptr"
\* points to, limit the time queueProcessEvents read on entry or the next
\* index of _queue_leaving_map, ops what the running handler may still do.
Frame == [kind  : {"process", "clear", "purge", "leave"},
          node  : Node \cup {NIL},
          prev  : Node \cup {HEAD},
          limit : Nat,
          type  : Types \cup {ANY},
          owner : Owner \cup {NIL, ANY},
          ops   : 0..MaxOps]

NewFrame(kind, limit, type, owner) ==
  [kind |-> kind, node |-> NIL, prev |-> HEAD, limit |-> limit,
   type |-> type, owner |-> owner, ops |-> 0]

Top == stack[Len(stack)]
Push(s, frame) == Append(s, frame)
Pop == SubSeq(stack, 1, Len(stack) - 1)
WithTop(frame) == [stack EXCEPT ![Len(stack)] = frame]

TopIs(kind) == stack # << >> /\ Top.kind = kind
Linked == {queue[i] : i \in 1..Len(queue)}
Held == {stack[i].node : i \in 1..Len(stack)} \ {NIL}

\* An ownerless event of a type whose handler dereferences the owner.
Moot(n) == info[n].owner = NIL /\ DerefsOwner(info[n].type)

Init ==
  /\ now \in 0..MaxTime
  /\ queue = << >>
  /\ info \in [Node -> {[time |-> 0, type |-> EventTypes_[1], owner |-> NIL]}]
  /\ alloc = {}
  /\ gone = {}
  /\ stack = << >>

-----------------------------------------------------------------------------
(* Calls into the queue. They come from the main loop, when no call is      *)
(* suspended, or from a handler that a suspended call is running.           *)

HandlerRunning == stack # << >> /\ Top.node # NIL
MayCall == stack = << >> \/ (HandlerRunning /\ Top.ops > 0)
\* What is left of the stack's budget after one more call.
Charged == IF stack = << >> THEN stack ELSE WithTop([Top EXCEPT !.ops = @ - 1])

Due(delay) == (now + delay) % Word

\* Mutant: ahead of the nodes of the same time.
IsFrontPos(p, t) ==
  /\ p \in 0..Len(queue)
  /\ \A i \in 1..p : info[queue[i]].time < t
  /\ p < Len(queue) => t <= info[queue[p + 1]].time

\* Insertion goes behind every leading node whose time is not later, so equal
\* times keep their order of arrival.
IsInsertPos(p, t) ==
  /\ p \in 0..Len(queue)
  /\ \A i \in 1..p : info[queue[i]].time <= t
  /\ p < Len(queue) => t < info[queue[p + 1]].time

\* An item is used once and for one thing: its prototype makes it a flare, an explosive
\* or a gadget, and one that has an event (OBJECT_QUEUED) is not lit or armed again.
\* Only scripts set timers beside that.
UsedFor(o, t) ==
  o \in Item /\ t # "SCRIPT" =>
    \A n \in Linked : info[n].owner = o => info[n].type \in {t, "SCRIPT"}

\* A map-exit handler adds no event of its own; the scripts that run when it
\* kills somebody may set a timer.
AddEvent(n, delay, o, t) ==
  /\ MayCall
  /\ HandlerRunning /\ Top.kind = "clear" => LethalClear /\ t = "SCRIPT"
  /\ n \notin alloc
  /\ o \notin gone /\ o \in OwnersOf(t, Owner \ Item, Item, Dude, NIL) /\ UsedFor(o, t)
  /\ alloc' = alloc \cup {n}
  /\ info' = [info EXCEPT ![n] = [time |-> Due(delay), type |-> t, owner |-> o]]
  /\ \E p \in 0..Len(queue) :
       /\ IsInsertPos(p, Due(delay))
       /\ queue' = InsertAt(queue, p + 1, n)
  /\ stack' = Charged
  /\ UNCHANGED <<now, gone>>

\* What the map-exit handler of a type removes from the queue: a burnt flare or
\* an explosive is destroyed, a trickling item or the sneak check is switched
\* off. When LethalClear, a drug's end or an explosion also kills a critter,
\* and critterKill removes the script and drug events of the dead.
ClearEffects(t, o) ==
     (IF t \in {"ITEM_TRICKLE", "SNEAK"} THEN {<<o, t>>} ELSE {})
  \cup (IF t \in {"FLARE", "EXPLOSION", "EXPLOSION_FAILURE"} THEN {<<o, ANY>>} ELSE {})
  \cup (IF ~LethalClear THEN {}
        ELSE {<<c, r>> : c \in CASE t = "DRUG" -> {o}
                                 [] t \in {"EXPLOSION", "EXPLOSION_FAILURE"} -> Owner \ Item
                                 [] OTHER -> {},
                         r \in {"SCRIPT", "DRUG"} \cap Types})

\* queueRemoveEvents(o), queueRemoveEventsByType(o, t), queueClear() and
\* queueClearByEventType(t, nullptr), by which field is ANY. Removing all of an
\* object's events is also what objectDestroy does before it frees the object.
StartPurge(o, t, destroy) ==
  /\ MayCall /\ Len(stack) < MaxDepth
  /\ HandlerRunning /\ Top.kind = "clear" =>
       <<o, t>> \in ClearEffects(Top.type, info[Top.node].owner)
  /\ o = ANY /\ t = ANY => stack = << >>
  /\ destroy => o \in Owner \ Party /\ t = ANY
  /\ gone' = IF destroy THEN gone \cup {o} ELSE gone
  /\ stack' = Push(Charged, NewFrame("purge", 0, t, o))
  /\ UNCHANGED <<now, queue, info, alloc>>

\* queueProcessEvents, called by the main loop, by resting and travelling, and
\* by a script that advances the clock inside a handler.
StartProcess ==
  /\ MayCall /\ Len(stack) < MaxDepth
  /\ HandlerRunning => Top.kind = "process"
  /\ stack' = Push(Charged, NewFrame("process", now, ANY, ANY))
  /\ UNCHANGED <<now, queue, info, alloc, gone>>

\* _queue_leaving_map, called by the main loop's map change.
StartLeave ==
  /\ stack = << >> /\ MaxDepth >= 2
  /\ stack' = Push(stack, NewFrame("leave", 1, ANY, ANY))
  /\ UNCHANGED <<now, queue, info, alloc, gone>>

AdvanceTime ==
  /\ MayCall /\ (HandlerRunning => Top.kind = "process")
  /\ now < MaxTime
  /\ now' = now + 1
  /\ stack' = Charged
  /\ UNCHANGED <<queue, info, alloc, gone>>

-----------------------------------------------------------------------------
(* Bulk removal: one node per iteration, nothing else can run in between.   *)

Matches(n, o, t) == /\ o = ANY \/ info[n].owner = o
                    /\ t = ANY \/ info[n].type = t

PurgeStep ==
  /\ TopIs("purge")
  /\ \E i \in 1..Len(queue) :
       /\ Matches(queue[i], Top.owner, Top.type)
       /\ \A j \in 1..(i - 1) : ~Matches(queue[j], Top.owner, Top.type)
       /\ queue' = RemoveAt(queue, i)
       /\ alloc' = alloc \ {queue[i]}
  /\ UNCHANGED <<now, info, gone, stack>>

PurgeReturn ==
  /\ TopIs("purge")
  /\ \A i \in 1..Len(queue) : ~Matches(queue[i], Top.owner, Top.type)
  /\ stack' = Pop
  /\ UNCHANGED <<now, queue, info, alloc, gone>>

-----------------------------------------------------------------------------
(* Dispatch.                                                                *)

\* Mutant: due only once the time has passed.
HeadOverdue == queue # << >> /\ info[Head(queue)].time < Top.limit

\* A node is due at the time read on entry, not at the time now.
HeadDue == queue # << >> /\ info[Head(queue)].time <= Top.limit

\* The head is due and unlinked; its handler is entered unless it is moot.
Dispatch ==
  /\ TopIs("process") /\ Top.node = NIL
  /\ HeadDue
  /\ queue' = Tail(queue)
  /\ IF Moot(Head(queue))
     THEN alloc' = alloc \ {Head(queue)} /\ stack' = stack
     ELSE /\ alloc' = alloc
          /\ stack' = WithTop([Top EXCEPT !.node = Head(queue), !.ops = MaxOps])
  /\ UNCHANGED <<now, info, gone>>

\* Mutant: the node is not freed when its handler stops the loop.
HandlerReturnLeak(stop) ==
  /\ TopIs("process") /\ Top.node # NIL
  /\ alloc' = IF stop THEN alloc ELSE alloc \ {Top.node}
  /\ stack' = IF stop THEN Pop ELSE WithTop([Top EXCEPT !.node = NIL, !.ops = 0])
  /\ UNCHANGED <<now, queue, info, gone>>

\* The handler returns; a non-zero result ends the loop.
HandlerReturn(stop) ==
  /\ TopIs("process") /\ Top.node # NIL
  /\ alloc' = alloc \ {Top.node}
  /\ stack' = IF stop THEN Pop ELSE WithTop([Top EXCEPT !.node = NIL, !.ops = 0])
  /\ UNCHANGED <<now, queue, info, gone>>

ProcessReturn ==
  /\ TopIs("process") /\ Top.node = NIL
  /\ ~HeadDue
  /\ stack' = Pop
  /\ UNCHANGED <<now, queue, info, alloc, gone>>

-----------------------------------------------------------------------------
(* Leaving the map: queueClearByEventType(t, mapExitHandlerProc) for each   *)
(* type in enum order.                                                      *)

LeaveStep ==
  /\ TopIs("leave") /\ Top.limit \in 1..Len(EventTypes_)
  /\ LET t    == EventTypes_[Top.limit]
         next == WithTop([Top EXCEPT !.limit = @ + 1])
     IN stack' = IF ~ClearedOnMapExit(t) THEN next
                 ELSE Push(next, NewFrame(IF t \in NoExitHandler THEN "purge" ELSE "clear",
                                          0, t, ANY))
  /\ UNCHANGED <<now, queue, info, alloc, gone>>

\* _obj_remove_all then frees every object without OBJECT_NO_REMOVE.
LeaveReturn ==
  /\ TopIs("leave") /\ Top.limit > Len(EventTypes_)
  /\ gone' = gone \cup (Owner \ Party)
  /\ stack' = Pop
  /\ UNCHANGED <<now, queue, info, alloc>>

\* The position of the cursor cell; a cell that has been freed is not in the
\* list, and the read through it can resume anywhere.
CursorLive(f) == f.prev = HEAD \/ f.prev \in Linked
CursorAt(f, i) ==
  CASE f.prev = HEAD          -> i = 0
    [] f.prev \in Linked      -> i \in 1..Len(queue) /\ queue[i] = f.prev
    [] OTHER                  -> i \in 0..Len(queue)

\* The next node of the type behind the cursor is at i.
NextOfType(f, i) ==
  /\ i \in 1..Len(queue) /\ info[queue[i]].type = f.type
  /\ \E c \in 0..(i - 1) :
       CursorAt(f, c) /\ \A j \in (c + 1)..(i - 1) : info[queue[j]].type # f.type

\* Mutant: the drugs of every critter are kept.
ExitKeepsAll(n) == info[n].type \in {"KNOCKOUT", "DRUG", "WITHDRAWAL"}

\* The exit handler answers 0 for drugs and withdrawals of party members and
\* for every knockout, and has then changed nothing in the queue: the node is
\* linked back where it was and the cursor moves onto it.
ExitKeeps(n) == \/ info[n].type = "KNOCKOUT"
                \/ info[n].type \in {"DRUG", "WITHDRAWAL"} /\ info[n].owner \in Party

\* Mutants: the cursor moved onto the node that is taken out; a null cursor in
\* front of the first node.
CursorOnto(i) == queue[i]
CursorNull(i) == IF i = 1 THEN NIL ELSE queue[i - 1]

CursorBefore(i) == IF i = 1 THEN HEAD ELSE queue[i - 1]

\* "*ptr = curr->next" unlinks the node only if ptr still is part of the list.
Unlinked(i) == IF CursorLive(Top) THEN RemoveAt(queue, i) ELSE queue
Advanced(i) == IF CursorLive(Top) THEN [Top EXCEPT !.prev = CursorBefore(i)] ELSE Top

ClearMoot(i) ==
  /\ Moot(queue[i])
  /\ queue' = Unlinked(i)
  /\ alloc' = alloc \ {queue[i]}
  /\ stack' = WithTop(Advanced(i))

ClearKept(i) ==
  /\ ~Moot(queue[i]) /\ ExitKeeps(queue[i])
  /\ stack' = WithTop([Top EXCEPT !.prev = queue[i]])
  /\ UNCHANGED <<queue, alloc>>

ClearHandled(i) ==
  /\ ~Moot(queue[i]) /\ ~ExitKeeps(queue[i])
  /\ queue' = Unlinked(i)
  /\ alloc' = alloc
  /\ stack' = WithTop([Advanced(i) EXCEPT !.node = queue[i], !.ops = MaxOps])

ClearScan ==
  /\ TopIs("clear") /\ Top.node = NIL
  /\ \E i \in 1..Len(queue) :
       NextOfType(Top, i) /\ (ClearMoot(i) \/ ClearKept(i) \/ ClearHandled(i))
  /\ UNCHANGED <<now, info, gone>>

\* The exit handler answers 1: the node is freed and the loop reads *ptr again.
ClearDrop ==
  /\ TopIs("clear") /\ Top.node # NIL
  /\ alloc' = alloc \ {Top.node}
  /\ stack' = WithTop([Top EXCEPT !.node = NIL, !.ops = 0])
  /\ UNCHANGED <<now, queue, info, gone>>

ClearReturn ==
  /\ TopIs("clear") /\ Top.node = NIL
  /\ \E c \in 0..Len(queue) :
       CursorAt(Top, c) /\ \A j \in (c + 1)..Len(queue) : info[queue[j]].type # Top.type
  /\ stack' = Pop
  /\ UNCHANGED <<now, queue, info, alloc, gone>>

-----------------------------------------------------------------------------
Loop == \/ PurgeStep \/ PurgeReturn
        \/ Dispatch \/ ProcessReturn
        \/ LeaveStep \/ LeaveReturn
        \/ ClearScan \/ ClearReturn

Next ==
  \/ \E n \in Node, d \in Delays, o \in Owner \cup {NIL}, t \in Types : AddEvent(n, d, o, t)
  \/ \E o \in Owner \cup {ANY}, t \in Types \cup {ANY}, destroy \in BOOLEAN :
       StartPurge(o, t, destroy)
  \/ StartProcess \/ StartLeave \/ AdvanceTime
  \/ \E stop \in BOOLEAN : HandlerReturn(stop)
  \/ ClearDrop
  \/ Loop

Spec == Init /\ [][Next]_vars

\* Loops and handlers run to their end (a handler makes at most MaxOps calls),
\* and the main loop keeps calling _script_chk_timed_events, whatever else it
\* does between two calls.
FairSpec ==
  /\ Spec
  /\ WF_vars(Loop) /\ WF_vars(ClearDrop)
  /\ WF_vars(\E stop \in BOOLEAN : HandlerReturn(stop))
  /\ SF_vars(stack = << >> /\ StartProcess)

-----------------------------------------------------------------------------
TypeOK ==
  /\ now \in Nat
  /\ queue \in Seq(Node)
  /\ info \in [Node -> Info]
  /\ alloc \subseteq Node
  /\ gone \subseteq Owner
  /\ stack \in Seq(Frame)

\* The list stays sorted by time through every insertion and removal, also the
\* ones made by handlers while a loop over the list is suspended.
Sorted == \A i, j \in 1..Len(queue) : i < j => info[queue[i]].time <= info[queue[j]].time

\* Memory: a cell is linked at most once, never both linked and held by a
\* suspended loop, never held twice, and the linked and held cells are exactly
\* the allocated ones: nothing is freed twice, used after free or leaked.
Memory ==
  /\ \A i, j \in 1..Len(queue) : queue[i] = queue[j] => i = j
  /\ \A i, j \in 1..Len(stack) : stack[i].node = stack[j].node /\ stack[i].node # NIL => i = j
  /\ Linked \cap Held = {}
  /\ alloc = Linked \cup Held

\* The cursor of a suspended queueClearByEventType points into a cell that is
\* still in the list when its handler comes back.
CursorsLive == \A i \in 1..Len(stack) : stack[i].kind = "clear" => CursorLive(stack[i])

\* An event that needs its owner and has lost it is a knock-out, which the exit handler
\* keeps whoever it is of (knockoutClear), or about to go: the removal that belongs to its
\* owner's destruction is under way.
OwnersExist ==
  \A n \in Linked :
    info[n].owner \in gone /\ DerefsOwner(info[n].type) =>
      \/ info[n].type = "KNOCKOUT"
      \/ \E i \in 1..Len(stack) : stack[i].kind = "purge" /\ stack[i].owner = info[n].owner

\* A handler that dereferences the owner is not entered for an event whose owner no longer
\* exists (the dispatch guards of queueProcessEvents and queueClearByEventType).
HandledOwnersExist ==
  [][\A n \in Linked \cap Held' :
       DerefsOwner(info[n].type) => info[n].owner \notin gone]_vars

\* Every event that is due is eventually handled or removed, as long as the
\* main loop keeps polling and no caller asks for a negative delay.
DueLeaves ==
  \A n \in Node : (n \in Linked /\ info[n].time <= now) ~> (n \notin Linked)

\* The list implements TimedEvents: a handler is entered only for the earliest
\* of the pending events, the first to arrive among those of one time, and no
\* removal, relinking or nested loop ever disturbs that order.
Promise == INSTANCE TimedEvents WITH
  Event   <- Node,
  Time    <- 0..(Word - 1),
  clock   <- now,
  pending <- Linked,
  due     <- [n \in Linked |-> info[n].time],
  order   <- {<<queue[p[1]], queue[p[2]]>> :
                p \in {q \in (1..Len(queue)) \X (1..Len(queue)) :
                         q[1] < q[2] /\ info[queue[q[1]]].time = info[queue[q[2]]].time}},
  running <- {stack[i].node : i \in {j \in 1..Len(stack) : stack[j].kind = "process"}} \ {NIL}

ImplementsTimedEvents == Promise!Init /\ [][Promise!Next]_(Promise!tvars)
=============================================================================
