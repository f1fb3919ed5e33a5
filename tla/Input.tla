------------------------------- MODULE Input --------------------------------
(***************************************************************************)
(* input.cc: the background processes (tickers), which every screen's loop  *)
(* runs through and some of which run such a loop themselves, and the ring  *)
(* of input events. Who adds and removes tickers: the map's view, fights,   *)
(* text floaters, global scripts.                                           *)
(***************************************************************************)
EXTENDS Integers, SequencesExt

CONSTANTS
  Node,        \* addresses of TickerListNodes
  RingSize,    \* length of gInputEventQueue (40)
  Keys,        \* bound: the codes of events
  MaxDepth,    \* bound: passes over the list within each other
  MaxTexts,    \* bound: how often textObjectsTicker is in the list
  FightScreens, \* bound: do screens and movies come in fights?
  NIL

\* The list as the main loop finds it, from its head.
Startup == <<"global", "fidget", "animate", "script", "text">>
\* Those who may run a loop of their own: scripts play movies, and what an animation calls
\* when it ends may run a script. Bound: not so a global script of input type.
Nesters == {"script", "animate"}

InputConstants ==
  /\ RingSize \in Nat \ {0} /\ MaxDepth \in Nat /\ MaxTexts \in Nat
  /\ FightScreens \in BOOLEAN /\ NIL \notin Node

VARIABLES
  tickers,  \* the list from gTickerListHead
  process,  \* whose node it is
  removed,  \* the nodes that are marked
  passes,   \* the calls of tickersExecute, one within the other
  disabled, \* gRunLoopDisabled
  isoOff,   \* how deep the one is who disabled the map's view; -1: it is enabled
  fight,    \* is _dude_fidget taken off by a fight?
  globals,  \* are global scripts there, and a game?
  ring,     \* gInputEventQueue with its two indices
  pending   \* the events that were taken, in order

listVars == <<tickers, process, removed, passes>>
whoVars == <<disabled, isoOff, fight, globals>>
ringVars == <<ring, pending>>
vars == <<listVars, whoVars, ringVars>>

Listed == Range(tickers)
Depth == Len(passes)
Top == Last(passes)
Following(n) ==
  LET i == SelectInSeq(tickers, LAMBDA m : m = n)
  IN IF i = Len(tickers) THEN NIL ELSE tickers[i + 1]

Init ==
  /\ tickers = CHOOSE s \in [1..Len(Startup) -> Node] : IsInjective(s)
  /\ process = [n \in Node |->
       IF n \in Range(tickers) THEN Startup[SelectInSeq(tickers, LAMBDA m : m = n)] ELSE ""]
  /\ removed = {} /\ passes = <<>>
  /\ disabled = FALSE /\ isoOff = -1 /\ fight = FALSE /\ globals = TRUE
  /\ ring = [events |-> [i \in 0..RingSize - 1 |-> NIL], read |-> -1, write |-> 0]
  /\ pending = <<>>

-----------------------------------------------------------------------------
(* The list: a marked node is marked no more, or there is a new one.         *)

Now == [tickers |-> tickers, process |-> process, removed |-> removed]
Become(st) == tickers' = st.tickers /\ process' = st.process /\ removed' = st.removed

Of(st, p) == SelectSeq(st.tickers, LAMBDA n : st.process[n] = p)

\* Mutant: a new ticker comes last.
AddedLast(st, p) ==
  LET marked == SelectSeq(Of(st, p), LAMBDA n : n \in st.removed)
      n == CHOOSE n \in Node : n \notin Range(st.tickers)
  IN IF marked # <<>> THEN [st EXCEPT !.removed = @ \ {marked[1]}]
     ELSE [st EXCEPT !.tickers = Append(@, n), !.process[n] = p]
\* The first marked node there is comes back; one that is not marked does not count.
Added(st, p) ==
  LET marked == SelectSeq(Of(st, p), LAMBDA n : n \in st.removed)
      n == CHOOSE n \in Node : n \notin Range(st.tickers)
  IN IF marked # <<>> THEN [st EXCEPT !.removed = @ \ {marked[1]}]
     ELSE [st EXCEPT !.tickers = <<n>> \o @, !.process[n] = p]
Removed(st, p) ==
  IF Of(st, p) = <<>> THEN st ELSE [st EXCEPT !.removed = @ \cup {Of(st, p)[1]}]

\* Bound: there are addresses for what may be added.
Room == Len(tickers) + 2 <= Cardinality(Node)

-----------------------------------------------------------------------------
(* A pass over the list.                                                     *)

\* The main loop, or a process that runs a loop of its own: while a game is on, since scripts
\* and animations rest between the end of one and the start of the next.
Acting == Depth > 0 => globals /\ Top.runs \in Nesters

TickersExecute ==
  /\ Acting /\ ~disabled /\ Depth < MaxDepth
  /\ passes' = Append(passes,
       [curr |-> IF tickers = <<>> THEN NIL ELSE tickers[1], next |-> NIL, prev |-> NIL,
        runs |-> "", due |-> Listed, ran |-> {}])
  /\ UNCHANGED <<tickers, process, removed, whoVars, ringVars>>

AtNode == Depth > 0 /\ Top.runs = "" /\ Top.curr # NIL

Call ==
  /\ AtNode /\ Top.curr \notin removed
  /\ passes' = [passes EXCEPT ![Depth] =
       [@ EXCEPT !.next = Following(Top.curr), !.runs = process[Top.curr],
                 !.ran = @ \cup {Top.curr}]]
  /\ UNCHANGED <<tickers, process, removed, whoVars, ringVars>>
Free ==
  /\ AtNode /\ Top.curr \in removed
  /\ LET n == Top.curr
         Forgotten(pass) == [pass EXCEPT !.due = @ \ {n}, !.ran = @ \ {n}]
     IN /\ passes' = [i \in 1..Depth |->
             IF i < Depth THEN Forgotten(passes[i])
                          ELSE [Forgotten(Top) EXCEPT !.curr = Following(n)]]
        /\ tickers' = Remove(tickers, n) /\ removed' = removed \ {n}
        /\ process' = [process EXCEPT ![n] = ""]
  /\ UNCHANGED <<whoVars, ringVars>>
\* Who disabled the map's view enables it first.
Return ==
  /\ Depth > 0 /\ Top.runs # "" /\ isoOff # Depth
  /\ passes' = [passes EXCEPT ![Depth] =
       [@ EXCEPT !.curr = Top.next, !.prev = Top.curr, !.runs = ""]]
  /\ UNCHANGED <<tickers, process, removed, whoVars, ringVars>>
PassEnds ==
  /\ Depth > 0 /\ Top.runs = "" /\ Top.curr = NIL
  /\ passes' = Front(passes)
  /\ UNCHANGED <<tickers, process, removed, whoVars, ringVars>>

-----------------------------------------------------------------------------
(* Those who add and remove tickers.                                         *)

IsoDisable ==
  /\ Acting /\ isoOff = -1 /\ (fight => FightScreens)
  /\ Become(Removed(Removed(Now, "fidget"), "animate")) /\ isoOff' = Depth
  /\ UNCHANGED <<passes, disabled, fight, globals, ringVars>>
IsoEnable ==
  /\ Acting /\ isoOff = Depth /\ Room
  /\ Become(Added(Added(Now, "animate"), "fidget")) /\ isoOff' = -1
  /\ UNCHANGED <<passes, disabled, fight, globals, ringVars>>

\* From the main loop, between its passes.
Main == Depth = 0

CombatBegin ==
  /\ Main /\ isoOff = -1 /\ ~fight
  /\ Become(Removed(Now, "fidget")) /\ fight' = TRUE
  /\ UNCHANGED <<passes, disabled, isoOff, globals, ringVars>>
CombatOver ==
  /\ Main /\ isoOff = -1 /\ fight /\ Room
  /\ Become(Added(Now, "fidget")) /\ fight' = FALSE
  /\ UNCHANGED <<passes, disabled, isoOff, globals, ringVars>>
\* Changes of map and elevation, the latter also within a walk or a script.
TextObjectsReset ==
  /\ Acting /\ Room /\ Len(Of(Now, "text")) < MaxTexts
  /\ Become(Added(Now, "text")) /\ UNCHANGED <<passes, whoVars, ringVars>>
GlobalsRemove ==
  /\ Main /\ globals /\ Become(Removed(Now, "global")) /\ globals' = FALSE
  /\ UNCHANGED <<passes, disabled, isoOff, fight, ringVars>>
GlobalsStart ==
  /\ Main /\ ~globals /\ Room /\ Become(Added(Now, "global")) /\ globals' = TRUE
  /\ UNCHANGED <<passes, disabled, isoOff, fight, ringVars>>
\* Around the end of the game's pictures.
TickersDisable ==
  /\ Main /\ isoOff = 0 /\ ~disabled /\ disabled' = TRUE
  /\ UNCHANGED <<listVars, isoOff, fight, globals, ringVars>>
TickersEnable ==
  /\ Main /\ disabled /\ disabled' = FALSE
  /\ UNCHANGED <<listVars, isoOff, fight, globals, ringVars>>

-----------------------------------------------------------------------------
(* The ring.                                                                 *)

EnqueueInputEvent(k) ==
  LET full == ring.write = ring.read
      last == ring.write = RingSize - 1
  IN /\ ring' = IF full THEN ring
                ELSE [events |-> [ring.events EXCEPT ![ring.write] = k],
                      write |-> IF last THEN 0 ELSE ring.write + 1,
                      read |-> IF ~last /\ ring.read = -1 THEN 0 ELSE ring.read]
     /\ pending' = IF Len(pending) = RingSize THEN pending ELSE Append(pending, k)
     /\ UNCHANGED <<listVars, whoVars>>

\* The index after the event that was read, if there is one.
NextRead(r) ==
  LET next == (r + 1) % RingSize IN IF next = ring.write THEN -1 ELSE next

DequeueInputEvent ==
  /\ ring.read # -1
  /\ LET next == NextRead(ring.read)
     IN ring' = [ring EXCEPT !.read = next, !.write = IF next = -1 THEN 0 ELSE @]
  /\ pending' = Tail(pending)
  /\ UNCHANGED <<listVars, whoVars>>
InputEventQueueReset ==
  /\ ring' = [ring EXCEPT !.read = -1, !.write = 0] /\ pending' = <<>>
  /\ UNCHANGED <<listVars, whoVars>>

Next ==
  \/ TickersExecute \/ Call \/ Free \/ Return \/ PassEnds
  \/ IsoDisable \/ IsoEnable \/ CombatBegin \/ CombatOver
  \/ TextObjectsReset \/ GlobalsRemove \/ GlobalsStart
  \/ TickersDisable \/ TickersEnable
  \/ \E k \in Keys : EnqueueInputEvent(k)
  \/ DequeueInputEvent \/ InputEventQueueReset

Spec == Init /\ [][Next]_vars

-----------------------------------------------------------------------------
\* Every pass, those that wait for one within them included, goes on with a node that is
\* still there, and where it takes a node out, the pointer it writes is that of the node in
\* front (tickersExecute: next and currPtr are kept over the call).
PassesSafe ==
  \A i \in 1..Depth :
    LET pass == passes[i] IN
    /\ IF pass.runs = "" THEN pass.curr \in Listed \cup {NIL} ELSE pass.next \in Listed \cup {NIL}
    /\ pass.runs = "" /\ pass.curr \in removed =>
         IF pass.prev = NIL THEN tickers[1] = pass.curr
         ELSE pass.prev \in Listed /\ Following(pass.prev) = pass.curr

\* A pass that is over has run all that were there from its beginning to its end, and nothing
\* that came meanwhile (tickersExecute, tickersAdd).
ServedOnce == \A i \in 1..Depth : passes[i].runs = "" /\ passes[i].curr = NIL =>
                passes[i].ran = passes[i].due

\* The ring holds the events that were taken and not yet given, in their order, and takes one
\* whenever there is room (enqueueInputEvent, dequeueInputEvent).
RingHolds ==
  /\ ring.read = -1 => pending = <<>> /\ ring.write = 0
  /\ ring.read # -1 =>
       pending = [i \in 1..((ring.write - ring.read + RingSize - 1) % RingSize) + 1 |->
                    ring.events[(ring.read + i - 1) % RingSize]]
=============================================================================
