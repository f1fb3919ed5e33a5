----------------------------- MODULE TimedEvents -----------------------------
(***************************************************************************)
(* What the event queue promises to the rest of the game, without its list:*)
(* events are delivered when the clock has reached them, the earliest      *)
(* first, those of one time in the order in which they were added.         *)
(***************************************************************************)
EXTENDS Integers

CONSTANTS
  Event,
  Time    \* what a clock can show and an event can be due at

VARIABLES
  clock,
  pending,  \* events added and neither delivered nor dropped
  due,      \* due[e] for each pending e
  order,    \* <<e, f>>: e and f are pending and due together, e came first
  running   \* events whose handlers have not returned

tvars == <<clock, pending, due, order, running>>

Init ==
  /\ clock \in Time
  /\ pending = {} /\ due = [e \in {} |-> 0] /\ order = {} /\ running = {}

Tick ==
  /\ clock' \in Time /\ clock' > clock
  /\ UNCHANGED <<pending, due, order, running>>

Add(e, t) ==
  /\ e \notin pending \cup running
  /\ pending' = pending \cup {e}
  /\ due' = [f \in pending' |-> IF f = e THEN t ELSE due[f]]
  /\ order' = order \cup {<<f, e>> : f \in {g \in pending : due[g] = t}}
  /\ UNCHANGED <<clock, running>>

Leave(e) ==
  /\ e \in pending
  /\ pending' = pending \ {e}
  /\ due' = [f \in pending' |-> due[f]]
  /\ order' = {pair \in order : e \notin {pair[1], pair[2]}}

Drop(e) == Leave(e) /\ UNCHANGED <<clock, running>>

Deliver(e) ==
  /\ Leave(e)
  /\ due[e] <= clock
  /\ \A f \in pending : due[e] <= due[f] /\ <<f, e>> \notin order
  /\ running' = running \cup {e}
  /\ UNCHANGED clock

Done(e) ==
  /\ e \in running /\ running' = running \ {e}
  /\ UNCHANGED <<clock, pending, due, order>>

Next ==
  \/ Tick
  \/ \E e \in Event :
       Drop(e) \/ Deliver(e) \/ Done(e) \/ \E t \in Time : Add(e, t)

Spec == Init /\ [][Next]_tvars
=============================================================================
