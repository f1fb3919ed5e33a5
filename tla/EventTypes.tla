----------------------------- MODULE EventTypes -----------------------------
(***************************************************************************)
(* The static table of the game event queue (gEventTypeDescriptions in     *)
(* queue.cc): what each event type's handlers need and do, as far as the   *)
(* queue can tell.                                                         *)
(***************************************************************************)
EXTENDS Integers, Sequences

\* Every event type, in the order of enum EventType: the order in which
\* _queue_leaving_map clears them.
AllEventTypes ==
  << "DRUG", "KNOCKOUT", "WITHDRAWAL", "SCRIPT", "GAME_TIME", "POISON",
     "RADIATION", "FLARE", "EXPLOSION", "ITEM_TRICKLE", "SNEAK",
     "EXPLOSION_FAILURE", "MAP_UPDATE", "GSOUND" >>

Precedes(t, u) ==
  \E i, j \in 1..Len(AllEventTypes) : i < j /\ AllEventTypes[i] = t /\ AllEventTypes[j] = u

\* The types whose handler runs with a null owner; an ownerless event of any
\* other type is dropped instead of being handled.
OwnerFreeTypes == {"GAME_TIME", "MAP_UPDATE", "GSOUND", "SCRIPT", "POISON", "SNEAK"}

DerefsOwner(t) == t \notin OwnerFreeTypes

\* The clearOnMapExit column.
ClearedOnMapExit(t) == t \notin {"POISON", "RADIATION"}

\* The types whose mapExitHandlerProc is null: their events are removed
\* without calling anything.
NoExitHandler == {"SCRIPT", "GAME_TIME", "POISON", "RADIATION", "MAP_UPDATE", "GSOUND"}

\* Which objects an event of a type can belong to. The dude alone is poisoned,
\* irradiated or sneaking; clock, map and ambient sound events have no owner; a
\* script event takes its script's owner, which may be null; flares, explosives
\* and powered gadgets are items.
OwnersOf(t, critters, items, dude, nil) ==
  CASE t \in {"GAME_TIME", "MAP_UPDATE", "GSOUND"}       -> {nil}
    [] t \in {"POISON", "RADIATION", "SNEAK"}            -> {dude}
    [] t \in {"DRUG", "KNOCKOUT", "WITHDRAWAL"}          -> critters
    [] t = "SCRIPT"                                      -> critters \cup items \cup {nil}
    [] OTHER                                             -> items
=============================================================================
