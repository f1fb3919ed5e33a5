------------------------------- MODULE Memory -------------------------------
(***************************************************************************)
(* The two keepers of memory: the cache of cache.cc, and the arena of      *)
(* heap.cc its blocks come from. The cache relies on the promise of the    *)
(* heap only (HeapHandles), so a behaviour is one of the cache on that     *)
(* promise, or one of the heap.                                            *)
(***************************************************************************)
EXTENDS Cache

CONSTANTS Slot, ArenaSize, Overhead, MinSplit, Sizes  \* those of Heap; Slot is its Handle

VARIABLES
  header, system, handles, stats,  \* those of Heap
  scenario                         \* which of the two this behaviour is of
avars == <<header, system, handles, stats>>

Arena == INSTANCE Heap WITH Handle <- Slot
ASSUME ArenaConstants == Arena!HeapConstants

EitherInit == Init /\ Arena!Init /\ scenario \in {"cache", "heap"}
CacheStep == scenario = "cache" /\ Next /\ UNCHANGED <<avars, scenario>>
HeapStep == scenario = "heap" /\ Arena!Next /\ UNCHANGED <<vars, scenario>>
Either == EitherInit /\ [][CacheStep \/ HeapStep]_<<vars, avars, scenario>>

\* The blocks tile the arena whatever was split, joined or moved, handles and blocks
\* name each other, and the counters, kept by hand, are what a walk over the blocks
\* counts (heapFindFreeBlock, heapValidate).
Validate == scenario = "heap" => Arena!Tiling /\ Arena!HandlesMatch /\ Arena!Validate
\* What a holder of a handle wrote stays, and a locked block does not move.
ImplementsHeapHandles == Arena!ImplementsHeapHandles
=============================================================================
