-------------------------------- MODULE Heap --------------------------------
(***************************************************************************)
(* The compacting heap of heap.cc: one arena tiled by blocks (a header, the *)
(* bytes, a footer), handles that name the blocks, and an allocator that    *)
(* joins free neighbours and, when no free block is big enough, empties a   *)
(* run of unlocked blocks by moving them elsewhere. One unit of size stands *)
(* for the four bytes sizes are rounded up to.                              *)
(***************************************************************************)
EXTENDS Integers, FiniteSets, FiniteSetsExt, Functions

CONSTANTS
  Handle,     \* bound: handle indexes 0..n-1 (the code adds 64 at a time)
  ArenaSize,  \* heap->size
  Overhead,   \* HEAP_BLOCK_OVERHEAD_SIZE: header and footer
  MinSplit,   \* HEAP_BLOCK_MIN_SIZE
  Sizes,      \* the sizes callers ask for
  Junk,       \* bytes nobody wrote
  Nowhere     \* a null data pointer

HeapConstants ==
  /\ Handle \subseteq Nat /\ Handle # {} /\ Sizes \subseteq Nat \ {0}
  /\ IsFiniteSet(Handle) /\ {ArenaSize, MinSplit} \subseteq Nat
  /\ Overhead \in Nat \ {0} /\ MinSplit > Overhead /\ ArenaSize > Overhead
  /\ Junk \notin Handle /\ Nowhere \notin Int

NoHandle == -1

VARIABLES
  header,   \* the arena: address -> header of the block there, and its bytes
  system,   \* blocks of system memory: handle -> size and bytes
  handles,  \* handle -> state and address of its block
  stats     \* the counters of struct Heap

vars == <<header, system, handles, stats>>

Block(size, state, handle, bytes) ==
  [size |-> size, state |-> state, handle |-> handle, bytes |-> bytes]
FreeBlock(size) == Block(size, "free", NoHandle, Junk)

Unused == [state |-> "invalid", data |-> Nowhere]

\* Where the system block of a handle lies: somewhere outside the arena.
SystemPlace(h) == ArenaSize + h

Init ==
  /\ header = [a \in {0} |-> FreeBlock(ArenaSize - Overhead)]
  /\ system = << >>
  /\ handles = [h \in Handle |-> Unused]
  /\ stats = [freeBlocks    |-> 1, freeSize    |-> ArenaSize - Overhead,
              movableBlocks |-> 0, movableSize |-> 0,
              lockedBlocks  |-> 0, lockedSize  |-> 0,
              systemBlocks  |-> 0, systemSize  |-> 0]

-----------------------------------------------------------------------------
(* The block list of an arena m: m[a] is the block at address a.            *)

Is(m, state) == {a \in DOMAIN m : m[a].state = state}
After(m, a) == a + m[a].size + Overhead

\* Maximal runs of neighbours whose state is in S, and the size a run has as
\* one block.
Run(m, a, S) ==
  {b \in DOMAIN m : a <= b /\ \A c \in DOMAIN m : a <= c /\ c <= b => m[c].state \in S}
Runs(m, S) ==
  {Run(m, a, S) : a \in {b \in DOMAIN m :
     /\ m[b].state \in S
     /\ \A c \in DOMAIN m : After(m, c) = b => m[c].state \notin S}}
Span(m, run) == After(m, Max(run)) - Min(run) - Overhead

BytesOf(m, set) == MapThenSumSet(LAMBDA a : m[a].size, set)

-----------------------------------------------------------------------------
(* heapBuildFreeBlocksList: every run of free blocks becomes one block. The *)
(* walk is skipped when no block is free.                                   *)

Joined(m) ==
  LET runs  == Runs(m, {"free"})
      first == {Min(run) : run \in runs}
  IN [a \in (DOMAIN m \ Is(m, "free")) \cup first |->
        IF a \in first
        THEN FreeBlock(Span(m, CHOOSE run \in runs : Min(run) = a))
        ELSE m[a]]

\* Mutant: the overhead of the joined blocks is not given back.
JoinedStatsNoOverhead(m) ==
  [stats EXCEPT !.freeBlocks = @ - (Cardinality(DOMAIN m) - Cardinality(DOMAIN Joined(m)))]

JoinedStats(m) ==
  LET gone == Cardinality(DOMAIN m) - Cardinality(DOMAIN Joined(m))
  IN [stats EXCEPT !.freeBlocks = @ - gone, !.freeSize = @ + gone * Overhead]

-----------------------------------------------------------------------------
(* Compaction. An extent is a maximal run of free and movable blocks. It can *)
(* be emptied when each movable block in it, the smaller ones first, finds a *)
(* free block outside of it, the smallest that is big enough and not taken.  *)

Extents(m) == Runs(m, {"free", "movable"})

Movables(m, extent) == extent \cap Is(m, "movable")

Outside(m, extent) == Is(m, "free") \ extent

Reservations(m, extent) ==
  {to \in Injection(Movables(m, extent), Outside(m, extent)) :
     \A b \in DOMAIN to :
       /\ m[b].size <= m[to[b]].size
       /\ \A f \in Outside(m, extent) :
            m[b].size <= m[f].size /\ m[f].size < m[to[b]].size =>
              \E c \in DOMAIN to : to[c] = f /\ m[c].size <= m[b].size}

\* The extents are tried by increasing data size.
Usable(m, extent, size) == Span(m, extent) >= size /\ Reservations(m, extent) # {}
Chosen(m, size) ==
  {x \in Extents(m) :
     /\ Usable(m, x, size)
     /\ \A y \in Extents(m) : BytesOf(m, y) < BytesOf(m, x) => ~Usable(m, y, size)}

\* What is left of the free block a movable block b moves to: too little is
\* merged into the moved block, the rest becomes a free block of its own.
Left(m, to, b) == m[to[b]].size - m[b].size
Merges(m, to) == {b \in DOMAIN to : 0 < Left(m, to, b) /\ Left(m, to, b) < MinSplit}
Splits(m, to) == {b \in DOMAIN to : Left(m, to, b) >= MinSplit}
SplitAt(m, to, b) == to[b] + m[b].size + Overhead

Moved(m, extent, to) ==
  LET taken == Range(to)
      split == {SplitAt(m, to, b) : b \in Splits(m, to)}
      from(f) == CHOOSE b \in DOMAIN to : to[b] = f
      rest(a) == CHOOSE b \in Splits(m, to) : SplitAt(m, to, b) = a
  IN [a \in (DOMAIN m \ extent) \cup {Min(extent)} \cup split |->
        CASE a = Min(extent) -> FreeBlock(Span(m, extent))
          [] a \in taken -> [m[from(a)] EXCEPT !.size =
                               IF from(a) \in Merges(m, to) THEN m[a].size ELSE @]
          [] a \in split -> FreeBlock(Left(m, to, rest(a)) - Overhead)
          [] OTHER -> m[a]]

MovedStats(m, extent, to, s) ==
  LET merged == MapThenSumSet(LAMBDA b : Left(m, to, b), Merges(m, to))
  IN [s EXCEPT
        !.freeBlocks = @ + Cardinality(Splits(m, to)) - (Cardinality(extent) - 1),
        !.freeSize = @ - merged
                     + (Cardinality(extent) - 1 - Cardinality(Splits(m, to))) * Overhead,
        !.movableSize = @ + merged]

MovedHandles(m, to) ==
  [h \in Handle |->
     IF \E b \in DOMAIN to : m[b].handle = h
     THEN [handles[h] EXCEPT !.data = to[CHOOSE b \in DOMAIN to : m[b].handle = h]]
     ELSE handles[h]]

-----------------------------------------------------------------------------
(* heapBlockAllocate.                                                       *)

FreeHandles == {h \in Handle : handles[h].state = "invalid"}

\* Bind the free block at a of arena m to the first unused handle; when no
\* handle can be had, the arena stays as the search for the block left it.
Split(m, a, size) == m[a].size - size > MinSplit

Bind(m, s, hs, a, size) ==
  /\ system' = system
  /\ IF FreeHandles = {}
     THEN header' = m /\ stats' = s /\ handles' = hs
     ELSE LET h    == Min(FreeHandles)
              took == IF Split(m, a, size) THEN size ELSE m[a].size
              tail == a + size + Overhead
          IN /\ header' = [b \in DOMAIN m \cup (IF Split(m, a, size) THEN {tail} ELSE {}) |->
                             CASE b = a -> Block(took, "movable", h, Junk)
                               [] b # a /\ b \notin DOMAIN m ->
                                    FreeBlock(m[a].size - size - Overhead)
                               [] OTHER -> m[b]]
             /\ handles' = [hs EXCEPT ![h] = [state |-> "movable", data |-> a]]
             /\ stats' = [s EXCEPT
                  !.freeBlocks = IF Split(m, a, size) THEN @ ELSE @ - 1,
                  !.freeSize = @ - took - (IF Split(m, a, size) THEN Overhead ELSE 0),
                  !.movableBlocks = @ + 1,
                  !.movableSize = @ + took]

BindSystem(s, size) ==
  IF FreeHandles = {}
  THEN stats' = s /\ UNCHANGED <<system, handles>>
  ELSE LET h == Min(FreeHandles)
       IN /\ system' = [g \in DOMAIN system \cup {h} |->
                          IF g = h THEN [size |-> size, bytes |-> Junk] ELSE system[g]]
          /\ handles' = [handles EXCEPT ![h] = [state |-> "system", data |-> SystemPlace(h)]]
          /\ stats' = [s EXCEPT !.systemBlocks = @ + 1, !.systemSize = @ + size]

\* The smallest free blocks that are big enough.
Fits(m, size) ==
  {a \in Is(m, "free") :
     /\ m[a].size >= size
     /\ \A b \in Is(m, "free") : m[b].size >= size => m[a].size <= m[b].size}

HeapAllocate(size, disallowSystem) ==
  LET m == IF stats.freeBlocks = 0 THEN header ELSE Joined(header)
      s == IF stats.freeBlocks = 0 THEN stats ELSE JoinedStats(header)
      direct  == IF size > s.freeSize THEN {} ELSE Fits(m, size)
      extents == IF \/ s.freeBlocks = 0 \/ size > s.freeSize \/ direct # {}
                    \/ s.movableBlocks + s.freeBlocks <= 2
                 THEN {} ELSE Chosen(m, size)
  IN \/ \E a \in direct : Bind(m, s, handles, a, size)
     \/ \E x \in extents : \E to \in Reservations(m, x) :
          Bind(Moved(m, x, to), MovedStats(m, x, to, s), MovedHandles(m, to), Min(x), size)
     \/ /\ direct = {} /\ extents = {}
        /\ header' = m
        /\ IF disallowSystem
           THEN stats' = s /\ UNCHANGED <<system, handles>>
           ELSE BindSystem(s, size)

-----------------------------------------------------------------------------
(* The operations on a handle. Each answers false, and changes nothing, for *)
(* a handle in any other state.                                             *)

\* Mutant: a locked block is given back too.
HeapDeallocateLocked(h) ==
  LET a == handles[h].data IN
  /\ handles[h].state \in {"movable", "locked"}
  /\ handles' = [handles EXCEPT ![h] = Unused]
  /\ header' = [header EXCEPT ![a] = FreeBlock(header[a].size)]
  /\ stats' = [stats EXCEPT !.freeBlocks = @ + 1, !.freeSize = @ + header[a].size]
  /\ UNCHANGED system

HeapDeallocate(h) ==
  LET a == handles[h].data IN
  /\ handles[h].state \in {"movable", "system"}
  /\ handles' = [handles EXCEPT ![h] = Unused]
  /\ IF handles[h].state = "movable"
     THEN /\ header' = [header EXCEPT ![a] = FreeBlock(header[a].size)]
          /\ stats' = [stats EXCEPT
               !.freeBlocks = @ + 1, !.freeSize = @ + header[a].size,
               !.movableBlocks = @ - 1, !.movableSize = @ - header[a].size]
          /\ UNCHANGED system
     ELSE /\ system' = [g \in DOMAIN system \ {h} |-> system[g]]
          /\ stats' = [stats EXCEPT !.systemBlocks = @ - 1,
                                    !.systemSize = @ - system[h].size]
          /\ UNCHANGED header

HeapLock(h) ==
  LET a == handles[h].data IN
  /\ handles[h].state \in {"movable", "system"}
  /\ IF handles[h].state = "movable"
     THEN /\ handles' = [handles EXCEPT ![h].state = "locked"]
          /\ header' = [header EXCEPT ![a].state = "locked"]
          /\ stats' = [stats EXCEPT
               !.movableBlocks = @ - 1, !.movableSize = @ - header[a].size,
               !.lockedBlocks = @ + 1, !.lockedSize = @ + header[a].size]
     ELSE /\ handles' = [handles EXCEPT ![h].state = "lockedsystem"]
          /\ UNCHANGED <<header, stats>>
  /\ UNCHANGED system

\* The holder of a locked block writes through the pointer it was given.
Write(h) ==
  /\ handles[h].state \in {"locked", "lockedsystem"}
  /\ IF handles[h].state = "locked"
     THEN header' = [header EXCEPT ![handles[h].data].bytes = h] /\ UNCHANGED system
     ELSE system' = [system EXCEPT ![h].bytes = h] /\ UNCHANGED header
  /\ UNCHANGED <<handles, stats>>

HeapUnlock(h) ==
  LET a == handles[h].data IN
  /\ handles[h].state \in {"locked", "lockedsystem"}
  /\ IF handles[h].state = "locked"
     THEN /\ handles' = [handles EXCEPT ![h].state = "movable"]
          /\ header' = [header EXCEPT ![a].state = "movable"]
          /\ stats' = [stats EXCEPT
               !.movableBlocks = @ + 1, !.movableSize = @ + header[a].size,
               !.lockedBlocks = @ - 1, !.lockedSize = @ - header[a].size]
     ELSE /\ handles' = [handles EXCEPT ![h].state = "system"]
          /\ UNCHANGED <<header, stats>>
  /\ UNCHANGED system

Next ==
  \/ \E size \in Sizes, disallowSystem \in BOOLEAN : HeapAllocate(size, disallowSystem)
  \/ \E h \in Handle : HeapDeallocate(h)
  \/ \E h \in Handle : HeapLock(h)
  \/ \E h \in Handle : Write(h)
  \/ \E h \in Handle : HeapUnlock(h)

Spec == Init /\ [][Next]_vars

-----------------------------------------------------------------------------
TypeOK ==
  /\ \A a \in DOMAIN header :
       /\ a \in 0..(ArenaSize - 1)
       /\ header[a] \in [size : 1..ArenaSize, state : {"free", "movable", "locked"},
                         handle : Handle \cup {NoHandle}, bytes : Handle \cup {Junk}]
  /\ \A h \in DOMAIN system :
       h \in Handle /\ system[h] \in [size : Sizes, bytes : Handle \cup {Junk}]
  /\ handles \in [Handle -> [state : {"invalid", "movable", "locked", "system", "lockedsystem"},
                             data  : (0..(ArenaSize + Max(Handle))) \cup {Nowhere}]]
  /\ \A counter \in DOMAIN stats : stats[counter] \in Nat

\* The blocks tile the arena: the walks over the block list, which trust the
\* sizes in the headers, end exactly at the end of the arena. Types included.
Tiling ==
  /\ TypeOK /\ 0 \in DOMAIN header
  /\ \A a \in DOMAIN header :
       IF a = Max(DOMAIN header) THEN After(header, a) = ArenaSize
       ELSE After(header, a) = Min({b \in DOMAIN header : b > a})

\* heapValidate: the counters, which every operation updates by hand and the
\* allocator trusts, are what a walk over the blocks counts.
Validate ==
  /\ stats.freeBlocks = Cardinality(Is(header, "free"))
  /\ stats.freeSize = BytesOf(header, Is(header, "free"))
  /\ stats.movableBlocks = Cardinality(Is(header, "movable"))
  /\ stats.movableSize = BytesOf(header, Is(header, "movable"))
  /\ stats.lockedBlocks = Cardinality(Is(header, "locked"))
  /\ stats.lockedSize = BytesOf(header, Is(header, "locked"))
  /\ stats.systemBlocks = Cardinality(DOMAIN system)
  /\ stats.systemSize = BytesOf(system, DOMAIN system)

\* Handles and blocks name each other, and agree on the block's state, also
\* after the block was moved by the allocation of another.
HandlesMatch ==
  /\ \A a \in DOMAIN header :
       IF header[a].state = "free" THEN header[a].handle = NoHandle
       ELSE /\ header[a].handle # NoHandle
            /\ handles[header[a].handle] = [state |-> header[a].state, data |-> a]
  /\ \A h \in Handle :
       CASE handles[h].state = "invalid" -> handles[h] = Unused /\ h \notin DOMAIN system
         [] handles[h].state \in {"movable", "locked"} ->
              handles[h].data \in DOMAIN header /\ header[handles[h].data].handle = h
         [] OTHER -> h \in DOMAIN system

\* The heap implements HeapHandles: what was written through a handle is read
\* back through it whatever was joined, split or moved since, and nothing moves
\* a locked block.
Bytes(h) == CASE handles[h].state = "invalid" -> Junk
              [] handles[h].state \in {"movable", "locked"} ->
                   IF handles[h].data \in DOMAIN header
                   THEN header[handles[h].data].bytes ELSE Junk
              [] OTHER -> system[h].bytes

Promise == INSTANCE HeapHandles WITH
  Place    <- 0..(ArenaSize + Max(Handle)),
  mode     <- [h \in Handle |-> CASE handles[h].state = "invalid" -> "none"
                                  [] handles[h].state \in {"movable", "system"} -> "free"
                                  [] OTHER -> "locked"],
  contents <- [h \in Handle |-> Bytes(h)],
  place    <- [h \in Handle |-> IF handles[h].state \in {"locked", "lockedsystem"}
                                THEN handles[h].data ELSE Nowhere]

ImplementsHeapHandles == Promise!Spec
=============================================================================
