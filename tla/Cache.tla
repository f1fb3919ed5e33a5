------------------------------- MODULE Cache --------------------------------
(***************************************************************************)
(* The resource cache (cache.cc) for art and sound effects: entries sorted  *)
(* by key, each with a block of a heap (HeapHandles), pinned while somebody *)
(* holds a reference. A lock of a key that is not there makes room, may     *)
(* evict, allocates, reads the file and inserts; "call" is where in that    *)
(* sequence the one running call is.                                        *)
(***************************************************************************)
EXTENDS Integers, FiniteSets, FiniteSetsExt, SequencesExt

CONSTANTS
  Key,
  SizeOf,    \* SizeOf[k]: what sizeProc answers
  ReadSizes, \* ReadSizes[k]: what readProc may answer, none of it larger
  MaxSize,   \* cache->maxSize
  HitLimit,  \* UINT_MAX: at this count the statistics are reset
  Attempts,  \* tries to allocate before everything is flushed (10)
  MaxRefs,   \* bound: references to one entry
  Handle, Place, Junk, Nowhere

ASSUME CacheConstants ==
  /\ Key \subseteq Nat /\ SizeOf \in [Key -> Nat \ {0}]
  /\ \A k \in Key : ReadSizes[k] \subseteq 1..SizeOf[k]
  /\ MaxSize \in Nat /\ HitLimit \in Nat
  /\ IsFiniteSet(Key) /\ Cardinality(Key) < HitLimit  \* fewer files than UINT_MAX
  /\ Attempts \in Nat /\ MaxRefs \in Nat \ {0}
  /\ Junk \notin Handle /\ Nowhere \notin Place

VARIABLES
  entries,  \* cache->entries: sequence of entries
  size,     \* cache->size
  hits,     \* cache->hits
  marked,   \* keys with CACHE_ENTRY_MARKED_FOR_EVICTION
  call,     \* the running call, and how far it is
  mode, contents, place  \* the heap

vars == <<entries, size, hits, marked, call, mode, contents, place>>
hvars == <<mode, contents, place>>

Heap == INSTANCE HeapHandles

Idle == [phase |-> "idle", key |-> 0, index |-> 0, want |-> 0, tries |-> 0, handle |-> Nowhere]
At(phase) == call.phase = phase
Goto(phase) == call' = [call EXCEPT !.phase = phase]

Init ==
  /\ entries = << >> /\ size = 0 /\ hits = 0 /\ marked = {} /\ call = Idle
  /\ Heap!Init

Indexes == 1..Len(entries)
Keys == {entries[i].key : i \in Indexes}
Held == {i \in Indexes : entries[i].refs > 0}
SizesOf(set) == MapThenSumSet(LAMBDA i : entries[i].size, set)

-----------------------------------------------------------------------------
(* A hit.                                                                   *)

\* cacheFindIndexForKey of a key that is not there.
InsertionPoint(k) == Cardinality({i \in Indexes : entries[i].key < k}) + 1

\* cacheResetStatistics: the entries sorted by decreasing mru get their place
\* in that order as their new mru.
Renumbered(es) ==
  [i \in 1..Len(es) |->
     [es[i] EXCEPT !.mru = Cardinality({j \in 1..Len(es) : es[j].mru > es[i].mru})]]

\* The common end of cacheLock: a reference, a hit of the cache and the mru.
Referenced(es, i) ==
  LET touched == [es EXCEPT ![i].refs = @ + 1, ![i].mru = hits + 1]
  IN IF hits + 1 = HitLimit THEN Renumbered(touched) ELSE touched
HitsAfter(es) == IF hits + 1 = HitLimit THEN Len(es) ELSE hits + 1

LockHit(i) ==
  /\ At("idle")
  /\ entries[i].refs < MaxRefs
  /\ entries' = Referenced([entries EXCEPT ![i].hits = (@ + 1) % (HitLimit + 1)], i)
  /\ hits' = HitsAfter(entries)
  /\ IF entries[i].refs = 0 THEN Heap!Lock(entries[i].handle) ELSE UNCHANGED hvars
  /\ UNCHANGED <<size, marked, call>>

-----------------------------------------------------------------------------
(* A miss: cacheFetchEntryForKey. It starts by asking for room.             *)

LockMiss(k) ==
  /\ At("idle") /\ k \notin Keys
  /\ call' = [phase |-> "room", key |-> k, index |-> InsertionPoint(k),
              want |-> SizeOf[k], tries |-> 0, handle |-> Nowhere]
  /\ UNCHANGED <<entries, size, hits, marked, hvars>>

Fits(want) == MaxSize - size >= want

\* Entry i is used no more than entry j.
UsedNoMore(i, j) == \/ entries[i].hits < entries[j].hits
                    \/ entries[i].hits = entries[j].hits /\ entries[i].mru <= entries[j].mru

\* cacheEnsureSize marks: the free entries, least used first, until they make
\* up the threshold, or only the last of them if it makes up the threshold
\* alone; all of the free entries if they never do.
Free == Indexes \ Held
Through(i) == {j \in Free : UsedNoMore(j, i)}
Threshold(want) == want + size \div 5
Reaching(want) ==
  {i \in Free : /\ SizesOf(Through(i)) >= Threshold(want)
                /\ \A j \in Through(i) \ {i} : SizesOf(Through(j)) < Threshold(want)}
\* Mutant: the loop that marks stops before the least used entry.
VictimsButFirst(want) ==
  {i \in Free : (\E j \in Free \ {i} : UsedNoMore(j, i))
                /\ \A r \in Reaching(want) : UsedNoMore(i, r)}
Victims(want) ==
  IF Reaching(want) = {} THEN Free
  ELSE LET last == CHOOSE i \in Reaching(want) : TRUE
       IN IF entries[last].size >= Threshold(want) THEN {last} ELSE Through(last)

\* Whether room can be had decides between the next try, a last try after a
\* flush, and failure.
NoRoom == IF call.tries = 0 THEN call' = Idle ELSE Goto("flush")
HasRoom == IF call.tries < Attempts THEN Goto("allocate") ELSE Goto("flush")

Room ==
  /\ At("room")
  /\ CASE call.want > MaxSize -> NoRoom /\ UNCHANGED marked
       [] call.want <= MaxSize /\ Fits(call.want) -> HasRoom /\ UNCHANGED marked
       [] OTHER -> /\ marked' = {entries[i].key : i \in Victims(call.want)}
                   /\ Goto("sweep")
  /\ UNCHANGED <<entries, size, hits, hvars>>

\* cacheSweep, one marked entry at a time.
IsFirstMarked(i) == /\ entries[i].key \in marked
                    /\ \A j \in 1..(i - 1) : entries[j].key \notin marked
SizeAfterSweep(i) == size - entries[i].size

SweptBlock(h) == Heap!Deallocate(h)

SweepStep(i) ==
  /\ call.phase \in {"sweep", "flushing", "flushed"}
  /\ IsFirstMarked(i)
  /\ marked' = marked \ {entries[i].key}
  /\ IF entries[i].refs # 0
     THEN UNCHANGED <<entries, size, hvars>>
     ELSE /\ entries' = RemoveAt(entries, i)
          /\ size' = SizeAfterSweep(i)
          /\ SweptBlock(entries[i].handle)
  /\ UNCHANGED <<hits, call>>

Swept ==
  /\ call.phase \in {"sweep", "flushing", "flushed"} /\ marked = {}
  /\ CASE At("sweep") -> IF Fits(call.want) THEN HasRoom ELSE NoRoom
       [] At("flushing") -> Goto("last")
       [] At("flushed") -> call' = Idle
  /\ UNCHANGED <<entries, size, hits, marked, hvars>>

\* The heap finds a block, or cannot and asks for a quarter more room.
Allocated(h) ==
  /\ call.phase \in {"allocate", "last"}
  /\ Heap!Allocate(h)
  /\ call' = [call EXCEPT !.phase = "fill", !.handle = h]
  /\ UNCHANGED <<entries, size, hits, marked>>

\* Mutant: the tries are not counted and the wish does not grow.
TryAgainForever == Goto("room")
TryAgain ==
  call' = [call EXCEPT !.phase = "room", !.tries = @ + 1,
                       !.want = @ + SizeOf[call.key] \div 4]

NotAllocated ==
  /\ call.phase \in {"allocate", "last"}
  /\ IF At("allocate") THEN TryAgain ELSE call' = Idle
  /\ UNCHANGED <<entries, size, hits, marked, hvars>>

\* cacheFlush, by itself or before the last try.
CacheFlush ==
  /\ call.phase \in {"idle", "flush"}
  /\ marked' = {entries[i].key : i \in Free}
  /\ Goto(IF At("idle") THEN "flushed" ELSE "flushing")
  /\ UNCHANGED <<entries, size, hits, hvars>>

-----------------------------------------------------------------------------
(* The block is locked, read into and unlocked, and the entry inserted; then *)
(* cacheLock locks the block for its caller.                                 *)

Fill ==
  /\ At("fill") /\ Heap!Lock(call.handle) /\ Goto("read")
  /\ UNCHANGED <<entries, size, hits, marked>>

ReadWorks ==
  /\ At("read") /\ Heap!Write(call.handle) /\ Goto("insert")
  /\ UNCHANGED <<entries, size, hits, marked>>

ReadFails ==
  /\ At("read") /\ Heap!Unlock(call.handle) /\ Goto("drop")
  /\ UNCHANGED <<entries, size, hits, marked>>

Drop ==
  /\ At("drop") /\ Heap!Deallocate(call.handle) /\ call' = Idle
  /\ UNCHANGED <<entries, size, hits, marked>>

\* The index of the first lookup is used again if it still is where the key
\* belongs: the evictions in between may have moved it.
StillThere ==
  /\ call.index <= Len(entries) /\ call.key < entries[call.index].key
  /\ call.index > 1 => call.key > entries[call.index - 1].key
\* Mutant: the index of the first lookup, wherever the evictions moved it.
InsertIndexStale == IF call.index <= Len(entries) THEN call.index ELSE Len(entries) + 1
InsertIndex == IF StillThere THEN call.index ELSE InsertionPoint(call.key)

Insert(s) ==
  /\ At("insert") /\ s \in ReadSizes[call.key]
  /\ Heap!Unlock(call.handle)
  /\ entries' = InsertAt(entries, InsertIndex,
                  [key |-> call.key, size |-> s, refs |-> 0, hits |-> 0, mru |-> 0,
                   handle |-> call.handle])
  /\ size' = size + s
  /\ call' = [call EXCEPT !.phase = "pin", !.index = InsertIndex]
  /\ UNCHANGED <<hits, marked>>

Pin ==
  /\ At("pin")
  /\ Heap!Lock(entries[call.index].handle)
  /\ entries' = Referenced(entries, call.index)
  /\ hits' = HitsAfter(entries)
  /\ call' = Idle
  /\ UNCHANGED <<size, marked>>

\* cacheUnlock by a holder of a reference.
\* Mutant: the block is unlocked with every reference.
LastReferenceAlways(i) == TRUE
LastReference(i) == entries[i].refs = 1

CacheUnlock(i) ==
  /\ At("idle") /\ entries[i].refs > 0
  /\ entries' = [entries EXCEPT ![i].refs = @ - 1]
  /\ IF LastReference(i) THEN Heap!Unlock(entries[i].handle) ELSE UNCHANGED hvars
  /\ UNCHANGED <<size, hits, marked, call>>

-----------------------------------------------------------------------------
Work ==
  \/ Room \/ \E i \in Indexes : SweepStep(i)
  \/ Swept \/ NotAllocated \/ \E h \in Handle : Allocated(h)
  \/ (At("flush") /\ CacheFlush)
  \/ Fill \/ ReadWorks \/ ReadFails \/ Drop
  \/ \E s \in 1..MaxSize : Insert(s)
  \/ Pin

Next ==
  \/ \E i \in Indexes : LockHit(i)
  \/ \E k \in Key : LockMiss(k)
  \/ \E i \in Indexes : CacheUnlock(i)
  \/ (At("idle") /\ CacheFlush)
  \/ Work

Spec == Init /\ [][Next]_vars
\* A call runs to its end.
FairSpec == Spec /\ WF_vars(Work)

-----------------------------------------------------------------------------
Entry == [key : Key, size : 1..MaxSize, refs : 0..MaxRefs, hits : 0..HitLimit,
          mru : 0..HitLimit, handle : Handle]

TypeOK ==
  /\ entries \in Seq(Entry)
  /\ size \in 0..MaxSize
  /\ hits \in 0..HitLimit
  /\ marked \subseteq Key
  /\ call.key \in Key \cup {0} /\ call.handle \in Handle \cup {Nowhere}
  /\ mode \in [Handle -> {"none", "free", "locked"}]
  /\ contents \in [Handle -> Handle \cup {Junk}]
  /\ place \in [Handle -> Place \cup {Nowhere}]

\* The cache accounts for what it holds and never holds more than it may,
\* whatever failed on the way.
SizeKept == size = SizesOf(Indexes) /\ size <= MaxSize

\* The entries are sorted by key without duplicates: the binary search of the
\* next call finds what there is.
KeysSorted == \A i, j \in Indexes : i < j => entries[i].key < entries[j].key

\* What the calls rely on: sound types, sizes and order (cacheLock, cacheEnsureSize,
\* cacheFindIndexForKey).
SoundBooks == TypeOK /\ SizeKept /\ KeysSorted

\* Every block that is allocated belongs to one entry, or to the running call;
\* it is locked exactly while the entry is referenced, and an entry's block
\* holds what was read for it. No failure on the way leaks a block.
BlocksOwned ==
  /\ \A i, j \in Indexes : entries[i].handle = entries[j].handle => i = j
  /\ \A h \in Handle : mode[h] # "none" =>
       h = call.handle \/ \E i \in Indexes : entries[i].handle = h
  /\ \A i \in Indexes :
       LET h == entries[i].handle
       IN /\ mode[h] = (IF entries[i].refs > 0 THEN "locked" ELSE "free")
          /\ contents[h] = h

\* The accounts of the cache agree with what it holds: sizes, order and blocks
\* (cacheLock, cacheFetchEntryForKey).
Consistent == SoundBooks /\ BlocksOwned

\* A referenced entry is never evicted, and its data do not move while it
\* stays referenced.
PinnedStay ==
  [][\A i \in Held : \E j \in 1..Len(entries') :
       /\ entries'[j].key = entries[i].key /\ entries'[j].handle = entries[i].handle
       /\ entries'[j].refs > 0 => place'[entries[i].handle] = place[entries[i].handle]]_vars

\* Making room works whenever the references leave enough of it.
RoomIsMade ==
  At("sweep") /\ marked = {} /\ SizesOf(Held) + call.want <= MaxSize => Fits(call.want)

\* Every call returns: the retries end.
CallsReturn == (call.phase # "idle") ~> (call.phase = "idle")
=============================================================================
