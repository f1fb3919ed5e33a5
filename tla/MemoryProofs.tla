---------------------------- MODULE MemoryProofs ----------------------------
(***************************************************************************)
(* Proofs about Cache, for every set of keys, sizes and handles, and then  *)
(* about Heap, for every arena, set of handles and set of sizes.           *)
(***************************************************************************)
EXTENDS Memory, SequenceEdits

-----------------------------------------------------------------------------
(* The cache: the invariant                                                 *)

\* The parts of it that are about a sequence of entries.
SizesIn(es, set) == MapThenSumSet(LAMBDA i : es[i].size, set)
Sorted(es) == \A i, j \in 1..Len(es) : i < j => es[i].key < es[j].key
KeysIn(es) == {es[i].key : i \in 1..Len(es)}
HandlesIn(es) == {es[i].handle : i \in 1..Len(es)}
HandlesDiffer(es) == \A i, j \in 1..Len(es) : es[i].handle = es[j].handle => i = j
Stored(es, md, ct) ==
  \A i \in 1..Len(es) :
    /\ md[es[i].handle] = (IF es[i].refs > 0 THEN "locked" ELSE "free")
    /\ ct[es[i].handle] = es[i].handle

EntrySeq == Seq(Entry)
Books ==
  /\ entries \in EntrySeq
  /\ size = SizesIn(entries, 1..Len(entries)) /\ size <= MaxSize
  /\ Sorted(entries)

Counts == hits \in 0..(HitLimit - 1) /\ marked \in SUBSET Key

Fetching == {"room", "sweep", "allocate", "flush", "flushing", "last"}
Owning == {"fill", "read", "insert", "drop"}
Phases == {"idle", "flushed", "pin"} \cup Fetching \cup Owning
Calls == [phase : Phases, key : Key \cup {0},
          index : Nat, want : Nat, tries : Nat, handle : Handle \cup {Nowhere}]

\* Where a call is says what is known of its key, index and wish.
CallSound ==
  /\ call \in Calls
  /\ call.phase \in Fetching \cup Owning =>
       /\ call.key \in Key \ KeysIn(entries) /\ call.index > 0
       /\ call.want >= SizeOf[call.key]
  /\ At("pin") => call.index \in 1..Len(entries)

\* Once there was room for the file there is, whatever is tried next.
MadeRoom ==
  \/ call.phase \in {"allocate", "flush", "flushing", "last", "fill", "read", "insert"}
  \/ call.phase \in {"room", "sweep"} /\ call.tries > 0
RoomKept == MadeRoom => size + SizeOf[call.key] <= MaxSize

Heaps ==
  /\ mode \in [Handle -> {"none", "free", "locked"}]
  /\ contents \in [Handle -> Handle \cup {Junk}]
  /\ place \in [Handle -> Place \cup {Nowhere}]

\* The running call has a block of its own from the time it is allocated to the
\* time it is dropped or put into an entry.
Blocks ==
  /\ HandlesDiffer(entries) /\ Stored(entries, mode, contents)
  /\ \A h \in Handle : mode[h] # "none" =>
       h \in HandlesIn(entries) \/ (call.phase \in Owning /\ h = call.handle)
  /\ call.phase \in Owning =>
       /\ call.handle \in Handle \ HandlesIn(entries)
       /\ mode[call.handle] = (IF call.phase \in {"fill", "drop"} THEN "free" ELSE "locked")
       /\ At("insert") => contents[call.handle] = call.handle

\* A sweep for room has marked enough, or all it may.
Unreferenced(es, keys) == {i \in 1..Len(es) : es[i].refs <= 0 /\ es[i].key \in keys}
Enough ==
  At("sweep") =>
    \/ size - SizesIn(entries, Unreferenced(entries, marked)) + call.want <= MaxSize
    \/ \A i \in 1..Len(entries) : entries[i].refs <= 0 => entries[i].key \in marked

IInv == Books /\ Counts /\ CallSound /\ RoomKept /\ Heaps /\ Blocks /\ Enough

-----------------------------------------------------------------------------
(* The sizes of some of the entries                                         *)

Weights(es) == [i \in 1..Len(es) |-> es[i].size]

LEMMA EntryParts ==
  ASSUME NEW es \in EntrySeq
  PROVE  /\ Len(es) \in Nat /\ IsFiniteSet(1..Len(es))
         /\ \A i \in 1..Len(es) :
              /\ es[i] \in Entry /\ es[i].key \in Key /\ es[i].handle \in Handle
              /\ es[i].size \in Nat /\ es[i].size > 0 /\ es[i].refs \in 0..MaxRefs
              /\ es[i].hits \in 0..HitLimit /\ es[i].mru \in 0..HitLimit
<1>1. Len(es) \in Nat /\ \A i \in 1..Len(es) : es[i] \in Entry
  BY LenProperties, ElementOfSeq DEF EntrySeq
<1>2. IsFiniteSet(1..Len(es))
  BY <1>1, FS_Interval
<1>3. \A e \in Entry : /\ e.key \in Key /\ e.handle \in Handle
                      /\ e.size \in Nat /\ e.size > 0 /\ e.refs \in 0..MaxRefs
                      /\ e.hits \in 0..HitLimit /\ e.mru \in 0..HitLimit
  BY CacheConstants DEF Entry
<1> QED BY <1>1, <1>2, <1>3

LEMMA SizesAre ==
  ASSUME NEW es, NEW S \in SUBSET (1..Len(es))
  PROVE  SizesIn(es, S) = Total(Weights(es), S)
<1> DEFINE Adding(f) == f = [s \in SUBSET S |->
                              IF s = {} THEN 0
                              ELSE es[Pick(s)].size + f[s \ {Pick(s)}]]
<1>1. SizesIn(es, S) = (CHOOSE f : Adding(f))[S]
  BY DEF SizesIn, MapThenSumSet, MapThenFoldSet, Pick
<1>2. \A f : Adding(f) <=> Adds(Weights(es), S, f)
  <2>1. \A s \in SUBSET S : s # {} => Weights(es)[Pick(s)] = es[Pick(s)].size
    BY PickIn DEF Weights
  <2>2. \A f : \A s \in SUBSET S : Level(Weights(es), f, s) =
          IF s = {} THEN 0 ELSE es[Pick(s)].size + f[s \ {Pick(s)}]
    BY <2>1 DEF Level
  <2> QED BY <2>2 DEF Adds
<1> HIDE DEF Adding
<1>3. (CHOOSE f : Adding(f)) = (CHOOSE f : Adds(Weights(es), S, f))
  BY <1>2
<1> QED BY <1>1, <1>3 DEF Total

\* All that the facts about sums ask.
LEMMA WeightsNat ==
  ASSUME NEW es \in EntrySeq, NEW S \in SUBSET (1..Len(es))
  PROVE  /\ IsFiniteSet(S)
         /\ \A i \in S : Weights(es)[i] = es[i].size /\ Weights(es)[i] \in Nat
<1>1. IsFiniteSet(S)
  BY EntryParts, FS_Subset
<1>2. \A i \in S : Weights(es)[i] = es[i].size /\ es[i].size \in Nat
  BY EntryParts DEF Weights
<1> QED BY <1>1, <1>2

LEMMA SizesParted ==
  ASSUME NEW es \in EntrySeq, NEW S \in SUBSET (1..Len(es)), NEW T \in SUBSET S
  PROVE  /\ SizesIn(es, S) = SizesIn(es, T) + SizesIn(es, S \ T)
         /\ SizesIn(es, S) \in Nat /\ SizesIn(es, T) \in Nat /\ SizesIn(es, S \ T) \in Nat
<1>1. /\ SizesIn(es, S) = Total(Weights(es), S) /\ SizesIn(es, T) = Total(Weights(es), T)
      /\ SizesIn(es, S \ T) = Total(Weights(es), S \ T)
  BY SizesAre
<1>2. /\ Total(Weights(es), S) = Total(Weights(es), T) + Total(Weights(es), S \ T)
      /\ Total(Weights(es), S) \in Nat /\ Total(Weights(es), T) \in Nat
      /\ Total(Weights(es), S \ T) \in Nat
  BY WeightsNat, TotalParted
<1> QED BY <1>1, <1>2, Zenon

LEMMA SizesOfOne ==
  ASSUME NEW es \in EntrySeq, NEW S \in SUBSET (1..Len(es)), NEW i \in S
  PROVE  /\ SizesIn(es, S) = es[i].size + SizesIn(es, S \ {i})
         /\ SizesIn(es, {i}) = es[i].size
<1>1. \A T \in SUBSET (1..Len(es)) : i \in T =>
         SizesIn(es, T) = es[i].size + SizesIn(es, T \ {i})
  <2> SUFFICES ASSUME NEW T \in SUBSET (1..Len(es)), i \in T
               PROVE  SizesIn(es, T) = es[i].size + SizesIn(es, T \ {i})
    OBVIOUS
  <2>1. Total(Weights(es), T) = Weights(es)[i] + Total(Weights(es), T \ {i})
    BY WeightsNat, TotalTakes
  <2>2. Weights(es)[i] = es[i].size
    BY WeightsNat
  <2>3. /\ SizesIn(es, T) = Total(Weights(es), T)
        /\ SizesIn(es, T \ {i}) = Total(Weights(es), T \ {i})
    BY SizesAre
  <2> QED BY <2>1, <2>2, <2>3, Zenon
<1>2. SizesIn(es, {i}) = es[i].size + SizesIn(es, {})
  <2>1. {i} \in SUBSET (1..Len(es)) /\ {i} \ {i} = {}
    OBVIOUS
  <2> QED BY <1>1, <2>1, Zenon
<1>3. SizesIn(es, {}) = 0
  <2>1. {} \in SUBSET (1..Len(es))
    OBVIOUS
  <2> QED BY <2>1, SizesAre, TotalNone
<1>4. es[i].size \in Nat
  BY EntryParts
<1> QED BY <1>1, <1>2, <1>3, <1>4

\* Another sequence of entries with the same sizes in another place.
SameSizes(b, S, es, fs) == \A i \in S : es[i].size = fs[b[i]].size
LEMMA SizesMapped ==
  ASSUME NEW es \in EntrySeq, NEW S \in SUBSET (1..Len(es)),
         NEW fs \in EntrySeq, NEW T \in SUBSET (1..Len(fs)),
         NEW b, Pairs(b, S, T), SameSizes(b, S, es, fs)
  PROVE  SizesIn(es, S) = SizesIn(fs, T)
<1>1. PICK w, v : w = Weights(es) /\ v = Weights(fs)
  OBVIOUS
<1>2. IsFiniteSet(S) /\ \A i \in S : w[i] = es[i].size /\ w[i] \in Nat
  BY <1>1, WeightsNat
<1>3. \A j \in T : v[j] = fs[j].size
  BY <1>1, WeightsNat
<1>4. Carries(b, S, w, v)
  BY <1>2, <1>3 DEF Carries, Pairs, SameSizes
<1>5. Total(w, S) = Total(v, T)
  BY <1>2, <1>4, TotalMapped
<1>6. SizesIn(es, S) = Total(Weights(es), S) /\ SizesIn(fs, T) = Total(Weights(fs), T)
  BY SizesAre
<1> QED BY <1>1, <1>5, <1>6

LEMMA SizesAlike ==
  ASSUME NEW es \in EntrySeq, NEW fs \in EntrySeq, Len(es) = Len(fs),
         \A i \in 1..Len(es) : es[i].size = fs[i].size,
         NEW S \in SUBSET (1..Len(es))
  PROVE  SizesIn(es, S) = SizesIn(fs, S)
<1>1. PICK b : b = [i \in S |-> i]
  OBVIOUS
<1>2. /\ b \in [S -> S] /\ \A i \in S : b[i] = i
  BY <1>1
<1>3. Pairs(b, S, S) /\ SameSizes(b, S, es, fs)
  BY <1>2 DEF Pairs, SameSizes
<1> QED BY <1>2, <1>3, SizesMapped

\* One entry taken out, and one put in: where the others were before.
Before(p, j) == IF j < p THEN j ELSE j + 1
SizesWithout(es, p, fs) ==
  Len(fs) = Len(es) - 1 /\ \A j \in 1..Len(fs) : fs[j].size = es[Before(p, j)].size
Shifted(fs, p, S, T) == \A j \in 1..Len(fs) : j \in T <=> Before(p, j) \in S
LEMMA SizesRemoved ==
  ASSUME NEW es \in EntrySeq, NEW p \in 1..Len(es), NEW fs \in EntrySeq,
         SizesWithout(es, p, fs),
         NEW S \in SUBSET (1..Len(es)), NEW T \in SUBSET (1..Len(fs)),
         Shifted(fs, p, S, T), p \in S
  PROVE  SizesIn(es, S) = es[p].size + SizesIn(fs, T)
<1> USE DEF SizesWithout, Shifted
<1>1. Len(es) \in Nat /\ Len(fs) \in Nat
  BY EntryParts
<1>2. PICK b : b = [j \in T |-> Before(p, j)]
  OBVIOUS
<1>3. /\ b \in [T -> S \ {p}] /\ \A j \in T : b[j] = Before(p, j)
  <2>1. \A j \in T : Before(p, j) \in S \ {p}
    BY <1>1 DEF Before
  <2> QED BY <1>2, <2>1
<1>4. \A i, j \in T : b[i] = b[j] => i = j
  BY <1>1, <1>3 DEF Before
<1>5. ASSUME NEW i \in S \ {p}
      PROVE  \E j \in T : b[j] = i
  <2>1. CASE i < p
    <3>1. i \in 1..Len(fs) /\ Before(p, i) = i
      BY <1>1, <2>1 DEF Before
    <3> QED BY <1>3, <3>1
  <2>2. CASE ~(i < p)
    <3>1. i - 1 \in 1..Len(fs) /\ Before(p, i - 1) = i
      BY <1>1, <2>2 DEF Before
    <3> QED BY <1>3, <3>1
  <2> QED BY <2>1, <2>2
<1>6. SizesIn(fs, T) = SizesIn(es, S \ {p})
  <2>1. \A j \in T : fs[j].size = es[b[j]].size
    BY <1>3
  <2>2. PICK R \in SUBSET (1..Len(es)) : R = S \ {p}
    OBVIOUS
  <2>3. Pairs(b, T, R) /\ SameSizes(b, T, fs, es)
    BY <1>3, <1>4, <1>5, <2>1, <2>2 DEF Pairs, SameSizes
  <2>4. SizesIn(fs, T) = SizesIn(es, R)
    BY <2>3, SizesMapped
  <2> QED BY <2>2, <2>4
<1>7. SizesIn(es, S) = es[p].size + SizesIn(es, S \ {p})
  BY SizesOfOne
<1> QED BY <1>6, <1>7, Zenon

-----------------------------------------------------------------------------
(* What evicting, inserting and referencing do to the entries               *)

LEMMA KeysDiffer ==
  ASSUME NEW es \in EntrySeq, Sorted(es)
  PROVE  \A i, j \in 1..Len(es) : es[i].key = es[j].key => i = j
<1>1. \A i \in 1..Len(es) : i \in Nat /\ es[i].key \in Nat
  <2>1. \A i \in 1..Len(es) : i \in Nat /\ es[i].key \in Key
    BY EntryParts
  <2> QED BY <2>1, CacheConstants
<1>2. \A i, j \in 1..Len(es) : i # j => i < j \/ j < i
  BY <1>1
<1> QED BY <1>1, <1>2 DEF Sorted

LEMMA Evicted ==
  ASSUME NEW es \in EntrySeq, NEW p \in 1..Len(es), NEW fs, fs = RemoveAt(es, p)
  PROVE  /\ fs \in EntrySeq /\ Len(fs) = Len(es) - 1
         /\ \A j \in 1..Len(fs) :
              fs[j] = es[Before(p, j)] /\ Before(p, j) \in 1..Len(es) /\ Before(p, j) # p
         /\ \A i \in 1..Len(es) : i # p => \E j \in 1..Len(fs) : Before(p, j) = i
<1>1. Len(es) \in Nat
  BY EntryParts
<1>2. /\ fs \in EntrySeq /\ Len(fs) = Len(es) - 1
      /\ \A i \in 1..(Len(es) - 1) : fs[i] = IF i < p THEN es[i] ELSE es[i + 1]
  BY RemoveAtProperties DEF EntrySeq
<1>3. \A j \in 1..Len(fs) :
        fs[j] = es[Before(p, j)] /\ Before(p, j) \in 1..Len(es) /\ Before(p, j) # p
  BY <1>1, <1>2 DEF Before
<1>4. ASSUME NEW i \in 1..Len(es), i # p
      PROVE  \E j \in 1..Len(fs) : Before(p, j) = i
  <2>1. CASE i < p
    <3>1. i \in 1..Len(fs) /\ Before(p, i) = i
      BY <1>1, <1>2, <2>1 DEF Before
    <3> QED BY <3>1
  <2>2. CASE ~(i < p)
    <3>1. i - 1 \in 1..Len(fs) /\ Before(p, i - 1) = i
      BY <1>1, <1>2, <1>4, <2>2 DEF Before
    <3> QED BY <3>1
  <2> QED BY <2>1, <2>2
<1> QED BY <1>2, <1>3, <1>4

Without(es, p, fs) ==
  /\ fs \in EntrySeq /\ Len(fs) = Len(es) - 1
  /\ \A j \in 1..Len(fs) :
       fs[j] = es[Before(p, j)] /\ Before(p, j) \in 1..Len(es) /\ Before(p, j) # p
  /\ \A i \in 1..Len(es) : i # p => \E j \in 1..Len(fs) : Before(p, j) = i

LEMMA EvictedIs ==
  ASSUME NEW es \in EntrySeq, NEW p \in 1..Len(es)
  PROVE  Without(es, p, RemoveAt(es, p))
<1>1. PICK fs : fs = RemoveAt(es, p)
  OBVIOUS
<1>2. Without(es, p, fs)
  BY <1>1, Evicted DEF Without
<1> QED BY <1>1, <1>2, Zenon

LEMMA EvictedKeeps ==
  ASSUME NEW es \in EntrySeq, NEW p \in 1..Len(es), NEW fs, fs = RemoveAt(es, p),
         Sorted(es), HandlesDiffer(es)
  PROVE  /\ Sorted(fs) /\ HandlesDiffer(fs)
         /\ KeysIn(fs) = KeysIn(es) \ {es[p].key}
         /\ HandlesIn(fs) = HandlesIn(es) \ {es[p].handle}
<1>1. /\ Len(es) \in Nat /\ fs \in EntrySeq /\ Len(fs) = Len(es) - 1
      /\ \A j \in 1..Len(fs) :
           fs[j] = es[Before(p, j)] /\ Before(p, j) \in 1..Len(es) /\ Before(p, j) # p
      /\ \A i \in 1..Len(es) : i # p => \E j \in 1..Len(fs) : Before(p, j) = i
  BY EntryParts, Evicted
<1>2. \A i, j \in 1..Len(fs) :
        /\ i < j => Before(p, i) < Before(p, j)
        /\ Before(p, i) = Before(p, j) => i = j
  BY <1>1 DEF Before
<1>3. Sorted(fs)
  <2> SUFFICES ASSUME NEW i \in 1..Len(fs), NEW j \in 1..Len(fs), i < j
               PROVE  fs[i].key < fs[j].key
    BY DEF Sorted
  <2>1. /\ Before(p, i) \in 1..Len(es) /\ fs[i] = es[Before(p, i)]
        /\ Before(p, j) \in 1..Len(es) /\ fs[j] = es[Before(p, j)]
    BY <1>1, Zenon
  <2>2. Before(p, i) < Before(p, j)
    BY <1>2, Zenon
  <2> QED BY <2>1, <2>2, Zenon DEF Sorted
<1>4. HandlesDiffer(fs)
  <2> SUFFICES ASSUME NEW i \in 1..Len(fs), NEW j \in 1..Len(fs), fs[i].handle = fs[j].handle
               PROVE  i = j
    BY DEF HandlesDiffer
  <2>1. /\ Before(p, i) \in 1..Len(es) /\ fs[i] = es[Before(p, i)]
        /\ Before(p, j) \in 1..Len(es) /\ fs[j] = es[Before(p, j)]
    BY <1>1, Zenon
  <2>2. Before(p, i) = Before(p, j)
    BY <2>1, Zenon DEF HandlesDiffer
  <2> QED BY <1>2, <2>2
<1>5. \A i \in 1..Len(es) : es[i].key = es[p].key => i = p
  BY KeysDiffer
<1>6. /\ \A j \in 1..Len(fs) : \E i \in 1..Len(es) : fs[j] = es[i] /\ i # p
      /\ \A i \in 1..Len(es) : i # p => \E j \in 1..Len(fs) : fs[j] = es[i]
  BY <1>1
<1>7. KeysIn(fs) = KeysIn(es) \ {es[p].key}
  <2>1. ASSUME NEW k \in KeysIn(fs)
        PROVE  k \in KeysIn(es) \ {es[p].key}
    <3>1. PICK j \in 1..Len(fs) : k = fs[j].key
      BY DEF KeysIn
    <3>2. PICK i \in 1..Len(es) : fs[j] = es[i] /\ i # p
      BY <1>6
    <3> QED BY <1>5, <3>1, <3>2 DEF KeysIn
  <2>2. ASSUME NEW k \in KeysIn(es), k # es[p].key
        PROVE  k \in KeysIn(fs)
    <3>1. PICK i \in 1..Len(es) : k = es[i].key /\ i # p
      BY <2>2 DEF KeysIn
    <3>2. PICK j \in 1..Len(fs) : fs[j] = es[i]
      BY <1>6, <3>1
    <3> QED BY <3>1, <3>2 DEF KeysIn
  <2> QED BY <2>1, <2>2
<1>8. HandlesIn(fs) = HandlesIn(es) \ {es[p].handle}
  <2>1. ASSUME NEW h \in HandlesIn(fs)
        PROVE  h \in HandlesIn(es) \ {es[p].handle}
    <3>1. PICK j \in 1..Len(fs) : h = fs[j].handle
      BY DEF HandlesIn
    <3>2. PICK i \in 1..Len(es) : fs[j] = es[i] /\ i # p
      BY <1>6
    <3>3. es[i].handle # es[p].handle
      BY <3>2 DEF HandlesDiffer
    <3> QED BY <3>1, <3>2, <3>3 DEF HandlesIn
  <2>2. ASSUME NEW h \in HandlesIn(es), h # es[p].handle
        PROVE  h \in HandlesIn(fs)
    <3>1. PICK i \in 1..Len(es) : h = es[i].handle /\ i # p
      BY <2>2 DEF HandlesIn
    <3>2. PICK j \in 1..Len(fs) : fs[j] = es[i]
      BY <1>6, <3>1
    <3> QED BY <3>1, <3>2 DEF HandlesIn
  <2> QED BY <2>1, <2>2
<1> QED BY <1>3, <1>4, <1>7, <1>8

\* Where a new key belongs.
Belongs(es, k, p) ==
  /\ p \in 0..Len(es)
  /\ \A i \in 1..Len(es) : IF i <= p THEN es[i].key < k ELSE k < es[i].key

LEMMA Inserted ==
  ASSUME NEW es \in EntrySeq, NEW e \in Entry, NEW p, Belongs(es, e.key, p),
         NEW fs, fs = InsertAt(es, p + 1, e),
         Sorted(es), HandlesDiffer(es), e.handle \notin HandlesIn(es)
  PROVE  /\ fs \in EntrySeq /\ p + 1 \in 1..Len(fs) /\ fs[p + 1] = e
         /\ \A j \in 1..Len(es) :
              fs[Before(p + 1, j)] = es[j] /\ Before(p + 1, j) \in 1..Len(fs)
         /\ \A i \in 1..Len(fs) : i = p + 1 \/ \E j \in 1..Len(es) : i = Before(p + 1, j)
         /\ Sorted(fs) /\ HandlesDiffer(fs)
         /\ HandlesIn(fs) = HandlesIn(es) \cup {e.handle}
         /\ SizesIn(fs, 1..Len(fs)) = e.size + SizesIn(es, 1..Len(es))
<1>1. Len(es) \in Nat /\ p \in 0..Len(es)
  BY EntryParts DEF Belongs
<1>2. /\ fs \in EntrySeq /\ Len(fs) = Len(es) + 1
      /\ \A i \in 1..(Len(es) + 1) :
           fs[i] = IF i <= p THEN es[i] ELSE IF i = p + 1 THEN e ELSE es[i - 1]
  <2>1. es \in Seq(Entry) /\ p \in 0..Len(es)
    BY <1>1 DEF EntrySeq
  <2>2. fs \in EntrySeq /\ Lengthened(es, p, e, fs)
    BY <2>1, InsertIs, Zenon DEF EntrySeq
  <2> QED BY <2>2, Zenon DEF Lengthened
<1>3. p + 1 \in 1..Len(fs) /\ fs[p + 1] = e
  BY <1>1, <1>2
<1>4. \A j \in 1..Len(es) : /\ fs[Before(p + 1, j)] = es[j]
                           /\ Before(p + 1, j) \in 1..Len(fs) /\ Before(p + 1, j) # p + 1
  BY <1>1, <1>2 DEF Before
<1>5. ASSUME NEW i \in 1..Len(fs), i # p + 1
      PROVE  \E j \in 1..Len(es) : i = Before(p + 1, j)
  <2>1. CASE i <= p
    <3>1. i \in 1..Len(es) /\ Before(p + 1, i) = i
      BY <1>1, <2>1 DEF Before
    <3> QED BY <3>1
  <2>2. CASE ~(i <= p)
    <3>1. i - 1 \in 1..Len(es) /\ Before(p + 1, i - 1) = i
      BY <1>1, <1>2, <1>5, <2>2 DEF Before
    <3> QED BY <3>1
  <2> QED BY <2>1, <2>2
<1>6. Sorted(fs)
  <2>1. SUFFICES ASSUME NEW i \in 1..Len(fs), NEW j \in 1..Len(fs), i < j
                 PROVE  fs[i].key < fs[j].key
    BY DEF Sorted
  <2>2. CASE i <= p /\ j <= p
    BY <1>1, <1>2, <2>1, <2>2 DEF Sorted
  <2>3. CASE i <= p /\ j = p + 1
    BY <1>1, <1>2, <2>1, <2>3 DEF Belongs
  <2>4. CASE i <= p /\ j > p + 1
    <3>1. i \in 1..Len(es) /\ j - 1 \in 1..Len(es) /\ i < j - 1
      BY <1>1, <1>2, <2>4
    <3>2. fs[i] = es[i] /\ fs[j] = es[j - 1]
      BY <1>1, <1>2, <2>4
    <3> QED BY <3>1, <3>2 DEF Sorted
  <2>5. CASE i = p + 1
    <3>1. j - 1 \in 1..Len(es) /\ ~(j - 1 <= p) /\ ~(j <= p) /\ j # p + 1
      BY <1>1, <1>2, <2>1, <2>5
    <3> QED BY <1>2, <1>3, <2>5, <3>1 DEF Belongs
  <2>6. CASE i > p + 1
    <3>1. i - 1 \in 1..Len(es) /\ j - 1 \in 1..Len(es) /\ i - 1 < j - 1
      BY <1>1, <1>2, <2>1, <2>6
    <3>2. fs[i] = es[i - 1] /\ fs[j] = es[j - 1]
      BY <1>1, <1>2, <2>1, <2>6
    <3> QED BY <3>1, <3>2 DEF Sorted
  <2>7. i \in Nat /\ j \in Nat /\ p \in Nat
    BY <1>1, <1>2
  <2> QED BY <2>2, <2>3, <2>4, <2>5, <2>6, <2>7
<1>7. HandlesDiffer(fs)
  <2>1. SUFFICES ASSUME NEW i \in 1..Len(fs), NEW j \in 1..Len(fs), fs[i].handle = fs[j].handle
                 PROVE  i = j
    BY DEF HandlesDiffer
  <2>2. \A k \in 1..Len(es) : es[k].handle # e.handle
    BY DEF HandlesIn
  <2>3. CASE i = p + 1 \/ j = p + 1
    <3>1. \A k \in 1..Len(fs) : k # p + 1 => fs[k].handle # e.handle
      <4> SUFFICES ASSUME NEW k \in 1..Len(fs), k # p + 1
                   PROVE  fs[k].handle # e.handle
        OBVIOUS
      <4>1. PICK m \in 1..Len(es) : k = Before(p + 1, m)
        BY <1>5
      <4>2. fs[k] = es[m]
        BY <1>4, <4>1, Zenon
      <4> QED BY <2>2, <4>2
    <3>2. fs[p + 1].handle = e.handle
      BY <1>3
    <3> QED BY <2>1, <2>3, <3>1, <3>2, Zenon
  <2>4. CASE i # p + 1 /\ j # p + 1
    <3>1. PICK k \in 1..Len(es), l \in 1..Len(es) : i = Before(p + 1, k) /\ j = Before(p + 1, l)
      BY <1>5, <2>4
    <3>2. k = l
      BY <1>4, <2>1, <3>1 DEF HandlesDiffer
    <3> QED BY <3>1, <3>2
  <2> QED BY <2>3, <2>4
<1>8. HandlesIn(fs) = HandlesIn(es) \cup {e.handle}
  <2>1. ASSUME NEW h \in HandlesIn(fs)
        PROVE  h \in HandlesIn(es) \cup {e.handle}
    <3>1. PICK i \in 1..Len(fs) : h = fs[i].handle
      BY DEF HandlesIn
    <3>2. CASE i = p + 1
      BY <1>3, <3>1, <3>2
    <3>3. CASE i # p + 1
      <4>1. PICK j \in 1..Len(es) : i = Before(p + 1, j)
        BY <1>5, <3>3
      <4>2. fs[i] = es[j]
        BY <1>4, <4>1, Zenon
      <4> QED BY <3>1, <4>2 DEF HandlesIn
    <3> QED BY <3>2, <3>3
  <2>2. ASSUME NEW h \in HandlesIn(es)
        PROVE  h \in HandlesIn(fs)
    BY <1>4 DEF HandlesIn
  <2>3. e.handle \in HandlesIn(fs)
    BY <1>3 DEF HandlesIn
  <2> QED BY <2>1, <2>2, <2>3
<1>9. SizesIn(fs, 1..Len(fs)) = e.size + SizesIn(es, 1..Len(es))
  <2>1. Len(es) = Len(fs) - 1
    BY <1>1, <1>2
  <2>2. SizesWithout(fs, p + 1, es)
    BY <1>4, <2>1 DEF SizesWithout
  <2>3. Shifted(es, p + 1, 1..Len(fs), 1..Len(es))
    BY <1>4 DEF Shifted
  <2>4. SizesIn(fs, 1..Len(fs)) = fs[p + 1].size + SizesIn(es, 1..Len(es))
    BY <1>2, <1>3, <2>1, <2>2, <2>3, SizesRemoved
  <2> QED BY <1>3, <2>4
<1> QED BY <1>2, <1>3, <1>4, <1>5, <1>6, <1>7, <1>8, <1>9

\* cacheFindIndexForKey: the entries with smaller keys come first.
LEMMA PointBelongs ==
  ASSUME NEW es \in EntrySeq, Sorted(es), NEW k \in Key \ KeysIn(es)
  PROVE  Belongs(es, k, Cardinality({i \in 1..Len(es) : es[i].key < k}))
<1> DEFINE Smaller == {i \in 1..Len(es) : es[i].key < k}
           Greater == {i \in 1..Len(es) : k < es[i].key}
<1>1. Len(es) \in Nat /\ k \in Nat
  BY EntryParts, CacheConstants
<1>2. \A i \in 1..Len(es) : es[i].key \in Nat /\ (es[i].key < k \/ k < es[i].key)
  <2>1. \A i \in 1..Len(es) : es[i].key \in Nat /\ es[i].key # k
    BY EntryParts, CacheConstants DEF KeysIn
  <2> QED BY <1>1, <2>1
<1>3. CASE Greater = {}
  <2>1. \A i \in 1..Len(es) : es[i].key < k
    BY <1>2, <1>3
  <2>2. Smaller = 1..Len(es)
    BY <2>1
  <2>3. Cardinality(1..Len(es)) = Len(es)
    BY <1>1, CountTo
  <2>4. Cardinality(Smaller) = Len(es)
    BY <2>2, <2>3, Zenon
  <2> HIDE DEF Smaller
  <2>5. Belongs(es, k, Len(es))
    BY <1>1, <2>1 DEF Belongs
  <2> QED BY <2>4, <2>5 DEF Smaller
<1>4. CASE Greater # {}
  <2>1. PICK m \in Greater : \A i \in Greater : m <= i
    <3>1. Greater \in SUBSET Nat
      BY <1>1
    <3> HIDE DEF Greater
    <3> QED BY <1>4, <3>1, Least
  <2>2. ASSUME NEW i \in 1..Len(es)
        PROVE  IF i <= m - 1 THEN es[i].key < k ELSE k < es[i].key
    <3>1. CASE i <= m - 1
      <4>1. i \notin Greater
        BY <1>1, <2>1, <3>1
      <4> QED BY <1>2, <3>1, <4>1
    <3>2. CASE ~(i <= m - 1)
      <4>1. i = m \/ m < i
        BY <3>2
      <4>2. m < i => es[m].key < es[i].key
        BY DEF Sorted
      <4>3. es[m].key \in Nat /\ es[i].key \in Nat /\ k < es[m].key
        BY <1>2
      <4> QED BY <1>1, <3>2, <4>1, <4>2, <4>3
    <3> QED BY <3>1, <3>2
  <2>3. m - 1 \in 0..Len(es) /\ m - 1 \in Nat
    BY <1>1
  <2>4. Smaller = 1..(m - 1)
    <3>1. ASSUME NEW i \in Smaller
          PROVE  i \in 1..(m - 1)
      <4>1. ~(k < es[i].key)
        BY <1>1, <1>2
      <4> QED BY <2>2, <2>3, <4>1
    <3>2. ASSUME NEW i \in 1..(m - 1)
          PROVE  i \in Smaller
      <4>1. i \in 1..Len(es) /\ i <= m - 1
        BY <1>1, <2>3
      <4> QED BY <2>2, <4>1
    <3> QED BY <3>1, <3>2
  <2>5. Cardinality(1..(m - 1)) = m - 1
    BY <2>3, FS_Interval
  <2>6. Cardinality(Smaller) = m - 1
    BY <2>4, <2>5, Zenon
  <2>7. Belongs(es, k, m - 1)
    BY <2>2, <2>3 DEF Belongs
  <2> QED BY <2>6, <2>7, Zenon
<1> QED BY <1>3, <1>4

\* The same entries with other counts of references and hits.
Alike(es, fs) ==
  /\ Len(fs) = Len(es)
  /\ \A i \in 1..Len(es) : fs[i].key = es[i].key /\ fs[i].size = es[i].size
                          /\ fs[i].handle = es[i].handle
LEMMA AlikeKeeps ==
  ASSUME NEW es \in EntrySeq, NEW fs \in EntrySeq, Alike(es, fs)
  PROVE  /\ Sorted(es) => Sorted(fs)
         /\ HandlesDiffer(es) => HandlesDiffer(fs)
         /\ KeysIn(fs) = KeysIn(es) /\ HandlesIn(fs) = HandlesIn(es)
         /\ SizesIn(fs, 1..Len(fs)) = SizesIn(es, 1..Len(es))
<1>1. Sorted(es) => Sorted(fs)
  BY DEF Alike, Sorted
<1>2. HandlesDiffer(es) => HandlesDiffer(fs)
  BY DEF Alike, HandlesDiffer
<1>3. KeysIn(fs) = KeysIn(es) /\ HandlesIn(fs) = HandlesIn(es)
  BY DEF Alike, KeysIn, HandlesIn
<1>4. SizesIn(fs, 1..Len(fs)) = SizesIn(es, 1..Len(es))
  <2>1. Len(es) = Len(fs) /\ \A i \in 1..Len(es) : es[i].size = fs[i].size
    BY DEF Alike
  <2>2. SizesIn(es, 1..Len(es)) = SizesIn(fs, 1..Len(es))
    BY <2>1, SizesAlike
  <2> QED BY <2>1, <2>2
<1> QED BY <1>1, <1>2, <1>3, <1>4

\* No two entries have the same key.
LEMMA FewEntries ==
  ASSUME NEW es \in EntrySeq, Sorted(es)
  PROVE  Len(es) < HitLimit
<1>1. PICK f : f = [i \in 1..Len(es) |-> es[i].key]
  OBVIOUS
<1>2. f \in Injection(1..Len(es), Key)
  <2>1. f \in [1..Len(es) -> Key]
    BY <1>1, EntryParts
  <2>2. \A i, j \in 1..Len(es) : f[i] = f[j] => i = j
    BY <1>1, KeysDiffer
  <2> QED BY <2>1, <2>2 DEF Injection, IsInjective
<1>3. Cardinality(1..Len(es)) <= Cardinality(Key)
  BY <1>2, CacheConstants, FS_Injection
<1>4. Cardinality(1..Len(es)) = Len(es) /\ Len(es) \in Nat
  BY EntryParts, CountTo
<1>5. Cardinality(Key) \in Nat
  BY CacheConstants, FS_CardinalityType
<1> QED BY <1>3, <1>4, <1>5, CacheConstants

LEMMA ReferencedIs ==
  ASSUME NEW es \in EntrySeq, NEW i \in 1..Len(es), es[i].refs < MaxRefs,
         hits \in 0..(HitLimit - 1), Sorted(es)
  PROVE  /\ Referenced(es, i) \in EntrySeq /\ Alike(es, Referenced(es, i))
         /\ \A j \in 1..Len(es) :
              Referenced(es, i)[j].refs = IF j = i THEN es[i].refs + 1 ELSE es[j].refs
         /\ HitsAfter(es) \in 0..(HitLimit - 1)
<1> DEFINE ts == [es EXCEPT ![i].refs = @ + 1, ![i].mru = hits + 1]
<1>0. Len(es) \in Nat /\ Len(es) < HitLimit /\ HitLimit \in Nat /\ MaxRefs \in Nat
  BY EntryParts, FewEntries, CacheConstants
<1>1. HitsAfter(es) \in 0..(HitLimit - 1)
  BY <1>0 DEF HitsAfter
<1>2. /\ ts \in EntrySeq /\ Alike(es, ts)
      /\ \A j \in 1..Len(es) : ts[j].refs = IF j = i THEN es[i].refs + 1 ELSE es[j].refs
  <2>1. es \in [1..Len(es) -> Entry] /\ es \in Seq(Entry)
    BY LenProperties DEF EntrySeq
  <2>2. ts = [es EXCEPT ![i] = [es[i] EXCEPT !.refs = @ + 1, !.mru = hits + 1]]
    BY <2>1
  <2>3. [es[i] EXCEPT !.refs = @ + 1, !.mru = hits + 1] \in Entry
    <3>1. es[i].refs + 1 \in 0..MaxRefs /\ hits + 1 \in 0..HitLimit
      BY <1>0, EntryParts
    <3>2. es[i] \in Entry
      BY EntryParts
    <3> QED BY <3>1, <3>2 DEF Entry
  <2>4. ts \in Seq(Entry) /\ Len(ts) = Len(es)
    BY <2>1, <2>2, <2>3, ExceptSeq
  <2>5. ASSUME NEW j \in 1..Len(es)
        PROVE  /\ ts[j].key = es[j].key /\ ts[j].size = es[j].size /\ ts[j].handle = es[j].handle
               /\ ts[j].refs = IF j = i THEN es[i].refs + 1 ELSE es[j].refs
    <3>1. es[j] \in Entry /\ es[i] \in Entry
      BY EntryParts
    <3> QED BY <2>1, <2>2, <3>1 DEF Entry
  <2> HIDE DEF ts
  <2> QED BY <2>4, <2>5 DEF EntrySeq, Alike
<1> HIDE DEF ts
<1>3. /\ Renumbered(ts) \in EntrySeq /\ Alike(ts, Renumbered(ts))
      /\ \A j \in 1..Len(ts) : Renumbered(ts)[j].refs = ts[j].refs
  <2> DEFINE Later(j) == {m \in 1..Len(ts) : ts[m].mru > ts[j].mru}
             rs == [j \in 1..Len(ts) |-> [ts[j] EXCEPT !.mru = Cardinality(Later(j))]]
  <2>1. rs = Renumbered(ts)
    BY DEF Renumbered
  <2>2. Len(ts) = Len(es)
    BY <1>2 DEF Alike
  <2>3. \A j \in 1..Len(ts) : Cardinality(Later(j)) \in 0..HitLimit
    <3> SUFFICES ASSUME NEW j \in 1..Len(ts)
                 PROVE  Cardinality(Later(j)) \in 0..HitLimit
      OBVIOUS
    <3>1. IsFiniteSet(1..Len(ts)) /\ Cardinality(1..Len(ts)) = Len(ts)
      <4>1. Len(ts) \in Nat
        BY <1>0, <2>2
      <4> QED BY <4>1, CountTo
    <3>2. Later(j) \in SUBSET (1..Len(ts))
      OBVIOUS
    <3> HIDE DEF Later
    <3>3. Cardinality(Later(j)) \in Nat /\ Cardinality(Later(j)) <= Len(ts)
      BY <3>1, <3>2, FS_Subset, FS_CardinalityType
    <3> QED BY <1>0, <2>2, <3>3
  <2> HIDE DEF Later
  <2>4. ASSUME NEW j \in 1..Len(ts)
        PROVE  /\ rs[j] \in Entry
               /\ rs[j].key = ts[j].key /\ rs[j].size = ts[j].size /\ rs[j].handle = ts[j].handle
               /\ rs[j].refs = ts[j].refs
    <3>1. ts[j] \in Entry
      BY <1>2, EntryParts
    <3>2. rs[j] = [ts[j] EXCEPT !.mru = Cardinality(Later(j))]
      OBVIOUS
    <3> HIDE DEF rs
    <3> QED BY <2>3, <3>1, <3>2 DEF Entry
  <2>5. rs \in Seq(Entry) /\ Len(rs) = Len(ts)
    <3>1. rs \in [1..Len(ts) -> Entry] /\ Len(ts) \in Nat
      BY <1>0, <2>2, <2>4
    <3> HIDE DEF rs
    <3> QED BY <3>1, SeqDef, LenProperties
  <2> HIDE DEF rs
  <2> QED BY <2>1, <2>4, <2>5 DEF EntrySeq, Alike
<1>4. Referenced(es, i) = ts \/ Referenced(es, i) = Renumbered(ts)
  BY DEF Referenced, ts
<1>5. /\ Alike(es, Renumbered(ts))
      /\ \A j \in 1..Len(es) :
           Renumbered(ts)[j].refs = IF j = i THEN es[i].refs + 1 ELSE es[j].refs
  BY <1>2, <1>3 DEF Alike
<1> QED BY <1>1, <1>2, <1>3, <1>4, <1>5

-----------------------------------------------------------------------------
(* Every step keeps the invariant: those of a call that leave the entries   *)
(* and the heap alone                                                       *)

\* A call that goes to another phase is otherwise what it was.
LEMMA GotoIs ==
  ASSUME call \in Calls, NEW p \in Phases, Goto(p)
  PROVE  /\ call' \in Calls /\ call'.phase = p /\ call'.key = call.key
         /\ call'.index = call.index /\ call'.want = call.want /\ call'.tries = call.tries
         /\ call'.handle = call.handle
BY DEF Calls, Goto

LEMMA IdleIs ==
  Idle \in Calls /\ Idle.phase = "idle"
BY DEF Idle, Calls, Phases

\* What PinnedStay says of a step.
Stays ==
  \A i \in Held : \E j \in 1..Len(entries') :
    /\ entries'[j].key = entries[i].key /\ entries'[j].handle = entries[i].handle
    /\ entries'[j].refs > 0 => place'[entries[i].handle] = place[entries[i].handle]

Aside == UNCHANGED <<entries, size, hits, mode, contents, place>>
LEMMA AsideKeeps ==
  ASSUME IInv, Aside, marked' \in SUBSET Key, CallSound', RoomKept', Enough',
         call.phase \notin Owning, call'.phase \notin Owning
  PROVE  IInv' /\ Stays
<1>1. Books' /\ Counts' /\ Heaps'
  BY DEF IInv, Aside, Books, Counts, Heaps
<1>2. Blocks'
  BY DEF IInv, Aside, Blocks, At, Owning
<1>3. Stays
  BY DEF Stays, Aside, Held, Indexes
<1> QED BY <1>1, <1>2, <1>3 DEF IInv

LEMMA LockMissKeeps ==
  ASSUME IInv, NEW k \in Key, LockMiss(k)
  PROVE  IInv' /\ Stays
<1>1. Aside /\ marked' \in SUBSET Key
  BY DEF LockMiss, hvars, Aside, IInv, Counts
<1>2. /\ call'.phase = "room" /\ call'.key = k /\ call'.index = InsertionPoint(k)
      /\ call'.want = SizeOf[k] /\ call'.tries = 0 /\ call'.handle = Nowhere /\ At("idle")
      /\ call' = [phase |-> "room", key |-> k, index |-> InsertionPoint(k),
                  want |-> SizeOf[k], tries |-> 0, handle |-> Nowhere]
  BY DEF LockMiss
<1>3. k \in Key \ KeysIn(entries')
  BY DEF LockMiss, Keys, KeysIn, Indexes
<1>4. InsertionPoint(k) \in Nat /\ InsertionPoint(k) > 0
  <2> DEFINE s == {i \in 1..Len(entries) : entries[i].key < k}
  <2>1. entries \in EntrySeq
    BY DEF IInv, Books
  <2>2. IsFiniteSet(s)
    BY <2>1, EntryParts, FS_Subset
  <2>3. Cardinality(s) \in Nat
    BY <2>2, FS_CardinalityType
  <2>4. InsertionPoint(k) = Cardinality(s) + 1
    BY DEF InsertionPoint, Indexes
  <2> HIDE DEF s
  <2> QED BY <2>3, <2>4
<1>5. SizeOf[k] \in Nat
  BY CacheConstants
<1>6. CallSound'
  <2>1. call' \in Calls
    BY <1>2, <1>4, <1>5 DEF Calls, Phases, Fetching
  <2> QED BY <1>2, <1>3, <1>4, <1>5, <2>1 DEF CallSound, At
<1>7. RoomKept'
  BY <1>2 DEF RoomKept, MadeRoom
<1>8. Enough'
  BY <1>2 DEF Enough, At
<1>9. call.phase \notin Owning /\ call'.phase \notin Owning
  BY <1>2 DEF At, Owning
<1> QED BY <1>1, <1>6, <1>7, <1>8, <1>9, AsideKeeps

LEMMA CacheFlushKeeps ==
  ASSUME IInv, CacheFlush
  PROVE  IInv' /\ Stays
<1>1. Aside
  BY DEF CacheFlush, hvars, Aside
<1>2. marked' \in SUBSET Key
  <2>1. \A i \in 1..Len(entries) : entries[i].key \in Key
    BY EntryParts DEF IInv, Books
  <2> QED BY <2>1 DEF CacheFlush, Free, Indexes
<1>3. call \in Calls
  BY DEF IInv, CallSound
<1>4. CASE At("idle")
  <2>1. call' \in Calls /\ call'.phase = "flushed"
    BY <1>3, <1>4, GotoIs DEF CacheFlush, Phases
  <2>2. CallSound' /\ RoomKept' /\ Enough'
    BY <2>1 DEF CallSound, RoomKept, MadeRoom, Enough, At, Fetching, Owning
  <2> QED BY <1>1, <1>2, <1>4, <2>1, <2>2, AsideKeeps DEF At, Owning
<1>5. CASE call.phase = "flush"
  <2>1. Goto("flushing")
    BY <1>5 DEF CacheFlush, At
  <2>2. call' \in Calls /\ call'.phase = "flushing" /\ call'.key = call.key
        /\ call'.index = call.index /\ call'.want = call.want
    BY <1>3, <2>1, GotoIs DEF Phases, Fetching
  <2>3. CallSound'
    BY <1>1, <1>5, <2>2 DEF IInv, CallSound, At, Fetching, Owning, Aside
  <2>4. RoomKept' /\ Enough'
    BY <1>1, <1>5, <2>2 DEF IInv, RoomKept, MadeRoom, Enough, At, Aside
  <2> QED BY <1>1, <1>2, <1>5, <2>2, <2>3, <2>4, AsideKeeps DEF Owning
<1> QED BY <1>4, <1>5 DEF CacheFlush, At

LEMMA NotAllocatedKeeps ==
  ASSUME IInv, NotAllocated
  PROVE  IInv' /\ Stays
<1>1. Aside /\ marked' \in SUBSET Key
  BY DEF NotAllocated, hvars, Aside, IInv, Counts
<1>2. call \in Calls
  BY DEF IInv, CallSound
<1>3. CASE At("allocate")
  <2>1. call' = [call EXCEPT !.phase = "room", !.tries = @ + 1,
                             !.want = @ + SizeOf[call.key] \div 4]
    BY <1>3 DEF NotAllocated, TryAgain
  <2>2. call.key \in Key \ KeysIn(entries) /\ call.index > 0 /\ call.want >= SizeOf[call.key]
    BY <1>3 DEF IInv, CallSound, At, Fetching
  <2>3. SizeOf[call.key] \in Nat /\ SizeOf[call.key] \div 4 \in Nat
    <3>1. SizeOf[call.key] \in Nat
      BY <2>2, CacheConstants
    <3> QED BY <3>1
  <2>4. call.want + SizeOf[call.key] \div 4 \in Nat /\ call.want \in Nat /\ call.tries + 1 \in Nat
    BY <1>2, <2>3 DEF Calls
  <2>5. /\ call' \in Calls /\ call'.phase = "room" /\ call'.key = call.key
        /\ call'.index = call.index /\ call'.want = call.want + SizeOf[call.key] \div 4
    BY <1>2, <2>1, <2>4 DEF Calls, Phases, Fetching
  <2>6. CallSound'
    <3>1. call.want + SizeOf[call.key] \div 4 >= SizeOf[call.key]
      BY <2>2, <2>3, <2>4
    <3> QED BY <1>1, <2>2, <2>5, <3>1 DEF CallSound, At, Aside
  <2>7. RoomKept' /\ Enough'
    BY <1>1, <1>3, <2>5 DEF IInv, RoomKept, MadeRoom, Enough, At, Aside
  <2> QED BY <1>1, <1>3, <2>5, <2>6, <2>7, AsideKeeps DEF At, Owning
<1>4. CASE ~At("allocate")
  <2>1. call' = Idle /\ call.phase = "last"
    BY <1>4 DEF NotAllocated, At
  <2>2. call' \in Calls /\ call'.phase = "idle"
    BY <2>1, IdleIs
  <2>3. CallSound' /\ RoomKept' /\ Enough'
    BY <2>2 DEF CallSound, RoomKept, MadeRoom, Enough, At, Fetching, Owning
  <2> QED BY <1>1, <2>1, <2>2, <2>3, AsideKeeps DEF Owning
<1> QED BY <1>3, <1>4

LEMMA SizeNat ==
  ASSUME IInv
  PROVE  /\ size \in Nat /\ size <= MaxSize /\ MaxSize \in Nat /\ entries \in EntrySeq
         /\ call \in Calls /\ call.want \in Nat
<1>1. entries \in EntrySeq /\ size = SizesIn(entries, 1..Len(entries)) /\ size <= MaxSize
  BY DEF IInv, Books
<1>2. SizesIn(entries, 1..Len(entries)) \in Nat
  BY <1>1, SizesParted
<1>3. call \in Calls /\ call.want \in Nat
  BY DEF IInv, CallSound, Calls
<1> QED BY <1>1, <1>2, <1>3, CacheConstants

LEMMA HasRoomKeeps ==
  ASSUME IInv, Aside, marked' \in SUBSET Key, call.phase \in {"room", "sweep"},
         Fits(call.want), HasRoom
  PROVE  IInv' /\ Stays
<1>1. PICK p \in {"allocate", "flush"} : Goto(p)
  BY DEF HasRoom
<1>2. p \in Phases /\ p \in Fetching
  BY DEF Phases, Fetching
<1>3. /\ call' \in Calls /\ call'.phase = p /\ call'.key = call.key
      /\ call'.index = call.index /\ call'.want = call.want
  BY <1>1, <1>2, SizeNat, GotoIs
<1>4. call.key \in Key \ KeysIn(entries) /\ call.index > 0 /\ call.want >= SizeOf[call.key]
  BY DEF IInv, CallSound, Fetching
<1>5. CallSound'
  BY <1>2, <1>3, <1>4 DEF CallSound, At, Aside
<1>6. size + SizeOf[call.key] <= MaxSize
  <2>1. SizeOf[call.key] \in Nat
    BY <1>4, CacheConstants
  <2> QED BY <1>4, <2>1, SizeNat DEF Fits
<1>7. RoomKept'
  BY <1>3, <1>6 DEF RoomKept, Aside
<1>8. Enough'
  BY <1>3 DEF Enough, At
<1> QED BY <1>3, <1>5, <1>7, <1>8, AsideKeeps DEF Owning

LEMMA NoRoomKeeps ==
  ASSUME IInv, Aside, marked' \in SUBSET Key, call.phase \in {"room", "sweep"}, NoRoom
  PROVE  IInv' /\ Stays
<1>1. CASE call' = Idle
  <2>1. call' \in Calls /\ call'.phase = "idle"
    BY <1>1, IdleIs
  <2>2. CallSound' /\ RoomKept' /\ Enough'
    BY <2>1 DEF CallSound, RoomKept, MadeRoom, Enough, At, Fetching, Owning
  <2> QED BY <2>1, <2>2, AsideKeeps DEF Owning
<1>2. CASE call.tries # 0 /\ Goto("flush")
  <2>1. /\ call' \in Calls /\ call'.phase = "flush" /\ call'.key = call.key
        /\ call'.index = call.index /\ call'.want = call.want
    BY <1>2, SizeNat, GotoIs DEF Phases, Fetching
  <2>2. CallSound'
    BY <2>1 DEF IInv, CallSound, At, Aside, Fetching
  <2>3. call.tries > 0
    BY <1>2, SizeNat DEF Calls
  <2>4. RoomKept' /\ Enough'
    BY <2>1, <2>3 DEF IInv, RoomKept, MadeRoom, Enough, At, Aside
  <2> QED BY <2>1, <2>2, <2>4, AsideKeeps DEF Owning
<1> QED BY <1>1, <1>2 DEF NoRoom

\* cacheEnsureSize marks enough, or all there is.
LEMMA VictimsAre ==
  ASSUME IInv, NEW want \in Nat
  PROVE  LET V == Victims(want)
         IN /\ V \in SUBSET Free
            /\ V = Free \/ size - SizesIn(entries, V) + want <= MaxSize
<1>1. CASE Reaching(want) = {}
  BY <1>1 DEF Victims
<1>2. CASE Reaching(want) # {}
  <2> DEFINE last == CHOOSE i \in Reaching(want) : TRUE
             V == Victims(want)
  <2>1. last \in Reaching(want)
    BY <1>2
  <2>2. V = IF entries[last].size >= Threshold(want) THEN {last} ELSE Through(last)
    BY <1>2 DEF Victims
  <2> HIDE DEF last, V
  <2>3. last \in Free /\ SizesOf(Through(last)) >= Threshold(want)
    BY <2>1 DEF Reaching
  <2>4. Free \in SUBSET (1..Len(entries)) /\ Through(last) \in SUBSET Free
    BY DEF Free, Indexes, Through
  <2>5. SizesIn(entries, {last}) = entries[last].size
    BY <2>3, <2>4, SizeNat, SizesOfOne
  <2>6. SizesOf(Through(last)) = SizesIn(entries, Through(last))
    BY DEF SizesOf, SizesIn
  <2>7. V \in SUBSET Free /\ SizesIn(entries, V) >= Threshold(want)
    <3>1. CASE entries[last].size >= Threshold(want)
      <4>1. V = {last}
        BY <2>2, <3>1
      <4> QED BY <2>3, <2>5, <3>1, <4>1
    <3>2. CASE ~(entries[last].size >= Threshold(want))
      <4>1. V = Through(last)
        BY <2>2, <3>2
      <4> QED BY <2>3, <2>4, <2>6, <4>1
    <3> QED BY <3>1, <3>2
  <2>8. SizesIn(entries, V) \in Nat
    <3>1. V \in SUBSET (1..Len(entries)) /\ V \in SUBSET V
      BY <2>4, <2>7
    <3> QED BY <3>1, SizeNat, SizesParted
  <2>9. size \div 5 \in Nat
    BY SizeNat
  <2>10. size - SizesIn(entries, V) + want <= MaxSize
    BY <2>7, <2>8, <2>9, SizeNat DEF Threshold
  <2> QED BY <2>7, <2>10 DEF V
<1> QED BY <1>1, <1>2

LEMMA RoomKeeps ==
  ASSUME IInv, Room
  PROVE  IInv' /\ Stays
<1>1. call.phase = "room" /\ Aside
  BY DEF Room, hvars, Aside, At
<1>2. CASE call.want > MaxSize
  <2>1. NoRoom /\ marked' \in SUBSET Key
    BY <1>2, SizeNat DEF Room, IInv, Counts
  <2> QED BY <1>1, <2>1, NoRoomKeeps
<1>3. CASE call.want <= MaxSize /\ Fits(call.want)
  <2>1. HasRoom /\ marked' \in SUBSET Key
    BY <1>3, SizeNat DEF Room, IInv, Counts
  <2> QED BY <1>1, <1>3, <2>1, HasRoomKeeps
<1>4. CASE call.want <= MaxSize /\ ~Fits(call.want)
  <2> DEFINE V == Victims(call.want)
  <2>1. marked' = {entries[i].key : i \in V} /\ Goto("sweep")
    BY <1>4, SizeNat DEF Room
  <2>2. V \in SUBSET Free /\ (V = Free \/ size - SizesIn(entries, V) + call.want <= MaxSize)
    BY SizeNat, VictimsAre
  <2> HIDE DEF V
  <2>3. \A i \in 1..Len(entries) : entries[i].key \in Key /\ entries[i].refs \in 0..MaxRefs
    BY SizeNat, EntryParts
  <2>4. Free = {i \in 1..Len(entries) : entries[i].refs <= 0}
    BY <2>3, CacheConstants DEF Free, Held, Indexes
  <2>5. marked' \in SUBSET Key
    BY <2>1, <2>2, <2>3, <2>4
  <2>6. Unreferenced(entries, marked') = V
    <3>1. \A i, j \in 1..Len(entries) : entries[i].key = entries[j].key => i = j
      BY SizeNat, KeysDiffer DEF IInv, Books
    <3> QED BY <2>1, <2>2, <2>4, <3>1 DEF Unreferenced
  <2>7. /\ call' \in Calls /\ call'.phase = "sweep" /\ call'.key = call.key
        /\ call'.index = call.index /\ call'.want = call.want /\ call'.tries = call.tries
    BY <2>1, SizeNat, GotoIs DEF Phases, Fetching
  <2>8. CallSound'
    BY <1>1, <2>7 DEF IInv, CallSound, At, Aside, Fetching
  <2>9. RoomKept'
    BY <1>1, <2>7 DEF IInv, RoomKept, MadeRoom, Aside
  <2>10. Enough'
    <3>1. CASE V = Free
      <4>1. \A i \in 1..Len(entries) : entries[i].refs <= 0 => entries[i].key \in marked'
        BY <2>1, <2>4, <3>1
      <4> QED BY <1>1, <4>1 DEF Enough, Aside
    <3>2. CASE size - SizesIn(entries, V) + call.want <= MaxSize
      BY <1>1, <2>6, <2>7, <3>2 DEF Enough, Aside
    <3> QED BY <2>2, <3>1, <3>2
  <2> QED BY <1>1, <2>5, <2>7, <2>8, <2>9, <2>10, AsideKeeps DEF Owning
<1> QED BY <1>2, <1>3, <1>4, SizeNat

LEMMA SweptKeeps ==
  ASSUME IInv, Swept
  PROVE  IInv' /\ Stays
<1>1. Aside /\ marked' \in SUBSET Key
  BY DEF Swept, hvars, Aside, IInv, Counts
<1>2. CASE At("sweep")
  <2>1. IF Fits(call.want) THEN HasRoom ELSE NoRoom
    BY <1>2 DEF Swept, At
  <2>2. call.phase \in {"room", "sweep"}
    BY <1>2 DEF At
  <2> QED BY <1>1, <2>1, <2>2, HasRoomKeeps, NoRoomKeeps
<1>3. CASE At("flushing")
  <2>1. Goto("last") /\ call.phase = "flushing"
    BY <1>3 DEF Swept, At
  <2>2. /\ call' \in Calls /\ call'.phase = "last" /\ call'.key = call.key
        /\ call'.index = call.index /\ call'.want = call.want
    BY <2>1, SizeNat, GotoIs DEF Phases, Fetching
  <2>3. CallSound'
    BY <1>1, <2>1, <2>2 DEF IInv, CallSound, At, Aside, Fetching
  <2>4. RoomKept' /\ Enough'
    BY <1>1, <2>1, <2>2 DEF IInv, RoomKept, MadeRoom, Enough, At, Aside
  <2> QED BY <1>1, <2>1, <2>2, <2>3, <2>4, AsideKeeps DEF Owning
<1>4. CASE At("flushed")
  <2>1. call' = Idle /\ call.phase = "flushed"
    BY <1>4 DEF Swept, At
  <2>2. call' \in Calls /\ call'.phase = "idle"
    BY <2>1, IdleIs
  <2>3. CallSound' /\ RoomKept' /\ Enough'
    BY <2>2 DEF CallSound, RoomKept, MadeRoom, Enough, At, Fetching, Owning
  <2> QED BY <1>1, <2>1, <2>2, <2>3, AsideKeeps DEF Owning
<1> QED BY <1>2, <1>3, <1>4 DEF Swept, At

-----------------------------------------------------------------------------
(* The steps of a call on its own block                                     *)

\* The entries are left alone, and so are their blocks.
OwnBlock == UNCHANGED <<entries, size, hits, marked>>
Theirs ==
  \A h \in HandlesIn(entries) :
    mode'[h] = mode[h] /\ contents'[h] = contents[h] /\ place'[h] = place[h]

LEMMA OwnBlockKeeps ==
  ASSUME IInv, OwnBlock, Theirs, call' \in Calls, call'.phase \in {"idle"} \cup Owning,
         call'.phase \in Owning => /\ call'.key = call.key /\ call'.index = call.index
                                  /\ call'.want = call.want
                                  /\ call.phase \in Fetching \cup Owning,
         RoomKept', Heaps',
         \A h \in Handle : mode'[h] # "none" =>
           h \in HandlesIn(entries) \/ (call'.phase \in Owning /\ h = call'.handle),
         call'.phase \in Owning =>
           /\ call'.handle \in Handle \ HandlesIn(entries)
           /\ mode'[call'.handle] = (IF call'.phase \in {"fill", "drop"} THEN "free" ELSE "locked")
           /\ At("insert")' => contents'[call'.handle] = call'.handle
  PROVE  IInv' /\ Stays
<1>1. Books' /\ Counts'
  BY DEF IInv, OwnBlock, Books, Counts
<1>2. CallSound'
  BY DEF IInv, CallSound, OwnBlock, At, Owning, Fetching
<1>3. Stored(entries, mode', contents')
  <2>1. \A i \in 1..Len(entries) : entries[i].handle \in HandlesIn(entries)
    BY DEF HandlesIn
  <2>2. Stored(entries, mode, contents)
    BY DEF IInv, Blocks
  <2> QED BY <2>1, <2>2 DEF Stored, Theirs
<1>4. Blocks'
  BY <1>3 DEF IInv, Blocks, OwnBlock
<1>5. Enough'
  BY DEF Enough, At, Owning
<1>6. Stays
  BY DEF Stays, OwnBlock, Theirs, Held, Indexes, HandlesIn
<1> QED BY <1>1, <1>2, <1>4, <1>5, <1>6 DEF IInv

LEMMA AllocatedKeeps ==
  ASSUME IInv, NEW h \in Handle, Allocated(h)
  PROVE  IInv' /\ Stays
<1>1. /\ OwnBlock /\ call.phase \in {"allocate", "last"} /\ mode[h] = "none"
      /\ mode' = [mode EXCEPT ![h] = "free"] /\ contents' = contents /\ place' = place
      /\ call' = [call EXCEPT !.phase = "fill", !.handle = h]
  BY DEF Allocated, Heap!Allocate, OwnBlock
<1>2. /\ call' \in Calls /\ call'.phase = "fill" /\ call'.key = call.key /\ call'.handle = h
      /\ call'.index = call.index /\ call'.want = call.want
  BY <1>1, SizeNat DEF Calls, Phases, Owning
<1>3. Heaps'
  BY <1>1 DEF IInv, Heaps
<1>4. mode' \in [Handle -> {"none", "free", "locked"}] /\ mode'[h] = "free"
      /\ \A g \in Handle : g # h => mode'[g] = mode[g]
  BY <1>1 DEF IInv, Heaps
<1>5. HandlesIn(entries) \in SUBSET Handle /\ h \notin HandlesIn(entries)
  <2>1. \A i \in 1..Len(entries) : entries[i].handle \in Handle
    BY SizeNat, EntryParts
  <2>2. \A i \in 1..Len(entries) : mode[entries[i].handle] # "none"
    BY DEF IInv, Blocks, Stored
  <2> QED BY <1>1, <2>1, <2>2 DEF HandlesIn
<1>6. Theirs
  BY <1>1, <1>4, <1>5 DEF Theirs
<1>7. RoomKept'
  BY <1>1, <1>2 DEF IInv, RoomKept, MadeRoom, OwnBlock
<1>8. call.phase \in Fetching /\ call.phase \notin Owning
  BY <1>1 DEF Fetching, Owning
<1>9. \A g \in Handle : mode'[g] # "none" => g \in HandlesIn(entries) \/ g = h
  BY <1>4, <1>8 DEF IInv, Blocks
<1>10. ~At("insert")' /\ call'.phase \in Owning
  BY <1>2 DEF At, Owning
<1> QED BY <1>1, <1>2, <1>3, <1>4, <1>5, <1>6, <1>7, <1>8, <1>9, <1>10, OwnBlockKeeps

\* The steps on the block it has.
LEMMA OnlyOwn ==
  ASSUME IInv, OwnBlock, call.phase \in Owning, Heaps',
         \A g \in Handle : g # call.handle =>
           mode'[g] = mode[g] /\ contents'[g] = contents[g] /\ place'[g] = place[g]
  PROVE  /\ Theirs /\ call.handle \in Handle \ HandlesIn(entries)
         /\ \A g \in Handle : mode'[g] # "none" => g \in HandlesIn(entries) \/ g = call.handle
<1>1. call.handle \in Handle \ HandlesIn(entries)
  BY DEF IInv, Blocks
<1>2. HandlesIn(entries) \in SUBSET Handle
  BY SizeNat, EntryParts DEF HandlesIn
<1>3. \A g \in Handle : mode[g] # "none" => g \in HandlesIn(entries) \/ g = call.handle
  BY DEF IInv, Blocks
<1> QED BY <1>1, <1>2, <1>3 DEF Theirs

LEMMA FillKeeps ==
  ASSUME IInv, Fill
  PROVE  IInv' /\ Stays
<1> DEFINE c == call.handle
<1>1. /\ OwnBlock /\ call.phase = "fill" /\ mode[c] = "free" /\ Goto("read")
      /\ mode' = [mode EXCEPT ![c] = "locked"] /\ contents' = contents
      /\ \E p \in Place : place' = [place EXCEPT ![c] = p]
  BY DEF Fill, Heap!Lock, OwnBlock, At
<1>2. /\ call' \in Calls /\ call'.phase = "read" /\ call'.key = call.key /\ call'.handle = c
      /\ call'.index = call.index /\ call'.want = call.want
  BY <1>1, SizeNat, GotoIs DEF Phases, Owning
<1>3. Heaps' /\ c \in Handle
  BY <1>1 DEF IInv, Heaps, Blocks, Owning
<1>4. mode'[c] = "locked" /\ \A g \in Handle : g # c =>
        mode'[g] = mode[g] /\ contents'[g] = contents[g] /\ place'[g] = place[g]
  BY <1>1, <1>3 DEF IInv, Heaps
<1>5. /\ Theirs /\ c \in Handle \ HandlesIn(entries)
      /\ \A g \in Handle : mode'[g] # "none" => g \in HandlesIn(entries) \/ g = c
  BY <1>1, <1>3, <1>4, OnlyOwn DEF Owning
<1>6. RoomKept'
  BY <1>1, <1>2 DEF IInv, RoomKept, MadeRoom, OwnBlock
<1>7. ~At("insert")' /\ call'.phase \in Owning /\ call.phase \in Owning
  BY <1>1, <1>2 DEF At, Owning
<1> HIDE DEF c
<1> QED BY <1>1, <1>2, <1>3, <1>4, <1>5, <1>6, <1>7, OwnBlockKeeps

LEMMA ReadWorksKeeps ==
  ASSUME IInv, ReadWorks
  PROVE  IInv' /\ Stays
<1> DEFINE c == call.handle
<1>1. /\ OwnBlock /\ call.phase = "read" /\ mode[c] = "locked" /\ Goto("insert")
      /\ contents' = [contents EXCEPT ![c] = c] /\ mode' = mode /\ place' = place
  BY DEF ReadWorks, Heap!Write, OwnBlock, At
<1>2. /\ call' \in Calls /\ call'.phase = "insert" /\ call'.key = call.key /\ call'.handle = c
      /\ call'.index = call.index /\ call'.want = call.want
  BY <1>1, SizeNat, GotoIs DEF Phases, Owning
<1>3. c \in Handle
  BY <1>1 DEF IInv, Blocks, Owning
<1>4. Heaps'
  BY <1>1, <1>3 DEF IInv, Heaps
<1>5. /\ mode'[c] = "locked" /\ contents'[c] = c
      /\ \A g \in Handle : g # c =>
           mode'[g] = mode[g] /\ contents'[g] = contents[g] /\ place'[g] = place[g]
  BY <1>1, <1>3 DEF IInv, Heaps
<1>6. /\ Theirs /\ c \in Handle \ HandlesIn(entries)
      /\ \A g \in Handle : mode'[g] # "none" => g \in HandlesIn(entries) \/ g = c
  BY <1>1, <1>4, <1>5, OnlyOwn DEF Owning
<1>7. RoomKept'
  BY <1>1, <1>2 DEF IInv, RoomKept, MadeRoom, OwnBlock
<1>8. call'.phase \in Owning /\ call.phase \in Owning
  BY <1>1, <1>2 DEF Owning
<1> HIDE DEF c
<1> QED BY <1>1, <1>2, <1>4, <1>5, <1>6, <1>7, <1>8, OwnBlockKeeps

LEMMA ReadFailsKeeps ==
  ASSUME IInv, ReadFails
  PROVE  IInv' /\ Stays
<1> DEFINE c == call.handle
<1>1. /\ OwnBlock /\ call.phase = "read" /\ mode[c] = "locked" /\ Goto("drop")
      /\ mode' = [mode EXCEPT ![c] = "free"] /\ contents' = contents
      /\ place' = [place EXCEPT ![c] = Nowhere]
  BY DEF ReadFails, Heap!Unlock, OwnBlock, At
<1>2. /\ call' \in Calls /\ call'.phase = "drop" /\ call'.key = call.key /\ call'.handle = c
      /\ call'.index = call.index /\ call'.want = call.want
  BY <1>1, SizeNat, GotoIs DEF Phases, Owning
<1>3. c \in Handle
  BY <1>1 DEF IInv, Blocks, Owning
<1>4. Heaps'
  BY <1>1, <1>3 DEF IInv, Heaps
<1>5. mode'[c] = "free" /\ \A g \in Handle : g # c =>
        mode'[g] = mode[g] /\ contents'[g] = contents[g] /\ place'[g] = place[g]
  BY <1>1, <1>3 DEF IInv, Heaps
<1>6. /\ Theirs /\ c \in Handle \ HandlesIn(entries)
      /\ \A g \in Handle : mode'[g] # "none" => g \in HandlesIn(entries) \/ g = c
  BY <1>1, <1>4, <1>5, OnlyOwn DEF Owning
<1>7. RoomKept'
  BY <1>2 DEF RoomKept, MadeRoom
<1>8. ~At("insert")' /\ call'.phase \in Owning /\ call.phase \in Owning
  BY <1>1, <1>2 DEF At, Owning
<1> HIDE DEF c
<1> QED BY <1>1, <1>2, <1>4, <1>5, <1>6, <1>7, <1>8, OwnBlockKeeps

LEMMA DropKeeps ==
  ASSUME IInv, Drop
  PROVE  IInv' /\ Stays
<1> DEFINE c == call.handle
<1>1. /\ OwnBlock /\ call.phase = "drop" /\ mode[c] = "free" /\ call' = Idle
      /\ mode' = [mode EXCEPT ![c] = "none"] /\ contents' = [contents EXCEPT ![c] = Junk]
      /\ place' = place
  BY DEF Drop, Heap!Deallocate, OwnBlock, At
<1>2. call' \in Calls /\ call'.phase = "idle"
  BY <1>1, IdleIs
<1>3. c \in Handle
  BY <1>1 DEF IInv, Blocks, Owning
<1>4. Heaps'
  BY <1>1, <1>3 DEF IInv, Heaps
<1>5. mode'[c] = "none" /\ \A g \in Handle : g # c =>
        mode'[g] = mode[g] /\ contents'[g] = contents[g] /\ place'[g] = place[g]
  BY <1>1, <1>3 DEF IInv, Heaps
<1>6. /\ Theirs
      /\ \A g \in Handle : mode'[g] # "none" => g \in HandlesIn(entries) \/ g = c
  BY <1>1, <1>4, <1>5, OnlyOwn DEF Owning
<1>7. RoomKept' /\ call'.phase \notin Owning
  BY <1>2 DEF RoomKept, MadeRoom, Owning
<1> HIDE DEF c
<1> QED BY <1>1, <1>2, <1>4, <1>5, <1>6, <1>7, OwnBlockKeeps

-----------------------------------------------------------------------------
(* The steps that count references                                          *)

\* Only entry i has another count of references, and only its block another mode.
Recounted(es, fs, i) ==
  Alike(es, fs) /\ \A j \in 1..Len(es) : j # i => fs[j].refs = es[j].refs
ModeFits(fs, i, md) == md[fs[i].handle] = (IF fs[i].refs > 0 THEN "locked" ELSE "free")
SameBut(h, f, g) == \A x \in Handle : x # h => g[x] = f[x]

LEMMA StoredAfter ==
  ASSUME NEW es \in EntrySeq, NEW fs, NEW i \in 1..Len(es), NEW md, NEW nd, NEW ct,
         Stored(es, md, ct), HandlesDiffer(es), Recounted(es, fs, i),
         ModeFits(fs, i, nd), SameBut(es[i].handle, md, nd)
  PROVE  Stored(fs, nd, ct)
<1>1. Len(fs) = Len(es) /\ \A j \in 1..Len(es) : fs[j].handle = es[j].handle
  BY DEF Recounted, Alike
<1>2. SUFFICES ASSUME NEW j \in 1..Len(es)
               PROVE  /\ nd[fs[j].handle] = (IF fs[j].refs > 0 THEN "locked" ELSE "free")
                      /\ ct[fs[j].handle] = fs[j].handle
  BY <1>1 DEF Stored
<1>3. ct[fs[j].handle] = fs[j].handle
  BY <1>1 DEF Stored
<1>4. CASE j = i
  BY <1>3, <1>4 DEF ModeFits
<1>5. CASE j # i
  <2>1. es[j].handle # es[i].handle /\ es[j].handle \in Handle
    BY <1>5, EntryParts DEF HandlesDiffer
  <2>2. nd[es[j].handle] = md[es[j].handle]
    BY <2>1 DEF SameBut
  <2>3. fs[j].refs = es[j].refs
    BY <1>5 DEF Recounted
  <2>4. md[es[j].handle] = (IF es[j].refs > 0 THEN "locked" ELSE "free")
    BY DEF Stored
  <2> QED BY <1>1, <1>3, <2>2, <2>3, <2>4
<1> QED BY <1>4, <1>5

LEMMA RecountedKeeps ==
  ASSUME IInv, NEW i \in 1..Len(entries), entries' \in EntrySeq, Recounted(entries, entries', i),
         size' = size, marked' = marked, hits' \in 0..(HitLimit - 1),
         call' \in Calls, call'.phase = "idle", call.phase \notin Owning,
         Heaps', contents' = contents, mode'[entries[i].handle] # "none",
         ModeFits(entries', i, mode'), SameBut(entries[i].handle, mode, mode'),
         SameBut(entries[i].handle, place, place'),
         entries[i].refs > 0 /\ entries'[i].refs > 0 => place' = place
  PROVE  IInv' /\ Stays
<1>1. entries \in EntrySeq /\ Alike(entries, entries')
  BY DEF IInv, Books, Recounted
<1>2. Sorted(entries) /\ HandlesDiffer(entries) /\ Stored(entries, mode, contents)
  BY DEF IInv, Books, Blocks
<1>3. /\ Sorted(entries') /\ HandlesDiffer(entries') /\ HandlesIn(entries') = HandlesIn(entries)
      /\ SizesIn(entries', 1..Len(entries')) = SizesIn(entries, 1..Len(entries))
  BY <1>1, <1>2, AlikeKeeps
<1>4. Books' /\ Counts'
  BY <1>3 DEF IInv, Books, Counts
<1>5. CallSound' /\ RoomKept' /\ Enough'
  BY DEF CallSound, RoomKept, MadeRoom, Enough, At, Fetching, Owning
<1>6. Stored(entries', mode', contents')
  BY <1>1, <1>2, StoredAfter
<1>7. ASSUME NEW h \in Handle, mode'[h] # "none"
      PROVE  h \in HandlesIn(entries')
  <2>1. CASE h = entries[i].handle
    BY <1>3, <2>1 DEF HandlesIn
  <2>2. CASE h # entries[i].handle
    <3>1. mode[h] # "none"
      BY <1>7, <2>2 DEF SameBut
    <3> QED BY <1>3, <3>1 DEF IInv, Blocks
  <2> QED BY <2>1, <2>2
<1>8. call'.phase \notin Owning
  BY DEF Owning
<1>9. Blocks'
  BY <1>3, <1>6, <1>7, <1>8 DEF Blocks, At, Owning
<1>10. Stays
  <2> SUFFICES ASSUME NEW j \in 1..Len(entries), entries[j].refs > 0, entries'[j].refs > 0
               PROVE  place'[entries[j].handle] = place[entries[j].handle]
    BY <1>1 DEF Stays, Held, Indexes, Alike
  <2>1. CASE j = i
    BY <2>1
  <2>2. CASE j # i
    BY <1>1, <1>2, <2>2, EntryParts DEF HandlesDiffer, SameBut
  <2> QED BY <2>1, <2>2
<1> QED BY <1>4, <1>5, <1>9, <1>10 DEF IInv

LEMMA LockedIs ==
  ASSUME Heaps, NEW h \in Handle, Heap!Lock(h)
  PROVE  /\ Heaps' /\ contents' = contents /\ mode[h] = "free" /\ mode'[h] = "locked"
         /\ SameBut(h, mode, mode') /\ SameBut(h, place, place')
BY DEF Heaps, Heap!Lock, SameBut

LEMMA UnlockedIs ==
  ASSUME Heaps, NEW h \in Handle, Heap!Unlock(h)
  PROVE  /\ Heaps' /\ contents' = contents /\ mode[h] = "locked" /\ mode'[h] = "free"
         /\ SameBut(h, mode, mode') /\ SameBut(h, place, place')
BY DEF Heaps, Heap!Unlock, SameBut

\* What is known of an entry.
LEMMA EntryIs ==
  ASSUME IInv, NEW i \in 1..Len(entries)
  PROVE  /\ entries \in EntrySeq /\ Sorted(entries) /\ Heaps /\ hits \in 0..(HitLimit - 1)
         /\ entries[i].handle \in Handle /\ entries[i] \in Entry
         /\ entries[i].refs \in 0..MaxRefs /\ MaxRefs \in Nat
         /\ mode[entries[i].handle] = (IF entries[i].refs > 0 THEN "locked" ELSE "free")
<1>1. entries \in EntrySeq /\ Sorted(entries) /\ Heaps /\ hits \in 0..(HitLimit - 1)
  BY DEF IInv, Books, Counts
<1>2. mode[entries[i].handle] = (IF entries[i].refs > 0 THEN "locked" ELSE "free")
  BY DEF IInv, Blocks, Stored
<1> QED BY <1>1, <1>2, EntryParts, CacheConstants

LEMMA CacheUnlockKeeps ==
  ASSUME IInv, NEW i \in Indexes, CacheUnlock(i)
  PROVE  IInv' /\ Stays
<1> DEFINE h == entries[i].handle
<1>1. i \in 1..Len(entries)
  BY DEF Indexes
<1>2. /\ call.phase = "idle" /\ entries[i].refs > 0
      /\ entries' = [entries EXCEPT ![i].refs = @ - 1]
      /\ IF entries[i].refs = 1 THEN Heap!Unlock(h) ELSE UNCHANGED <<mode, contents, place>>
      /\ size' = size /\ hits' = hits /\ marked' = marked /\ call' = call
  BY DEF CacheUnlock, At, LastReference, hvars
<1>3. /\ entries \in EntrySeq /\ Heaps /\ hits \in 0..(HitLimit - 1) /\ h \in Handle
      /\ entries[i] \in Entry /\ entries[i].refs \in 0..MaxRefs /\ MaxRefs \in Nat
      /\ mode[h] = "locked"
  BY <1>1, <1>2, EntryIs
<1>4. /\ entries' \in EntrySeq /\ Recounted(entries, entries', i)
      /\ entries'[i].refs = entries[i].refs - 1 /\ entries'[i].handle = h
  <2>1. entries \in [1..Len(entries) -> Entry] /\ entries \in Seq(Entry)
    BY <1>3, LenProperties DEF EntrySeq
  <2> DEFINE e == [entries[i] EXCEPT !.refs = @ - 1]
  <2>2. entries' = [entries EXCEPT ![i] = e]
    BY <1>2, <2>1
  <2>3. entries[i].refs - 1 \in 0..MaxRefs
    BY <1>2, <1>3
  <2>4. /\ e \in Entry /\ e.refs = entries[i].refs - 1 /\ e.key = entries[i].key
        /\ e.size = entries[i].size /\ e.handle = h
    BY <1>3, <2>3 DEF Entry
  <2> HIDE DEF e
  <2>5. /\ entries' \in Seq(Entry) /\ Len(entries') = Len(entries)
        /\ \A j \in 1..Len(entries) : entries'[j] = IF j = i THEN e ELSE entries[j]
    BY <1>1, <2>1, <2>2, <2>4, ExceptSeq
  <2> QED BY <1>1, <2>4, <2>5 DEF EntrySeq, Recounted, Alike
<1>5. /\ Heaps' /\ contents' = contents /\ SameBut(h, mode, mode')
      /\ SameBut(h, place, place')
      /\ mode'[h] = (IF entries[i].refs = 1 THEN "free" ELSE "locked")
      /\ entries'[i].refs > 0 => place' = place
  <2>1. CASE entries[i].refs = 1
    BY <1>2, <1>3, <1>4, <2>1, UnlockedIs
  <2>2. CASE entries[i].refs # 1
    BY <1>2, <1>3, <2>2 DEF Heaps, SameBut
  <2> QED BY <2>1, <2>2
<1>6. ModeFits(entries', i, mode')
  <2>1. entries[i].refs = 1 <=> ~(entries[i].refs - 1 > 0)
    BY <1>2, <1>3
  <2> QED BY <1>4, <1>5, <2>1 DEF ModeFits
<1>7. mode'[h] # "none" /\ call' \in Calls /\ call.phase \notin Owning
  BY <1>2, <1>5, SizeNat DEF Owning
<1> QED BY <1>1, <1>2, <1>3, <1>4, <1>5, <1>6, <1>7, RecountedKeeps

LEMMA LockHitKeeps ==
  ASSUME IInv, NEW i \in Indexes, LockHit(i)
  PROVE  IInv' /\ Stays
<1> DEFINE h == entries[i].handle
<1>1. i \in 1..Len(entries)
  BY DEF Indexes
<1>2. PICK es : es = [entries EXCEPT ![i].hits = (@ + 1) % (HitLimit + 1)]
  OBVIOUS
<1>3. /\ call.phase = "idle" /\ entries[i].refs < MaxRefs
      /\ entries' = Referenced(es, i) /\ hits' = HitsAfter(entries)
      /\ IF entries[i].refs = 0 THEN Heap!Lock(h) ELSE UNCHANGED <<mode, contents, place>>
      /\ size' = size /\ marked' = marked /\ call' = call
  BY <1>2 DEF LockHit, At, hvars
<1>4. /\ entries \in EntrySeq /\ Heaps /\ hits \in 0..(HitLimit - 1) /\ h \in Handle
      /\ entries[i] \in Entry /\ entries[i].refs \in 0..MaxRefs /\ MaxRefs \in Nat
      /\ mode[h] = (IF entries[i].refs > 0 THEN "locked" ELSE "free") /\ Sorted(entries)
  BY <1>1, EntryIs
<1>5. /\ es \in EntrySeq /\ Alike(entries, es)
      /\ \A j \in 1..Len(entries) : es[j].refs = entries[j].refs
  <2>1. entries \in [1..Len(entries) -> Entry] /\ entries \in Seq(Entry)
    BY <1>4, LenProperties DEF EntrySeq
  <2>2. entries[i].hits \in Nat /\ HitLimit \in Nat
    BY <1>1, <1>4, EntryParts, CacheConstants
  <2>3. PICK n \in 0..HitLimit : n = (entries[i].hits + 1) % (HitLimit + 1)
    BY <2>2
  <2> DEFINE e == [entries[i] EXCEPT !.hits = n]
  <2>4. es = [entries EXCEPT ![i] = e]
    BY <1>2, <2>1, <2>3
  <2>5. /\ e \in Entry /\ e.refs = entries[i].refs /\ e.key = entries[i].key
        /\ e.size = entries[i].size /\ e.handle = h
    BY <1>4 DEF Entry
  <2> HIDE DEF e
  <2>6. /\ es \in Seq(Entry) /\ Len(es) = Len(entries)
        /\ \A j \in 1..Len(entries) : es[j] = IF j = i THEN e ELSE entries[j]
    BY <1>1, <2>1, <2>4, <2>5, ExceptSeq
  <2> QED BY <1>1, <2>5, <2>6 DEF EntrySeq, Alike
<1>6. Sorted(es) /\ i \in 1..Len(es) /\ es[i].refs < MaxRefs /\ Len(es) = Len(entries)
  BY <1>1, <1>3, <1>4, <1>5, AlikeKeeps DEF Alike
<1>7. /\ Referenced(es, i) \in EntrySeq /\ Alike(es, Referenced(es, i))
      /\ \A j \in 1..Len(es) :
           Referenced(es, i)[j].refs = IF j = i THEN es[i].refs + 1 ELSE es[j].refs
      /\ HitsAfter(es) \in 0..(HitLimit - 1)
  BY <1>4, <1>5, <1>6, ReferencedIs
<1>8. hits' \in 0..(HitLimit - 1)
  BY <1>3, <1>6, <1>7 DEF HitsAfter
<1>9. /\ entries' \in EntrySeq /\ Recounted(entries, entries', i)
      /\ entries'[i].refs = entries[i].refs + 1 /\ entries'[i].handle = h
  BY <1>1, <1>3, <1>5, <1>6, <1>7 DEF Recounted, Alike
<1>10. /\ Heaps' /\ contents' = contents /\ SameBut(h, mode, mode')
       /\ SameBut(h, place, place') /\ mode'[h] = "locked"
       /\ entries[i].refs > 0 => place' = place
  <2>1. CASE entries[i].refs = 0
    BY <1>3, <1>4, <2>1, LockedIs
  <2>2. CASE entries[i].refs # 0
    BY <1>3, <1>4, <2>2 DEF Heaps, SameBut
  <2> QED BY <2>1, <2>2
<1>11. ModeFits(entries', i, mode')
  BY <1>4, <1>9, <1>10 DEF ModeFits
<1>12. mode'[h] # "none" /\ call' \in Calls /\ call.phase \notin Owning
  BY <1>3, <1>10, SizeNat DEF Owning
<1> QED BY <1>1, <1>3, <1>8, <1>9, <1>10, <1>11, <1>12, RecountedKeeps

LEMMA PinKeeps ==
  ASSUME IInv, Pin
  PROVE  IInv' /\ Stays
<1>1. PICK i : i = call.index
  OBVIOUS
<1> DEFINE h == entries[i].handle
<1>2. /\ call.phase = "pin" /\ Heap!Lock(h) /\ entries' = Referenced(entries, i)
      /\ hits' = HitsAfter(entries) /\ call' = Idle /\ size' = size /\ marked' = marked
  BY <1>1 DEF Pin, At
<1>3. i \in 1..Len(entries)
  BY <1>1, <1>2 DEF IInv, CallSound, At
<1>4. /\ entries \in EntrySeq /\ Heaps /\ hits \in 0..(HitLimit - 1) /\ h \in Handle
      /\ entries[i] \in Entry /\ entries[i].refs \in 0..MaxRefs /\ MaxRefs \in Nat
      /\ mode[h] = (IF entries[i].refs > 0 THEN "locked" ELSE "free") /\ Sorted(entries)
  BY <1>3, EntryIs
<1>5. /\ Heaps' /\ contents' = contents /\ SameBut(h, mode, mode')
      /\ SameBut(h, place, place') /\ mode'[h] = "locked" /\ mode[h] = "free"
  BY <1>2, <1>4, LockedIs
<1>6. entries[i].refs < MaxRefs /\ entries[i].refs = 0
  <2>1. ~(entries[i].refs > 0)
    BY <1>4, <1>5
  <2> QED BY <1>4, <2>1, CacheConstants
<1>7. /\ Referenced(entries, i) \in EntrySeq /\ Alike(entries, Referenced(entries, i))
      /\ \A j \in 1..Len(entries) :
           Referenced(entries, i)[j].refs = IF j = i THEN entries[i].refs + 1 ELSE entries[j].refs
      /\ HitsAfter(entries) \in 0..(HitLimit - 1)
  BY <1>3, <1>4, <1>6, ReferencedIs
<1>8. /\ entries' \in EntrySeq /\ Recounted(entries, entries', i)
      /\ entries'[i].refs = 1 /\ entries'[i].handle = h
  BY <1>2, <1>3, <1>6, <1>7 DEF Recounted, Alike
<1>9. ModeFits(entries', i, mode')
  BY <1>5, <1>8 DEF ModeFits
<1>10. /\ mode'[h] # "none" /\ call' \in Calls /\ call'.phase = "idle"
       /\ call.phase \notin Owning /\ ~(entries[i].refs > 0)
  BY <1>2, <1>5, <1>6, IdleIs DEF Owning
<1> QED BY <1>2, <1>3, <1>5, <1>7, <1>8, <1>9, <1>10, RecountedKeeps

-----------------------------------------------------------------------------
(* The steps that take an entry out or put one in                           *)

LEMMA DeallocatedIs ==
  ASSUME Heaps, NEW h \in Handle, Heap!Deallocate(h)
  PROVE  /\ Heaps' /\ mode[h] = "free" /\ mode'[h] = "none" /\ place' = place
         /\ SameBut(h, mode, mode')
         /\ \A g \in Handle : g # h => contents'[g] = contents[g]
BY DEF Heaps, Heap!Deallocate, SameBut

\* What stays marked is the same without the entry the sweep was at.
LEMMA SweptMarks ==
  ASSUME NEW es \in EntrySeq, Sorted(es), NEW i \in 1..Len(es), NEW keys, es[i].key \in keys,
         NEW j \in 1..Len(es), j # i
  PROVE  es[j].key \in keys \ {es[i].key} <=> es[j].key \in keys
<1>1. es[j].key # es[i].key
  BY KeysDiffer
<1> QED BY <1>1

LEMMA SweepStepKeeps ==
  ASSUME IInv, NEW i \in Indexes, SweepStep(i)
  PROVE  IInv' /\ Stays
<1> DEFINE h == entries[i].handle
           k == entries[i].key
<1>1. i \in 1..Len(entries)
  BY DEF Indexes
<1>2. /\ call.phase \in {"sweep", "flushing", "flushed"} /\ k \in marked
      /\ marked' = marked \ {k} /\ hits' = hits /\ call' = call
      /\ IF entries[i].refs # 0 THEN UNCHANGED <<entries, size, mode, contents, place>>
         ELSE /\ entries' = RemoveAt(entries, i) /\ size' = size - entries[i].size
              /\ Heap!Deallocate(h)
  BY DEF SweepStep, IsFirstMarked, SizeAfterSweep, SweptBlock, hvars
<1>3. /\ entries \in EntrySeq /\ Sorted(entries) /\ Heaps /\ h \in Handle
      /\ entries[i].refs \in 0..MaxRefs /\ MaxRefs \in Nat
      /\ mode[h] = (IF entries[i].refs > 0 THEN "locked" ELSE "free")
  BY <1>1, EntryIs
<1>4. call.phase \notin Owning /\ call'.phase \notin Owning /\ ~At("pin")' /\ marked' \in SUBSET Key
  BY <1>2 DEF Owning, At, IInv, Counts
<1>5. \A j \in 1..Len(entries) : j # i => (entries[j].key \in marked' <=> entries[j].key \in marked)
  BY <1>1, <1>2, <1>3, SweptMarks
<1> HIDE DEF h, k
<1>6. CASE entries[i].refs # 0
  <2>1. Aside /\ entries' = entries /\ size' = size
    BY <1>2, <1>6 DEF Aside
  <2>2. CallSound' /\ RoomKept'
    BY <1>2, <1>4, <2>1 DEF IInv, CallSound, RoomKept, MadeRoom, At
  <2>3. \A j \in 1..Len(entries) : entries[j].refs <= 0 => j # i
    BY <1>3, <1>6
  <2>4. Unreferenced(entries, marked') = Unreferenced(entries, marked)
    BY <1>5, <2>3 DEF Unreferenced
  <2>5. (\A j \in 1..Len(entries) : entries[j].refs <= 0 => entries[j].key \in marked) =>
        (\A j \in 1..Len(entries) : entries[j].refs <= 0 => entries[j].key \in marked')
    BY <1>5, <2>3
  <2>6. Enough'
    BY <1>2, <2>1, <2>4, <2>5 DEF IInv, Enough, At
  <2> QED BY <1>4, <2>1, <2>2, <2>6, AsideKeeps
<1>7. CASE entries[i].refs = 0
  <2>1. entries' = RemoveAt(entries, i) /\ size' = size - entries[i].size /\ Heap!Deallocate(h)
    BY <1>2, <1>7
  <2>2. /\ entries' \in EntrySeq /\ Len(entries') = Len(entries) - 1
        /\ \A j \in 1..Len(entries') :
             /\ entries'[j] = entries[Before(i, j)]
             /\ Before(i, j) \in 1..Len(entries) /\ Before(i, j) # i
        /\ \A m \in 1..Len(entries) : m # i => \E j \in 1..Len(entries') : Before(i, j) = m
    <3>1. Without(entries, i, entries')
      BY <1>1, <1>3, <2>1, EvictedIs, Zenon
    <3> QED BY <3>1, Zenon DEF Without
  <2>3. HandlesDiffer(entries) /\ Stored(entries, mode, contents)
    BY DEF IInv, Blocks
  <2>4. /\ Sorted(entries') /\ HandlesDiffer(entries')
        /\ KeysIn(entries') = KeysIn(entries) \ {k}
        /\ HandlesIn(entries') = HandlesIn(entries) \ {h}
    BY <1>1, <1>3, <2>1, <2>3, EvictedKeeps DEF h, k
  <2>5. /\ Heaps' /\ mode'[h] = "none" /\ SameBut(h, mode, mode') /\ place' = place
        /\ \A g \in Handle : g # h => contents'[g] = contents[g]
    BY <1>3, <2>1, DeallocatedIs
  <2>6. SizesWithout(entries, i, entries')
    BY <2>2 DEF SizesWithout
  <2>7. entries[i].size \in Nat /\ size \in Nat /\ size <= MaxSize /\ MaxSize \in Nat
    BY <1>1, <1>3, SizeNat, EntryParts
  <2>8. Books'
    <3>1. Shifted(entries', i, 1..Len(entries), 1..Len(entries'))
      BY <2>2 DEF Shifted
    <3>2. SizesIn(entries, 1..Len(entries)) = entries[i].size + SizesIn(entries', 1..Len(entries'))
      <4>1. /\ 1..Len(entries) \in SUBSET (1..Len(entries))
            /\ 1..Len(entries') \in SUBSET (1..Len(entries')) /\ entries' \in EntrySeq
        BY <2>2
      <4>2. PICK S, T : S = 1..Len(entries) /\ T = 1..Len(entries')
        OBVIOUS
      <4> QED BY <1>1, <1>3, <2>6, <3>1, <4>1, <4>2, SizesRemoved
    <3>3. SizesIn(entries', 1..Len(entries')) \in Nat
      BY <2>2, SizesParted
    <3>4. size = SizesIn(entries, 1..Len(entries))
      BY DEF IInv, Books
    <3>5. size' = SizesIn(entries', 1..Len(entries')) /\ size' <= MaxSize
      BY <2>1, <2>7, <3>2, <3>3, <3>4
    <3> QED BY <2>2, <2>4, <3>5 DEF Books
  <2>9. Counts'
    BY <1>2, <1>4 DEF IInv, Counts
  <2>10. CallSound'
    BY <1>2, <1>4, <2>4 DEF IInv, CallSound
  <2>11. RoomKept'
    <3> SUFFICES ASSUME MadeRoom
                 PROVE  size' + SizeOf[call.key] <= MaxSize
      BY <1>2 DEF RoomKept, MadeRoom
    <3>1. size + SizeOf[call.key] <= MaxSize
      BY DEF IInv, RoomKept
    <3>2. SizeOf[call.key] \in Nat
      <4>1. call.phase # "flushed"
        BY DEF MadeRoom
      <4>2. call.key \in Key
        BY <1>2, <4>1 DEF IInv, CallSound, Fetching
      <4> QED BY <4>2, CacheConstants
    <3> QED BY <2>1, <2>7, <3>1, <3>2
  <2>12. Stored(entries', mode', contents')
    <3> SUFFICES ASSUME NEW j \in 1..Len(entries')
                 PROVE  /\ mode'[entries'[j].handle] =
                             (IF entries'[j].refs > 0 THEN "locked" ELSE "free")
                        /\ contents'[entries'[j].handle] = entries'[j].handle
      BY DEF Stored
    <3>1. PICK m \in 1..Len(entries) : entries'[j] = entries[m] /\ m # i
      BY <2>2
    <3>2. entries[m].handle # h /\ entries[m].handle \in Handle
      BY <1>1, <1>3, <2>3, <3>1, EntryParts DEF HandlesDiffer, h
    <3>3. /\ mode'[entries[m].handle] = mode[entries[m].handle]
          /\ contents'[entries[m].handle] = contents[entries[m].handle]
      BY <2>5, <3>2 DEF SameBut
    <3> QED BY <2>3, <3>1, <3>3 DEF Stored
  <2>13. ASSUME NEW g \in Handle, mode'[g] # "none"
         PROVE  g \in HandlesIn(entries')
    <3>1. g # h /\ mode[g] # "none"
      BY <2>5, <2>13 DEF SameBut
    <3> QED BY <1>4, <2>4, <3>1 DEF IInv, Blocks
  <2>14. Blocks'
    BY <1>4, <2>4, <2>12, <2>13 DEF Blocks
  <2>15. Enough'
    <3> SUFFICES ASSUME At("sweep")
                 PROVE  \/ size' - SizesIn(entries', Unreferenced(entries', marked')) + call.want
                             <= MaxSize
                        \/ \A j \in 1..Len(entries') :
                             entries'[j].refs <= 0 => entries'[j].key \in marked'
      BY <1>2 DEF Enough, At
    <3> DEFINE S == Unreferenced(entries, marked)
               T == Unreferenced(entries', marked')
    <3>1. CASE size - SizesIn(entries, S) + call.want <= MaxSize
      <4>1. S \in SUBSET (1..Len(entries)) /\ T \in SUBSET (1..Len(entries')) /\ i \in S
        BY <1>1, <1>2, <1>7 DEF Unreferenced, k
      <4>2. Shifted(entries', i, S, T)
        BY <1>5, <2>2 DEF Shifted, Unreferenced
      <4> HIDE DEF S, T
      <4>3. SizesIn(entries, S) = entries[i].size + SizesIn(entries', T)
        BY <1>1, <1>3, <2>2, <2>6, <4>1, <4>2, SizesRemoved
      <4>4. SizesIn(entries', T) \in Nat
        BY <2>2, <4>1, SizesParted
      <4>5. size' - SizesIn(entries', T) + call.want <= MaxSize
        BY <2>1, <2>7, <3>1, <4>3, <4>4, SizeNat
      <4> QED BY <4>5 DEF T
    <3>2. CASE \A j \in 1..Len(entries) : entries[j].refs <= 0 => entries[j].key \in marked
      BY <1>5, <2>2, <3>2
    <3> QED BY <3>1, <3>2 DEF IInv, Enough
  <2>16. Stays
    <3> SUFFICES ASSUME NEW m \in 1..Len(entries), entries[m].refs > 0
                 PROVE  \E j \in 1..Len(entries') : entries'[j] = entries[m]
      BY <2>5 DEF Stays, Held, Indexes
    <3>1. m # i
      BY <1>7
    <3> QED BY <2>2, <3>1
  <2> QED BY <2>5, <2>8, <2>9, <2>10, <2>11, <2>14, <2>15, <2>16 DEF IInv
<1> QED BY <1>6, <1>7

\* The index of the first lookup or that of another is where the key belongs.
LEMMA IndexBelongs ==
  ASSUME NEW es, es = entries, es \in EntrySeq, Sorted(es), call.key \in Key \ KeysIn(es),
         call.index \in Nat, call.index > 0
  PROVE  \E p : InsertIndex = p + 1 /\ Belongs(es, call.key, p)
<1>1. CASE StillThere
  <2> DEFINE n == call.index
  <2>1. /\ n \in 1..Len(es) /\ Len(es) \in Nat /\ call.key < es[n].key
        /\ n > 1 => call.key > es[n - 1].key
    BY <1>1, EntryParts DEF StillThere
  <2>2. call.key \in Nat /\ \A i \in 1..Len(es) : es[i].key \in Nat
    BY EntryParts, CacheConstants
  <2> HIDE DEF n
  <2>3. ASSUME NEW i \in 1..Len(es)
        PROVE  IF i <= n - 1 THEN es[i].key < call.key ELSE call.key < es[i].key
    <3>1. CASE i <= n - 1
      <4>1. n - 1 \in 1..Len(es) /\ n > 1 /\ (i = n - 1 \/ i < n - 1)
        BY <2>1, <3>1
      <4>2. i < n - 1 => es[i].key < es[n - 1].key
        BY <4>1 DEF Sorted
      <4>3. es[n - 1].key < call.key
        BY <2>1, <4>1
      <4>4. es[i].key \in Nat /\ es[n - 1].key \in Nat
        BY <2>2, <4>1
      <4> QED BY <2>2, <3>1, <4>1, <4>2, <4>3, <4>4
    <3>2. CASE ~(i <= n - 1)
      <4>1. i = n \/ n < i
        BY <2>1, <3>2
      <4>2. n < i => es[n].key < es[i].key
        BY <2>1 DEF Sorted
      <4>3. es[i].key \in Nat /\ es[n].key \in Nat
        BY <2>1, <2>2
      <4> QED BY <2>1, <2>2, <3>2, <4>1, <4>2, <4>3
    <3> QED BY <3>1, <3>2
  <2>4. Belongs(es, call.key, n - 1)
    BY <2>1, <2>3 DEF Belongs
  <2>5. InsertIndex = (n - 1) + 1
    BY <1>1, <2>1 DEF InsertIndex, n
  <2> QED BY <2>4, <2>5
<1>2. CASE ~StillThere
  <2> DEFINE p == Cardinality({i \in 1..Len(es) : es[i].key < call.key})
  <2>1. Belongs(es, call.key, p)
    BY PointBelongs
  <2>2. InsertIndex = p + 1
    BY <1>2 DEF InsertIndex, InsertionPoint, Indexes
  <2> HIDE DEF p
  <2> QED BY <2>1, <2>2
<1> QED BY <1>1, <1>2

LEMMA InsertKeeps ==
  ASSUME IInv, NEW s \in 1..MaxSize, Insert(s)
  PROVE  IInv' /\ Stays
<1> DEFINE c == call.handle
           e == [key |-> call.key, size |-> s, refs |-> 0, hits |-> 0, mru |-> 0, handle |-> c]
<1>1. /\ call.phase = "insert" /\ s \in ReadSizes[call.key] /\ Heap!Unlock(c)
      /\ entries' = InsertAt(entries, InsertIndex, e) /\ size' = size + s
      /\ call' = [call EXCEPT !.phase = "pin", !.index = InsertIndex]
      /\ hits' = hits /\ marked' = marked
  BY DEF Insert, At
<1>2. /\ call.key \in Key \ KeysIn(entries) /\ call.index > 0 /\ call \in Calls
      /\ call.index \in Nat
  BY <1>1 DEF IInv, CallSound, Owning, Calls
<1>3. c \in Handle \ HandlesIn(entries) /\ contents[c] = c
  BY <1>1 DEF IInv, Blocks, Owning, At
<1>4. entries \in EntrySeq /\ Sorted(entries) /\ HandlesDiffer(entries) /\ Heaps
  BY DEF IInv, Books, Blocks
<1>5. PICK p : InsertIndex = p + 1 /\ Belongs(entries, call.key, p)
  BY <1>2, <1>4, IndexBelongs
<1>6. e \in Entry /\ e.key = call.key /\ e.handle = c /\ e.refs = 0 /\ e.size = s
  BY <1>2, <1>3, CacheConstants DEF Entry
<1> HIDE DEF e
<1>7. /\ entries' \in EntrySeq /\ p + 1 \in 1..Len(entries') /\ entries'[p + 1] = e
      /\ \A j \in 1..Len(entries) :
           entries'[Before(p + 1, j)] = entries[j] /\ Before(p + 1, j) \in 1..Len(entries')
      /\ \A i \in 1..Len(entries') :
           i = p + 1 \/ \E j \in 1..Len(entries) : i = Before(p + 1, j)
      /\ Sorted(entries') /\ HandlesDiffer(entries')
      /\ HandlesIn(entries') = HandlesIn(entries) \cup {c}
      /\ SizesIn(entries', 1..Len(entries')) = s + SizesIn(entries, 1..Len(entries))
  <2>1. entries' = InsertAt(entries, p + 1, e)
    BY <1>1, <1>5
  <2> QED BY <1>3, <1>4, <1>5, <1>6, <2>1, Inserted
<1>8. /\ Heaps' /\ contents' = contents /\ mode'[c] = "free" /\ SameBut(c, mode, mode')
      /\ SameBut(c, place, place')
  BY <1>1, <1>3, <1>4, UnlockedIs
<1>9. Books'
  <2>1. size + SizeOf[call.key] <= MaxSize
    BY <1>1 DEF IInv, RoomKept, MadeRoom
  <2>2. s <= SizeOf[call.key] /\ SizeOf[call.key] \in Nat /\ s \in Nat
    <3>1. SizeOf[call.key] \in Nat /\ ReadSizes[call.key] \subseteq 1..SizeOf[call.key]
      BY <1>2, CacheConstants
    <3> QED BY <1>1, <3>1
  <2>3. size' <= MaxSize
    BY <1>1, <2>1, <2>2, SizeNat
  <2>4. size = SizesIn(entries, 1..Len(entries))
    BY DEF IInv, Books
  <2>5. size' = SizesIn(entries', 1..Len(entries'))
    BY <1>1, <1>7, <2>2, <2>4, SizeNat
  <2> QED BY <1>7, <2>3, <2>5 DEF Books
<1>10. Counts'
  BY <1>1 DEF IInv, Counts
<1>11. call' \in Calls /\ call'.phase = "pin" /\ call'.index = p + 1
  <2>1. p + 1 \in Nat
    BY <1>7
  <2> QED BY <1>1, <1>2, <1>5, <2>1 DEF Calls, Phases
<1>12. CallSound' /\ RoomKept' /\ Enough'
  BY <1>7, <1>11 DEF CallSound, RoomKept, MadeRoom, Enough, At, Fetching, Owning
<1>13. Stored(entries', mode', contents')
  <2> SUFFICES ASSUME NEW i \in 1..Len(entries')
               PROVE  /\ mode'[entries'[i].handle] =
                           (IF entries'[i].refs > 0 THEN "locked" ELSE "free")
                      /\ contents'[entries'[i].handle] = entries'[i].handle
    BY DEF Stored
  <2>1. CASE i = p + 1
    BY <1>3, <1>6, <1>7, <1>8, <2>1
  <2>2. CASE i # p + 1
    <3>1. PICK j \in 1..Len(entries) : i = Before(p + 1, j)
      BY <1>7, <2>2, Zenon
    <3>2. entries'[i] = entries[j]
      BY <1>7, <3>1, Zenon
    <3>3. entries[j].handle \in Handle /\ entries[j].handle # c
      BY <1>3, <1>4, EntryParts DEF HandlesIn
    <3>4. mode'[entries[j].handle] = mode[entries[j].handle]
      BY <1>8, <3>3 DEF SameBut
    <3> QED BY <1>8, <3>2, <3>4 DEF IInv, Blocks, Stored
  <2> QED BY <2>1, <2>2
<1>14. ASSUME NEW g \in Handle, mode'[g] # "none"
       PROVE  g \in HandlesIn(entries')
  <2>1. CASE g = c
    BY <1>7, <2>1
  <2>2. CASE g # c
    <3>1. mode[g] # "none"
      BY <1>8, <1>14, <2>2 DEF SameBut
    <3> QED BY <1>7, <2>2, <3>1 DEF IInv, Blocks
  <2> QED BY <2>1, <2>2
<1>15. Blocks'
  BY <1>7, <1>11, <1>13, <1>14 DEF Blocks, Owning
<1>16. Stays
  <2> SUFFICES ASSUME NEW i \in 1..Len(entries)
               PROVE  /\ \E j \in 1..Len(entries') : entries'[j] = entries[i]
                      /\ place'[entries[i].handle] = place[entries[i].handle]
    BY DEF Stays, Held, Indexes
  <2>1. entries[i].handle \in Handle /\ entries[i].handle # c
    BY <1>3, <1>4, EntryParts DEF HandlesIn
  <2> QED BY <1>7, <1>8, <2>1 DEF SameBut
<1> QED BY <1>8, <1>9, <1>10, <1>12, <1>15, <1>16 DEF IInv

-----------------------------------------------------------------------------
(* The theorems about the cache                                             *)

LEMMA InitHolds == Init => IInv
<1> SUFFICES ASSUME Init
             PROVE  IInv
  OBVIOUS
<1>1. /\ entries = << >> /\ Len(entries) = 0 /\ 1..Len(entries) = {} /\ size = 0 /\ hits = 0
      /\ marked = {} /\ call = Idle
  BY DEF Init
<1>2. /\ mode = [h \in Handle |-> "none"] /\ contents = [h \in Handle |-> Junk]
      /\ place = [h \in Handle |-> Nowhere]
  BY DEF Init, Heap!Init
<1>3. Books
  <2>1. SizesIn(entries, {}) = 0
    <3>1. {} \in SUBSET (1..Len(entries))
      OBVIOUS
    <3> QED BY <3>1, SizesAre, TotalNone
  <2>2. entries \in EntrySeq /\ Sorted(entries)
    BY <1>1 DEF EntrySeq, Sorted
  <2> QED BY <1>1, <2>1, <2>2, CacheConstants DEF Books
<1>4. Counts
  <2>1. HitLimit \in Nat /\ 0 < HitLimit
    BY CacheConstants, FS_CardinalityType
  <2> QED BY <1>1, <2>1 DEF Counts
<1>5. call \in Calls /\ call.phase = "idle"
  BY <1>1, IdleIs
<1>6. CallSound /\ RoomKept /\ Enough
  BY <1>5 DEF CallSound, RoomKept, MadeRoom, Enough, At, Fetching, Owning
<1>7. Heaps
  BY <1>2 DEF Heaps
<1>8. Blocks
  <2>1. HandlesDiffer(entries) /\ Stored(entries, mode, contents)
    BY <1>1 DEF HandlesDiffer, Stored
  <2>2. \A h \in Handle : mode[h] = "none"
    BY <1>2
  <2> QED BY <1>5, <2>1, <2>2 DEF Blocks, Owning
<1> QED BY <1>3, <1>4, <1>6, <1>7, <1>8 DEF IInv

LEMMA NextKeeps ==
  ASSUME IInv, Next
  PROVE  IInv' /\ Stays
<1>1. CASE \E i \in Indexes : LockHit(i)
  BY <1>1, LockHitKeeps
<1>2. CASE \E k \in Key : LockMiss(k)
  BY <1>2, LockMissKeeps
<1>3. CASE \E i \in Indexes : CacheUnlock(i)
  BY <1>3, CacheUnlockKeeps
<1>4. CASE CacheFlush
  BY <1>4, CacheFlushKeeps
<1>5. CASE Work
  <2>1. CASE Room
    BY <2>1, RoomKeeps
  <2>2. CASE \E i \in Indexes : SweepStep(i)
    BY <2>2, SweepStepKeeps
  <2>3. CASE Swept
    BY <2>3, SweptKeeps
  <2>4. CASE NotAllocated
    BY <2>4, NotAllocatedKeeps
  <2>5. CASE \E h \in Handle : Allocated(h)
    BY <2>5, AllocatedKeeps
  <2>6. CASE CacheFlush
    BY <2>6, CacheFlushKeeps
  <2>7. CASE Fill
    BY <2>7, FillKeeps
  <2>8. CASE ReadWorks
    BY <2>8, ReadWorksKeeps
  <2>9. CASE ReadFails
    BY <2>9, ReadFailsKeeps
  <2>10. CASE Drop
    BY <2>10, DropKeeps
  <2>11. CASE \E s \in 1..MaxSize : Insert(s)
    BY <2>11, InsertKeeps
  <2>12. CASE Pin
    BY <2>12, PinKeeps
  <2> QED BY <1>5, <2>1, <2>2, <2>3, <2>4, <2>5, <2>6, <2>7, <2>8, <2>9, <2>10, <2>11, <2>12
          DEF Work
<1> QED BY <1>1, <1>2, <1>3, <1>4, <1>5 DEF Next

LEMMA SpecKeeps == Spec => []IInv
<1>1. IInv /\ [Next]_vars => IInv'
  <2> SUFFICES ASSUME IInv, [Next]_vars
               PROVE  IInv'
    OBVIOUS
  <2>1. CASE Next
    BY <2>1, NextKeeps
  <2>2. CASE UNCHANGED vars
    BY <2>2 DEF vars, IInv, Books, Counts, CallSound, RoomKept, MadeRoom, Heaps, Blocks, Enough, At
  <2> QED BY <2>1, <2>2
<1> QED BY <1>1, InitHolds, PTL DEF Spec

\* The books of the cache are sound at every point of every call, whatever failed on
\* the way (cacheLock, cacheFetchEntryForKey, cacheEnsureSize, cacheSweep): types, the
\* size is the sum of the entries' and no more than it may be, the keys are sorted,
\* and every block belongs to an entry or to the running call.
THEOREM SpecConsistent == Spec => []Consistent
<1>1. IInv => Consistent
  <2> SUFFICES ASSUME IInv
               PROVE  Consistent
    OBVIOUS
  <2>1. TypeOK
    <3>1. entries \in Seq(Entry) /\ size \in 0..MaxSize
      BY SizeNat DEF EntrySeq
    <3>2. hits \in 0..HitLimit /\ marked \subseteq Key
      BY CacheConstants DEF IInv, Counts
    <3>3. call.key \in Key \cup {0} /\ call.handle \in Handle \cup {Nowhere}
      BY SizeNat DEF Calls
    <3> QED BY <3>1, <3>2, <3>3 DEF TypeOK, IInv, Heaps
  <2>2. SizeKept
    BY DEF SizeKept, IInv, Books, SizesOf, SizesIn, Indexes
  <2>3. KeysSorted
    BY DEF KeysSorted, IInv, Books, Sorted, Indexes
  <2>4. BlocksOwned
    BY DEF BlocksOwned, IInv, Blocks, HandlesDiffer, HandlesIn, Stored, Indexes
  <2> QED BY <2>1, <2>2, <2>3, <2>4 DEF Consistent, SoundBooks
<1> QED BY <1>1, SpecKeeps, PTL

\* cacheEnsureSize makes room whenever the references leave enough: the threshold
\* covers the wish, whatever the hits and the ages of the entries are.
THEOREM SpecRoomIsMade == Spec => []RoomIsMade
<1>1. IInv => RoomIsMade
  <2> SUFFICES ASSUME IInv, At("sweep"), marked = {}, SizesOf(Held) + call.want <= MaxSize
               PROVE  Fits(call.want)
    BY DEF RoomIsMade
  <2>1. CASE size - SizesIn(entries, Unreferenced(entries, marked)) + call.want <= MaxSize
    <3>1. Unreferenced(entries, marked) = {} /\ {} \in SUBSET (1..Len(entries))
      BY DEF Unreferenced
    <3>2. SizesIn(entries, {}) = 0
      BY <3>1, SizesAre, TotalNone
    <3>3. SizesIn(entries, Unreferenced(entries, marked)) = 0
      BY <3>1, <3>2, Zenon
    <3> QED BY <2>1, <3>3, SizeNat DEF Fits
  <2>2. CASE \A i \in 1..Len(entries) : entries[i].refs <= 0 => entries[i].key \in marked
    <3>1. \A i \in 1..Len(entries) : entries[i].refs > 0
      <4>1. \A i \in 1..Len(entries) : entries[i].refs \in 0..MaxRefs
        BY SizeNat, EntryParts
      <4> QED BY <2>2, <4>1, CacheConstants
    <3>2. Held = 1..Len(entries)
      BY <3>1 DEF Held, Indexes
    <3>3. SizesOf(Held) = size
      <4>1. SizesOf(Held) = SizesIn(entries, Held)
        BY DEF SizesOf, SizesIn
      <4>2. size = SizesIn(entries, 1..Len(entries))
        BY DEF IInv, Books
      <4> QED BY <3>2, <4>1, <4>2, Zenon
    <3> QED BY <3>3, SizeNat DEF Fits
  <2> QED BY <2>1, <2>2 DEF IInv, Enough
<1> QED BY <1>1, SpecKeeps, PTL

\* No sweep, flush or failure takes an entry that somebody refers to or moves its data
\* (cacheSweep, cacheFlush, cacheUnlock).
THEOREM SpecPinnedStay == Spec => PinnedStay
<1>1. IInv /\ [Next]_vars => [Stays]_vars
  BY NextKeeps
<1> QED BY <1>1, SpecKeeps, PTL DEF Spec, PinnedStay, Stays

-----------------------------------------------------------------------------
(* The heap. An arena, counters, handles and blocks of system memory are    *)
(* passed around as parameters, since an allocation goes through several    *)
(* arenas, joined or moved, in one step.                                    *)

\* The heap's instance has its own copies of the library's operators. The library's
\* theorems are about these two.

LEMMA SameFinite == \A S : Arena!IsFiniteSet(S) <=> IsFiniteSet(S)
BY Zenon DEF Arena!IsFiniteSet, IsFiniteSet

LEMMA SameCardinality == \A S : Arena!Cardinality(S) = Cardinality(S)
BY Zenon DEF Arena!Cardinality, Cardinality

-----------------------------------------------------------------------------
(* The heap: sums and extremes                                              *)

LEMMA Smallest ==
  ASSUME NEW T \in SUBSET Nat, T # {}
  PROVE  Arena!Min(T) \in T /\ \A y \in T : Arena!Min(T) <= y
BY Least DEF Arena!Min

LEMMA Greatest ==
  ASSUME NEW n \in Nat, NEW T \in SUBSET (0..n), T # {}
  PROVE  Arena!Max(T) \in T /\ \A y \in T : y <= Arena!Max(T)
<1> DEFINE D == {n - x : x \in T}
<1>1. D \in SUBSET Nat /\ D # {}
  <2>1. \A x \in T : n - x \in Nat
    OBVIOUS
  <2>2. PICK x : x \in T
    OBVIOUS
  <2>3. n - x \in D
    BY <2>2
  <2> QED BY <2>1, <2>3
<1> HIDE DEF D
<1>2. PICK d \in D : \A e \in D : d <= e
  BY <1>1, Least
<1> USE DEF D
<1>3. PICK x \in T : d = n - x
  OBVIOUS
<1>4. \A y \in T : n - y \in D
  OBVIOUS
<1> HIDE DEF D
<1>5. \A y \in T : y \in Nat /\ n - x <= n - y
  BY <1>2, <1>3, <1>4
<1>6. \A y \in T : x >= y
  BY <1>5
<1>7. \E z \in T : \A y \in T : z >= y
  BY <1>6
<1>8. Arena!Max(T) \in T /\ \A y \in T : Arena!Max(T) >= y
  BY <1>7 DEF Arena!Max
<1> QED BY <1>5, <1>8

\* A sum bounds its parts, so that a finite set of numbers has a bound.
LEMMA FiniteBounded ==
  ASSUME NEW T \in SUBSET Nat, IsFiniteSet(T)
  PROVE  \E n \in Nat : \A t \in T : t <= n
<1>1. PICK w : w = [t \in T |-> t]
  OBVIOUS
<1>2. \A t \in T : w[t] \in Nat /\ w[t] = t
  BY <1>1
<1>3. Total(w, T) \in Nat
  BY <1>2, TotalNat
<1>4. ASSUME NEW t \in T
      PROVE  t <= Total(w, T)
  <2>1. Total(w, T) = w[t] + Total(w, T \ {t})
    BY <1>2, TotalTakes
  <2>2. Total(w, T \ {t}) \in Nat
    <3>1. IsFiniteSet(T \ {t}) /\ \A c \in T \ {t} : w[c] \in Nat
      BY <1>2, FS_RemoveElement
    <3> QED BY <3>1, TotalNat
  <2> QED BY <1>2, <2>1, <2>2
<1> QED BY <1>3, <1>4

\* Sums of two weights, and of weights that agree.
SumOf(S, u, v, w) == \A x \in S : v[x] \in Nat /\ w[x] \in Nat /\ u[x] = v[x] + w[x]
LEMMA TotalAdds ==
  ASSUME NEW S, IsFiniteSet(S), NEW u, NEW v, NEW w, SumOf(S, u, v, w)
  PROVE  Total(u, S) = Total(v, S) + Total(w, S)
<1> USE DEF SumOf
<1> DEFINE Wrong(s) == Total(u, s) # Total(v, s) + Total(w, s)
           Bad == {k \in Nat : \E s \in SUBSET S : Cardinality(s) = k /\ Wrong(s)}
<1>1. Cardinality(S) \in Nat
  BY FS_CardinalityType
<1> SUFFICES ASSUME Bad # {}
             PROVE  FALSE
  BY <1>1
<1>2. PICK m \in Bad : \A k \in Bad : m <= k
  BY Least
<1>3. PICK s \in SUBSET S : Cardinality(s) = m /\ Wrong(s)
  BY <1>2
<1>4. IsFiniteSet(s)
  BY FS_Subset
<1>5. CASE s = {}
  <2>1. Total(u, {}) = 0 /\ Total(v, {}) = 0 /\ Total(w, {}) = 0
    BY TotalNone
  <2>2. Total(u, s) = 0 /\ Total(v, s) = 0 /\ Total(w, s) = 0
    BY <1>5, <2>1, Zenon
  <2> QED BY <1>3, <2>2
<1>6. CASE s # {}
  <2>1. PICK e \in s : TRUE
    BY <1>6
  <2>2. PICK r \in SUBSET S : r = s \ {e}
    OBVIOUS
  <2>3. Cardinality(r) = m - 1 /\ m - 1 \in Nat /\ IsFiniteSet(r)
    <3>1. Cardinality(s \ {e}) = m - 1 /\ m - 1 \in Nat
      BY <1>3, <1>4, SmallerRest
    <3>2. IsFiniteSet(r)
      BY FS_Subset
    <3> QED BY <2>2, <3>1, <3>2, Zenon
  <2>4. m - 1 \notin Bad
    <3>1. m \in Nat
      OBVIOUS
    <3> HIDE DEF Bad
    <3> QED BY <1>2, <2>3, <3>1
  <2>5. Total(u, r) = Total(v, r) + Total(w, r)
    <3> HIDE DEF Wrong
    <3>1. ~Wrong(r)
      BY <2>3, <2>4
    <3> QED BY <3>1 DEF Wrong
  <2>6. \A x \in s : u[x] \in Nat /\ v[x] \in Nat /\ w[x] \in Nat
    OBVIOUS
  <2>7. /\ Total(u, s) = u[e] + Total(u, s \ {e}) /\ Total(v, s) = v[e] + Total(v, s \ {e})
        /\ Total(w, s) = w[e] + Total(w, s \ {e})
    BY <1>4, <2>6, TotalTakes
  <2>8. /\ Total(u, s) = u[e] + Total(u, r) /\ Total(v, s) = v[e] + Total(v, r)
        /\ Total(w, s) = w[e] + Total(w, r)
    BY <2>2, <2>7, Zenon
  <2>9. Total(v, r) \in Nat /\ Total(w, r) \in Nat
    BY <2>3, TotalNat
  <2> QED BY <1>3, <2>5, <2>6, <2>8, <2>9
<1> QED BY <1>5, <1>6

LEMMA TotalAlike ==
  ASSUME NEW S, IsFiniteSet(S), NEW w, NEW v, \A x \in S : w[x] \in Nat /\ w[x] = v[x]
  PROVE  Total(w, S) = Total(v, S)
<1>1. PICK b : b = [x \in S |-> x]
  OBVIOUS
<1>2. Pairs(b, S, S) /\ Carries(b, S, w, v)
  BY <1>1 DEF Pairs, Carries
<1> QED BY <1>2, TotalMapped

\* The sizes of a set of blocks, of the arena or of system memory.
SizeAt(m) == [a \in DOMAIN m |-> m[a].size]

LEMMA BytesAre ==
  ASSUME NEW m, NEW S \in SUBSET (DOMAIN m)
  PROVE  Arena!BytesOf(m, S) = Total(SizeAt(m), S)
<1> DEFINE Adding(f) == f = [s \in SUBSET S |->
                               IF s = {} THEN 0
                               ELSE m[Pick(s)].size + f[s \ {Pick(s)}]]
<1>1. Arena!BytesOf(m, S) = (CHOOSE f : Adding(f))[S]
  BY DEF Arena!BytesOf, Arena!MapThenSumSet, Arena!MapThenFoldSet, Pick
<1>2. \A f : Adding(f) <=> Adds(SizeAt(m), S, f)
  <2>1. \A s \in SUBSET S : s # {} => SizeAt(m)[Pick(s)] = m[Pick(s)].size
    BY PickIn DEF SizeAt
  <2>2. \A f : \A s \in SUBSET S : Level(SizeAt(m), f, s) =
          IF s = {} THEN 0 ELSE m[Pick(s)].size + f[s \ {Pick(s)}]
    BY <2>1 DEF Level
  <2> QED BY <2>2 DEF Adds
<1> HIDE DEF Adding
<1>3. (CHOOSE f : Adding(f)) = (CHOOSE f : Adds(SizeAt(m), S, f))
  BY <1>2
<1> QED BY <1>1, <1>3 DEF Total

\* What the merges of a compaction add.
LEMMA MergedIs ==
  ASSUME NEW m, NEW to, NEW S
  PROVE  Arena!MapThenSumSet(LAMBDA b :
           Arena!Left(m, to, b), S) = Total([b \in S |-> Arena!Left(m, to, b)], S)
<1> DEFINE w == [b \in S |-> Arena!Left(m, to, b)]
           Adding(f) == f = [s \in SUBSET S |->
                               IF s = {} THEN 0
                               ELSE Arena!Left(m, to, Pick(s)) + f[s \ {Pick(s)}]]
<1>1. Arena!MapThenSumSet(LAMBDA b : Arena!Left(m, to, b), S) = (CHOOSE f : Adding(f))[S]
  BY DEF Arena!MapThenSumSet, Arena!MapThenFoldSet, Pick
<1>2. \A f : Adding(f) <=> Adds(w, S, f)
  <2>1. \A s \in SUBSET S : s # {} => w[Pick(s)] = Arena!Left(m, to, Pick(s))
    BY PickIn
  <2> HIDE DEF w
  <2>2. \A f : \A s \in SUBSET S : Level(w, f, s) =
          IF s = {} THEN 0 ELSE Arena!Left(m, to, Pick(s)) + f[s \ {Pick(s)}]
    BY <2>1 DEF Level
  <2> QED BY <2>2 DEF Adds
<1> HIDE DEF Adding, w
<1>3. (CHOOSE f : Adding(f)) = (CHOOSE f : Adds(w, S, f))
  BY <1>2
<1>4. Total(w, S) = (CHOOSE f : Adds(w, S, f))[S]
  BY DEF Total
<1> QED BY <1>1, <1>3, <1>4 DEF w

-----------------------------------------------------------------------------
(* Arenas that are tiled                                                    *)

Blocky == [size : Nat \ {0}, state : {"free", "movable", "locked"},
           handle : Slot \cup {Arena!NoHandle}, bytes : Slot \cup {Junk}]
InArena(m) ==
  /\ DOMAIN m \subseteq 0..(ArenaSize - 1) /\ 0 \in DOMAIN m
  /\ \A a \in DOMAIN m : m[a] \in Blocky
Closed(m) == \A a \in DOMAIN m : Arena!After(m, a) = ArenaSize \/ Arena!After(m, a) \in DOMAIN m
InOrder(m) == \A a, b \in DOMAIN m : a < b => Arena!After(m, a) <= b
Tiles(m) == InArena(m) /\ Closed(m) /\ InOrder(m)

LEMMA Places ==
  ASSUME Arena!HeapConstants
  PROVE  ArenaSize \in Nat /\ Overhead \in Nat /\ Overhead > 0 /\ ArenaSize > 0
         /\ MinSplit \in Nat /\ MinSplit > Overhead /\ Sizes \subseteq Nat \ {0}
         /\ Slot \subseteq Nat /\ Arena!NoHandle \notin Slot /\ Junk \notin Slot
BY DEF Arena!HeapConstants, Arena!NoHandle

LEMMA Ends ==
  ASSUME Arena!HeapConstants, NEW m, InArena(m)
  PROVE  /\ IsFiniteSet(DOMAIN m) /\ Cardinality(DOMAIN m) \in Nat
         /\ \A a \in DOMAIN m :
              /\ a \in Nat /\ a < ArenaSize /\ m[a].size \in Nat /\ m[a].size > 0
              /\ Arena!After(m, a) \in Nat /\ Arena!After(m, a) > a
              /\ Arena!After(m, a) = a + m[a].size + Overhead
<1>1. IsFiniteSet(0..(ArenaSize - 1))
  BY Places, FS_Interval
<1>2. IsFiniteSet(DOMAIN m)
  BY <1>1, FS_Subset DEF InArena
<1>3. Cardinality(DOMAIN m) \in Nat
  BY <1>2, FS_CardinalityType
<1>4. ASSUME NEW a \in DOMAIN m
      PROVE  /\ a \in Nat /\ a < ArenaSize /\ m[a].size \in Nat /\ m[a].size > 0
             /\ Arena!After(m, a) \in Nat /\ Arena!After(m, a) > a
             /\ Arena!After(m, a) = a + m[a].size + Overhead
  <2>1. a \in 0..(ArenaSize - 1) /\ m[a] \in Blocky
    BY DEF InArena
  <2>2. m[a].size \in Nat /\ m[a].size > 0
    BY <2>1 DEF Blocky
  <2> QED BY <2>1, <2>2, Places DEF Arena!After
<1> QED BY <1>2, <1>3, <1>4

LEMMA Within ==
  ASSUME Arena!HeapConstants, NEW m, Tiles(m), NEW a \in DOMAIN m
  PROVE  Arena!After(m, a) <= ArenaSize /\ m[a].size <= ArenaSize
<1>1. Arena!After(m, a) <= ArenaSize
  BY Ends, Places DEF Tiles, Closed
<1> QED BY <1>1, Ends, Places DEF Tiles

LEMMA BlockBefore ==
  ASSUME Arena!HeapConstants, NEW m, Tiles(m), NEW b \in DOMAIN m \cup {ArenaSize}, b # 0
  PROVE  \E c \in DOMAIN m : Arena!After(m, c) = b /\ c < b
<1> DEFINE T == {c \in DOMAIN m : c < b}
<1>1. InArena(m) /\ b \in Nat /\ ArenaSize \in Nat /\ b <= ArenaSize /\ b > 0
  BY Places, Ends DEF Tiles
<1>2. T \in SUBSET (0..ArenaSize) /\ 0 \in T
  BY <1>1, Ends DEF InArena
<1> HIDE DEF T
<1>3. PICK c : c = Arena!Max(T)
  OBVIOUS
<1>4. c \in T /\ \A y \in T : y <= c
  BY <1>1, <1>2, <1>3, Greatest
<1>5. c \in DOMAIN m /\ c < b
  BY <1>4 DEF T
<1>6. /\ Arena!After(m, c) \in Nat /\ Arena!After(m, c) > c /\ c \in Nat
      /\ Arena!After(m, c) = ArenaSize \/ Arena!After(m, c) \in DOMAIN m
  BY <1>1, <1>5, Ends DEF Tiles, Closed
<1>7. Arena!After(m, c) <= b
  <2>1. CASE b \in DOMAIN m
    BY <1>5, <2>1 DEF Tiles, InOrder
  <2>2. CASE b = ArenaSize
    BY <1>5, <2>2, Within
  <2> QED BY <2>1, <2>2
<1>8. ~(Arena!After(m, c) < b)
  <2> SUFFICES ASSUME Arena!After(m, c) < b
               PROVE  FALSE
    OBVIOUS
  <2>1. Arena!After(m, c) \in DOMAIN m
    BY <1>1, <1>6
  <2>2. Arena!After(m, c) \in T
    BY <2>1 DEF T
  <2> QED BY <1>4, <1>6, <2>2
<1> QED BY <1>1, <1>5, <1>6, <1>7, <1>8

LEMMA OneBefore ==
  ASSUME Arena!HeapConstants, NEW m, Tiles(m), NEW a \in DOMAIN m, NEW c \in DOMAIN m,
         Arena!After(m, a) = Arena!After(m, c)
  PROVE  a = c
<1>1. a \in Nat /\ c \in Nat /\ Arena!After(m, a) > a /\ Arena!After(m, c) > c
        /\ Arena!After(m, a) \in Nat
  BY Ends DEF Tiles
<1>2. /\ a < c => Arena!After(m, a) <= c
      /\ c < a => Arena!After(m, c) <= a
  BY DEF Tiles, InOrder
<1> QED BY <1>1, <1>2

\* The blocks account for every byte of the arena.
LEMMA TilesFill ==
  ASSUME Arena!HeapConstants, NEW m, Tiles(m)
  PROVE  Arena!BytesOf(m, DOMAIN m) + Cardinality(DOMAIN m) * Overhead = ArenaSize
<1> DEFINE D == DOMAIN m
           w == SizeAt(m)
           Low(b) == {a \in D : a < b}
           Wrong(b) == Total(w, Low(b)) + Cardinality(Low(b)) * Overhead # b
           Bad == {b \in D \cup {ArenaSize} : Wrong(b)}
<1>0. InArena(m)
  BY DEF Tiles
<1>1. /\ ArenaSize \in Nat /\ Overhead \in Nat /\ IsFiniteSet(D)
      /\ \A a \in D : a \in Nat /\ a < ArenaSize /\ w[a] \in Nat /\ w[a] = m[a].size
  BY <1>0, Places, Ends DEF SizeAt
<1>2. Low(ArenaSize) = D
  BY <1>1
<1>3. Arena!BytesOf(m, D) = Total(w, D)
  <2>1. D \in SUBSET (DOMAIN m)
    OBVIOUS
  <2> QED BY <2>1, BytesAre
<1> HIDE DEF w
<1> SUFFICES ASSUME Bad # {}
             PROVE  FALSE
  <2>1. Bad = {} => ~Wrong(ArenaSize)
    OBVIOUS
  <2> HIDE DEF Low
  <2> QED BY <1>2, <1>3, <2>1
<1>4. Bad \in SUBSET Nat
  BY <1>1
<1>5. PICK b \in Bad : \A c \in Bad : b <= c
  <2> HIDE DEF Bad
  <2> QED BY <1>4, Least
<1>6. b \in D \cup {ArenaSize} /\ Wrong(b)
  OBVIOUS
<1>7. CASE b = 0
  <2>1. Low(b) = {}
    BY <1>1, <1>7
  <2>2. Total(w, {}) = 0 /\ Cardinality({}) = 0
    BY TotalNone, FS_EmptySet
  <2>3. Total(w, Low(b)) = 0 /\ Cardinality(Low(b)) = 0
    BY <2>1, <2>2, Zenon
  <2> HIDE DEF Low
  <2> QED BY <1>1, <1>6, <1>7, <2>3
<1>8. CASE b # 0
  <2>1. PICK c \in D : Arena!After(m, c) = b /\ c < b
    BY <1>6, <1>8, BlockBefore
  <2>2. ~Wrong(c)
    <3>1. c \in D \cup {ArenaSize} /\ ~(b <= c)
      BY <1>1, <1>4, <2>1
    <3>2. c \notin Bad
      BY <1>5, <3>1
    <3> QED BY <3>1, <3>2
  <2>3. Low(b) = Low(c) \cup {c} /\ c \notin Low(c)
    <3>1. ASSUME NEW a \in D, c < a, a < b
          PROVE  FALSE
      <4>1. Arena!After(m, c) <= a
        BY <2>1, <3>1 DEF Tiles, InOrder
      <4> QED BY <1>1, <1>4, <2>1, <3>1, <4>1
    <3>2. \A a \in D : a < b <=> a < c \/ a = c
      BY <1>1, <1>4, <2>1, <3>1
    <3> QED BY <1>1, <2>1, <3>2
  <2>4. Low(b) \in SUBSET D /\ Low(c) \in SUBSET D /\ c \in Low(b)
    BY <2>1
  <2>5. b = c + w[c] + Overhead
    BY <1>0, <1>1, <2>1, Ends
  <2> HIDE DEF Low
  <2>6. IsFiniteSet(Low(b)) /\ IsFiniteSet(Low(c)) /\ \A a \in Low(b) : w[a] \in Nat
    BY <1>1, <2>4, FS_Subset
  <2>7. Total(w, Low(b)) = w[c] + Total(w, Low(c))
    <3>1. Total(w, Low(b)) = w[c] + Total(w, Low(b) \ {c})
      BY <2>4, <2>6, TotalTakes
    <3>2. Low(b) \ {c} = Low(c)
      BY <2>3
    <3> QED BY <3>1, <3>2, Zenon
  <2>8. Cardinality(Low(b)) = Cardinality(Low(c)) + 1 /\ Cardinality(Low(c)) \in Nat
    <3>1. Cardinality(Low(c) \cup {c}) = Cardinality(Low(c)) + 1
      BY <2>3, <2>6, FS_AddElement
    <3> QED BY <2>3, <2>6, <3>1, FS_CardinalityType, Zenon
  <2>9. (Cardinality(Low(c)) + 1) * Overhead = Cardinality(Low(c)) * Overhead + Overhead
        /\ Cardinality(Low(c)) * Overhead \in Nat
    BY <1>1, <2>8
  <2>10. Total(w, Low(c)) \in Nat
    <3>1. \A a \in Low(c) : w[a] \in Nat
      BY <1>1, <2>4
    <3> QED BY <2>6, <3>1, TotalNat
  <2>11. w[c] \in Nat /\ c \in Nat
    BY <1>1
  <2>12. PICK x, y : x = Total(w, Low(c)) /\ y = Cardinality(Low(c)) * Overhead
    OBVIOUS
  <2>13. x + y = c
    BY <2>2, <2>12
  <2>14. Total(w, Low(b)) + Cardinality(Low(b)) * Overhead = (w[c] + x) + (y + Overhead)
    BY <2>7, <2>8, <2>9, <2>12
  <2> QED BY <1>1, <1>6, <2>5, <2>9, <2>10, <2>11, <2>12, <2>13, <2>14
<1> QED BY <1>7, <1>8


-----------------------------------------------------------------------------
(* Runs of neighbours                                                       *)

Begins(m, S, a) ==
  /\ a \in DOMAIN m /\ m[a].state \in S
  /\ \A c \in DOMAIN m : Arena!After(m, c) = a => m[c].state \notin S

\* What a run is, from its first block to its last.
RunSound(m, S, r) ==
  /\ r \subseteq DOMAIN m /\ Arena!Min(r) \in r /\ Arena!Max(r) \in r
  /\ \A b \in r : Arena!Min(r) <= b /\ b <= Arena!Max(r) /\ m[b].state \in S
  /\ \A b \in DOMAIN m : Arena!Min(r) <= b /\ b <= Arena!Max(r) => b \in r
  /\ r = Arena!Run(m, Arena!Min(r), S) /\ Begins(m, S, Arena!Min(r))

LEMMA RunFrom ==
  ASSUME Arena!HeapConstants, NEW m, Tiles(m), NEW S, NEW a, Begins(m, S, a)
  PROVE  RunSound(m, S, Arena!Run(m, a, S)) /\ Arena!Min(Arena!Run(m, a, S)) = a
<1> DEFINE r == Arena!Run(m, a, S)
<1>1. /\ \A b \in DOMAIN m : b \in Nat /\ b < ArenaSize
      /\ a \in DOMAIN m /\ m[a].state \in S /\ ArenaSize \in Nat
  BY Ends, Places DEF Tiles, Begins
<1>2. r \subseteq DOMAIN m /\ a \in r /\ \A b \in r : a <= b
  <2>1. \A c \in DOMAIN m : a <= c /\ c <= a => c = a
    BY <1>1
  <2> QED BY <1>1, <2>1 DEF Arena!Run
<1>3. \A b \in r : \A c \in DOMAIN m : a <= c /\ c <= b => m[c].state \in S /\ c \in r
  <2> SUFFICES ASSUME NEW b \in r, NEW c \in DOMAIN m, a <= c, c <= b
               PROVE  m[c].state \in S /\ c \in r
    OBVIOUS
  <2>1. b \in DOMAIN m /\ \A d \in DOMAIN m : a <= d /\ d <= b => m[d].state \in S
    BY DEF Arena!Run
  <2>2. \A d \in DOMAIN m : d <= c => d <= b
    BY <1>1, <2>1
  <2> QED BY <2>1, <2>2 DEF Arena!Run
<1> HIDE DEF r
<1>4. r \in SUBSET (0..ArenaSize) /\ r \in SUBSET Nat /\ r # {}
  BY <1>1, <1>2
<1>5. Arena!Max(r) \in r /\ (\A b \in r : b <= Arena!Max(r)) /\ Arena!Min(r) \in r
        /\ \A b \in r : Arena!Min(r) <= b
  BY <1>1, <1>4, Greatest, Smallest
<1>6. Arena!Min(r) = a
  BY <1>1, <1>2, <1>5
<1>7. \A b \in r : m[b].state \in S
  BY <1>1, <1>2, <1>3
<1>8. \A b \in DOMAIN m : Arena!Min(r) <= b /\ b <= Arena!Max(r) => b \in r
  BY <1>3, <1>5, <1>6
<1>9. r = Arena!Run(m, Arena!Min(r), S) /\ Begins(m, S, Arena!Min(r))
  BY <1>6 DEF r
<1>10. RunSound(m, S, r)
  BY <1>2, <1>5, <1>6, <1>7, <1>8, <1>9 DEF RunSound
<1> QED BY <1>6, <1>10 DEF r

LEMMA RunIs ==
  ASSUME Arena!HeapConstants, NEW m, Tiles(m), NEW S, NEW r \in Arena!Runs(m, S)
  PROVE  RunSound(m, S, r)
<1>1. PICK a : Begins(m, S, a) /\ r = Arena!Run(m, a, S)
  BY DEF Arena!Runs, Begins
<1> QED BY <1>1, RunFrom

LEMMA RunOf ==
  ASSUME Arena!HeapConstants, NEW m, Tiles(m), NEW S, NEW b \in DOMAIN m, m[b].state \in S
  PROVE  \E r \in Arena!Runs(m, S) : b \in r
<1> DEFINE T == {a \in DOMAIN m : a <= b /\ \A c \in DOMAIN m : a <= c /\ c <= b
             => m[c].state \in S}
<1>1. \A c \in DOMAIN m : c \in Nat
  BY Ends DEF Tiles
<1>2. b \in T /\ T \in SUBSET Nat
  <2>1. \A c \in DOMAIN m : b <= c /\ c <= b => c = b
    BY <1>1
  <2> QED BY <1>1, <2>1
<1>3. PICK a \in T : \A c \in T : a <= c
  <2> HIDE DEF T
  <2> QED BY <1>2, Least
<1>4. ASSUME NEW c \in DOMAIN m, Arena!After(m, c) = a, m[c].state \in S
      PROVE  FALSE
  <2>1. c < a
    BY <1>1, <1>4, Ends DEF Tiles
  <2>2. \A d \in DOMAIN m : c <= d => d = c \/ a <= d
    BY <1>1, <1>4 DEF Tiles, InOrder
  <2>3. c \in T
    BY <1>1, <1>3, <1>4, <2>1, <2>2
  <2> QED BY <1>1, <1>3, <2>1, <2>3
<1>5. Begins(m, S, a)
  BY <1>1, <1>3, <1>4 DEF Begins
<1>6. Arena!Run(m, a, S) \in Arena!Runs(m, S) /\ b \in Arena!Run(m, a, S)
  BY <1>3, <1>5 DEF Arena!Runs, Arena!Run, Begins
<1> QED BY <1>6

\* A block in a run that is not its first has its predecessor in it.
LEMMA RunHolds ==
  ASSUME Arena!HeapConstants, NEW m, Tiles(m), NEW S, NEW r, RunSound(m, S, r),
         NEW a \in DOMAIN m, Arena!After(m, a) \in r, Arena!After(m, a) # Arena!Min(r)
  PROVE  a \in r
<1>1. \A c \in DOMAIN m : c \in Nat
  BY Ends DEF Tiles
<1>2. /\ Arena!Min(r) \in DOMAIN m /\ Arena!Min(r) <= Arena!After(m, a)
           /\ Arena!After(m, a) <= Arena!Max(r)
      /\ Arena!After(m, a) \in DOMAIN m /\ Arena!Max(r) \in DOMAIN m
  BY DEF RunSound
<1>3. a < Arena!After(m, a)
  BY Ends DEF Tiles
<1>4. Arena!Min(r) <= a
  <2>1. a < Arena!Min(r) => Arena!After(m, a) <= Arena!Min(r)
    BY <1>2 DEF Tiles, InOrder
  <2> QED BY <1>1, <1>2, <2>1
<1> QED BY <1>1, <1>2, <1>3, <1>4 DEF RunSound

LEMMA RunEnds ==
  ASSUME Arena!HeapConstants, NEW m, Tiles(m), NEW S, NEW r, RunSound(m, S, r)
  PROVE  /\ \/ Arena!After(m, Arena!Max(r)) = ArenaSize
            \/ Arena!After(m, Arena!Max(r)) \in DOMAIN m
                 /\ m[Arena!After(m, Arena!Max(r))].state \notin S
         /\ Arena!Span(m, r) \in Nat /\ Arena!Span(m, r) > 0
         /\ \A a \in r : m[a].size <= Arena!Span(m, r)
<1> DEFINE z == Arena!After(m, Arena!Max(r))
<1>1. \A c \in DOMAIN m : c \in Nat /\ m[c].size > 0 /\ m[c].size \in Nat
                          /\ Arena!After(m, c) \in Nat
                               /\ Arena!After(m, c) = c + m[c].size + Overhead
  BY Ends DEF Tiles
<1>2. /\ Arena!Min(r) \in DOMAIN m /\ Arena!Max(r) \in DOMAIN m /\ r \subseteq DOMAIN m
      /\ \A a \in r : Arena!Min(r) <= a /\ a <= Arena!Max(r)
      /\ Arena!Min(r) <= Arena!Max(r)
  BY DEF RunSound
<1>3. z = ArenaSize \/ z \in DOMAIN m
  BY <1>2 DEF Tiles, Closed
<1>4. ASSUME z \in DOMAIN m, m[z].state \in S
      PROVE  FALSE
  <2>1. Arena!Max(r) < z
    BY <1>2, Ends DEF Tiles
  <2>2. \A c \in DOMAIN m : Arena!Min(r) <= c /\ c <= z => m[c].state \in S
    <3> SUFFICES ASSUME NEW c \in DOMAIN m, Arena!Min(r) <= c, c <= z
                 PROVE  m[c].state \in S
      OBVIOUS
    <3>1. Arena!Max(r) < c => z <= c
      BY <1>2 DEF Tiles, InOrder
    <3>2. c <= Arena!Max(r) \/ c = z
      BY <1>1, <1>2, <1>4, <3>1
    <3> QED BY <1>4, <3>2 DEF RunSound
  <2>3. z \in Arena!Run(m, Arena!Min(r), S)
    <3>1. Arena!Min(r) <= z
      <4>1. Arena!Min(r) \in Nat /\ Arena!Max(r) \in Nat /\ z \in Nat
        BY <1>1, <1>2
      <4> HIDE DEF z
      <4> QED BY <1>2, <2>1, <4>1
    <3> HIDE DEF z
    <3> QED BY <1>4, <2>2, <3>1 DEF Arena!Run
  <2>4. z <= Arena!Max(r)
    BY <2>3 DEF RunSound
  <2> QED BY <1>1, <1>2, <1>4, <2>1, <2>4
<1>5. ASSUME NEW a \in r
      PROVE  m[a].size <= Arena!Span(m, r) /\ Arena!Span(m, r) \in Nat
  <2>1. Arena!After(m, a) <= z
    <3>1. a < Arena!Max(r) => Arena!After(m, a) <= Arena!Max(r)
      BY <1>2 DEF Tiles, InOrder
    <3> QED BY <1>1, <1>2, <3>1, Places
  <2>2. PICK lo, hi : lo = Arena!Min(r) /\ hi = z /\ lo \in Nat /\ hi \in Nat /\ lo <= a
    BY <1>1, <1>2
  <2>3. Arena!Span(m, r) = hi - lo - Overhead
    BY <2>2 DEF Arena!Span
  <2> QED BY <1>1, <1>2, <2>1, <2>2, <2>3, Places
<1>6. Arena!Span(m, r) \in Nat /\ Arena!Span(m, r) > 0
  <2>1. Arena!Min(r) \in r
    BY DEF RunSound
  <2>2. m[Arena!Min(r)].size <= Arena!Span(m, r) /\ Arena!Span(m, r) \in Nat
    BY <1>5, <2>1
  <2> QED BY <1>1, <1>2, <2>2
<1> QED BY <1>3, <1>4, <1>5, <1>6

LEMMA RunsApart ==
  ASSUME Arena!HeapConstants, NEW m, Tiles(m), NEW S, NEW r, RunSound(m, S, r),
         NEW q, RunSound(m, S, q), NEW b, b \in r, b \in q
  PROVE  r = q
<1>1. ASSUME NEW u, RunSound(m, S, u), NEW v, RunSound(m, S, v), b \in u, b \in v,
             Arena!Min(u) < Arena!Min(v)
      PROVE  FALSE
  <2>1. \A c \in DOMAIN m : c \in Nat
    BY Ends DEF Tiles
  <2>2. /\ Arena!Min(u) \in DOMAIN m /\ Arena!Min(v) \in DOMAIN m /\ b \in DOMAIN m
        /\ Arena!Min(v) <= b /\ b <= Arena!Max(u) /\ Arena!Max(u) \in DOMAIN m
    BY <1>1 DEF RunSound
  <2>3. Arena!Min(v) # 0
    BY <1>1, <2>1, <2>2
  <2>4. PICK c \in DOMAIN m : Arena!After(m, c) = Arena!Min(v)
    BY <2>2, <2>3, BlockBefore
  <2>5. Arena!Min(v) \in u
    BY <1>1, <2>1, <2>2 DEF RunSound
  <2>6. c \in u
    BY <1>1, <2>1, <2>2, <2>4, <2>5, RunHolds
  <2>7. m[c].state \in S
    BY <1>1, <2>6 DEF RunSound
  <2> QED BY <1>1, <2>4, <2>7 DEF RunSound, Begins
<1>2. Arena!Min(r) \in Nat /\ Arena!Min(q) \in Nat
  BY Ends DEF Tiles, RunSound
<1>3. Arena!Min(r) = Arena!Min(q)
  BY <1>1, <1>2
<1> QED BY <1>3 DEF RunSound

-----------------------------------------------------------------------------
(* Runs made one block, and blocks cut in two                               *)

\* In m2 each run of R is one block.
Collapsed(m, R, m2) ==
  /\ DOMAIN m2 = {a \in DOMAIN m : \A r \in R : a \in r => a = Arena!Min(r)}
  /\ \A a \in DOMAIN m2 : m2[a] \in Blocky
  /\ \A r \in R : Arena!After(m2, Arena!Min(r)) = Arena!After(m, Arena!Max(r))
  /\ \A a \in DOMAIN m2 : (\A r \in R : a \notin r) => Arena!After(m2, a) = Arena!After(m, a)

LEMMA CollapsedTiles ==
  ASSUME Arena!HeapConstants, NEW m, Tiles(m), NEW S, NEW R, \A r \in R : RunSound(m, S, r),
         NEW m2, Collapsed(m, R, m2)
  PROVE  Tiles(m2) /\ DOMAIN m2 \subseteq DOMAIN m
<1>1. /\ DOMAIN m2 \subseteq DOMAIN m /\ \A a \in DOMAIN m : a \in Nat
      /\ \A a \in DOMAIN m : Arena!After(m, a) \in Nat
  BY Ends DEF Collapsed, Tiles
<1>2. \A r \in R : \A q \in R : \A b \in r : b \in q => r = q
  BY RunsApart
<1>3. \A r \in R : Arena!Min(r) \in r /\ Arena!Max(r) \in r /\ r \subseteq DOMAIN m
                   /\ \A b \in r : Arena!Min(r) <= b /\ b <= Arena!Max(r) /\ m[b].state \in S
  BY DEF RunSound
<1>4. InArena(m2)
  <2>1. ASSUME NEW r \in R, 0 \in r
        PROVE  0 = Arena!Min(r)
    <3>1. Arena!Min(r) <= 0 /\ Arena!Min(r) \in Nat
      BY <1>1, <1>3, <2>1
    <3> QED BY <3>1
  <2>2. 0 \in DOMAIN m2
    BY <2>1 DEF Collapsed, Tiles, InArena
  <2> QED BY <1>1, <2>2 DEF Collapsed, Tiles, InArena
<1>5. ASSUME NEW a \in DOMAIN m2
      PROVE  Arena!After(m2, a) = ArenaSize \/ Arena!After(m2, a) \in DOMAIN m2
  <2>1. CASE \A r \in R : a \notin r
    <3>1. Arena!After(m2, a) = Arena!After(m, a)
      BY <2>1 DEF Collapsed
    <3>2. ASSUME Arena!After(m, a) \in DOMAIN m, NEW r \in R, Arena!After(m, a) \in r
          PROVE  Arena!After(m, a) = Arena!Min(r)
      BY <1>1, <2>1, <3>2, RunHolds
    <3> QED BY <1>1, <3>1, <3>2 DEF Tiles, Closed, Collapsed
  <2>2. CASE \E r \in R : a \in r
    <3>1. PICK r \in R : a \in r
      BY <2>2
    <3>2. a = Arena!Min(r)
      BY <3>1 DEF Collapsed
    <3>3. Arena!After(m2, a) = Arena!After(m, Arena!Max(r))
      BY <3>2 DEF Collapsed
    <3>4. \/ Arena!After(m, Arena!Max(r)) = ArenaSize
          \/ Arena!After(m, Arena!Max(r)) \in DOMAIN m
               /\ m[Arena!After(m, Arena!Max(r))].state \notin S
      BY RunEnds
    <3>5. \A q \in R : \A b \in q : m[b].state \in S
      BY <1>3
    <3> QED BY <3>3, <3>4, <3>5 DEF Collapsed
  <2> QED BY <2>1, <2>2
<1>6. ASSUME NEW a \in DOMAIN m2, NEW b \in DOMAIN m2, a < b
      PROVE  Arena!After(m2, a) <= b
  <2>1. CASE \A r \in R : a \notin r
    BY <1>1, <1>6, <2>1 DEF Collapsed, Tiles, InOrder
  <2>2. CASE \E r \in R : a \in r
    <3>1. PICK r \in R : a \in r
      BY <2>2
    <3>2. a = Arena!Min(r) /\ Arena!After(m2, a) = Arena!After(m, Arena!Max(r))
      BY <3>1 DEF Collapsed
    <3>3. b \notin r
      <4>1. b \in r => b = Arena!Min(r)
        BY DEF Collapsed
      <4> QED BY <1>1, <1>6, <3>2, <4>1
    <3>4. Arena!Max(r) < b
      <4>1. b <= Arena!Max(r) => b \in r
        BY <1>1, <1>6, <3>2 DEF RunSound
      <4> QED BY <1>1, <1>3, <3>3, <4>1
    <3> QED BY <1>1, <1>3, <3>2, <3>4 DEF Tiles, InOrder
  <2> QED BY <2>1, <2>2
<1> QED BY <1>1, <1>4, <1>5, <1>6 DEF Tiles, Closed, InOrder

\* In m2 some blocks of m are cut in two, the second parts at T.
CutAt(m, m2, T, a) ==
  /\ Arena!After(m2, a) \in T /\ Arena!After(m2, a) < Arena!After(m, a)
  /\ Arena!After(m2, Arena!After(m2, a)) = Arena!After(m, a)
Cut(m, m2, T) ==
  /\ DOMAIN m2 = DOMAIN m \cup T /\ \A a \in DOMAIN m2 : m2[a] \in Blocky
  /\ T \subseteq Nat
  /\ \A a \in DOMAIN m : Arena!After(m2, a) = Arena!After(m, a) \/ CutAt(m, m2, T, a)
  /\ \A x \in T : \E a \in DOMAIN m : Arena!After(m2, a) = x /\ CutAt(m, m2, T, a)

LEMMA CutTiles ==
  ASSUME Arena!HeapConstants, NEW m, Tiles(m), NEW m2, NEW T, Cut(m, m2, T)
  PROVE  Tiles(m2) /\ T \cap DOMAIN m = {}
<1>1. /\ \A a \in DOMAIN m : a \in Nat /\ Arena!After(m, a) \in Nat /\ a < ArenaSize
      /\ \A a \in DOMAIN m2 : a \in Nat
      /\ ArenaSize \in Nat /\ \A a \in DOMAIN m : Arena!After(m, a) <= ArenaSize
  BY Ends, Places, Within DEF Cut, Tiles
<1>2. \A a \in DOMAIN m2 : Arena!After(m2, a) \in Nat /\ a < Arena!After(m2, a)
  <2>1. \A b \in Blocky : b.size \in Nat /\ b.size > 0
    BY DEF Blocky
  <2>2. \A a \in DOMAIN m2 : m2[a].size \in Nat /\ m2[a].size > 0
    BY <2>1 DEF Cut
  <2> QED BY <1>1, <2>2, Places DEF Arena!After
<1>3. \A a \in DOMAIN m : a \in DOMAIN m2
  BY DEF Cut
<1>4. \A x \in T : \E a \in DOMAIN m :
        /\ a < x /\ Arena!After(m2, a) = x /\ x < Arena!After(m, a)
             /\ Arena!After(m2, x) = Arena!After(m, a)
  <2> SUFFICES ASSUME NEW x \in T
               PROVE  \E a \in DOMAIN m :
                        /\ a < x /\ Arena!After(m2, a) = x /\ x < Arena!After(m, a)
                        /\ Arena!After(m2, x) = Arena!After(m, a)
    OBVIOUS
  <2>1. PICK a \in DOMAIN m : Arena!After(m2, a) = x /\ CutAt(m, m2, T, a)
    BY DEF Cut
  <2> QED BY <1>2, <1>3, <2>1 DEF CutAt
<1>5. \A a \in DOMAIN m : /\ Arena!After(m2, a) <= Arena!After(m, a)
                          /\ Arena!After(m2, a) = Arena!After(m, a) \/ Arena!After(m2, a) \in T
  BY <1>1, <1>2, <1>3 DEF Cut, CutAt
<1>6. InArena(m2)
  <2>1. \A x \in T : x \in Nat /\ x < ArenaSize
    BY <1>1, <1>4 DEF Cut
  <2>2. DOMAIN m2 \subseteq 0..(ArenaSize - 1)
    <3>1. \A x \in DOMAIN m2 : x \in Nat /\ x < ArenaSize
      BY <1>1, <2>1 DEF Cut
    <3>2. \A x \in Nat : x < ArenaSize => x \in 0..(ArenaSize - 1)
      BY <1>1
    <3> QED BY <3>1, <3>2
  <2>3. 0 \in DOMAIN m2
    BY DEF Tiles, InArena, Cut
  <2> QED BY <2>2, <2>3 DEF InArena, Cut
<1>7. Closed(m2)
  <2> SUFFICES ASSUME NEW a \in DOMAIN m2
               PROVE  Arena!After(m2, a) = ArenaSize \/ Arena!After(m2, a) \in DOMAIN m2
    BY DEF Closed
  <2>1. CASE a \in DOMAIN m
    BY <1>5, <2>1 DEF Cut, Tiles, Closed
  <2>2. CASE a \in T
    BY <1>4, <2>2 DEF Cut, Tiles, Closed
  <2> QED BY <2>1, <2>2 DEF Cut
<1>8. ASSUME NEW x \in T, x \in DOMAIN m
      PROVE  FALSE
  <2>1. PICK a \in DOMAIN m : a < x /\ x < Arena!After(m, a)
    BY <1>4
  <2>2. Arena!After(m, a) <= x
    BY <1>8, <2>1 DEF Tiles, InOrder
  <2> QED BY <1>1, <1>8, <2>1, <2>2
<1>9. ASSUME NEW a \in DOMAIN m2, NEW b \in DOMAIN m2, a < b
      PROVE  Arena!After(m2, a) <= b
  <2>1. PICK g \in DOMAIN m : /\ g <= a /\ a < Arena!After(m, g)
                                   /\ Arena!After(m2, a) <= Arena!After(m, g)
                              /\ a = g \/ a = Arena!After(m2, g)
    <3>1. CASE a \in DOMAIN m
      BY <1>1, <1>2, <1>3, <1>5, <3>1, Ends DEF Tiles
    <3>2. CASE a \in T
      <4>1. PICK g \in DOMAIN m : /\ g < a /\ Arena!After(m2, g) = a /\ a < Arena!After(m, g)
                                  /\ Arena!After(m2, a) = Arena!After(m, g)
        BY <1>4, <3>2
      <4> QED BY <1>1, <1>9, <4>1
    <3> QED BY <3>1, <3>2 DEF Cut
  <2>2. PICK k \in DOMAIN m : k <= b /\ b < Arena!After(m, k) /\ (b = k \/ b = Arena!After(m2, k))
    <3>1. CASE b \in DOMAIN m
      BY <1>1, <3>1, Ends DEF Tiles
    <3>2. CASE b \in T
      <4>1. PICK k \in DOMAIN m : k < b /\ Arena!After(m2, k) = b /\ b < Arena!After(m, k)
        BY <1>4, <3>2
      <4> QED BY <1>1, <1>9, <4>1
    <3> QED BY <3>1, <3>2 DEF Cut
  <2>3. CASE g < k
    <3>1. Arena!After(m, g) <= k
      BY <2>3 DEF Tiles, InOrder
    <3> QED BY <1>1, <1>2, <1>9, <2>1, <2>2, <3>1
  <2>4. CASE k < g
    <3>1. Arena!After(m, k) <= g
      BY <2>4 DEF Tiles, InOrder
    <3> QED BY <1>1, <1>9, <2>1, <2>2, <3>1
  <2>5. CASE k = g
    BY <1>1, <1>2, <1>9, <2>1, <2>2, <2>5
  <2> QED BY <1>1, <2>3, <2>4, <2>5
<1> QED BY <1>6, <1>7, <1>8, <1>9 DEF Tiles, InOrder


-----------------------------------------------------------------------------
(* The invariant, of an arena m, counters s, handles hs and system blocks sys *)

HandleSort ==
  [state : {"invalid", "movable", "locked", "system", "lockedsystem"},
   data  : (0..(ArenaSize + Arena!Max(Slot))) \cup {Nowhere}]
Counter == [freeBlocks : Int, freeSize : Int, movableBlocks : Int, movableSize : Int,
            lockedBlocks : Int, lockedSize : Int, systemBlocks : Int, systemSize : Int]

\* Blocks name their handles, and handles the blocks they have in the arena.
Named(m, hs) ==
  /\ \A a \in DOMAIN m :
       IF m[a].state = "free" THEN m[a].handle = Arena!NoHandle
       ELSE m[a].handle \in Slot /\ hs[m[a].handle] = [state |-> m[a].state, data |-> a]
  /\ \A h \in Slot : hs[h].state \in {"movable", "locked"} =>
       hs[h].data \in DOMAIN m /\ m[hs[h].data].handle = h

\* The other handles are unused or have a block of system memory.
Elsewhere(hs, sys) ==
  /\ DOMAIN sys = {h \in Slot : hs[h].state \in {"system", "lockedsystem"}}
  /\ \A h \in DOMAIN sys :
       sys[h] \in [size : Sizes, bytes : Slot \cup {Junk}] /\ hs[h].data = Arena!SystemPlace(h)
  /\ \A h \in Slot : hs[h].state = "invalid" => hs[h] = Arena!Unused

\* Free blocks and bytes are what the others leave: with Tiles, exact counts.
Counted(m, s) ==
  /\ s.movableBlocks = Cardinality(Arena!Is(m, "movable"))
  /\ s.movableSize = Arena!BytesOf(m, Arena!Is(m, "movable"))
  /\ s.lockedBlocks = Cardinality(Arena!Is(m, "locked"))
  /\ s.lockedSize = Arena!BytesOf(m, Arena!Is(m, "locked"))
  /\ s.freeBlocks + s.movableBlocks + s.lockedBlocks = Cardinality(DOMAIN m)
  /\ s.freeSize + s.movableSize + s.lockedSize + Cardinality(DOMAIN m) * Overhead = ArenaSize
CountedSystem(sys, s) ==
  s.systemBlocks = Cardinality(DOMAIN sys) /\ s.systemSize = Arena!BytesOf(sys, DOMAIN sys)

Sound(m, s, hs, sys) ==
  /\ Tiles(m) /\ hs \in [Slot -> HandleSort] /\ Named(m, hs) /\ Elsewhere(hs, sys)
  /\ s \in Counter /\ Counted(m, s) /\ CountedSystem(sys, s)

ArenaInv == Sound(header, stats, handles, system)

LEMMA HandleMax ==
  ASSUME Arena!HeapConstants
  PROVE  Arena!Max(Slot) \in Nat /\ Arena!Max(Slot) \in Slot /\ \A h \in Slot : h <= Arena!Max(Slot)
<1>1. IsFiniteSet(Slot) /\ Slot \in SUBSET Nat /\ Slot # {}
  BY SameFinite DEF Arena!HeapConstants
<1>2. PICK n \in Nat : \A h \in Slot : h <= n
  BY <1>1, FiniteBounded
<1>3. Slot \in SUBSET (0..n)
  BY <1>1, <1>2
<1>4. Arena!Max(Slot) \in Slot /\ \A h \in Slot : h <= Arena!Max(Slot)
  BY <1>1, <1>3, Greatest
<1> QED BY <1>1, <1>4

-----------------------------------------------------------------------------
(* The counts of the blocks in one state                                    *)

LEMMA StateCounts ==
  ASSUME Arena!HeapConstants, NEW m, InArena(m), NEW st
  PROVE  /\ IsFiniteSet(Arena!Is(m, st)) /\ Cardinality(Arena!Is(m, st)) \in Nat
         /\ Arena!Is(m, st) \in SUBSET (DOMAIN m)
         /\ Arena!BytesOf(m, Arena!Is(m, st)) = Total(SizeAt(m), Arena!Is(m, st))
         /\ Arena!BytesOf(m, Arena!Is(m, st)) \in Nat
         /\ \A a \in DOMAIN m : SizeAt(m)[a] = m[a].size /\ SizeAt(m)[a] \in Nat
<1>1. Arena!Is(m, st) \in SUBSET (DOMAIN m)
  BY DEF Arena!Is
<1>2. IsFiniteSet(Arena!Is(m, st)) /\ Cardinality(Arena!Is(m, st)) \in Nat
  BY <1>1, Ends, FS_Subset, FS_CardinalityType
<1>3. Arena!BytesOf(m, Arena!Is(m, st)) = Total(SizeAt(m), Arena!Is(m, st))
  BY <1>1, BytesAre
<1>4. \A a \in DOMAIN m : SizeAt(m)[a] = m[a].size /\ SizeAt(m)[a] \in Nat
  BY Ends DEF SizeAt
<1>5. Total(SizeAt(m), Arena!Is(m, st)) \in Nat
  BY <1>1, <1>2, <1>4, TotalNat
<1> QED BY <1>1, <1>2, <1>3, <1>4, <1>5

LEMMA StateKept ==
  ASSUME Arena!HeapConstants, NEW m, InArena(m), NEW m2, InArena(m2), NEW st,
         Arena!Is(m2, st) = Arena!Is(m, st), \A a \in Arena!Is(m, st) : m2[a].size = m[a].size
  PROVE  Arena!BytesOf(m2, Arena!Is(m2, st)) = Arena!BytesOf(m, Arena!Is(m, st))
<1>1. PICK S, w, v : S = Arena!Is(m, st) /\ w = SizeAt(m) /\ v = SizeAt(m2)
  OBVIOUS
<1>2. IsFiniteSet(S) /\ \A a \in S : w[a] \in Nat /\ w[a] = v[a]
  BY <1>1, StateCounts
<1>3. Total(w, S) = Total(v, S)
  BY <1>2, TotalAlike
<1>4. Arena!BytesOf(m, Arena!Is(m, st)) = Total(w, S)
        /\ Arena!BytesOf(m2, Arena!Is(m2, st)) = Total(v, S)
  BY <1>1, StateCounts
<1> QED BY <1>3, <1>4

LEMMA StateGains ==
  ASSUME Arena!HeapConstants, NEW m, InArena(m), NEW m2, InArena(m2), NEW st,
         NEW a, a \notin Arena!Is(m, st), Arena!Is(m2, st) = Arena!Is(m, st) \cup {a},
         \A c \in Arena!Is(m, st) : m2[c].size = m[c].size
  PROVE  /\ Arena!BytesOf(m2, Arena!Is(m2, st)) = Arena!BytesOf(m, Arena!Is(m, st)) + m2[a].size
         /\ Cardinality(Arena!Is(m2, st)) = Cardinality(Arena!Is(m, st)) + 1
<1>1. PICK S, T, w, v : S = Arena!Is(m, st) /\ T = Arena!Is(m2, st) /\ w = SizeAt(m)
                          /\ v = SizeAt(m2)
  OBVIOUS
<1>2. /\ IsFiniteSet(S) /\ IsFiniteSet(T) /\ a \in T /\ T \ {a} = S /\ a \notin S
      /\ T = S \cup {a}
      /\ \A c \in T : v[c] \in Nat
      /\ \A c \in S : w[c] \in Nat /\ w[c] = v[c]
  <2>1. /\ \A c \in T : v[c] \in Nat /\ v[c] = m2[c].size
        /\ \A c \in S : w[c] \in Nat /\ w[c] = m[c].size
    BY <1>1, StateCounts
  <2>2. IsFiniteSet(S) /\ IsFiniteSet(T)
    BY <1>1, StateCounts
  <2>3. T = S \cup {a} /\ a \notin S
    BY <1>1
  <2>4. \A c \in S : m2[c].size = m[c].size
    BY <1>1
  <2> QED BY <2>1, <2>2, <2>3, <2>4
<1>3. Total(v, T) = v[a] + Total(v, T \ {a})
  BY <1>2, TotalTakes
<1>4. Total(w, S) = Total(v, S)
  BY <1>2, TotalAlike
<1>5. Total(v, T \ {a}) = Total(v, S)
  BY <1>2, Zenon
<1>6. v[a] = m2[a].size /\ v[a] \in Nat
  <2>1. a \in DOMAIN m2
    BY <1>1, <1>2 DEF Arena!Is
  <2> QED BY <1>1, <2>1, StateCounts
<1>7. Arena!BytesOf(m, Arena!Is(m, st)) = Total(w, S)
        /\ Arena!BytesOf(m2, Arena!Is(m2, st)) = Total(v, T)
  BY <1>1, StateCounts
<1>8. Cardinality(T) = Cardinality(S) + 1
  BY <1>2, FS_AddElement
<1>9. Arena!BytesOf(m, Arena!Is(m, st)) \in Nat
  BY StateCounts
<1> QED BY <1>1, <1>3, <1>4, <1>5, <1>6, <1>7, <1>8, <1>9

\* With the arena tiled, the free blocks are counted too.
LEMMA CountedFree ==
  ASSUME Arena!HeapConstants, NEW m, Tiles(m), NEW s \in Counter, Counted(m, s)
  PROVE  /\ s.freeBlocks = Cardinality(Arena!Is(m, "free"))
         /\ s.freeSize = Arena!BytesOf(m, Arena!Is(m, "free"))
<1> DEFINE D == DOMAIN m
           w == SizeAt(m)
           F == Arena!Is(m, "free")
           M == Arena!Is(m, "movable")
           L == Arena!Is(m, "locked")
<1>0. InArena(m)
  BY DEF Tiles
<1>1. /\ IsFiniteSet(D) /\ \A a \in D : w[a] \in Nat /\ m[a].state \in {"free", "movable", "locked"}
  BY <1>0, Ends, StateCounts DEF InArena, Blocky
<1>2. /\ D \ F = M \cup L /\ (M \cup L) \ M = L /\ M \subseteq M \cup L /\ M \cap L = {}
      /\ F \cap (M \cup L) = {} /\ D = F \cup (M \cup L)
      /\ F \in SUBSET D /\ M \cup L \in SUBSET D
  BY <1>1 DEF Arena!Is
<1>3. /\ Arena!BytesOf(m, F) = Total(w, F) /\ Arena!BytesOf(m, M) = Total(w, M)
           /\ Arena!BytesOf(m, L) = Total(w, L)
      /\ IsFiniteSet(F) /\ IsFiniteSet(M) /\ IsFiniteSet(L)
      /\ Cardinality(F) \in Nat /\ Cardinality(M) \in Nat /\ Cardinality(L) \in Nat
      /\ Total(w, F) \in Nat /\ Total(w, M) \in Nat /\ Total(w, L) \in Nat
  BY <1>0, StateCounts
<1>4. Arena!BytesOf(m, D) = Total(w, D)
  <2>1. D \in SUBSET (DOMAIN m)
    OBVIOUS
  <2> QED BY <2>1, BytesAre
<1>5. Arena!BytesOf(m, D) + Cardinality(D) * Overhead = ArenaSize
  BY TilesFill
<1> HIDE DEF D, w, F, M, L
<1>6. Total(w, D) = Total(w, F) + Total(w, M \cup L)
  <2>1. Total(w, D) = Total(w, F) + Total(w, D \ F)
    BY <1>1, <1>2, TotalParted
  <2> QED BY <1>2, <2>1, Zenon
<1>7. Total(w, M \cup L) = Total(w, M) + Total(w, L)
  <2>1. IsFiniteSet(M \cup L) /\ \A a \in M \cup L : w[a] \in Nat
    BY <1>1, <1>2, FS_Subset
  <2>2. PICK U : U = M \cup L
    OBVIOUS
  <2>3. Total(w, U) = Total(w, M) + Total(w, U \ M)
    BY <1>2, <2>1, <2>2, TotalParted
  <2>4. U \ M = L
    BY <1>2, <2>2
  <2> QED BY <2>2, <2>3, <2>4, Zenon
<1>8. Cardinality(D) = Cardinality(F) + Cardinality(M) + Cardinality(L)
  <2>1. IsFiniteSet(M \cup L)
          /\ Cardinality(M \cup L) = Cardinality(M) + Cardinality(L) - Cardinality(M \cap L)
    BY <1>3, FS_Union
  <2>2. Cardinality({}) = 0
    BY FS_EmptySet
  <2>3. Cardinality(M \cap L) = 0
    BY <1>2, <2>2, Zenon
  <2>4. Cardinality(F \cup (M \cup L))
          = Cardinality(F) + Cardinality(M \cup L) - Cardinality(F \cap (M \cup L))
    BY <1>3, <2>1, FS_Union
  <2>5. Cardinality(F \cap (M \cup L)) = 0
    BY <1>2, <2>2, Zenon
  <2>6. Cardinality(D) = Cardinality(F \cup (M \cup L))
    BY <1>2, Zenon
  <2> QED BY <1>3, <2>1, <2>3, <2>4, <2>5, <2>6
<1>9. /\ s.movableBlocks = Cardinality(M) /\ s.movableSize = Total(w, M)
      /\ s.lockedBlocks = Cardinality(L) /\ s.lockedSize = Total(w, L)
      /\ s.freeBlocks + s.movableBlocks + s.lockedBlocks = Cardinality(D)
      /\ s.freeSize + s.movableSize + s.lockedSize + Cardinality(D) * Overhead = ArenaSize
  BY <1>3 DEF Counted, D, M, L
<1>10. s.freeBlocks \in Int /\ s.freeSize \in Int
  BY DEF Counter
<1>11. s.freeBlocks = Cardinality(F)
  BY <1>3, <1>8, <1>9, <1>10
<1>12. s.freeSize = Total(w, F)
  <2>1. PICK k, fs : k = Cardinality(D) * Overhead /\ fs = s.freeSize
    OBVIOUS
  <2>2. k \in Int
    <3>1. Cardinality(D) \in Nat
      BY <1>1, FS_CardinalityType
    <3> QED BY <2>1, <3>1, Places
  <2>3. Total(w, F) + Total(w, M) + Total(w, L) + k = ArenaSize
    BY <1>3, <1>4, <1>5, <1>6, <1>7, <2>1, <2>2
  <2>4. fs + Total(w, M) + Total(w, L) + k = ArenaSize
    BY <1>9, <2>1
  <2> QED BY <1>3, <1>10, <2>1, <2>2, <2>3, <2>4, Places
<1> QED BY <1>3, <1>11, <1>12 DEF F

-----------------------------------------------------------------------------
(* Joining the free neighbours                                              *)

Taken(m) == {a \in DOMAIN m : m[a].state # "free"}
SameTaken(m, m2) ==
  /\ Taken(m2) = Taken(m) /\ \A a \in Taken(m) : m2[a] = m[a]
  /\ \A a \in DOMAIN m2 : m2[a].state = "free" => m2[a].handle = Arena!NoHandle

\* A block with a handle is not free.
LEMMA TakenIs ==
  ASSUME Arena!HeapConstants, NEW m, NEW hs, Named(m, hs), NEW a \in DOMAIN m, m[a].handle \in Slot
  PROVE  m[a].state # "free"
<1>1. m[a].handle # Arena!NoHandle
  BY Places
<1>2. m[a].state = "free" => m[a].handle = Arena!NoHandle
  BY DEF Named
<1> QED BY <1>1, <1>2

LEMMA SameTakenKeeps ==
  ASSUME Arena!HeapConstants, NEW m, InArena(m), NEW m2, InArena(m2), SameTaken(m, m2),
         NEW hs, Named(m, hs)
  PROVE  /\ Named(m2, hs)
         /\ \A st \in {"movable", "locked"} :
              Arena!Is(m2, st) = Arena!Is(m, st)
                /\ Arena!BytesOf(m2, Arena!Is(m2, st)) = Arena!BytesOf(m, Arena!Is(m, st))
<1>1. \A a \in DOMAIN m2 : m2[a].state # "free" => a \in DOMAIN m /\ m2[a] = m[a]
  BY DEF SameTaken, Taken
<1>2. \A a \in DOMAIN m : m[a].state # "free" => a \in DOMAIN m2 /\ m2[a] = m[a]
  BY DEF SameTaken, Taken
<1>3. Named(m2, hs)
  <2>1. ASSUME NEW a \in DOMAIN m2
        PROVE  IF m2[a].state = "free" THEN m2[a].handle = Arena!NoHandle
               ELSE m2[a].handle \in Slot /\ hs[m2[a].handle] = [state |-> m2[a].state, data |-> a]
    BY <1>1 DEF Named, SameTaken
  <2>2. ASSUME NEW h \in Slot, hs[h].state \in {"movable", "locked"}
        PROVE  hs[h].data \in DOMAIN m2 /\ m2[hs[h].data].handle = h
    <3>1. hs[h].data \in DOMAIN m /\ m[hs[h].data].handle = h
      BY <2>2 DEF Named
    <3>2. m[hs[h].data].state # "free"
      BY <3>1, TakenIs
    <3> QED BY <1>2, <3>1, <3>2
  <2> QED BY <2>1, <2>2 DEF Named
<1>4. ASSUME NEW st \in {"movable", "locked"}
      PROVE  /\ Arena!Is(m2, st) = Arena!Is(m, st)
                  /\ Arena!BytesOf(m2, Arena!Is(m2, st)) = Arena!BytesOf(m, Arena!Is(m, st))
             /\ \A a \in Arena!Is(m, st) : m2[a].size = m[a].size
  <2>1. Arena!Is(m2, st) = Arena!Is(m, st) /\ \A a \in Arena!Is(m, st) : m2[a].size = m[a].size
    BY <1>1, <1>2 DEF Arena!Is
  <2> QED BY <2>1, StateKept
<1> QED BY <1>3, <1>4

LEMMA JoinedIs ==
  ASSUME Arena!HeapConstants, NEW m, Tiles(m), NEW hs, Named(m, hs)
  PROVE  /\ Tiles(Arena!Joined(m)) /\ DOMAIN Arena!Joined(m) \subseteq DOMAIN m
         /\ SameTaken(m, Arena!Joined(m))
<1> DEFINE R == Arena!Runs(m, {"free"})
           first == {Arena!Min(r) : r \in R}
           run(a) == CHOOSE r \in R : Arena!Min(r) = a
<1>1. PICK j : j = Arena!Joined(m)
  OBVIOUS
<1>2. /\ DOMAIN j = (DOMAIN m \ Arena!Is(m, "free")) \cup first
      /\ \A a \in DOMAIN j :
           j[a] = IF a \in first THEN Arena!FreeBlock(Arena!Span(m, run(a))) ELSE m[a]
  BY <1>1 DEF Arena!Joined
<1>3. \A r \in R : RunSound(m, {"free"}, r)
  BY RunIs
<1>4. \A r \in R : Arena!Min(r) \in r /\ r \subseteq DOMAIN m /\ \A b \in r : m[b].state = "free"
  BY <1>3 DEF RunSound
<1>5. \A b \in DOMAIN m : m[b].state = "free" => \E r \in R : b \in r
  BY RunOf
<1>6. ASSUME NEW r \in R
      PROVE  run(Arena!Min(r)) = r
  <2>1. run(Arena!Min(r)) \in R /\ Arena!Min(run(Arena!Min(r))) = Arena!Min(r)
    BY <1>6
  <2> HIDE DEF run
  <2>2. run(Arena!Min(r)) = Arena!Run(m, Arena!Min(r), {"free"})
          /\ r = Arena!Run(m, Arena!Min(r), {"free"})
    BY <1>3, <2>1 DEF RunSound
  <2> QED BY <2>2, Zenon
<1> HIDE DEF R, run
<1>7. \A a \in first : a \in DOMAIN m /\ m[a].state = "free"
  BY <1>4
<1>8. ASSUME NEW r \in R
      PROVE  /\ Arena!Min(r) \in DOMAIN j /\ j[Arena!Min(r)] = Arena!FreeBlock(Arena!Span(m, r))
             /\ j[Arena!Min(r)] \in Blocky
                  /\ Arena!After(j, Arena!Min(r)) = Arena!After(m, Arena!Max(r))
  <2>1. Arena!Min(r) \in DOMAIN j /\ j[Arena!Min(r)] = Arena!FreeBlock(Arena!Span(m, r))
    BY <1>2, <1>6
  <2>2. RunSound(m, {"free"}, r)
    BY <1>3
  <2>3. Arena!Span(m, r) \in Nat /\ Arena!Span(m, r) > 0
    BY <2>2, RunEnds
  <2>4. j[Arena!Min(r)] \in Blocky /\ j[Arena!Min(r)].size = Arena!Span(m, r)
    BY <2>1, <2>3 DEF Blocky, Arena!FreeBlock, Arena!Block
  <2>5. Arena!Min(r) \in Nat /\ Arena!After(m, Arena!Max(r)) \in Nat
    <3>1. Arena!Min(r) \in DOMAIN m /\ Arena!Max(r) \in DOMAIN m
      BY <2>2 DEF RunSound
    <3> QED BY <3>1, Ends DEF Tiles
  <2>6. Arena!After(j, Arena!Min(r)) = Arena!Min(r) + Arena!Span(m, r) + Overhead
    BY <2>4 DEF Arena!After
  <2>7. PICK lo, hi : lo = Arena!Min(r) /\ hi = Arena!After(m, Arena!Max(r))
    OBVIOUS
  <2>8. Arena!Span(m, r) = hi - lo - Overhead
    BY <2>7 DEF Arena!Span
  <2> QED BY <2>1, <2>4, <2>5, <2>6, <2>7, <2>8, Places
<1>9. \A a \in DOMAIN j : a \notin first => a \in DOMAIN m /\ m[a].state # "free" /\ j[a] = m[a]
  BY <1>2 DEF Arena!Is
<1>10. Collapsed(m, R, j)
  <2>1. DOMAIN j = {a \in DOMAIN m : \A r \in R : a \in r => a = Arena!Min(r)}
    <3>1. ASSUME NEW a \in DOMAIN j, NEW r \in R, a \in r
          PROVE  a = Arena!Min(r)
      <4>1. a \in first
        BY <1>4, <1>9, <3>1
      <4>2. PICK q \in R : a = Arena!Min(q)
        BY <4>1
      <4>3. RunSound(m, {"free"}, r) /\ RunSound(m, {"free"}, q) /\ a \in q
        BY <1>3, <1>4, <4>2
      <4>4. r = q
        BY <3>1, <4>3, RunsApart
      <4> QED BY <4>2, <4>4
    <3>2. ASSUME NEW a \in DOMAIN m, \A r \in R : a \in r => a = Arena!Min(r)
          PROVE  a \in DOMAIN j
      BY <1>2, <1>5, <3>2 DEF Arena!Is
    <3>3. DOMAIN j \subseteq DOMAIN m
      BY <1>7, <1>9
    <3> QED BY <3>1, <3>2, <3>3
  <2>2. \A a \in DOMAIN j : j[a] \in Blocky
    <3>1. \A a \in DOMAIN m : m[a] \in Blocky
      BY DEF Tiles, InArena
    <3> QED BY <1>8, <1>9, <3>1
  <2>3. ASSUME NEW a \in DOMAIN j, \A r \in R : a \notin r
        PROVE  Arena!After(j, a) = Arena!After(m, a)
    <3>1. a \notin first
      BY <1>4, <2>3
    <3> QED BY <1>9, <3>1 DEF Arena!After
  <2> QED BY <1>8, <2>1, <2>2, <2>3 DEF Collapsed
<1>11. Tiles(j) /\ DOMAIN j \subseteq DOMAIN m
  BY <1>3, <1>10, CollapsedTiles
<1>12. SameTaken(m, j)
  <2>1. \A a \in first : j[a].state = "free" /\ j[a].handle = Arena!NoHandle
    <3>1. \A n : Arena!FreeBlock(n).state = "free" /\ Arena!FreeBlock(n).handle = Arena!NoHandle
      BY DEF Arena!FreeBlock, Arena!Block
    <3> HIDE DEF first
    <3> SUFFICES ASSUME NEW a \in first
                 PROVE  j[a].state = "free" /\ j[a].handle = Arena!NoHandle
      OBVIOUS
    <3>2. PICK r \in R : a = Arena!Min(r)
      BY DEF first
    <3>3. j[a] = Arena!FreeBlock(Arena!Span(m, r))
      BY <1>8, <3>2
    <3> QED BY <3>1, <3>3
  <2>2. \A a \in DOMAIN m : m[a].state # "free" => a \in DOMAIN j /\ j[a] = m[a]
    BY <1>2, <1>7 DEF Arena!Is
  <2>3. Taken(j) = Taken(m)
    BY <1>9, <2>1, <2>2 DEF Taken
  <2> QED BY <1>9, <2>1, <2>2, <2>3 DEF SameTaken, Taken
<1> QED BY <1>1, <1>11, <1>12

\* What a handle can tell of its block is the same.
KeptAt(m, hs, m2, hs2, h) ==
  /\ hs2[h].state = hs[h].state
  /\ hs[h].state # "movable" => hs2[h] = hs[h]
  /\ hs[h].state \in {"movable", "locked"} => m2[hs2[h].data].bytes = m[hs[h].data].bytes
Kept(m, hs, m2, hs2) == \A h \in Slot : KeptAt(m, hs, m2, hs2, h)

LEMMA JoinedKeeps ==
  ASSUME Arena!HeapConstants, ArenaInv
  PROVE  /\ Sound(Arena!Joined(header), Arena!JoinedStats(header), handles, system)
         /\ Kept(header, handles, Arena!Joined(header), handles)
<1>1. PICK m, j : m = header /\ j = Arena!Joined(m)
  OBVIOUS
<1>2. Tiles(m) /\ Named(m, handles) /\ stats \in Counter /\ Counted(m, stats)
  BY <1>1 DEF ArenaInv, Sound
<1>3. Tiles(j) /\ DOMAIN j \subseteq DOMAIN m /\ SameTaken(m, j) /\ InArena(m) /\ InArena(j)
  BY <1>1, <1>2, JoinedIs DEF Tiles
<1>4. /\ Named(j, handles)
      /\ \A st \in {"movable", "locked"} :
           Arena!Is(j, st) = Arena!Is(m, st)
             /\ Arena!BytesOf(j, Arena!Is(j, st)) = Arena!BytesOf(m, Arena!Is(m, st))
  BY <1>2, <1>3, SameTakenKeeps
<1>5. PICK c, d, s : c = Cardinality(DOMAIN m) /\ d = Cardinality(DOMAIN j)
                       /\ s = Arena!JoinedStats(m)
  OBVIOUS
<1>6. c \in Nat /\ d \in Nat /\ Overhead \in Nat /\ ArenaSize \in Nat
  BY <1>3, <1>5, Ends, Places
<1>7. s = [stats EXCEPT !.freeBlocks = @ - (c - d), !.freeSize = @ + (c - d) * Overhead]
  BY <1>1, <1>5, SameCardinality DEF Arena!JoinedStats
<1>8. /\ s.freeBlocks = stats.freeBlocks - (c - d)
      /\ s.freeSize = stats.freeSize + (c - d) * Overhead
      /\ s.movableBlocks = stats.movableBlocks /\ s.movableSize = stats.movableSize
      /\ s.lockedBlocks = stats.lockedBlocks /\ s.lockedSize = stats.lockedSize
      /\ s.systemBlocks = stats.systemBlocks /\ s.systemSize = stats.systemSize
      /\ s \in Counter
  <2>1. PICK g, k : g = c - d /\ k = (c - d) * Overhead
    OBVIOUS
  <2>2. g \in Int /\ k \in Int
    BY <1>6, <2>1
  <2>3. s = [stats EXCEPT !.freeBlocks = @ - g, !.freeSize = @ + k]
    BY <1>7, <2>1
  <2>4. /\ s.freeBlocks = stats.freeBlocks - g /\ s.freeSize = stats.freeSize + k
        /\ s.movableBlocks = stats.movableBlocks /\ s.movableSize = stats.movableSize
        /\ s.lockedBlocks = stats.lockedBlocks /\ s.lockedSize = stats.lockedSize
        /\ s.systemBlocks = stats.systemBlocks /\ s.systemSize = stats.systemSize
    BY <1>2, <2>2, <2>3 DEF Counter
  <2>5. s \in Counter
    <3>1. PICK x, y : x = stats.freeBlocks - g /\ y = stats.freeSize + k
      OBVIOUS
    <3>2. x \in Int /\ y \in Int
      BY <1>2, <2>2, <3>1 DEF Counter
    <3>3. s = [stats EXCEPT !.freeBlocks = x, !.freeSize = y]
      BY <2>3, <3>1
    <3> QED BY <1>2, <3>2, <3>3 DEF Counter
  <2> QED BY <2>1, <2>4, <2>5
<1>9. Counted(j, s)
  <2>1. PICK fb, fs, mb, ms, lb, ls : /\ fb = stats.freeBlocks /\ fs = stats.freeSize
                                      /\ mb = stats.movableBlocks /\ ms = stats.movableSize
                                      /\ lb = stats.lockedBlocks /\ ls = stats.lockedSize
    OBVIOUS
  <2>2. {fb, fs, mb, ms, lb, ls} \subseteq Int
    BY <1>2, <2>1 DEF Counter
  <2>3. fb + mb + lb = c /\ fs + ms + ls + c * Overhead = ArenaSize
    BY <1>2, <1>5, <2>1 DEF Counted
  <2>4. PICK k, kc, kd : k = (c - d) * Overhead /\ kc = c * Overhead /\ kd = d * Overhead
    OBVIOUS
  <2>12. k = kc - kd /\ {k, kc, kd} \subseteq Int
    BY <1>6, <2>4
  <2>13. fs + ms + ls + kc = ArenaSize
    BY <2>3, <2>4
  <2>14. (fs + k) + ms + ls + kd = ArenaSize
    BY <1>6, <2>2, <2>12, <2>13
  <2>5. /\ fb - (c - d) + mb + lb = d
        /\ (fs + (c - d) * Overhead) + ms + ls + d * Overhead = ArenaSize
    BY <1>6, <2>2, <2>3, <2>4, <2>14
  <2>6. /\ s.movableBlocks = Cardinality(Arena!Is(j, "movable"))
             /\ s.movableSize = Arena!BytesOf(j, Arena!Is(j, "movable"))
        /\ s.lockedBlocks = Cardinality(Arena!Is(j, "locked"))
             /\ s.lockedSize = Arena!BytesOf(j, Arena!Is(j, "locked"))
    BY <1>2, <1>4, <1>8 DEF Counted
  <2>7. /\ s.freeBlocks + s.movableBlocks + s.lockedBlocks = d
        /\ s.freeSize + s.movableSize + s.lockedSize + d * Overhead = ArenaSize
    BY <1>8, <2>1, <2>5
  <2> QED BY <1>5, <2>6, <2>7 DEF Counted
<1>10. CountedSystem(system, s)
  BY <1>8 DEF CountedSystem, ArenaInv, Sound
<1>11. Sound(j, s, handles, system)
  BY <1>3, <1>4, <1>8, <1>9, <1>10 DEF ArenaInv, Sound
<1>12. Kept(m, handles, j, handles)
  <2> SUFFICES ASSUME NEW h \in Slot, handles[h].state \in {"movable", "locked"}
               PROVE  j[handles[h].data].bytes = m[handles[h].data].bytes
    BY DEF Kept, KeptAt
  <2>1. handles[h].data \in DOMAIN m /\ m[handles[h].data].handle = h
    BY <1>2 DEF Named
  <2>2. m[handles[h].data].state # "free"
    BY <1>2, <2>1, TakenIs
  <2> QED BY <1>3, <2>1, <2>2 DEF SameTaken, Taken
<1> QED BY <1>1, <1>5, <1>11, <1>12


-----------------------------------------------------------------------------
(* Emptying an extent                                                       *)

Movable == {"free", "movable"}
ReservedIs(m, x, to) ==
  /\ DOMAIN to = Arena!Movables(m, x) /\ \A b \in DOMAIN to : to[b] \in Arena!Outside(m, x)
  /\ \A b, c \in DOMAIN to : to[b] = to[c] => b = c
  /\ \A b \in DOMAIN to : m[b].size <= m[to[b]].size
NewSize(m, to, b) == IF b \in Arena!Merges(m, to) THEN m[to[b]].size ELSE m[b].size

\* Every block of the arena after the move.
MovedIs(m, x, to, m2) ==
  /\ DOMAIN m2 = (DOMAIN m \ x) \cup {Arena!Min(x)} \cup {Arena!SplitAt(m, to, b) :
       b \in Arena!Splits(m, to)}
  /\ m2[Arena!Min(x)] = Arena!FreeBlock(Arena!Span(m, x))
  /\ \A b \in DOMAIN to : m2[to[b]] = [m[b] EXCEPT !.size = NewSize(m, to, b)]
  /\ \A b \in Arena!Splits(m, to) :
       m2[Arena!SplitAt(m, to, b)] = Arena!FreeBlock(Arena!Left(m, to, b) - Overhead)
  /\ \A a \in DOMAIN m \ x : a \notin Arena!Range(to) => m2[a] = m[a]

LEMMA Reserved ==
  ASSUME Arena!HeapConstants, NEW m, NEW x, NEW to \in Arena!Reservations(m, x)
  PROVE  ReservedIs(m, x, to)
<1>1. to \in [Arena!Movables(m, x) -> Arena!Outside(m, x)]
        /\ \A b, c \in Arena!Movables(m, x) : to[b] = to[c] => b = c
  BY DEF Arena!Reservations, Arena!Injection, Arena!IsInjective
<1>2. DOMAIN to = Arena!Movables(m, x)
  BY <1>1
<1>3. \A b \in DOMAIN to : m[b].size <= m[to[b]].size
  BY DEF Arena!Reservations
<1> QED BY <1>1, <1>2, <1>3 DEF ReservedIs

\* Where the blocks that move come from and go to.
LEMMA MovesIs ==
  ASSUME Arena!HeapConstants, NEW m, Tiles(m), NEW x, RunSound(m, Movable, x),
         NEW to, ReservedIs(m, x, to), NEW b \in DOMAIN to
  PROVE  /\ b \in DOMAIN m /\ b \in x /\ m[b].state = "movable" /\ b \in Nat
         /\ to[b] \in DOMAIN m /\ to[b] \notin x /\ m[to[b]].state = "free" /\ to[b] \in Nat
         /\ to[b] \in Arena!Range(to)
         /\ m[b].size \in Nat /\ m[b].size > 0 /\ m[to[b]].size \in Nat
         /\ Arena!Left(m, to, b) \in Nat /\ m[to[b]].size = m[b].size + Arena!Left(m, to, b)
         /\ NewSize(m, to, b) \in Nat /\ NewSize(m, to, b) > 0
         /\ b \in Arena!Splits(m, to) => NewSize(m, to, b) = m[b].size
         /\ b \notin Arena!Splits(m, to) => NewSize(m, to, b) = m[to[b]].size
<1>1. /\ b \in DOMAIN m /\ b \in x /\ m[b].state = "movable"
      /\ to[b] \in DOMAIN m /\ to[b] \notin x /\ m[to[b]].state = "free"
  BY DEF ReservedIs, Arena!Movables, Arena!Outside, Arena!Is
<1>2. /\ b \in Nat /\ to[b] \in Nat /\ m[b].size \in Nat /\ m[b].size > 0 /\ m[to[b]].size \in Nat
  BY <1>1, Ends DEF Tiles
<1>3. m[b].size <= m[to[b]].size
  BY DEF ReservedIs
<1>4. Arena!Left(m, to, b) \in Nat /\ m[to[b]].size = m[b].size + Arena!Left(m, to, b)
  BY <1>2, <1>3 DEF Arena!Left
<1>5. to[b] \in Arena!Range(to)
  BY DEF Arena!Range
<1>6. /\ NewSize(m, to, b) \in Nat /\ NewSize(m, to, b) > 0
  BY <1>2, <1>3 DEF NewSize
<1>7. b \in Arena!Splits(m, to) => NewSize(m, to, b) = m[b].size
  BY <1>4, Places DEF NewSize, Arena!Splits, Arena!Merges
<1>8. b \notin Arena!Splits(m, to) => NewSize(m, to, b) = m[to[b]].size
  <2> SUFFICES ASSUME b \notin Arena!Splits(m, to)
               PROVE  NewSize(m, to, b) = m[to[b]].size
    OBVIOUS
  <2>1. Arena!Left(m, to, b) < MinSplit
    BY <1>4, Places DEF Arena!Splits
  <2>2. b \notin Arena!Merges(m, to) => Arena!Left(m, to, b) = 0
    BY <1>4, <2>1 DEF Arena!Merges
  <2> QED BY <1>2, <1>4, <2>2 DEF NewSize
<1> QED BY <1>1, <1>2, <1>4, <1>5, <1>6, <1>7, <1>8

LEMMA SplitsIs ==
  ASSUME Arena!HeapConstants, NEW m, Tiles(m), NEW x, RunSound(m, Movable, x),
         NEW to, ReservedIs(m, x, to), NEW b \in Arena!Splits(m, to)
  PROVE  /\ b \in DOMAIN to /\ Arena!SplitAt(m, to, b) \in Nat
         /\ Arena!SplitAt(m, to, b) = to[b] + m[b].size + Overhead
         /\ to[b] < Arena!SplitAt(m, to, b) /\ Arena!SplitAt(m, to, b) < Arena!After(m, to[b])
         /\ Arena!Left(m, to, b) - Overhead \in Nat \ {0}
         /\ Arena!SplitAt(m, to, b) + (Arena!Left(m, to, b) - Overhead) + Overhead
              = Arena!After(m, to[b])
         /\ Arena!SplitAt(m, to, b) \notin DOMAIN m
<1>1. b \in DOMAIN to /\ Arena!Left(m, to, b) >= MinSplit
  BY DEF Arena!Splits
<1>2. /\ to[b] \in DOMAIN m /\ to[b] \in Nat /\ m[b].size \in Nat /\ m[b].size > 0
      /\ Arena!Left(m, to, b) \in Nat /\ m[to[b]].size = m[b].size + Arena!Left(m, to, b)
  BY <1>1, MovesIs
<1>3. Arena!After(m, to[b]) = to[b] + m[to[b]].size + Overhead
  BY DEF Arena!After
<1>4. Arena!SplitAt(m, to, b) = to[b] + m[b].size + Overhead
  BY DEF Arena!SplitAt
<1>5. /\ Arena!SplitAt(m, to, b) \in Nat
      /\ to[b] < Arena!SplitAt(m, to, b) /\ Arena!SplitAt(m, to, b) < Arena!After(m, to[b])
      /\ Arena!Left(m, to, b) - Overhead \in Nat \ {0}
      /\ Arena!SplitAt(m, to, b) + (Arena!Left(m, to, b) - Overhead) + Overhead
           = Arena!After(m, to[b])
  BY <1>1, <1>2, <1>3, <1>4, Places
<1>6. ASSUME Arena!SplitAt(m, to, b) \in DOMAIN m
      PROVE  FALSE
  <2>1. Arena!After(m, to[b]) <= Arena!SplitAt(m, to, b)
    BY <1>2, <1>5, <1>6 DEF Tiles, InOrder
  <2>2. Arena!After(m, to[b]) \in Nat
    BY <1>2, Ends DEF Tiles
  <2> QED BY <1>5, <2>1, <2>2
<1> QED BY <1>1, <1>4, <1>5, <1>6

LEMMA SplitsDiffer ==
  ASSUME Arena!HeapConstants, NEW m, Tiles(m), NEW x, RunSound(m, Movable, x),
         NEW to, ReservedIs(m, x, to), NEW b \in Arena!Splits(m, to), NEW c \in Arena!Splits(m, to),
         Arena!SplitAt(m, to, b) = Arena!SplitAt(m, to, c)
  PROVE  b = c
<1>1. /\ b \in DOMAIN to /\ to[b] < Arena!SplitAt(m, to, b)
           /\ Arena!SplitAt(m, to, b) < Arena!After(m, to[b])
      /\ c \in DOMAIN to /\ to[c] < Arena!SplitAt(m, to, b)
           /\ Arena!SplitAt(m, to, b) < Arena!After(m, to[c])
      /\ Arena!SplitAt(m, to, b) \in Nat
  BY SplitsIs
<1>2. to[b] \in DOMAIN m /\ to[c] \in DOMAIN m /\ to[b] \in Nat /\ to[c] \in Nat
  BY <1>1, MovesIs
<1>3. Arena!After(m, to[b]) \in Nat /\ Arena!After(m, to[c]) \in Nat
  BY <1>2, Ends DEF Tiles
<1>4. /\ to[b] < to[c] => Arena!After(m, to[b]) <= to[c]
      /\ to[c] < to[b] => Arena!After(m, to[c]) <= to[b]
  BY <1>2 DEF Tiles, InOrder
<1>5. to[b] = to[c]
  BY <1>1, <1>2, <1>3, <1>4
<1> QED BY <1>1, <1>5 DEF ReservedIs

LEMMA MovedShape ==
  ASSUME Arena!HeapConstants, NEW m, Tiles(m), NEW x, RunSound(m, Movable, x),
         NEW to, ReservedIs(m, x, to)
  PROVE  MovedIs(m, x, to, Arena!Moved(m, x, to))
<1> DEFINE split == {Arena!SplitAt(m, to, b) : b \in Arena!Splits(m, to)}
           from(f) == CHOOSE b \in DOMAIN to : to[b] = f
           rest(a) == CHOOSE b \in Arena!Splits(m, to) : Arena!SplitAt(m, to, b) = a
           D == (DOMAIN m \ x) \cup {Arena!Min(x)} \cup split
           What(a) == CASE a = Arena!Min(x) -> Arena!FreeBlock(Arena!Span(m, x))
                        [] a \in Arena!Range(to) -> [m[from(a)] EXCEPT !.size =
                             IF from(a) \in Arena!Merges(m, to) THEN m[a].size ELSE @]
                        [] a \in split -> Arena!FreeBlock(Arena!Left(m, to, rest(a)) - Overhead)
                        [] OTHER -> m[a]
<1>1. PICK m2 : m2 = Arena!Moved(m, x, to)
  OBVIOUS
<1>2. m2 = [a \in D |-> What(a)]
  BY <1>1 DEF Arena!Moved
<1>3. Arena!Min(x) \in DOMAIN m /\ Arena!Min(x) \in x
  BY DEF RunSound
<1>4. \A a \in Arena!Range(to) : a \in DOMAIN m /\ a \notin x /\ \E b \in DOMAIN to : to[b] = a
  <2> SUFFICES ASSUME NEW a \in Arena!Range(to)
               PROVE  a \in DOMAIN m /\ a \notin x /\ \E b \in DOMAIN to : to[b] = a
    OBVIOUS
  <2>1. PICK b \in DOMAIN to : to[b] = a
    BY DEF Arena!Range
  <2> QED BY <2>1, MovesIs
<1>5. \A a \in split : a \notin DOMAIN m
  BY SplitsIs
<1>6. \A b \in DOMAIN to : from(to[b]) = b
  BY DEF ReservedIs
<1>7. \A b \in Arena!Splits(m, to) : rest(Arena!SplitAt(m, to, b)) = b
  BY SplitsDiffer
<1>8. DOMAIN m2 = D /\ \A a \in D : m2[a] = What(a)
  BY <1>2
<1> HIDE DEF from, rest
<1>9. m2[Arena!Min(x)] = Arena!FreeBlock(Arena!Span(m, x))
  <2>1. Arena!Min(x) \in D /\ Arena!Min(x) \notin Arena!Range(to) /\ Arena!Min(x) \notin split
    BY <1>3, <1>4, <1>5
  <2> HIDE DEF D, split
  <2>2. What(Arena!Min(x)) = Arena!FreeBlock(Arena!Span(m, x))
    BY <2>1
  <2> HIDE DEF What
  <2> QED BY <1>8, <2>1, <2>2
<1>10. ASSUME NEW b \in DOMAIN to
       PROVE  m2[to[b]] = [m[b] EXCEPT !.size = NewSize(m, to, b)]
  <2>1. to[b] \in D /\ to[b] # Arena!Min(x) /\ to[b] \in Arena!Range(to) /\ to[b] \notin split
    BY <1>3, <1>4, <1>5, MovesIs
  <2> HIDE DEF D, split
  <2>2. What(to[b]) = [m[from(to[b])] EXCEPT !.size =
                         IF from(to[b]) \in Arena!Merges(m, to) THEN m[to[b]].size ELSE @]
    BY <2>1
  <2> HIDE DEF What
  <2>3. m2[to[b]] = [m[b] EXCEPT !.size
          = IF b \in Arena!Merges(m, to) THEN m[to[b]].size ELSE m[b].size]
    BY <1>6, <1>8, <2>1, <2>2
  <2> QED BY <2>3 DEF NewSize
<1>11. ASSUME NEW b \in Arena!Splits(m, to)
       PROVE  m2[Arena!SplitAt(m, to, b)] = Arena!FreeBlock(Arena!Left(m, to, b) - Overhead)
  <2>1. PICK a : a = Arena!SplitAt(m, to, b)
    OBVIOUS
  <2>2. a \in D /\ a # Arena!Min(x) /\ a \notin Arena!Range(to) /\ a \in split
    BY <1>3, <1>4, <1>5, <2>1
  <2> HIDE DEF D, split
  <2>3. What(a) = Arena!FreeBlock(Arena!Left(m, to, rest(a)) - Overhead)
    BY <2>2
  <2> HIDE DEF What
  <2>4. rest(a) = b
    BY <1>7, <2>1
  <2> QED BY <1>8, <2>1, <2>2, <2>3, <2>4
<1>12. ASSUME NEW a \in DOMAIN m \ x, a \notin Arena!Range(to)
       PROVE  m2[a] = m[a]
  <2>1. a \in D /\ a # Arena!Min(x) /\ a \notin split
    BY <1>3, <1>5
  <2> HIDE DEF D, split
  <2>2. What(a) = m[a]
    BY <1>12, <2>1
  <2> HIDE DEF What
  <2> QED BY <1>8, <2>1, <2>2
<1>13. DOMAIN m2 = (DOMAIN m \ x) \cup {Arena!Min(x)} \cup {Arena!SplitAt(m, to, b) :
                b \in Arena!Splits(m, to)}
  BY <1>8
<1> HIDE DEF D, split, What
<1> QED BY <1>1, <1>9, <1>10, <1>11, <1>12, <1>13 DEF MovedIs

\* The four kinds of places after the move.
LEMMA MovedPlaces ==
  ASSUME Arena!HeapConstants, NEW m, NEW x, NEW to, NEW m2, MovedIs(m, x, to, m2),
         NEW a \in DOMAIN m2
  PROVE  \/ a = Arena!Min(x)
         \/ \E b \in DOMAIN to : a = to[b]
         \/ \E b \in Arena!Splits(m, to) : a = Arena!SplitAt(m, to, b)
         \/ a \in DOMAIN m \ x /\ a \notin Arena!Range(to)
BY DEF MovedIs, Arena!Range

LEMMA FreeBlockIs ==
  ASSUME Arena!HeapConstants, NEW n \in Nat \ {0}
  PROVE  /\ Arena!FreeBlock(n) \in Blocky /\ Arena!FreeBlock(n).size = n
              /\ Arena!FreeBlock(n).state = "free"
         /\ Arena!FreeBlock(n).handle = Arena!NoHandle
BY DEF Arena!FreeBlock, Arena!Block, Blocky

LEMMA MovedBlocks ==
  ASSUME Arena!HeapConstants, NEW m, Tiles(m), NEW x, RunSound(m, Movable, x),
         NEW to, ReservedIs(m, x, to), NEW m2, MovedIs(m, x, to, m2)
  PROVE  /\ \A a \in DOMAIN m2 : m2[a] \in Blocky
         /\ \A b \in DOMAIN to : /\ m2[to[b]].size = NewSize(m, to, b)
                                 /\ m2[to[b]].state = "movable"
                                 /\ m2[to[b]].handle = m[b].handle
                                 /\ m2[to[b]].bytes = m[b].bytes
                                 /\ to[b] \in DOMAIN m2
<1>1. \A a \in DOMAIN m : m[a] \in Blocky
  BY DEF Tiles, InArena
<1>2. ASSUME NEW b \in DOMAIN to
      PROVE  /\ m2[to[b]] \in Blocky
             /\ m2[to[b]].size = NewSize(m, to, b)
             /\ m2[to[b]].state = "movable"
             /\ m2[to[b]].handle = m[b].handle
             /\ m2[to[b]].bytes = m[b].bytes
             /\ to[b] \in DOMAIN m2
  <2>1. PICK n, k, k2 : n = NewSize(m, to, b) /\ k = m[b] /\ k2 = m2[to[b]]
    OBVIOUS
  <2>2. n \in Nat \ {0} /\ k \in Blocky /\ k.state = "movable"
    BY <1>1, <2>1, MovesIs
  <2>3. k2 = [k EXCEPT !.size = n]
    BY <2>1 DEF MovedIs
  <2>4. k2 \in Blocky /\ k2.size = n /\ k2.state = "movable" /\ k2.handle = k.handle
          /\ k2.bytes = k.bytes
    BY <2>2, <2>3 DEF Blocky
  <2>5. to[b] \in DOMAIN m2
    BY MovesIs DEF MovedIs
  <2> QED BY <2>1, <2>4, <2>5
<1>3. m2[Arena!Min(x)] \in Blocky
  <2>1. Arena!Span(m, x) \in Nat \ {0}
    BY RunEnds
  <2> QED BY <2>1, FreeBlockIs DEF MovedIs
<1>4. \A b \in Arena!Splits(m, to) : m2[Arena!SplitAt(m, to, b)] \in Blocky
  BY SplitsIs, FreeBlockIs DEF MovedIs
<1>5. \A a \in DOMAIN m \ x : a \notin Arena!Range(to) => m2[a] \in Blocky
  BY <1>1 DEF MovedIs
<1>6. \A a \in DOMAIN m2 : m2[a] \in Blocky
  BY <1>2, <1>3, <1>4, <1>5, MovedPlaces
<1> QED BY <1>2, <1>6

LEMMA MovedTiles ==
  ASSUME Arena!HeapConstants, NEW m, Tiles(m), NEW x, RunSound(m, Movable, x),
         NEW to, ReservedIs(m, x, to), NEW m2, MovedIs(m, x, to, m2)
  PROVE  Tiles(m2)
<1> DEFINE T == {Arena!SplitAt(m, to, b) : b \in Arena!Splits(m, to)}
<1>1. PICK mid : mid = [a \in (DOMAIN m \ x) \cup {Arena!Min(x)} |->
                          IF a = Arena!Min(x) THEN Arena!FreeBlock(Arena!Span(m, x)) ELSE m[a]]
  OBVIOUS
<1>2. /\ DOMAIN mid = (DOMAIN m \ x) \cup {Arena!Min(x)}
           /\ mid[Arena!Min(x)] = Arena!FreeBlock(Arena!Span(m, x))
      /\ \A a \in DOMAIN mid : a # Arena!Min(x) => mid[a] = m[a]
  BY <1>1
<1>3. Arena!Min(x) \in DOMAIN m /\ Arena!Min(x) \in x /\ Arena!Max(x) \in DOMAIN m
        /\ x \subseteq DOMAIN m
      /\ Arena!Span(m, x) \in Nat \ {0}
  BY RunEnds DEF RunSound
<1>4. /\ \A a \in DOMAIN m : a \in Nat /\ Arena!After(m, a) \in Nat
      /\ Arena!FreeBlock(Arena!Span(m, x)).size = Arena!Span(m, x)
           /\ Arena!FreeBlock(Arena!Span(m, x)) \in Blocky
  BY <1>3, Ends, FreeBlockIs DEF Tiles
<1>5. Arena!After(mid, Arena!Min(x)) = Arena!After(m, Arena!Max(x))
  <2>1. PICK lo, hi : lo = Arena!Min(x) /\ hi = Arena!After(m, Arena!Max(x))
    OBVIOUS
  <2>2. lo \in Nat /\ hi \in Nat /\ Arena!Span(m, x) = hi - lo - Overhead
    BY <1>3, <1>4, <2>1 DEF Arena!Span
  <2>3. Arena!After(mid, Arena!Min(x)) = lo + Arena!Span(m, x) + Overhead
    BY <1>2, <1>4, <2>1 DEF Arena!After
  <2> QED BY <2>1, <2>2, <2>3, Places
<1>6. Collapsed(m, {x}, mid)
  <2>1. DOMAIN mid = {a \in DOMAIN m : \A r \in {x} : a \in r => a = Arena!Min(r)}
    BY <1>2, <1>3
  <2>2. \A a \in DOMAIN mid : mid[a] \in Blocky
    BY <1>2, <1>4 DEF Tiles, InArena
  <2>3. ASSUME NEW a \in DOMAIN mid, a \notin x
        PROVE  Arena!After(mid, a) = Arena!After(m, a)
    BY <1>2, <1>3, <2>3 DEF Arena!After
  <2> QED BY <1>5, <2>1, <2>2, <2>3 DEF Collapsed
<1>7. Tiles(mid) /\ DOMAIN mid \subseteq DOMAIN m
  <2>1. \A r \in {x} : RunSound(m, Movable, r)
    OBVIOUS
  <2> QED BY <1>6, <2>1, CollapsedTiles
<1>8. \A a \in DOMAIN mid : a = Arena!Min(x) \/ (a \in DOMAIN m /\ a \notin x
        /\ a # Arena!Min(x) /\ mid[a] = m[a])
  BY <1>2, <1>3
<1>9. ASSUME NEW b \in DOMAIN to
      PROVE  /\ to[b] \in DOMAIN mid /\ Arena!After(mid, to[b]) = Arena!After(m, to[b])
             /\ b \notin Arena!Splits(m, to) => Arena!After(m2, to[b]) = Arena!After(mid, to[b])
             /\ b \in Arena!Splits(m, to) =>
                  /\ Arena!After(m2, to[b]) = Arena!SplitAt(m, to, b)
                  /\ CutAt(mid, m2, T, to[b])
  <2>1. to[b] \in DOMAIN m /\ to[b] \notin x /\ to[b] # Arena!Min(x)
    BY <1>3, MovesIs
  <2>2. to[b] \in DOMAIN mid /\ Arena!After(mid, to[b]) = Arena!After(m, to[b])
    BY <1>2, <2>1 DEF Arena!After
  <2>3. m2[to[b]].size = NewSize(m, to, b)
    BY MovedBlocks
  <2>4. b \notin Arena!Splits(m, to) => Arena!After(m2, to[b]) = Arena!After(mid, to[b])
    BY <2>2, <2>3, MovesIs DEF Arena!After
  <2>5. ASSUME b \in Arena!Splits(m, to)
        PROVE  Arena!After(m2, to[b]) = Arena!SplitAt(m, to, b) /\ CutAt(mid, m2, T, to[b])
    <3>1. Arena!After(m2, to[b]) = Arena!SplitAt(m, to, b)
      BY <2>3, <2>5, MovesIs, SplitsIs DEF Arena!After
    <3>2. PICK p, n : p = Arena!SplitAt(m, to, b) /\ n = Arena!Left(m, to, b) - Overhead
      OBVIOUS
    <3>3. m2[p] = Arena!FreeBlock(n) /\ n \in Nat \ {0}
            /\ p + n + Overhead = Arena!After(m, to[b]) /\ p \in T
          /\ p < Arena!After(m, to[b])
      BY <2>5, <3>2, SplitsIs DEF MovedIs
    <3>4. Arena!After(m2, p) = Arena!After(m, to[b])
      BY <3>3, FreeBlockIs DEF Arena!After
    <3> QED BY <2>2, <3>1, <3>2, <3>3, <3>4 DEF CutAt
  <2> QED BY <2>2, <2>4, <2>5
<1>10. ASSUME NEW a \in DOMAIN mid, a \notin Arena!Range(to)
       PROVE  Arena!After(m2, a) = Arena!After(mid, a)
  BY <1>2, <1>8, <1>10 DEF MovedIs, Arena!After
<1>11. Cut(mid, m2, T)
  <2>1. DOMAIN m2 = DOMAIN mid \cup T
    BY <1>2 DEF MovedIs
  <2>2. T \subseteq Nat
    BY SplitsIs
  <2>3. \A a \in DOMAIN mid : Arena!After(m2, a) = Arena!After(mid, a) \/ CutAt(mid, m2, T, a)
    <3>1. \A a \in Arena!Range(to) : \E b \in DOMAIN to : a = to[b]
      BY DEF Arena!Range
    <3> HIDE DEF T
    <3> QED BY <1>9, <1>10, <3>1
  <2>4. \A p \in T : \E a \in DOMAIN mid : Arena!After(m2, a) = p /\ CutAt(mid, m2, T, a)
    <3> SUFFICES ASSUME NEW b \in Arena!Splits(m, to)
                 PROVE  \E a \in DOMAIN mid :
                          Arena!After(m2, a) = Arena!SplitAt(m, to, b) /\ CutAt(mid, m2, T, a)
      OBVIOUS
    <3>1. b \in DOMAIN to
      BY DEF Arena!Splits
    <3> HIDE DEF T
    <3> QED BY <1>9, <3>1
  <2>5. \A a \in DOMAIN m2 : m2[a] \in Blocky
    BY MovedBlocks
  <2> HIDE DEF T
  <2> QED BY <2>1, <2>2, <2>3, <2>4, <2>5 DEF Cut
<1> QED BY <1>7, <1>11, CutTiles


\* The handles after the move.
HandlesMoved(m, to, hs, hs2) ==
  /\ \A b \in DOMAIN to : hs2[m[b].handle] = [state |-> "movable", data |-> to[b]]
  /\ \A h \in Slot : (\A b \in DOMAIN to : m[b].handle # h) => hs2[h] = hs[h]

LEMMA MovedHandlesAre ==
  ASSUME Arena!HeapConstants, NEW m, Tiles(m), handles \in [Slot -> HandleSort], Named(m, handles),
         NEW x, RunSound(m, Movable, x), NEW to, ReservedIs(m, x, to)
  PROVE  /\ HandlesMoved(m, to, handles, Arena!MovedHandles(m, to))
         /\ Arena!MovedHandles(m, to) \in [Slot -> HandleSort]
         /\ \A b \in DOMAIN to : /\ m[b].handle \in Slot
                                 /\ handles[m[b].handle] = [state |-> "movable", data |-> b]
<1> DEFINE owner(h) == CHOOSE b \in DOMAIN to : m[b].handle = h
<1>1. PICK hs2 : hs2 = Arena!MovedHandles(m, to)
  OBVIOUS
<1>2. hs2 = [h \in Slot |-> IF \E b \in DOMAIN to : m[b].handle = h
                              THEN [handles[h] EXCEPT !.data = to[owner(h)]]
                              ELSE handles[h]]
  BY <1>1 DEF Arena!MovedHandles
<1>3. ASSUME NEW b \in DOMAIN to
      PROVE  m[b].handle \in Slot /\ handles[m[b].handle] = [state |-> "movable", data |-> b]
  <2>1. b \in DOMAIN m /\ m[b].state = "movable"
    BY MovesIs
  <2> QED BY <2>1 DEF Named
<1>4. ASSUME NEW b \in DOMAIN to
      PROVE  owner(m[b].handle) = b
  <2>1. ASSUME NEW c \in DOMAIN to, m[c].handle = m[b].handle
        PROVE  c = b
    <3>1. handles[m[b].handle] = [state |-> "movable", data |-> b]
          /\ handles[m[b].handle] = [state |-> "movable", data |-> c]
      BY <1>3, <2>1
    <3>2. handles[m[b].handle].data = b /\ handles[m[b].handle].data = c
      BY <3>1
    <3> QED BY <3>2
  <2>2. \E c \in DOMAIN to : m[c].handle = m[b].handle
    OBVIOUS
  <2> QED BY <2>1, <2>2
<1> HIDE DEF owner
<1>5. ASSUME NEW b \in DOMAIN to
      PROVE  hs2[m[b].handle] = [state |-> "movable", data |-> to[b]]
  <2>1. hs2[m[b].handle] = [handles[m[b].handle] EXCEPT !.data = to[owner(m[b].handle)]]
    BY <1>2, <1>3
  <2>2. hs2[m[b].handle] = [[state |-> "movable", data |-> b] EXCEPT !.data = to[b]]
    BY <1>3, <1>4, <2>1
  <2> QED BY <2>2
<1>6. \A h \in Slot : (\A b \in DOMAIN to : m[b].handle # h) => hs2[h] = handles[h]
  BY <1>2
<1>7. hs2 \in [Slot -> HandleSort]
  <2>1. DOMAIN hs2 = Slot /\ hs2 = [h \in Slot |-> hs2[h]]
    BY <1>2
  <2>2. ASSUME NEW h \in Slot
        PROVE  hs2[h] \in HandleSort
    <3>1. CASE \A b \in DOMAIN to : m[b].handle # h
      BY <1>6, <3>1
    <3>2. CASE \E b \in DOMAIN to : m[b].handle = h
      <4>1. PICK b \in DOMAIN to : m[b].handle = h
        BY <3>2
      <4>2. hs2[h] = [state |-> "movable", data |-> to[b]]
        BY <1>5, <4>1
      <4>3. to[b] \in 0..(ArenaSize + Arena!Max(Slot))
        <5>1. to[b] \in Nat /\ to[b] < ArenaSize
          BY MovesIs, Ends DEF Tiles
        <5>2. Arena!Max(Slot) \in Nat
          BY HandleMax
        <5> QED BY <5>1, <5>2, Places
      <4> QED BY <4>2, <4>3 DEF HandleSort
    <3> QED BY <3>1, <3>2
  <2> QED BY <2>1, <2>2
<1> QED BY <1>1, <1>3, <1>5, <1>6, <1>7 DEF HandlesMoved

LEMMA MovedNames ==
  ASSUME Arena!HeapConstants, NEW m, Tiles(m), NEW hs, Named(m, hs),
         NEW x, RunSound(m, Movable, x), NEW to, ReservedIs(m, x, to),
         NEW m2, MovedIs(m, x, to, m2), NEW hs2, HandlesMoved(m, to, hs, hs2)
  PROVE  /\ Named(m2, hs2) /\ Kept(m, hs, m2, hs2)
         /\ \A h \in Slot : hs2[h].state = hs[h].state
         /\ \A h \in Slot : hs[h].state # "movable" => hs2[h] = hs[h]
<1>1. \A b \in DOMAIN to : /\ b \in DOMAIN m /\ b \in x /\ m[b].handle \in Slot
                           /\ hs[m[b].handle] = [state |-> "movable", data |-> b]
                           /\ hs[m[b].handle].data = b /\ hs[m[b].handle].state = "movable"
  <2> SUFFICES ASSUME NEW b \in DOMAIN to
               PROVE  /\ b \in DOMAIN m /\ b \in x /\ m[b].handle \in Slot
                      /\ hs[m[b].handle] = [state |-> "movable", data |-> b]
                      /\ hs[m[b].handle].data = b /\ hs[m[b].handle].state = "movable"
    OBVIOUS
  <2>1. b \in DOMAIN m /\ b \in x /\ m[b].state = "movable"
    BY MovesIs
  <2> QED BY <2>1 DEF Named
<1>2. \A b \in DOMAIN to : /\ m2[to[b]].state = "movable" /\ m2[to[b]].handle = m[b].handle
                           /\ m2[to[b]].bytes = m[b].bytes /\ to[b] \in DOMAIN m2
  BY MovedBlocks
<1>3. \A b \in DOMAIN to : /\ hs2[m[b].handle] = [state |-> "movable", data |-> to[b]]
                           /\ hs2[m[b].handle].state = "movable"
                           /\ hs2[m[b].handle].data = to[b]
  BY DEF HandlesMoved
\* A block that does not move, and its handle.
<1>4. ASSUME NEW a \in DOMAIN m, m[a].state # "free", a \notin DOMAIN to
      PROVE  /\ a \in DOMAIN m \ x /\ a \notin Arena!Range(to) /\ m2[a] = m[a] /\ a \in DOMAIN m2
             /\ m[a].handle \in Slot /\ hs[m[a].handle] = [state |-> m[a].state, data |-> a]
             /\ hs2[m[a].handle] = hs[m[a].handle]
  <2>1. a \notin x
    <3>1. a \in x => m[a].state \in Movable
      BY DEF RunSound
    <3> QED BY <1>4, <3>1 DEF Movable, ReservedIs, Arena!Movables, Arena!Is
  <2>2. a \notin Arena!Range(to)
    <3> SUFFICES ASSUME NEW b \in DOMAIN to, to[b] = a
                 PROVE  FALSE
      BY DEF Arena!Range
    <3> QED BY <1>4, MovesIs
  <2>3. m2[a] = m[a] /\ a \in DOMAIN m2
    BY <2>1, <2>2 DEF MovedIs
  <2>4. m[a].handle \in Slot /\ hs[m[a].handle] = [state |-> m[a].state, data |-> a]
    BY <1>4 DEF Named
  <2>5. \A b \in DOMAIN to : m[b].handle # m[a].handle
    <3> SUFFICES ASSUME NEW b \in DOMAIN to, m[b].handle = m[a].handle
                 PROVE  FALSE
      OBVIOUS
    <3>1. hs[m[a].handle].data = b
      BY <1>1
    <3>2. hs[m[a].handle].data = a
      BY <2>4
    <3> QED BY <1>4, <3>1, <3>2
  <2> QED BY <2>1, <2>2, <2>3, <2>4, <2>5 DEF HandlesMoved
<1>5. ASSUME NEW a \in DOMAIN m2
      PROVE  IF m2[a].state = "free" THEN m2[a].handle = Arena!NoHandle
             ELSE m2[a].handle \in Slot /\ hs2[m2[a].handle] = [state |-> m2[a].state, data |-> a]
  <2>1. CASE a = Arena!Min(x)
    <3>1. Arena!Span(m, x) \in Nat \ {0}
      BY RunEnds
    <3>2. m2[a] = Arena!FreeBlock(Arena!Span(m, x))
      BY <2>1 DEF MovedIs
    <3> QED BY <3>1, <3>2, FreeBlockIs
  <2>2. ASSUME NEW b \in DOMAIN to, a = to[b]
        PROVE  IF m2[a].state = "free" THEN m2[a].handle = Arena!NoHandle
               ELSE m2[a].handle \in Slot /\ hs2[m2[a].handle] = [state |-> m2[a].state, data |-> a]
    <3>1. m[b].handle \in Slot /\ m2[a].handle = m[b].handle /\ m2[a].state = "movable"
      BY <1>1, <1>2, <2>2
    <3>2. hs2[m[b].handle] = [state |-> "movable", data |-> a]
      BY <1>3, <2>2
    <3> QED BY <3>1, <3>2
  <2>3. ASSUME NEW b \in Arena!Splits(m, to), a = Arena!SplitAt(m, to, b)
        PROVE  m2[a].state = "free" /\ m2[a].handle = Arena!NoHandle
    <3>1. m2[a] = Arena!FreeBlock(Arena!Left(m, to, b) - Overhead)
            /\ Arena!Left(m, to, b) - Overhead \in Nat \ {0}
      BY <2>3, SplitsIs DEF MovedIs
    <3> QED BY <3>1, FreeBlockIs
  <2>4. CASE a \in DOMAIN m \ x /\ a \notin Arena!Range(to)
    <3>1. m2[a] = m[a]
      BY <2>4 DEF MovedIs
    <3>2. CASE m[a].state = "free"
      BY <2>4, <3>1, <3>2 DEF Named
    <3>3. CASE m[a].state # "free"
      <4>1. a \notin DOMAIN to
        BY <1>1, <2>4
      <4> QED BY <1>4, <2>4, <3>1, <3>3, <4>1
    <3> QED BY <3>2, <3>3
  <2> QED BY <2>1, <2>2, <2>3, <2>4, MovedPlaces
<1>6. ASSUME NEW h \in Slot
      PROVE  /\ hs2[h].state = hs[h].state
             /\ hs[h].state # "movable" => hs2[h] = hs[h]
             /\ hs[h].state \in {"movable", "locked"} =>
                  /\ hs2[h].data \in DOMAIN m2 /\ m2[hs2[h].data].handle = h
                  /\ m2[hs2[h].data].bytes = m[hs[h].data].bytes
  <2>1. CASE \E b \in DOMAIN to : m[b].handle = h
    <3>1. PICK b \in DOMAIN to : m[b].handle = h
      BY <2>1
    <3>2. /\ hs[h].data = b /\ hs[h].state = "movable"
          /\ hs2[h].state = "movable" /\ hs2[h].data = to[b]
      BY <1>1, <1>3, <3>1
    <3>3. m2[to[b]].handle = h /\ m2[to[b]].bytes = m[b].bytes /\ to[b] \in DOMAIN m2
      BY <1>2, <3>1
    <3> QED BY <3>2, <3>3
  <2>2. CASE \A b \in DOMAIN to : m[b].handle # h
    <3>1. hs2[h] = hs[h]
      BY <2>2 DEF HandlesMoved
    <3>2. ASSUME hs[h].state \in {"movable", "locked"}
          PROVE  hs[h].data \in DOMAIN m2 /\ m2[hs[h].data].handle = h
                 /\ m2[hs[h].data].bytes = m[hs[h].data].bytes
      <4>1. hs[h].data \in DOMAIN m /\ m[hs[h].data].handle = h
        BY <3>2 DEF Named
      <4>2. m[hs[h].data].state # "free"
        BY <4>1, TakenIs
      <4>3. hs[h].data \notin DOMAIN to
        BY <2>2, <4>1
      <4> QED BY <1>4, <4>1, <4>2, <4>3
    <3> QED BY <3>1, <3>2
  <2> QED BY <2>1, <2>2
<1> QED BY <1>5, <1>6 DEF Named, Kept, KeptAt

LEMMA PairsAlike ==
  ASSUME NEW S, IsFiniteSet(S), NEW T, NEW b, Pairs(b, S, T)
  PROVE  IsFiniteSet(T) /\ Cardinality(T) = Cardinality(S)
<1>1. b \in Bijection(S, T)
  BY DEF Pairs, Bijection, Injection, Surjection, IsInjective
<1>2. ExistsBijection(S, T)
  BY <1>1 DEF ExistsBijection
<1> QED BY <1>2, FS_Bijection

LEMMA TotalZero ==
  ASSUME NEW S, IsFiniteSet(S), NEW w, \A a \in S : w[a] = 0
  PROVE  Total(w, S) = 0
<1>1. SumOf(S, w, w, w) /\ \A a \in S : w[a] \in Nat
  BY DEF SumOf
<1>2. Total(w, S) = Total(w, S) + Total(w, S)
  BY <1>1, TotalAdds
<1>3. Total(w, S) \in Nat
  BY <1>1, TotalNat
<1>4. \A n \in Nat : n = n + n => n = 0
  OBVIOUS
<1> QED BY <1>2, <1>3, <1>4

\* What merging adds to the movable bytes.
MergedBytes(m, to) == Arena!MapThenSumSet(LAMBDA b : Arena!Left(m, to, b), Arena!Merges(m, to))

LEMMA MovedCounts ==
  ASSUME Arena!HeapConstants, NEW m, Tiles(m), NEW x, RunSound(m, Movable, x),
         NEW to, ReservedIs(m, x, to), NEW m2, MovedIs(m, x, to, m2), Tiles(m2)
  PROVE  /\ Cardinality(Arena!Is(m2, "movable")) = Cardinality(Arena!Is(m, "movable"))
         /\ Arena!BytesOf(m2, Arena!Is(m2, "movable"))
              = Arena!BytesOf(m, Arena!Is(m, "movable")) + MergedBytes(m, to)
         /\ MergedBytes(m, to) \in Nat
         /\ Arena!Is(m2, "locked") = Arena!Is(m, "locked")
         /\ Arena!BytesOf(m2, Arena!Is(m2, "locked")) = Arena!BytesOf(m, Arena!Is(m, "locked"))
<1>1. PICK M, M2 : M = Arena!Is(m, "movable") /\ M2 = Arena!Is(m2, "movable")
  OBVIOUS
<1>2. PICK p : p = [a \in M |-> IF a \in x THEN to[a] ELSE a]
  OBVIOUS
<1>3. /\ \A a \in M : a \in DOMAIN m /\ m[a].state = "movable"
      /\ \A a \in DOMAIN m : m[a].state = "movable" => a \in M
      /\ \A a \in DOMAIN m2 : a \in M2 <=> m2[a].state = "movable"
      /\ \A a \in M2 : a \in DOMAIN m2
      /\ DOMAIN to = M \cap x
  BY <1>1 DEF Arena!Is, ReservedIs, Arena!Movables
<1>4. \A b \in DOMAIN to : /\ to[b] \notin x /\ m[to[b]].state = "free"
                           /\ m2[to[b]].size = NewSize(m, to, b) /\ to[b] \in M2
  <2> SUFFICES ASSUME NEW b \in DOMAIN to
               PROVE  /\ to[b] \notin x /\ m[to[b]].state = "free"
                      /\ m2[to[b]].size = NewSize(m, to, b) /\ to[b] \in M2
    OBVIOUS
  <2>1. to[b] \notin x /\ m[to[b]].state = "free"
    BY MovesIs
  <2>2. to[b] \in DOMAIN m2 /\ m2[to[b]].state = "movable" /\ m2[to[b]].size = NewSize(m, to, b)
    BY MovedBlocks
  <2> QED BY <1>3, <2>1, <2>2
<1>5. \A a \in Arena!Range(to) : \E b \in DOMAIN to : to[b] = a
  BY DEF Arena!Range
<1>6. ASSUME NEW a \in DOMAIN m, a \notin x, m[a].state # "free"
      PROVE  m2[a] = m[a] /\ a \in DOMAIN m2
  <2>1. a \notin Arena!Range(to)
    BY <1>4, <1>5, <1>6
  <2> QED BY <1>6, <2>1 DEF MovedIs
<1>7. Pairs(p, M, M2)
  <2>1. \A a \in M : p[a] = (IF a \in x THEN to[a] ELSE a) /\ p[a] \in M2
    BY <1>2, <1>3, <1>4, <1>6
  <2>2. p \in [M -> M2]
    BY <1>2, <2>1
  <2>3. ASSUME NEW a \in M, NEW c \in M, p[a] = p[c]
        PROVE  a = c
    BY <1>3, <1>4, <2>1, <2>3 DEF ReservedIs
  <2>4. ASSUME NEW c \in M2
        PROVE  \E a \in M : p[a] = c
    <3>1. c \in DOMAIN m2 /\ m2[c].state = "movable"
      BY <1>3
    <3>2. CASE \E b \in DOMAIN to : c = to[b]
      BY <1>3, <2>1, <3>2
    <3>3. CASE c \in DOMAIN m \ x /\ c \notin Arena!Range(to)
      <4>1. m2[c] = m[c]
        BY <3>3 DEF MovedIs
      <4> QED BY <1>3, <2>1, <3>1, <3>3, <4>1
    <3>4. c # Arena!Min(x)
      <4>1. Arena!Span(m, x) \in Nat \ {0}
        BY RunEnds
      <4>2. m2[Arena!Min(x)].state = "free"
        BY <4>1, FreeBlockIs DEF MovedIs
      <4> QED BY <3>1, <4>2
    <3>5. ASSUME NEW b \in Arena!Splits(m, to), c = Arena!SplitAt(m, to, b)
          PROVE  FALSE
      <4>1. m2[c] = Arena!FreeBlock(Arena!Left(m, to, b) - Overhead)
              /\ Arena!Left(m, to, b) - Overhead \in Nat \ {0}
        BY <3>5, SplitsIs DEF MovedIs
      <4> QED BY <3>1, <4>1, FreeBlockIs
    <3> QED BY <3>1, <3>2, <3>3, <3>4, <3>5, MovedPlaces
  <2> QED BY <2>2, <2>3, <2>4 DEF Pairs
<1>8. InArena(m) /\ InArena(m2)
  BY DEF Tiles
<1>9. PICK w, v, G : w = SizeAt(m) /\ v = SizeAt(m2) /\ G = Arena!Merges(m, to)
  OBVIOUS
<1>10. /\ IsFiniteSet(M) /\ Arena!BytesOf(m, M) = Total(w, M)
            /\ Arena!BytesOf(m2, M2) = Total(v, M2)
       /\ \A a \in M : w[a] = m[a].size /\ w[a] \in Nat
       /\ \A a \in M2 : v[a] = m2[a].size /\ v[a] \in Nat
  <2>1. /\ IsFiniteSet(M) /\ Arena!BytesOf(m, M) = Total(w, M)
             /\ Arena!BytesOf(m2, M2) = Total(v, M2)
        /\ \A a \in DOMAIN m : w[a] = m[a].size /\ w[a] \in Nat
        /\ \A a \in DOMAIN m2 : v[a] = m2[a].size /\ v[a] \in Nat
    BY <1>1, <1>8, <1>9, StateCounts
  <2> QED BY <1>3, <2>1
<1>11. Cardinality(M2) = Cardinality(M)
  BY <1>7, <1>10, PairsAlike
<1>12. PICK e, u : /\ e = [a \in M |-> IF a \in G THEN Arena!Left(m, to, a) ELSE 0]
                   /\ u = [a \in M |-> v[p[a]]]
  OBVIOUS
<1>13. /\ G \in SUBSET M /\ \A b \in G : e[b] = Arena!Left(m, to, b) /\ e[b] \in Nat
       /\ \A a \in M : e[a] \in Nat /\ (a \notin G => e[a] = 0)
  <2>1. \A b \in G : b \in DOMAIN to /\ Arena!Left(m, to, b) \in Nat
    BY <1>9, MovesIs DEF Arena!Merges
  <2> QED BY <1>3, <1>12, <2>1
<1>14. SumOf(M, u, w, e)
  <2> SUFFICES ASSUME NEW a \in M
               PROVE  w[a] \in Nat /\ e[a] \in Nat /\ u[a] = w[a] + e[a]
    BY DEF SumOf
  <2>1. w[a] = m[a].size /\ w[a] \in Nat /\ e[a] \in Nat
    BY <1>10, <1>13
  <2>2. p[a] \in M2 /\ u[a] = m2[p[a]].size
    BY <1>7, <1>10, <1>12 DEF Pairs
  <2>3. CASE a \in x
    <3>1. a \in DOMAIN to /\ p[a] = to[a]
      BY <1>2, <1>3, <2>3
    <3>2. u[a] = NewSize(m, to, a)
      BY <1>4, <2>2, <3>1
    <3>3. m[to[a]].size = m[a].size + Arena!Left(m, to, a)
      BY <3>1, MovesIs
    <3>4. e[a] = IF a \in G THEN Arena!Left(m, to, a) ELSE 0
      BY <1>12
    <3> QED BY <1>9, <2>1, <3>2, <3>3, <3>4 DEF NewSize
  <2>4. CASE a \notin x
    <3>1. p[a] = a /\ m2[a] = m[a] /\ a \notin G
      <4>1. a \notin DOMAIN to
        BY <1>3, <2>4
      <4>2. p[a] = a /\ m2[a] = m[a]
        BY <1>2, <1>3, <1>6, <2>4
      <4> QED BY <1>9, <4>1, <4>2 DEF Arena!Merges
    <3> QED BY <1>13, <2>1, <2>2, <3>1
  <2> QED BY <2>3, <2>4
<1>15. Total(u, M) = Total(w, M) + Total(e, M)
  BY <1>10, <1>14, TotalAdds
<1>16. Total(u, M) = Total(v, M2)
  <2>1. Carries(p, M, u, v)
    BY <1>10, <1>12, <1>7 DEF Carries, Pairs
  <2> QED BY <1>7, <1>10, <2>1, TotalMapped
<1>17. Total(e, M) = MergedBytes(m, to) /\ Total(e, M) \in Nat
  <2>1. /\ Total(e, M) = Total(e, G) + Total(e, M \ G) /\ Total(e, M) \in Nat
        /\ Total(e, G) \in Nat
    BY <1>10, <1>13, TotalParted
  <2>2. IsFiniteSet(G) /\ IsFiniteSet(M \ G)
    BY <1>10, <1>13, FS_Subset
  <2>3. Total(e, M \ G) = 0
    <3>1. \A a \in M \ G : e[a] = 0
      BY <1>13
    <3> QED BY <2>2, <3>1, TotalZero
  <2>4. PICK l : l = [b \in G |-> Arena!Left(m, to, b)]
    OBVIOUS
  <2>5. \A b \in G : e[b] \in Nat /\ e[b] = l[b]
    BY <1>13, <2>4
  <2>6. Total(e, G) = Total(l, G)
    BY <2>2, <2>5, TotalAlike
  <2>7. MergedBytes(m, to) = Total(l, G)
    BY <1>9, <2>4, MergedIs DEF MergedBytes
  <2> QED BY <2>1, <2>3, <2>6, <2>7
<1>18. Arena!Is(m2, "locked") = Arena!Is(m, "locked")
         /\ \A a \in Arena!Is(m, "locked") : m2[a].size = m[a].size
  <2>1. ASSUME NEW a \in DOMAIN m, m[a].state = "locked"
        PROVE  a \in DOMAIN m2 /\ m2[a] = m[a]
    <3>1. a \notin x
      <4>1. a \in x => m[a].state \in Movable
        BY DEF RunSound
      <4> QED BY <2>1, <4>1 DEF Movable
    <3> QED BY <1>6, <2>1, <3>1
  <2>2. ASSUME NEW a \in DOMAIN m2, m2[a].state = "locked"
        PROVE  a \in DOMAIN m /\ m2[a] = m[a]
    <3>1. CASE a = Arena!Min(x)
      <4>1. Arena!Span(m, x) \in Nat \ {0}
        BY RunEnds
      <4>2. m2[Arena!Min(x)].state = "free"
        BY <4>1, FreeBlockIs DEF MovedIs
      <4> QED BY <2>2, <3>1, <4>2
    <3>2. CASE \E b \in DOMAIN to : a = to[b]
      BY <2>2, <3>2, MovedBlocks
    <3>3. ASSUME NEW b \in Arena!Splits(m, to), a = Arena!SplitAt(m, to, b)
          PROVE  FALSE
      <4>1. m2[a] = Arena!FreeBlock(Arena!Left(m, to, b) - Overhead)
              /\ Arena!Left(m, to, b) - Overhead \in Nat \ {0}
        BY <3>3, SplitsIs DEF MovedIs
      <4> QED BY <2>2, <4>1, FreeBlockIs
    <3>4. CASE a \in DOMAIN m \ x /\ a \notin Arena!Range(to)
      BY <3>4 DEF MovedIs
    <3> QED BY <3>1, <3>2, <3>3, <3>4, MovedPlaces
  <2> QED BY <2>1, <2>2 DEF Arena!Is
<1>19. Arena!BytesOf(m2, Arena!Is(m2, "locked")) = Arena!BytesOf(m, Arena!Is(m, "locked"))
  BY <1>8, <1>18, StateKept
<1>20. Arena!BytesOf(m2, M2) = Arena!BytesOf(m, M) + MergedBytes(m, to)
         /\ MergedBytes(m, to) \in Nat
  BY <1>10, <1>15, <1>16, <1>17
<1> QED BY <1>1, <1>11, <1>18, <1>19, <1>20


LEMMA ElsewhereKept ==
  ASSUME NEW m, NEW hs, NEW m2, NEW hs2, Kept(m, hs, m2, hs2), NEW sys, Elsewhere(hs, sys)
  PROVE  Elsewhere(hs2, sys)
<1>1. \A h \in Slot : hs2[h].state = hs[h].state /\ (hs[h].state # "movable" => hs2[h] = hs[h])
  BY DEF Kept, KeptAt
<1>2. DOMAIN sys = {h \in Slot : hs2[h].state \in {"system", "lockedsystem"}}
  BY <1>1 DEF Elsewhere
<1>3. \A h \in DOMAIN sys : hs2[h] = hs[h]
  BY <1>1, <1>2
<1> QED BY <1>1, <1>2, <1>3 DEF Elsewhere

LEMMA MovedDomain ==
  ASSUME Arena!HeapConstants, NEW m, Tiles(m), NEW x, RunSound(m, Movable, x),
         NEW to, ReservedIs(m, x, to), NEW m2, MovedIs(m, x, to, m2)
  PROVE  /\ Cardinality(x) \in Nat /\ Cardinality(Arena!Splits(m, to)) \in Nat
         /\ Cardinality(DOMAIN m2) = Cardinality(DOMAIN m) - Cardinality(x) + 1
                                       + Cardinality(Arena!Splits(m, to))
<1> DEFINE T == {Arena!SplitAt(m, to, b) : b \in Arena!Splits(m, to)}
           D == DOMAIN m
           L == (D \ x) \cup {Arena!Min(x)}
<1>1. IsFiniteSet(D) /\ Cardinality(D) \in Nat
  BY Ends DEF Tiles
<1>2. x \subseteq D /\ Arena!Min(x) \in x /\ Arena!Splits(m, to) \subseteq D
  <2>1. Arena!Splits(m, to) \subseteq DOMAIN to
    BY DEF Arena!Splits
  <2>2. DOMAIN to \subseteq D
    BY MovesIs
  <2> QED BY <2>1, <2>2 DEF RunSound
<1>3. /\ IsFiniteSet(x) /\ IsFiniteSet(Arena!Splits(m, to))
      /\ Cardinality(x) \in Nat /\ Cardinality(Arena!Splits(m, to)) \in Nat
  BY <1>1, <1>2, FS_Subset, FS_CardinalityType
<1>4. IsFiniteSet(T) /\ Cardinality(T) = Cardinality(Arena!Splits(m, to))
  <2>1. PICK p : p = [b \in Arena!Splits(m, to) |-> Arena!SplitAt(m, to, b)]
    OBVIOUS
  <2>2. p \in [Arena!Splits(m, to) -> T]
          /\ \A b \in Arena!Splits(m, to) : p[b] = Arena!SplitAt(m, to, b)
    BY <2>1
  <2>3. Pairs(p, Arena!Splits(m, to), T)
    BY <2>2, SplitsDiffer DEF Pairs
  <2> HIDE DEF T
  <2> QED BY <1>3, <2>3, PairsAlike
<1>5. /\ IsFiniteSet(L) /\ Cardinality(L) = Cardinality(D) - Cardinality(x) + 1
  <2>1. IsFiniteSet(D \ x) /\ Cardinality(D \ x) = Cardinality(D) - Cardinality(D \cap x)
    BY <1>1, FS_Difference
  <2>2. D \cap x = x /\ Arena!Min(x) \notin D \ x
    BY <1>2
  <2>3. PICK R, e : R = D \ x /\ e = Arena!Min(x)
    OBVIOUS
  <2>4. IsFiniteSet(R \cup {e}) /\ Cardinality(R \cup {e}) = Cardinality(R) + 1
    BY <2>1, <2>2, <2>3, FS_AddElement
  <2>5. L = R \cup {e}
    BY <2>3
  <2>6. Cardinality(R) = Cardinality(D) - Cardinality(x)
    BY <2>1, <2>2, <2>3
  <2> QED BY <2>4, <2>5, <2>6
<1>6. L \cap T = {}
  <2>1. L \subseteq D
    BY <1>2
  <2>2. T \cap D = {}
    BY SplitsIs
  <2> QED BY <2>1, <2>2
<1>7. DOMAIN m2 = L \cup T
  BY DEF MovedIs
<1> HIDE DEF T, L
<1>8. Cardinality(L \cup T) = Cardinality(L) + Cardinality(T) - Cardinality(L \cap T)
  BY <1>4, <1>5, FS_Union
<1>9. Cardinality(L \cap T) = 0
  BY <1>6, FS_EmptySet, Zenon
<1>10. Cardinality(DOMAIN m2) = Cardinality(L \cup T)
  BY <1>7, Zenon
<1> QED BY <1>1, <1>3, <1>4, <1>5, <1>8, <1>9, <1>10

\* An arena in which a room was made.
LEMMA MovedKeeps ==
  ASSUME Arena!HeapConstants, NEW m, NEW s, Sound(m, s, handles, system),
         NEW x \in Arena!Extents(m), NEW to \in Arena!Reservations(m, x)
  PROVE  /\ Sound(Arena!Moved(m, x, to), Arena!MovedStats(m, x, to, s), Arena!MovedHandles(m, to),
              system)
         /\ Kept(m, handles, Arena!Moved(m, x, to), Arena!MovedHandles(m, to))
         /\ Arena!Min(x) \in DOMAIN Arena!Moved(m, x, to)
         /\ Arena!Moved(m, x, to)[Arena!Min(x)].state = "free"
              /\ Arena!Moved(m, x, to)[Arena!Min(x)].size = Arena!Span(m, x)
<1>1. PICK m2, s2, hs2 : /\ m2 = Arena!Moved(m, x, to) /\ s2 = Arena!MovedStats(m, x, to, s)
                         /\ hs2 = Arena!MovedHandles(m, to)
  OBVIOUS
<1>2. /\ Tiles(m) /\ handles \in [Slot -> HandleSort] /\ Named(m, handles)
      /\ Elsewhere(handles, system) /\ s \in Counter /\ Counted(m, s) /\ CountedSystem(system, s)
  BY DEF Sound
<1>3. RunSound(m, Movable, x) /\ ReservedIs(m, x, to)
  BY <1>2, RunIs, Reserved DEF Arena!Extents, Movable
<1>4. MovedIs(m, x, to, m2)
  BY <1>1, <1>2, <1>3, MovedShape
<1>5. Tiles(m2)
  BY <1>2, <1>3, <1>4, MovedTiles
<1>6. HandlesMoved(m, to, handles, hs2) /\ hs2 \in [Slot -> HandleSort]
  BY <1>1, <1>2, <1>3, MovedHandlesAre
<1>7. Named(m2, hs2) /\ Kept(m, handles, m2, hs2)
  BY <1>2, <1>3, <1>4, <1>6, MovedNames
<1>8. Elsewhere(hs2, system)
  BY <1>2, <1>7, ElsewhereKept
<1>9. PICK c, d, cx, cs, mg : /\ c = Cardinality(DOMAIN m) /\ d = Cardinality(DOMAIN m2)
                              /\ cx = Cardinality(x) /\ cs = Cardinality(Arena!Splits(m, to))
                              /\ mg = MergedBytes(m, to)
  OBVIOUS
<1>10. /\ c \in Nat /\ cx \in Nat /\ cs \in Nat /\ mg \in Nat /\ d = c - cx + 1 + cs
       /\ Overhead \in Nat /\ ArenaSize \in Nat
  <2>1. c \in Nat
    BY <1>2, <1>9, Ends DEF Tiles
  <2>2. mg \in Nat
    BY <1>2, <1>3, <1>4, <1>5, <1>9, MovedCounts
  <2>3. cx \in Nat /\ cs \in Nat /\ d = c - cx + 1 + cs
    BY <1>2, <1>3, <1>4, <1>9, MovedDomain
  <2> QED BY <2>1, <2>2, <2>3, Places
<1>11. PICK fb, fs, ms : /\ fb = s.freeBlocks + cs - (cx - 1)
                         /\ fs = s.freeSize - mg + (cx - 1 - cs) * Overhead
                         /\ ms = s.movableSize + mg
  OBVIOUS
<1>12. fb \in Int /\ fs \in Int /\ ms \in Int
  BY <1>2, <1>10, <1>11 DEF Counter
<1>13. s2 = [s EXCEPT !.freeBlocks = fb, !.freeSize = fs, !.movableSize = ms]
  BY <1>1, <1>9, <1>11, SameCardinality DEF Arena!MovedStats, MergedBytes
<1>14. /\ s2.freeBlocks = fb /\ s2.freeSize = fs
       /\ s2.movableBlocks = s.movableBlocks /\ s2.movableSize = ms
       /\ s2.lockedBlocks = s.lockedBlocks /\ s2.lockedSize = s.lockedSize
       /\ s2.systemBlocks = s.systemBlocks /\ s2.systemSize = s.systemSize
  BY <1>2, <1>13 DEF Counter
<1>15. s2 \in Counter
  BY <1>2, <1>12, <1>13 DEF Counter
<1>16. Counted(m2, s2)
  <2>1. /\ Cardinality(Arena!Is(m2, "movable")) = Cardinality(Arena!Is(m, "movable"))
        /\ Arena!BytesOf(m2, Arena!Is(m2, "movable"))
             = Arena!BytesOf(m, Arena!Is(m, "movable")) + mg
        /\ Cardinality(Arena!Is(m2, "locked")) = Cardinality(Arena!Is(m, "locked"))
        /\ Arena!BytesOf(m2, Arena!Is(m2, "locked")) = Arena!BytesOf(m, Arena!Is(m, "locked"))
    BY <1>2, <1>3, <1>4, <1>5, <1>9, MovedCounts
  <2>2. /\ s2.movableBlocks = Cardinality(Arena!Is(m2, "movable"))
        /\ s2.movableSize = Arena!BytesOf(m2, Arena!Is(m2, "movable"))
        /\ s2.lockedBlocks = Cardinality(Arena!Is(m2, "locked"))
        /\ s2.lockedSize = Arena!BytesOf(m2, Arena!Is(m2, "locked"))
    BY <1>2, <1>11, <1>14, <2>1 DEF Counted
  <2>3. PICK fb0, fs0, mb0, ms0, lb0, ls0 :
          /\ fb0 = s.freeBlocks /\ fs0 = s.freeSize
          /\ mb0 = s.movableBlocks /\ ms0 = s.movableSize
          /\ lb0 = s.lockedBlocks /\ ls0 = s.lockedSize
    OBVIOUS
  <2>4. {fb0, fs0, mb0, ms0, lb0, ls0} \subseteq Int
    BY <1>2, <2>3 DEF Counter
  <2>5. fb0 + mb0 + lb0 = c /\ fs0 + ms0 + ls0 + c * Overhead = ArenaSize
    BY <1>2, <1>9, <2>3 DEF Counted
  <2>6. fb = fb0 + cs - (cx - 1) /\ fs = fs0 - mg + (cx - 1 - cs) * Overhead /\ ms = ms0 + mg
    BY <1>11, <2>3
  <2>7. fb + mb0 + lb0 = d
    <3>1. fb = fb0 + cs - (cx - 1) /\ fb0 + mb0 + lb0 = c
      BY <2>5, <2>6
    <3>2. fb0 \in Int /\ mb0 \in Int /\ lb0 \in Int
      BY <2>4
    <3>3. c \in Nat /\ cx \in Nat /\ cs \in Nat /\ d = c - cx + 1 + cs
      BY <1>10
    <3> QED BY <3>1, <3>2, <3>3
  <2>8. PICK g : g = cx - 1 - cs
    OBVIOUS
  <2>9. g \in Int /\ d = c - g
    BY <1>10, <2>8
  <2>10. d * Overhead = c * Overhead - g * Overhead /\ g * Overhead \in Int /\ c * Overhead \in Int
    BY <1>10, <2>9
  <2>11. fs = fs0 - mg + g * Overhead
    BY <2>6, <2>8
  <2>12. fs + ms + ls0 + d * Overhead = ArenaSize
    BY <1>10, <2>4, <2>5, <2>6, <2>10, <2>11
  <2>13. /\ s2.freeBlocks + s2.movableBlocks + s2.lockedBlocks = d
         /\ s2.freeSize + s2.movableSize + s2.lockedSize + d * Overhead = ArenaSize
    BY <1>14, <2>3, <2>7, <2>12
  <2> QED BY <1>9, <2>2, <2>13 DEF Counted
<1>17. CountedSystem(system, s2)
  BY <1>2, <1>14 DEF CountedSystem
<1>18. Sound(m2, s2, hs2, system)
  BY <1>5, <1>6, <1>7, <1>8, <1>15, <1>16, <1>17 DEF Sound
<1>19. /\ Arena!Min(x) \in DOMAIN m2 /\ m2[Arena!Min(x)].state = "free"
            /\ m2[Arena!Min(x)].size = Arena!Span(m, x)
  <2>1. Arena!Span(m, x) \in Nat \ {0}
    BY <1>2, <1>3, RunEnds
  <2> QED BY <1>4, <2>1, FreeBlockIs DEF MovedIs
<1> QED BY <1>1, <1>7, <1>18, <1>19

-----------------------------------------------------------------------------
(* Binding a free block to a handle                                         *)

LEMMA HandleFree ==
  ASSUME Arena!HeapConstants, Arena!FreeHandles # {}
  PROVE  Arena!Min(Arena!FreeHandles) \in Slot
           /\ handles[Arena!Min(Arena!FreeHandles)].state = "invalid"
<1>1. Arena!FreeHandles \in SUBSET Nat
  BY Places DEF Arena!FreeHandles
<1>2. Arena!Min(Arena!FreeHandles) \in Arena!FreeHandles
  BY <1>1, Smallest
<1> QED BY <1>2 DEF Arena!FreeHandles

\* The block at a, of n bytes or of all it had, is the handle's.
Given(m, a, h, n, m2) ==
  LET tail == a + n + Overhead
  IN /\ m2[a] = Arena!Block(IF Arena!Split(m, a, n) THEN n ELSE m[a].size, "movable", h, Junk)
     /\ \A b \in DOMAIN m : b # a => m2[b] = m[b]
     /\ DOMAIN m2 = DOMAIN m \cup (IF Arena!Split(m, a, n) THEN {tail} ELSE {})
     /\ Arena!Split(m, a, n) /\ tail \notin DOMAIN m =>
          m2[tail] = Arena!FreeBlock(m[a].size - n - Overhead)

LEMMA GivenTiles ==
  ASSUME Arena!HeapConstants, NEW m, Tiles(m), NEW a \in DOMAIN m, NEW h \in Slot,
         NEW n \in Nat \ {0}, n <= m[a].size, NEW m2, Given(m, a, h, n, m2)
  PROVE  /\ Tiles(m2) /\ m2[a].state = "movable" /\ m2[a].handle = h /\ m2[a].bytes = Junk
         /\ m2[a].size = (IF Arena!Split(m, a, n) THEN n ELSE m[a].size)
         /\ \A b \in DOMAIN m2 : b \notin DOMAIN m =>
              m2[b].state = "free" /\ m2[b].handle = Arena!NoHandle
         /\ Cardinality(DOMAIN m2) = Cardinality(DOMAIN m) + (IF Arena!Split(m, a, n) THEN 1 ELSE 0)
<1>1. PICK took : took = IF Arena!Split(m, a, n) THEN n ELSE m[a].size
  OBVIOUS
<1>2. PICK tail, left : tail = a + n + Overhead /\ left = m[a].size - n - Overhead
  OBVIOUS
<1>3. /\ a \in Nat /\ m[a].size \in Nat /\ m[a].size > 0 /\ n \in Nat /\ n > 0
      /\ Arena!After(m, a) = a + m[a].size + Overhead /\ IsFiniteSet(DOMAIN m)
      /\ took \in Nat \ {0}
  BY <1>1, Ends DEF Tiles
<1>4. /\ m2[a] = Arena!Block(took, "movable", h, Junk)
      /\ DOMAIN m2 = DOMAIN m \cup (IF Arena!Split(m, a, n) THEN {tail} ELSE {})
      /\ \A b \in DOMAIN m : b # a => m2[b] = m[b]
      /\ Arena!Split(m, a, n) /\ tail \notin DOMAIN m => m2[tail] = Arena!FreeBlock(left)
  BY <1>1, <1>2 DEF Given
<1>5. /\ m2[a] \in Blocky /\ m2[a].size = took /\ m2[a].state = "movable"
      /\ m2[a].handle = h /\ m2[a].bytes = Junk
  BY <1>3, <1>4 DEF Arena!Block, Blocky
<1>6. \A b \in DOMAIN m : m2[b] \in Blocky /\ (b # a => Arena!After(m2, b) = Arena!After(m, b))
  BY <1>4, <1>5 DEF Tiles, InArena, Arena!After
<1>7. Arena!After(m2, a) = a + took + Overhead
  BY <1>5 DEF Arena!After
<1>8. CASE ~Arena!Split(m, a, n)
  <2>1. DOMAIN m2 = DOMAIN m
    BY <1>4, <1>8
  <2>2. Arena!After(m2, a) = Arena!After(m, a)
    BY <1>1, <1>3, <1>7, <1>8
  <2>3. \A b \in DOMAIN m : Arena!After(m2, b) = Arena!After(m, b)
    BY <1>6, <2>2
  <2>4. Cut(m, m2, {})
    BY <1>6, <2>1, <2>3 DEF Cut
  <2>5. Tiles(m2)
    BY <2>4, CutTiles
  <2>6. Cardinality(DOMAIN m2) = Cardinality(DOMAIN m) + 0
    <3>1. Cardinality(DOMAIN m) \in Nat
      BY <1>3, FS_CardinalityType
    <3> QED BY <2>1, <3>1
  <2> QED BY <1>1, <1>5, <1>8, <2>1, <2>5, <2>6
<1>9. CASE Arena!Split(m, a, n)
  <2>1. m[a].size - n > MinSplit
    BY <1>9 DEF Arena!Split
  <2>2. /\ left \in Nat \ {0} /\ tail \in Nat /\ a < tail /\ tail < Arena!After(m, a)
        /\ tail + left + Overhead = Arena!After(m, a) /\ took = n
    BY <1>1, <1>2, <1>3, <1>9, <2>1, Places
  <2>3. tail \notin DOMAIN m
    <3> SUFFICES ASSUME tail \in DOMAIN m
                 PROVE  FALSE
      OBVIOUS
    <3>1. Arena!After(m, a) <= tail
      BY <2>2 DEF Tiles, InOrder
    <3>2. Arena!After(m, a) \in Nat
      BY <1>3, Places
    <3> QED BY <2>2, <3>1, <3>2
  <2>4. DOMAIN m2 = DOMAIN m \cup {tail} /\ m2[tail] = Arena!FreeBlock(left)
    BY <1>4, <1>9, <2>3
  <2>5. /\ m2[tail] \in Blocky /\ m2[tail].size = left /\ m2[tail].state = "free"
        /\ m2[tail].handle = Arena!NoHandle
    BY <2>2, <2>4, FreeBlockIs
  <2>6. Arena!After(m2, a) = tail /\ Arena!After(m2, tail) = Arena!After(m, a)
    BY <1>2, <1>7, <2>2, <2>5 DEF Arena!After
  <2>7. CutAt(m, m2, {tail}, a)
    BY <2>2, <2>6 DEF CutAt
  <2>8. Cut(m, m2, {tail})
    BY <1>6, <2>2, <2>4, <2>5, <2>6, <2>7 DEF Cut
  <2>9. Tiles(m2)
    BY <2>8, CutTiles
  <2>10. Cardinality(DOMAIN m2) = Cardinality(DOMAIN m) + 1
    <3>1. Cardinality(DOMAIN m \cup {tail}) = Cardinality(DOMAIN m) + 1
      BY <1>3, <2>3, FS_AddElement
    <3> QED BY <2>4, <3>1
  <2>11. \A b \in DOMAIN m2 : b \notin DOMAIN m => b = tail
    BY <2>4
  <2> QED BY <1>1, <1>5, <1>9, <2>5, <2>9, <2>10, <2>11
<1> QED BY <1>8, <1>9

\* What the caller gets: nothing that a holder of a handle could see, or a handle
\* of its own with bytes nobody wrote.
GotArena(m, hs, m2, hs2) ==
  \/ Kept(m, hs, m2, hs2)
  \/ \E h \in Slot :
       /\ hs[h].state = "invalid" /\ hs2[h].state = "movable"
       /\ m2[hs2[h].data].bytes = Junk
       /\ \A g \in Slot : g # h => KeptAt(m, hs, m2, hs2, g)

LEMMA BindKeeps ==
  ASSUME Arena!HeapConstants, NEW m, NEW s, NEW hs, Sound(m, s, hs, system),
         \A h \in Slot : hs[h].state = handles[h].state,
         NEW a \in DOMAIN m, m[a].state = "free",
         NEW n \in Sizes, n <= m[a].size, Arena!Bind(m, s, hs, a, n)
  PROVE  /\ Sound(header', stats', handles', system') /\ system' = system
         /\ GotArena(m, hs, header', handles')
<1>1. system' = system
  BY DEF Arena!Bind
<1>2. /\ Tiles(m) /\ hs \in [Slot -> HandleSort] /\ Named(m, hs)
      /\ Elsewhere(hs, system) /\ s \in Counter /\ Counted(m, s) /\ CountedSystem(system, s)
  BY DEF Sound
<1>3. CASE Arena!FreeHandles = {}
  <2>1. header' = m /\ stats' = s /\ handles' = hs
    BY <1>3 DEF Arena!Bind
  <2>2. Kept(m, hs, m, hs)
    BY DEF Kept, KeptAt
  <2> QED BY <1>1, <2>1, <2>2 DEF GotArena
<1>4. CASE Arena!FreeHandles # {}
  <2>1. PICK h : h = Arena!Min(Arena!FreeHandles)
    OBVIOUS
  <2>2. h \in Slot /\ hs[h].state = "invalid"
    BY <1>4, <2>1, HandleFree
  <2>3. PICK m2, s2, hs2, cut : /\ m2 = header' /\ s2 = stats' /\ hs2 = handles'
                                /\ cut = Arena!Split(m, a, n)
    OBVIOUS
  <2>4. PICK took, tail, left : /\ took = (IF cut THEN n ELSE m[a].size)
                                /\ tail = a + n + Overhead /\ left = m[a].size - n - Overhead
    OBVIOUS
  <2>5. /\ m2 = [b \in DOMAIN m \cup (IF cut THEN {tail} ELSE {}) |->
                   CASE b = a -> Arena!Block(took, "movable", h, Junk)
                     [] b # a /\ b \notin DOMAIN m -> Arena!FreeBlock(left)
                     [] OTHER -> m[b]]
        /\ hs2 = [hs EXCEPT ![h] = [state |-> "movable", data |-> a]]
        /\ s2 = [s EXCEPT
             !.freeBlocks = IF cut THEN @ ELSE @ - 1,
             !.freeSize = @ - took - (IF cut THEN Overhead ELSE 0),
             !.movableBlocks = @ + 1,
             !.movableSize = @ + took]
    BY <1>4, <2>1, <2>3, <2>4, Zenon DEF Arena!Bind
  <2>6. Given(m, a, h, n, m2)
    <3>1. DOMAIN m2 = DOMAIN m \cup (IF cut THEN {tail} ELSE {}) /\ a \in DOMAIN m2
      BY <2>5
    <3>2. m2[a] = Arena!Block(took, "movable", h, Junk)
      BY <2>5, <3>1
    <3>3. \A b \in DOMAIN m : b # a => m2[b] = m[b]
      BY <2>5
    <3>4. cut /\ tail \notin DOMAIN m => m2[tail] = Arena!FreeBlock(left)
      BY <2>5
    <3> QED BY <2>3, <2>4, <3>1, <3>2, <3>3, <3>4 DEF Given
  <2>7. n \in Nat \ {0}
    BY Places
  <2>8. /\ Tiles(m2) /\ m2[a].state = "movable" /\ m2[a].handle = h /\ m2[a].bytes = Junk
        /\ m2[a].size = took
        /\ \A b \in DOMAIN m2 : b \notin DOMAIN m
             => m2[b].state = "free" /\ m2[b].handle = Arena!NoHandle
        /\ Cardinality(DOMAIN m2) = Cardinality(DOMAIN m) + (IF cut THEN 1 ELSE 0)
        /\ \A b \in DOMAIN m : b # a => m2[b] = m[b]
        /\ \A b \in DOMAIN m : b \in DOMAIN m2
    <3>1. /\ Tiles(m2) /\ m2[a].state = "movable" /\ m2[a].handle = h /\ m2[a].bytes = Junk
          /\ m2[a].size = (IF Arena!Split(m, a, n) THEN n ELSE m[a].size)
          /\ \A b \in DOMAIN m2 : b \notin DOMAIN m =>
               m2[b].state = "free" /\ m2[b].handle = Arena!NoHandle
          /\ Cardinality(DOMAIN m2)
               = Cardinality(DOMAIN m) + (IF Arena!Split(m, a, n) THEN 1 ELSE 0)
      BY <1>2, <2>2, <2>6, <2>7, GivenTiles
    <3>2. /\ \A b \in DOMAIN m : b # a => m2[b] = m[b]
          /\ DOMAIN m2 = DOMAIN m \cup (IF cut THEN {tail} ELSE {})
      BY <2>3, <2>4, <2>6 DEF Given
    <3>3. \A b \in DOMAIN m : b \in DOMAIN m2
      BY <3>2
    <3>4. m2[a].size = took
          /\ Cardinality(DOMAIN m2) = Cardinality(DOMAIN m) + (IF cut THEN 1 ELSE 0)
      BY <2>3, <2>4, <3>1, Zenon
    <3> QED BY <3>1, <3>2, <3>3, <3>4
  <2>9. /\ hs2[h] = [state |-> "movable", data |-> a]
        /\ \A g \in Slot : g # h => hs2[g] = hs[g]
        /\ hs2 \in [Slot -> HandleSort]
    <3>1. a \in Nat /\ a < ArenaSize /\ ArenaSize \in Nat /\ Arena!Max(Slot) \in Nat
      BY <1>2, Ends, HandleMax, Places DEF Tiles
    <3>2. [state |-> "movable", data |-> a] \in HandleSort
      BY <3>1 DEF HandleSort
    <3> QED BY <1>2, <2>2, <2>5, <3>2
  <2>10. Named(m2, hs2)
    <3>1. ASSUME NEW b \in DOMAIN m2
          PROVE  IF m2[b].state = "free" THEN m2[b].handle = Arena!NoHandle
                 ELSE m2[b].handle \in Slot
                        /\ hs2[m2[b].handle] = [state |-> m2[b].state, data |-> b]
      <4>1. CASE b = a
        BY <2>2, <2>8, <2>9, <4>1
      <4>2. CASE b \notin DOMAIN m
        BY <2>8, <4>2
      <4>3. CASE b \in DOMAIN m /\ b # a /\ m[b].state = "free"
        BY <1>2, <2>8, <4>3 DEF Named
      <4>4. CASE b \in DOMAIN m /\ b # a /\ m[b].state # "free"
        <5>1. m2[b] = m[b] /\ m[b].handle \in Slot
              /\ hs[m[b].handle] = [state |-> m[b].state, data |-> b]
          BY <1>2, <2>8, <4>4 DEF Named
        <5>2. m[b].handle # h
          <6>1. m[b].state \in {"free", "movable", "locked"}
            BY <1>2, <4>4 DEF Tiles, InArena, Blocky
          <6>2. hs[m[b].handle].state = m[b].state
            BY <5>1
          <6> QED BY <2>2, <6>1, <6>2
        <5>3. hs2[m2[b].handle] = [state |-> m2[b].state, data |-> b] /\ m2[b].handle \in Slot
          BY <2>9, <5>1, <5>2
        <5>4. m2[b].state # "free"
          BY <4>4, <5>1
        <5> QED BY <5>3, <5>4
      <4> QED BY <4>1, <4>2, <4>3, <4>4
    <3>2. ASSUME NEW g \in Slot, hs2[g].state \in {"movable", "locked"}
          PROVE  hs2[g].data \in DOMAIN m2 /\ m2[hs2[g].data].handle = g
      <4>1. CASE g = h
        BY <2>8, <2>9, <4>1
      <4>2. CASE g # h
        <5>1. hs2[g] = hs[g] /\ hs[g].data \in DOMAIN m /\ m[hs[g].data].handle = g
          BY <1>2, <2>9, <3>2, <4>2 DEF Named
        <5>2. hs[g].data # a
          BY <1>2, <5>1, TakenIs
        <5> QED BY <2>8, <5>1, <5>2
      <4> QED BY <4>1, <4>2
    <3> QED BY <3>1, <3>2 DEF Named
  <2>11. Elsewhere(hs2, system)
    <3>1. h \notin DOMAIN system
      BY <1>2, <2>2 DEF Elsewhere
    <3>2. hs2[h].state = "movable"
      BY <2>9
    <3>3. DOMAIN system = {g \in Slot : hs2[g].state \in {"system", "lockedsystem"}}
      BY <1>2, <2>9, <3>1, <3>2 DEF Elsewhere
    <3>4. \A g \in DOMAIN system : g \in Slot /\ hs2[g] = hs[g]
      BY <2>9, <3>1, <3>3
    <3>5. \A g \in Slot : hs2[g].state = "invalid" => g # h /\ hs2[g] = hs[g]
      BY <2>9, <3>2
    <3> QED BY <1>2, <3>3, <3>4, <3>5 DEF Elsewhere
  <2>12. PICK fb, fs, mb, ms : /\ fb = (IF cut THEN s.freeBlocks ELSE s.freeBlocks - 1)
                               /\ fs = s.freeSize - took - (IF cut THEN Overhead ELSE 0)
                               /\ mb = s.movableBlocks + 1 /\ ms = s.movableSize + took
    OBVIOUS
  <2>13. took \in Nat /\ {s.freeBlocks, s.freeSize, s.movableBlocks, s.movableSize} \subseteq Int
         /\ {fb, fs, mb, ms} \subseteq Int
    <3>1. took \in Nat
      BY <1>2, <2>4, <2>7, Ends DEF Tiles
    <3>2. {s.freeBlocks, s.freeSize, s.movableBlocks, s.movableSize} \subseteq Int
      BY <1>2 DEF Counter
    <3> QED BY <2>12, <3>1, <3>2, Places
  <2>14. s2 = [s EXCEPT !.freeBlocks = fb, !.freeSize = fs, !.movableBlocks = mb, !.movableSize
           = ms]
    BY <2>5, <2>12
  <2>15. /\ s2.freeBlocks = fb /\ s2.freeSize = fs /\ s2.movableBlocks = mb /\ s2.movableSize = ms
         /\ s2.lockedBlocks = s.lockedBlocks /\ s2.lockedSize = s.lockedSize
         /\ s2.systemBlocks = s.systemBlocks /\ s2.systemSize = s.systemSize
    BY <1>2, <2>14 DEF Counter
  <2>16. s2 \in Counter
    BY <1>2, <2>13, <2>14 DEF Counter
  <2>17. Counted(m2, s2)
    <3>1. InArena(m) /\ InArena(m2)
      BY <1>2, <2>8 DEF Tiles
    <3>2. Arena!Is(m2, "movable") = Arena!Is(m, "movable") \cup {a}
            /\ a \notin Arena!Is(m, "movable")
      BY <2>8 DEF Arena!Is
    <3>3. Arena!Is(m2, "locked") = Arena!Is(m, "locked") /\ a \notin Arena!Is(m, "locked")
      BY <2>8 DEF Arena!Is
    <3>4. \A st : \A b \in Arena!Is(m, st) : b # a => m2[b].size = m[b].size
      BY <2>8 DEF Arena!Is
    <3>5. /\ Arena!BytesOf(m2, Arena!Is(m2, "movable"))
               = Arena!BytesOf(m, Arena!Is(m, "movable")) + took
          /\ Cardinality(Arena!Is(m2, "movable")) = Cardinality(Arena!Is(m, "movable")) + 1
      <4>1. \A b \in Arena!Is(m, "movable") : m2[b].size = m[b].size
        BY <3>2, <3>4
      <4> QED BY <2>8, <3>1, <3>2, <4>1, StateGains
    <3>6. /\ Arena!BytesOf(m2, Arena!Is(m2, "locked")) = Arena!BytesOf(m, Arena!Is(m, "locked"))
          /\ Cardinality(Arena!Is(m2, "locked")) = Cardinality(Arena!Is(m, "locked"))
      <4>1. \A b \in Arena!Is(m, "locked") : m2[b].size = m[b].size
        BY <3>3, <3>4
      <4> QED BY <3>1, <3>3, <4>1, StateKept
    <3>7. PICK c, d, fb0, fs0, mb0, ms0, lb0, ls0 :
            /\ c = Cardinality(DOMAIN m) /\ d = Cardinality(DOMAIN m2)
            /\ fb0 = s.freeBlocks /\ fs0 = s.freeSize
            /\ mb0 = s.movableBlocks /\ ms0 = s.movableSize
            /\ lb0 = s.lockedBlocks /\ ls0 = s.lockedSize
      OBVIOUS
    <3>8. {fb0, fs0, mb0, ms0, lb0, ls0} \subseteq Int /\ c \in Nat
      BY <1>2, <3>1, <3>7, Ends DEF Counter
    <3>9. fb0 + mb0 + lb0 = c /\ fs0 + ms0 + ls0 + c * Overhead = ArenaSize
      BY <1>2, <3>7 DEF Counted
    <3>10. d = c + (IF cut THEN 1 ELSE 0) /\ fb = (IF cut THEN fb0 ELSE fb0 - 1) /\ mb = mb0 + 1
           /\ fs = fs0 - took - (IF cut THEN Overhead ELSE 0) /\ ms = ms0 + took
      BY <2>8, <2>12, <3>7
    <3>11. fb + mb + lb0 = d
      BY <3>8, <3>9, <3>10
    <3>12. (c + 1) * Overhead = c * Overhead + Overhead /\ c * Overhead \in Int /\ Overhead \in Int
           /\ ArenaSize \in Int
      BY <3>8, Places
    <3>13. fs + ms + ls0 + d * Overhead = ArenaSize
      <4>1. CASE cut
        BY <2>13, <3>8, <3>9, <3>10, <3>12, <4>1
      <4>2. CASE ~cut
        <5>1. d = c
          BY <3>8, <3>10, <4>2
        <5> QED BY <2>13, <3>8, <3>9, <3>10, <3>12, <4>2, <5>1
      <4> QED BY <4>1, <4>2
    <3>14. /\ s2.freeBlocks + s2.movableBlocks + s2.lockedBlocks = d
           /\ s2.freeSize + s2.movableSize + s2.lockedSize + d * Overhead = ArenaSize
      BY <2>15, <3>7, <3>11, <3>13
    <3>15. /\ s2.movableBlocks = Cardinality(Arena!Is(m2, "movable"))
           /\ s2.movableSize = Arena!BytesOf(m2, Arena!Is(m2, "movable"))
           /\ s2.lockedBlocks = Cardinality(Arena!Is(m2, "locked"))
           /\ s2.lockedSize = Arena!BytesOf(m2, Arena!Is(m2, "locked"))
      BY <1>2, <2>12, <2>15, <3>5, <3>6 DEF Counted
    <3> QED BY <3>7, <3>14, <3>15 DEF Counted
  <2>18. CountedSystem(system, s2)
    BY <1>2, <2>15 DEF CountedSystem
  <2>19. Sound(m2, s2, hs2, system)
    BY <2>8, <2>9, <2>10, <2>11, <2>16, <2>17, <2>18 DEF Sound
  <2>20. ASSUME NEW g \in Slot, g # h
         PROVE  KeptAt(m, hs, m2, hs2, g)
    <3>1. hs2[g] = hs[g]
      BY <2>9, <2>20
    <3>2. ASSUME hs[g].state \in {"movable", "locked"}
          PROVE  m2[hs[g].data] = m[hs[g].data]
      <4>1. hs[g].data \in DOMAIN m /\ m[hs[g].data].handle = g
        BY <1>2, <3>2 DEF Named
      <4>2. hs[g].data # a
        BY <1>2, <4>1, TakenIs
      <4> QED BY <2>8, <4>1, <4>2
    <3> QED BY <3>1, <3>2 DEF KeptAt
  <2>21. GotArena(m, hs, m2, hs2)
    BY <2>2, <2>8, <2>9, <2>20 DEF GotArena
  <2> QED BY <1>1, <2>3, <2>19, <2>21
<1> QED BY <1>3, <1>4


-----------------------------------------------------------------------------
(* Blocks of system memory                                                  *)

LEMMA SystemGains ==
  ASSUME Arena!HeapConstants, NEW sys, IsFiniteSet(DOMAIN sys), NEW sys2, NEW h,
         h \notin DOMAIN sys, DOMAIN sys2 = DOMAIN sys \cup {h},
         \A g \in DOMAIN sys2 : sys2[g].size \in Nat,
         \A g \in DOMAIN sys : sys2[g].size = sys[g].size
  PROVE  /\ Arena!BytesOf(sys2, DOMAIN sys2) = Arena!BytesOf(sys, DOMAIN sys) + sys2[h].size
         /\ Cardinality(DOMAIN sys2) = Cardinality(DOMAIN sys) + 1
         /\ Arena!BytesOf(sys, DOMAIN sys) \in Nat /\ Cardinality(DOMAIN sys) \in Nat
<1>1. PICK S, T, w, v : S = DOMAIN sys /\ T = DOMAIN sys2 /\ w = SizeAt(sys) /\ v = SizeAt(sys2)
  OBVIOUS
<1>2. /\ IsFiniteSet(S) /\ h \in T /\ T \ {h} = S /\ h \notin S /\ T = S \cup {h}
      /\ \A g \in T : v[g] \in Nat
      /\ \A g \in S : w[g] \in Nat /\ w[g] = v[g]
      /\ v[h] = sys2[h].size
  BY <1>1 DEF SizeAt
<1>3. IsFiniteSet(T) /\ Cardinality(T) = Cardinality(S) + 1 /\ Cardinality(S) \in Nat
  BY <1>2, FS_AddElement, FS_CardinalityType
<1>4. Total(v, T) = v[h] + Total(v, T \ {h})
  BY <1>2, <1>3, TotalTakes
<1>5. Total(w, S) = Total(v, S) /\ Total(w, S) \in Nat
  BY <1>2, TotalAlike, TotalNat
<1>6. Total(v, T \ {h}) = Total(v, S)
  BY <1>2, Zenon
<1>7. v[h] = sys2[h].size /\ v[h] \in Nat
  BY <1>2
<1>8. Arena!BytesOf(sys, DOMAIN sys) = Total(w, S) /\ Arena!BytesOf(sys2, DOMAIN sys2) = Total(v, T)
  BY <1>1, BytesAre
<1> QED BY <1>1, <1>3, <1>4, <1>5, <1>6, <1>7, <1>8

LEMMA SystemIs ==
  ASSUME Arena!HeapConstants, NEW hs, NEW sys, Elsewhere(hs, sys)
  PROVE  /\ IsFiniteSet(DOMAIN sys) /\ DOMAIN sys \subseteq Slot
         /\ \A g \in DOMAIN sys : sys[g].size \in Nat
<1>1. DOMAIN sys \subseteq Slot
  BY DEF Elsewhere
<1>2. IsFiniteSet(DOMAIN sys)
  BY <1>1, FS_Subset, SameFinite DEF Arena!HeapConstants
<1>3. \A g \in DOMAIN sys : sys[g].size \in Sizes
  BY DEF Elsewhere
<1> QED BY <1>1, <1>2, <1>3, Places

\* Binding a system block to a handle, in an arena that another allocation joined.
LEMMA BindSystemKeeps ==
  ASSUME Arena!HeapConstants, NEW m, NEW s, Sound(m, s, handles, system),
         NEW n \in Sizes, Arena!BindSystem(s, n)
  PROVE  /\ Sound(m, stats', handles', system')
         /\ \/ UNCHANGED <<handles, system>>
            \/ \E h \in Slot :
                 /\ handles[h].state = "invalid" /\ handles'[h].state = "system"
                 /\ system'[h].bytes = Junk
                 /\ \A g \in Slot : g # h => handles'[g] = handles[g]
                 /\ \A g \in DOMAIN system : g # h /\ system'[g] = system[g]
<1>1. /\ Tiles(m) /\ handles \in [Slot -> HandleSort] /\ Named(m, handles)
      /\ Elsewhere(handles, system) /\ s \in Counter /\ Counted(m, s) /\ CountedSystem(system, s)
  BY DEF Sound
<1>2. CASE Arena!FreeHandles = {}
  BY <1>2 DEF Arena!BindSystem
<1>3. CASE Arena!FreeHandles # {}
  <2>1. PICK h, hs2, s2, sys2 : /\ h = Arena!Min(Arena!FreeHandles) /\ hs2 = handles' /\ s2 = stats'
                                /\ sys2 = system'
    OBVIOUS
  <2>2. h \in Slot /\ handles[h].state = "invalid"
    BY <1>3, <2>1, HandleFree
  <2>3. /\ sys2 = [g \in DOMAIN system \cup {h} |->
                     IF g = h THEN [size |-> n, bytes |-> Junk] ELSE system[g]]
        /\ hs2 = [handles EXCEPT ![h] = [state |-> "system", data |-> Arena!SystemPlace(h)]]
        /\ s2 = [s EXCEPT !.systemBlocks = @ + 1, !.systemSize = @ + n]
    BY <1>3, <2>1, Zenon DEF Arena!BindSystem
  <2>4. Arena!SystemPlace(h) \in 0..(ArenaSize + Arena!Max(Slot))
    BY <2>2, HandleMax, Places DEF Arena!SystemPlace
  <2>5. PICK e : e = [state |-> "system", data |-> Arena!SystemPlace(h)]
    OBVIOUS
  <2>6. e \in HandleSort /\ e.state = "system" /\ e.data = Arena!SystemPlace(h)
    BY <2>4, <2>5 DEF HandleSort
  <2>7. /\ hs2 \in [Slot -> HandleSort] /\ hs2[h] = e
        /\ \A g \in Slot : g # h => hs2[g] = handles[g]
    BY <1>1, <2>2, <2>3, <2>5, <2>6
  <2>8. h \notin DOMAIN system
    BY <1>1, <2>2 DEF Elsewhere
  <2>9. /\ DOMAIN sys2 = DOMAIN system \cup {h} /\ sys2[h] = [size |-> n, bytes |-> Junk]
        /\ \A g \in DOMAIN system : sys2[g] = system[g]
    BY <2>3, <2>8
  <2>10. Named(m, hs2)
    <3>1. ASSUME NEW a \in DOMAIN m, m[a].state # "free"
          PROVE  m[a].handle \in Slot /\ hs2[m[a].handle] = [state |-> m[a].state, data |-> a]
      <4>1. m[a].handle \in Slot /\ handles[m[a].handle] = [state |-> m[a].state, data |-> a]
        BY <1>1, <3>1 DEF Named
      <4>2. m[a].state \in {"movable", "locked"}
        BY <1>1, <3>1 DEF Tiles, InArena, Blocky
      <4>3. m[a].handle # h
        BY <2>2, <4>1, <4>2
      <4> QED BY <2>7, <4>1, <4>3
    <3>2. ASSUME NEW g \in Slot, hs2[g].state \in {"movable", "locked"}
          PROVE  hs2[g] = handles[g]
      BY <2>6, <2>7, <3>2
    <3> QED BY <1>1, <3>1, <3>2 DEF Named
  <2>11. Elsewhere(hs2, sys2)
    <3>1. DOMAIN sys2 = {g \in Slot : hs2[g].state \in {"system", "lockedsystem"}}
      <4>1. DOMAIN system = {g \in Slot : handles[g].state \in {"system", "lockedsystem"}}
        BY <1>1 DEF Elsewhere
      <4> QED BY <2>2, <2>6, <2>7, <2>9, <4>1
    <3>2. ASSUME NEW g \in DOMAIN sys2
          PROVE  /\ sys2[g] \in [size : Sizes, bytes : Slot \cup {Junk}]
                 /\ hs2[g].data = Arena!SystemPlace(g)
      <4>1. CASE g = h
        BY <2>6, <2>7, <2>9, <4>1
      <4>2. CASE g # h
        <5>1. g \in DOMAIN system /\ g \in Slot
          BY <1>1, <2>9, <4>2 DEF Elsewhere
        <5> QED BY <1>1, <2>7, <2>9, <4>2, <5>1 DEF Elsewhere
      <4> QED BY <4>1, <4>2
    <3>3. \A g \in Slot : hs2[g].state = "invalid" => hs2[g] = Arena!Unused
      BY <1>1, <2>6, <2>7 DEF Elsewhere
    <3> QED BY <3>1, <3>2, <3>3 DEF Elsewhere
  <2>12. PICK x, y : x = s.systemBlocks + 1 /\ y = s.systemSize + n
    OBVIOUS
  <2>13. x \in Int /\ y \in Int
    BY <1>1, <2>12, Places DEF Counter
  <2>14. s2 = [s EXCEPT !.systemBlocks = x, !.systemSize = y]
    BY <2>3, <2>12
  <2>15. /\ s2 \in Counter /\ s2.systemBlocks = x /\ s2.systemSize = y
         /\ s2.freeBlocks = s.freeBlocks /\ s2.freeSize = s.freeSize
         /\ s2.movableBlocks = s.movableBlocks /\ s2.movableSize = s.movableSize
         /\ s2.lockedBlocks = s.lockedBlocks /\ s2.lockedSize = s.lockedSize
    BY <1>1, <2>13, <2>14 DEF Counter
  <2>16. Counted(m, s2)
    BY <1>1, <2>15 DEF Counted
  <2>17. CountedSystem(sys2, s2)
    <3>1. IsFiniteSet(DOMAIN system)
      BY <1>1, SystemIs
    <3>2. \A g \in DOMAIN sys2 : sys2[g].size \in Nat
      BY <2>11, SystemIs
    <3>3. /\ Arena!BytesOf(sys2, DOMAIN sys2) = Arena!BytesOf(system, DOMAIN system) + sys2[h].size
          /\ Cardinality(DOMAIN sys2) = Cardinality(DOMAIN system) + 1
      BY <2>8, <2>9, <3>1, <3>2, SystemGains
    <3>4. sys2[h].size = n
      BY <2>9
    <3> QED BY <1>1, <2>12, <2>15, <3>3, <3>4 DEF CountedSystem
  <2>18. Sound(m, s2, hs2, sys2)
    BY <1>1, <2>7, <2>10, <2>11, <2>15, <2>16, <2>17 DEF Sound
  <2>19. sys2[h].bytes = Junk /\ hs2[h].state = "system"
    BY <2>6, <2>7, <2>9
  <2>20. /\ \A g \in Slot : g # h => hs2[g] = handles[g]
         /\ \A g \in DOMAIN system : g # h /\ sys2[g] = system[g]
    BY <2>7, <2>8, <2>9
  <2> QED BY <2>1, <2>2, <2>18, <2>19, <2>20
<1> QED BY <1>2, <1>3


-----------------------------------------------------------------------------
(* One block of the arena made another of the same size                     *)

Restated(m, a, b, m2) == b \in Blocky /\ b.size = m[a].size /\ m2 = [m EXCEPT ![a] = b]

LEMMA RestatedTiles ==
  ASSUME Arena!HeapConstants, NEW m, Tiles(m), NEW a \in DOMAIN m, NEW b, NEW m2, Restated(m, a,
         b, m2)
  PROVE  /\ Tiles(m2) /\ DOMAIN m2 = DOMAIN m /\ m2[a] = b
         /\ \A c \in DOMAIN m : c # a => m2[c] = m[c]
<1>1. DOMAIN m2 = DOMAIN m /\ m2[a] = b /\ \A c \in DOMAIN m : c # a => m2[c] = m[c]
  BY DEF Restated
<1>2. \A c \in DOMAIN m : m2[c] \in Blocky /\ Arena!After(m2, c) = Arena!After(m, c)
  BY <1>1 DEF Restated, Tiles, InArena, Arena!After
<1>3. Cut(m, m2, {})
  BY <1>1, <1>2 DEF Cut
<1> QED BY <1>1, <1>3, CutTiles

\* In m2 the block at a has joined those whose state is st.
Gains(m, m2, st, a) ==
  /\ a \notin Arena!Is(m, st) /\ Arena!Is(m2, st) = Arena!Is(m, st) \cup {a}
  /\ \A c \in Arena!Is(m, st) : m2[c].size = m[c].size
LEMMA Gained ==
  ASSUME Arena!HeapConstants, NEW m, InArena(m), NEW m2, InArena(m2), NEW st, NEW a, Gains(m, m2,
         st, a)
  PROVE  /\ Arena!BytesOf(m2, Arena!Is(m2, st)) = Arena!BytesOf(m, Arena!Is(m, st)) + m2[a].size
         /\ Cardinality(Arena!Is(m2, st)) = Cardinality(Arena!Is(m, st)) + 1
BY StateGains DEF Gains

LEMMA RestatedCounts ==
  ASSUME Arena!HeapConstants, NEW m, Tiles(m), NEW a \in DOMAIN m, NEW b, NEW m2,
         Restated(m, a, b, m2), NEW st
  PROVE  /\ (m[a].state = st <=> b.state = st) =>
              /\ Cardinality(Arena!Is(m2, st)) = Cardinality(Arena!Is(m, st))
              /\ Arena!BytesOf(m2, Arena!Is(m2, st)) = Arena!BytesOf(m, Arena!Is(m, st))
         /\ m[a].state # st /\ b.state = st =>
              /\ Cardinality(Arena!Is(m2, st)) = Cardinality(Arena!Is(m, st)) + 1
              /\ Arena!BytesOf(m2, Arena!Is(m2, st)) = Arena!BytesOf(m, Arena!Is(m, st)) + m[a].size
         /\ m[a].state = st /\ b.state # st =>
              /\ Cardinality(Arena!Is(m2, st)) = Cardinality(Arena!Is(m, st)) - 1
              /\ Arena!BytesOf(m2, Arena!Is(m2, st)) = Arena!BytesOf(m, Arena!Is(m, st)) - m[a].size
<1>1. /\ Tiles(m2) /\ DOMAIN m2 = DOMAIN m /\ m2[a] = b /\ b.size = m[a].size
      /\ \A c \in DOMAIN m : c # a => m2[c] = m[c]
  BY RestatedTiles DEF Restated
<1>2. InArena(m) /\ InArena(m2) /\ \A c \in DOMAIN m : m2[c].size = m[c].size
  BY <1>1 DEF Tiles
<1>10. InArena(m) /\ InArena(m2)
  BY <1>2
<1>7. Gains(m, m2, st, a) =>
        /\ Cardinality(Arena!Is(m2, st)) = Cardinality(Arena!Is(m, st)) + 1
        /\ Arena!BytesOf(m2, Arena!Is(m2, st)) = Arena!BytesOf(m, Arena!Is(m, st)) + m2[a].size
  BY <1>10, Gained
<1>8. Gains(m2, m, st, a) =>
        /\ Cardinality(Arena!Is(m, st)) = Cardinality(Arena!Is(m2, st)) + 1
        /\ Arena!BytesOf(m, Arena!Is(m, st)) = Arena!BytesOf(m2, Arena!Is(m2, st)) + m[a].size
  BY <1>10, Gained
<1>3. /\ Cardinality(Arena!Is(m, st)) \in Nat /\ Arena!BytesOf(m, Arena!Is(m, st)) \in Nat
      /\ Cardinality(Arena!Is(m2, st)) \in Nat /\ Arena!BytesOf(m2, Arena!Is(m2, st)) \in Nat
      /\ m[a].size \in Nat
  BY <1>2, StateCounts, Ends
<1>4. ASSUME m[a].state = st <=> b.state = st
      PROVE  /\ Cardinality(Arena!Is(m2, st)) = Cardinality(Arena!Is(m, st))
             /\ Arena!BytesOf(m2, Arena!Is(m2, st)) = Arena!BytesOf(m, Arena!Is(m, st))
  <2>1. Arena!Is(m2, st) = Arena!Is(m, st)
    BY <1>1, <1>4 DEF Arena!Is
  <2>2. \A c \in Arena!Is(m, st) : m2[c].size = m[c].size
    BY <1>2 DEF Arena!Is
  <2> QED BY <1>2, <2>1, <2>2, StateKept
<1>5. ASSUME m[a].state # st, b.state = st
      PROVE  /\ Cardinality(Arena!Is(m2, st)) = Cardinality(Arena!Is(m, st)) + 1
             /\ Arena!BytesOf(m2, Arena!Is(m2, st)) = Arena!BytesOf(m, Arena!Is(m, st)) + m[a].size
  <2>1. Gains(m, m2, st, a)
    BY <1>1, <1>2, <1>5 DEF Arena!Is, Gains
  <2> QED BY <1>2, <1>7, <2>1
<1>6. ASSUME m[a].state = st, b.state # st
      PROVE  /\ Cardinality(Arena!Is(m2, st)) = Cardinality(Arena!Is(m, st)) - 1
             /\ Arena!BytesOf(m2, Arena!Is(m2, st)) = Arena!BytesOf(m, Arena!Is(m, st)) - m[a].size
  <2>1. Gains(m2, m, st, a)
    BY <1>1, <1>2, <1>6 DEF Arena!Is, Gains
  <2> QED BY <1>3, <1>8, <2>1
<1> QED BY <1>4, <1>5, <1>6

\* What becomes of a handle with a block in the arena, and of its block.
Renamed(a, h, b, e) ==
  \/ b.state = "free" /\ b.handle = Arena!NoHandle /\ e = Arena!Unused
  \/ b.state \in {"movable", "locked"} /\ b.handle = h /\ e = [state |-> b.state, data |-> a]

Handled(m, hs, h, a, b, e, m2, hs2) ==
  /\ h \in Slot /\ hs[h].state \in {"movable", "locked"} /\ a = hs[h].data
  /\ Restated(m, a, b, m2) /\ Renamed(a, h, b, e) /\ hs2 = [hs EXCEPT ![h] = e]

LEMMA RestatedNames ==
  ASSUME Arena!HeapConstants, NEW m, NEW s, NEW hs, NEW sys, Sound(m, s, hs, sys),
         NEW h, NEW a, NEW b, NEW e, NEW m2, NEW hs2, Handled(m, hs, h, a, b, e, m2, hs2)
  PROVE  /\ a \in DOMAIN m /\ m[a].handle = h /\ hs[h] = [state |-> m[a].state, data |-> a]
         /\ hs2 \in [Slot -> HandleSort] /\ Named(m2, hs2) /\ Elsewhere(hs2, sys)
         /\ \A g \in Slot : g # h => KeptAt(m, hs, m2, hs2, g)
<1> USE DEF Handled
<1>1. /\ Tiles(m) /\ hs \in [Slot -> HandleSort] /\ Named(m, hs) /\ Elsewhere(hs, sys)
  BY DEF Sound
<1>2. a \in DOMAIN m /\ m[a].handle = h
  BY <1>1 DEF Named
<1>3. m[a].state # "free"
  BY <1>1, <1>2, TakenIs
<1>4. hs[h] = [state |-> m[a].state, data |-> a]
  BY <1>1, <1>2, <1>3 DEF Named
<1>5. DOMAIN m2 = DOMAIN m /\ m2[a] = b /\ \A c \in DOMAIN m : c # a => m2[c] = m[c]
  BY <1>1, <1>2, RestatedTiles
<1>6. e \in HandleSort
  <2>1. a \in 0..(ArenaSize + Arena!Max(Slot))
    BY <1>1, <1>2, Ends, HandleMax, Places DEF Tiles
  <2> QED BY <2>1 DEF Renamed, Arena!Unused, HandleSort
<1>7. hs2 \in [Slot -> HandleSort] /\ hs2[h] = e /\ \A g \in Slot : g # h => hs2[g] = hs[g]
  BY <1>1, <1>6
<1>8. \A c \in DOMAIN m : c # a /\ m[c].state # "free" => m[c].handle # h
  <2> SUFFICES ASSUME NEW c \in DOMAIN m, m[c].state # "free", m[c].handle = h
               PROVE  c = a
    OBVIOUS
  <2>1. hs[h] = [state |-> m[c].state, data |-> c]
    BY <1>1 DEF Named
  <2> QED BY <2>1
<1>9. Named(m2, hs2)
  <2>1. ASSUME NEW c \in DOMAIN m2
        PROVE  IF m2[c].state = "free" THEN m2[c].handle = Arena!NoHandle
               ELSE m2[c].handle \in Slot /\ hs2[m2[c].handle] = [state |-> m2[c].state, data |-> c]
    <3>1. CASE c = a
      BY <1>5, <1>7, <3>1 DEF Renamed
    <3>2. CASE c # a
      <4>1. m2[c] = m[c] /\ c \in DOMAIN m
        BY <1>5, <3>2
      <4>2. CASE m[c].state = "free"
        BY <1>1, <4>1, <4>2 DEF Named
      <4>3. CASE m[c].state # "free"
        <5>1. m[c].handle \in Slot /\ hs[m[c].handle] = [state |-> m[c].state, data |-> c]
          BY <1>1, <4>1, <4>3 DEF Named
        <5>2. hs2[m[c].handle] = hs[m[c].handle]
          BY <1>7, <1>8, <3>2, <4>1, <4>3, <5>1
        <5> QED BY <4>1, <4>3, <5>1, <5>2
      <4> QED BY <4>2, <4>3
    <3> QED BY <3>1, <3>2
  <2>2. ASSUME NEW g \in Slot, hs2[g].state \in {"movable", "locked"}
        PROVE  hs2[g].data \in DOMAIN m2 /\ m2[hs2[g].data].handle = g
    <3>1. CASE g = h
      BY <1>2, <1>5, <1>7, <2>2, <3>1 DEF Renamed, Arena!Unused
    <3>2. CASE g # h
      <4>1. hs2[g] = hs[g] /\ hs[g].data \in DOMAIN m /\ m[hs[g].data].handle = g
        BY <1>1, <1>7, <2>2, <3>2 DEF Named
      <4>2. hs[g].data # a
        BY <1>2, <3>2, <4>1
      <4> QED BY <1>5, <4>1, <4>2
    <3> QED BY <3>1, <3>2
  <2> QED BY <2>1, <2>2 DEF Named
<1>10. Elsewhere(hs2, sys)
  <2>1. hs2[h].state \notin {"system", "lockedsystem"} /\ (hs2[h].state = "invalid"
          => hs2[h] = Arena!Unused)
    BY <1>7 DEF Renamed, Arena!Unused
  <2>2. DOMAIN sys = {g \in Slot : hs2[g].state \in {"system", "lockedsystem"}}
                 /\ h \notin DOMAIN sys
    BY <1>1, <1>7, <2>1 DEF Elsewhere
  <2>3. \A g \in DOMAIN sys : g \in Slot /\ hs2[g] = hs[g]
    BY <1>7, <2>2
  <2>4. \A g \in Slot : hs2[g].state = "invalid" => hs2[g] = Arena!Unused
    BY <1>1, <1>7, <2>1 DEF Elsewhere
  <2> QED BY <1>1, <2>2, <2>3, <2>4 DEF Elsewhere
<1>11. ASSUME NEW g \in Slot, g # h
       PROVE  KeptAt(m, hs, m2, hs2, g)
  <2>1. hs2[g] = hs[g]
    BY <1>7, <1>11
  <2>2. ASSUME hs[g].state \in {"movable", "locked"}
        PROVE  m2[hs[g].data] = m[hs[g].data]
    <3>1. hs[g].data \in DOMAIN m /\ m[hs[g].data].handle = g
      BY <1>1, <2>2 DEF Named
    <3>2. hs[g].data # a
      BY <1>2, <1>11, <3>1
    <3> QED BY <1>5, <3>1, <3>2
  <2> QED BY <2>1, <2>2 DEF KeptAt
<1> QED BY <1>2, <1>4, <1>7, <1>9, <1>10, <1>11


-----------------------------------------------------------------------------
(* heapBlockAllocate                                                        *)

GotSystem(hs, sys, hs2, sys2) ==
  \E h \in Slot :
    /\ hs[h].state = "invalid" /\ hs2[h].state = "system" /\ sys2[h].bytes = Junk
    /\ \A g \in Slot : g # h => hs2[g] = hs[g]
    /\ \A g \in DOMAIN sys : g # h /\ sys2[g] = sys[g]

LEMMA KeptThen ==
  ASSUME NEW m, NEW hs, NEW m2, NEW hs2, NEW m3, NEW hs3, NEW h,
         KeptAt(m, hs, m2, hs2, h), KeptAt(m2, hs2, m3, hs3, h)
  PROVE  KeptAt(m, hs, m3, hs3, h)
BY DEF KeptAt

LEMMA KeptThenGot ==
  ASSUME NEW m, NEW hs, NEW m2, NEW hs2, NEW m3, NEW hs3,
         Kept(m, hs, m2, hs2), GotArena(m2, hs2, m3, hs3)
  PROVE  GotArena(m, hs, m3, hs3)
<1>1. \A h \in Slot : KeptAt(m, hs, m2, hs2, h) /\ hs2[h].state = hs[h].state
  BY DEF Kept, KeptAt
<1>2. CASE Kept(m2, hs2, m3, hs3)
  <2>1. \A h \in Slot : KeptAt(m2, hs2, m3, hs3, h)
    BY <1>2 DEF Kept
  <2>2. Kept(m, hs, m3, hs3)
    BY <1>1, <2>1, KeptThen DEF Kept
  <2> QED BY <2>2 DEF GotArena
<1>3. ASSUME NEW h \in Slot, hs2[h].state = "invalid", hs3[h].state = "movable",
             m3[hs3[h].data].bytes = Junk,
             \A g \in Slot : g # h => KeptAt(m2, hs2, m3, hs3, g)
      PROVE  GotArena(m, hs, m3, hs3)
  <2>1. \A g \in Slot : g # h => KeptAt(m, hs, m3, hs3, g)
    BY <1>1, <1>3, KeptThen
  <2>2. hs[h].state = "invalid"
    BY <1>1, <1>3
  <2> QED BY <1>3, <2>1, <2>2 DEF GotArena
<1> QED BY <1>2, <1>3 DEF GotArena

LEMMA AllocateKeeps ==
  ASSUME Arena!HeapConstants, ArenaInv, NEW n \in Sizes, NEW dis \in BOOLEAN,
         Arena!HeapAllocate(n, dis)
  PROVE  /\ ArenaInv'
         /\ \/ GotArena(header, handles, header', handles') /\ system' = system
            \/ Kept(header, handles, header', handles)
                 /\ GotSystem(handles, system, handles', system')
<1>1. PICK m, s : /\ m = (IF stats.freeBlocks = 0 THEN header ELSE Arena!Joined(header))
                  /\ s = (IF stats.freeBlocks = 0 THEN stats ELSE Arena!JoinedStats(header))
  OBVIOUS
<1>2. Sound(m, s, handles, system) /\ Kept(header, handles, m, handles)
  <2>1. CASE stats.freeBlocks = 0
    <3>1. Kept(header, handles, header, handles)
      BY DEF Kept, KeptAt
    <3> QED BY <1>1, <2>1, <3>1 DEF ArenaInv
  <2>2. CASE stats.freeBlocks # 0
    BY <1>1, <2>2, JoinedKeeps
  <2> QED BY <2>1, <2>2
<1>3. PICK direct, extents :
        /\ direct = (IF n > s.freeSize THEN {} ELSE Arena!Fits(m, n))
        /\ extents = (IF \/ s.freeBlocks = 0 \/ n > s.freeSize \/ direct # {}
                         \/ s.movableBlocks + s.freeBlocks <= 2
                      THEN {} ELSE Arena!Chosen(m, n))
  OBVIOUS
<1>4. \/ \E a \in direct : Arena!Bind(m, s, handles, a, n)
      \/ \E x \in extents : \E to \in Arena!Reservations(m, x) :
           Arena!Bind(Arena!Moved(m, x, to), Arena!MovedStats(m, x, to, s), Arena!MovedHandles(m,
             to), Arena!Min(x), n)
      \/ /\ direct = {} /\ extents = {}
         /\ header' = m
         /\ IF dis THEN stats' = s /\ UNCHANGED <<system, handles>> ELSE Arena!BindSystem(s, n)
  BY <1>1, <1>3, Zenon DEF Arena!HeapAllocate
<1>5. ASSUME NEW a \in direct, Arena!Bind(m, s, handles, a, n)
      PROVE  /\ ArenaInv' /\ system' = system
             /\ GotArena(header, handles, header', handles')
  <2>1. a \in DOMAIN m /\ m[a].state = "free" /\ n <= m[a].size
    <3>1. a \in Arena!Fits(m, n)
      BY <1>3
    <3>2. a \in DOMAIN m /\ m[a].state = "free" /\ m[a].size >= n
      BY <3>1 DEF Arena!Fits, Arena!Is
    <3>3. m[a].size \in Nat /\ n \in Nat
      BY <1>2, <3>2, Ends, Places DEF Sound, Tiles
    <3> QED BY <3>2, <3>3
  <2>2. \A h \in Slot : handles[h].state = handles[h].state
    OBVIOUS
  <2>3. Sound(header', stats', handles', system') /\ system' = system
          /\ GotArena(m, handles, header', handles')
    BY <1>2, <1>5, <2>1, <2>2, BindKeeps
  <2>4. GotArena(header, handles, header', handles')
    BY <1>2, <2>3, KeptThenGot
  <2> QED BY <2>3, <2>4 DEF ArenaInv
<1>6. ASSUME NEW x \in extents, NEW to \in Arena!Reservations(m, x),
             Arena!Bind(Arena!Moved(m, x, to), Arena!MovedStats(m, x, to, s),
               Arena!MovedHandles(m, to), Arena!Min(x), n)
      PROVE  /\ ArenaInv' /\ system' = system
             /\ GotArena(header, handles, header', handles')
  <2>1. x \in Arena!Extents(m) /\ Arena!Span(m, x) >= n
    <3>1. x \in Arena!Chosen(m, n)
      BY <1>3
    <3> QED BY <3>1 DEF Arena!Chosen, Arena!Usable
  <2>2. PICK m2, s2, hs2 : /\ m2 = Arena!Moved(m, x, to) /\ s2 = Arena!MovedStats(m, x, to, s)
                           /\ hs2 = Arena!MovedHandles(m, to)
    OBVIOUS
  <2>3. /\ Sound(m2, s2, hs2, system) /\ Kept(m, handles, m2, hs2)
        /\ Arena!Min(x) \in DOMAIN m2 /\ m2[Arena!Min(x)].state = "free"
             /\ m2[Arena!Min(x)].size = Arena!Span(m, x)
    BY <1>2, <2>1, <2>2, MovedKeeps
  <2>4. n <= m2[Arena!Min(x)].size
    <3>1. m2[Arena!Min(x)].size \in Nat /\ n \in Nat
      BY <2>3, Ends, Places DEF Sound, Tiles
    <3> QED BY <2>1, <2>3, <3>1
  <2>5. \A h \in Slot : hs2[h].state = handles[h].state
    BY <2>3 DEF Kept, KeptAt
  <2>6. Arena!Bind(m2, s2, hs2, Arena!Min(x), n)
    BY <1>6, <2>2, Zenon
  <2>7. Sound(header', stats', handles', system') /\ system' = system
          /\ GotArena(m2, hs2, header', handles')
    BY <2>3, <2>4, <2>5, <2>6, BindKeeps
  <2>8. GotArena(header, handles, header', handles')
    BY <1>2, <2>3, <2>7, KeptThenGot
  <2> QED BY <2>7, <2>8 DEF ArenaInv
<1>7. ASSUME header' = m,
             IF dis THEN stats' = s /\ UNCHANGED <<system, handles>> ELSE Arena!BindSystem(s, n)
      PROVE  /\ ArenaInv'
             /\ \/ GotArena(header, handles, header', handles') /\ system' = system
                \/ Kept(header, handles, header', handles)
                     /\ GotSystem(handles, system, handles', system')
  <2>1. \/ stats' = s /\ UNCHANGED <<system, handles>> /\ Sound(m, stats', handles', system')
        \/ Sound(m, stats', handles', system') /\ UNCHANGED <<handles, system>>
        \/ Sound(m, stats', handles', system') /\ GotSystem(handles, system, handles', system')
    <3>1. CASE dis
      BY <1>2, <1>7, <3>1
    <3>2. CASE ~dis
      <4>1. Arena!BindSystem(s, n)
        BY <1>7, <3>2
      <4> QED BY <1>2, <4>1, BindSystemKeeps DEF GotSystem
    <3> QED BY <3>1, <3>2
  <2>2. ArenaInv'
    BY <1>7, <2>1 DEF ArenaInv
  <2>3. Kept(header, handles, header', handles)
    BY <1>2, <1>7
  <2>4. ASSUME UNCHANGED <<handles, system>>
        PROVE  GotArena(header, handles, header', handles') /\ system' = system
    BY <2>3, <2>4 DEF GotArena
  <2> QED BY <2>1, <2>2, <2>3, <2>4
<1> QED BY <1>4, <1>5, <1>6, <1>7


-----------------------------------------------------------------------------
(* The operations on a handle with a block in the arena                     *)

If(p, n) == IF p THEN n ELSE 0
\* The counters when a block of n bytes leaves a state for another.
CountersMove(s, s2, n, old, new) ==
  /\ s2.freeBlocks = s.freeBlocks - If(old = "free", 1) + If(new = "free", 1)
  /\ s2.freeSize = s.freeSize - If(old = "free", n) + If(new = "free", n)
  /\ s2.movableBlocks = s.movableBlocks - If(old = "movable", 1) + If(new = "movable", 1)
  /\ s2.movableSize = s.movableSize - If(old = "movable", n) + If(new = "movable", n)
  /\ s2.lockedBlocks = s.lockedBlocks - If(old = "locked", 1) + If(new = "locked", 1)
  /\ s2.lockedSize = s.lockedSize - If(old = "locked", n) + If(new = "locked", n)
  /\ s2.systemBlocks = s.systemBlocks /\ s2.systemSize = s.systemSize

LEMMA CountedMoves ==
  ASSUME Arena!HeapConstants, NEW m, Tiles(m), NEW a \in DOMAIN m, NEW b, NEW m2,
         Restated(m, a, b, m2), NEW s \in Counter, NEW s2 \in Counter, Counted(m, s),
         CountersMove(s, s2, m[a].size, m[a].state, b.state)
  PROVE  Counted(m2, s2)
<1>1. PICK n, old, new : n = m[a].size /\ old = m[a].state /\ new = b.state
  OBVIOUS
<1>2. /\ n \in Nat /\ old \in {"free", "movable", "locked"} /\ new \in {"free", "movable", "locked"}
      /\ InArena(m) /\ InArena(m2)
  BY <1>1, Ends, RestatedTiles DEF Tiles, InArena, Blocky, Restated
<1>3. CountersMove(s, s2, n, old, new)
  BY <1>1
<1>4. ASSUME NEW st
      PROVE  /\ Cardinality(Arena!Is(m2, st)) = Cardinality(Arena!Is(m, st)) - If(old
                  = st, 1) + If(new = st, 1)
             /\ Arena!BytesOf(m2, Arena!Is(m2, st)) = Arena!BytesOf(m, Arena!Is(m, st)) - If(old
                  = st, n) + If(new = st, n)
  <2>1. PICK c, d, x, y : /\ c = Cardinality(Arena!Is(m, st)) /\ d = Cardinality(Arena!Is(m2, st))
                          /\ x = Arena!BytesOf(m, Arena!Is(m, st))
                               /\ y = Arena!BytesOf(m2, Arena!Is(m2, st))
    OBVIOUS
  <2>2. c \in Nat /\ d \in Nat /\ x \in Nat /\ y \in Nat
    BY <1>2, <2>1, StateCounts
  <2>3. /\ (old = st <=> new = st) => d = c /\ y = x
        /\ old # st /\ new = st => d = c + 1 /\ y = x + n
        /\ old = st /\ new # st => d = c - 1 /\ y = x - n
    BY <1>1, <2>1, RestatedCounts
  <2>4. d = c - If(old = st, 1) + If(new = st, 1) /\ y = x - If(old = st, n) + If(new = st, n)
    BY <1>2, <2>2, <2>3 DEF If
  <2> QED BY <2>1, <2>4
<1>5. /\ s2.movableBlocks = Cardinality(Arena!Is(m2, "movable"))
      /\ s2.movableSize = Arena!BytesOf(m2, Arena!Is(m2, "movable"))
      /\ s2.lockedBlocks = Cardinality(Arena!Is(m2, "locked"))
      /\ s2.lockedSize = Arena!BytesOf(m2, Arena!Is(m2, "locked"))
  <2>1. /\ s2.movableBlocks = s.movableBlocks - If(old = "movable", 1) + If(new = "movable", 1)
        /\ s2.movableSize = s.movableSize - If(old = "movable", n) + If(new = "movable", n)
        /\ s2.lockedBlocks = s.lockedBlocks - If(old = "locked", 1) + If(new = "locked", 1)
        /\ s2.lockedSize = s.lockedSize - If(old = "locked", n) + If(new = "locked", n)
    BY <1>3 DEF CountersMove
  <2>2. /\ s.movableBlocks = Cardinality(Arena!Is(m, "movable"))
        /\ s.movableSize = Arena!BytesOf(m, Arena!Is(m, "movable"))
        /\ s.lockedBlocks = Cardinality(Arena!Is(m, "locked"))
        /\ s.lockedSize = Arena!BytesOf(m, Arena!Is(m, "locked"))
    BY DEF Counted
  <2> QED BY <1>4, <2>1, <2>2
<1>6. DOMAIN m2 = DOMAIN m
  BY RestatedTiles
<1>7. PICK c, fb, fs, mb, ms, lb, ls :
        /\ c = Cardinality(DOMAIN m) /\ fb = s.freeBlocks /\ fs = s.freeSize
        /\ mb = s.movableBlocks /\ ms = s.movableSize /\ lb = s.lockedBlocks /\ ls = s.lockedSize
  OBVIOUS
<1>8. PICK fb2, fs2, mb2, ms2, lb2, ls2 :
        /\ fb2 = s2.freeBlocks /\ fs2 = s2.freeSize /\ mb2 = s2.movableBlocks
        /\ ms2 = s2.movableSize /\ lb2 = s2.lockedBlocks /\ ls2 = s2.lockedSize
  OBVIOUS
<1>9. {fb, fs, mb, ms, lb, ls} \subseteq Int
  BY <1>7 DEF Counter
<1>10. /\ fb + mb + lb = c /\ fs + ms + ls + c * Overhead = ArenaSize
  BY <1>7 DEF Counted
<1>11. /\ fb2 = fb - If(old = "free", 1) + If(new = "free", 1)
       /\ mb2 = mb - If(old = "movable", 1) + If(new = "movable", 1)
       /\ lb2 = lb - If(old = "locked", 1) + If(new = "locked", 1)
  BY <1>3, <1>7, <1>8 DEF CountersMove
<1>12. /\ fs2 = fs - If(old = "free", n) + If(new = "free", n)
       /\ ms2 = ms - If(old = "movable", n) + If(new = "movable", n)
       /\ ls2 = ls - If(old = "locked", n) + If(new = "locked", n)
  BY <1>3, <1>7, <1>8 DEF CountersMove
<1>13. fb2 + mb2 + lb2 = fb + mb + lb
  BY <1>2, <1>9, <1>11 DEF If
<1>14. fs2 + ms2 + ls2 = fs + ms + ls /\ {fs2, ms2, ls2} \subseteq Int
  BY <1>2, <1>9, <1>12 DEF If
<1>15. fb2 + mb2 + lb2 = c
  BY <1>10, <1>13
<1>16. fs2 + ms2 + ls2 + c * Overhead = ArenaSize
  BY <1>10, <1>14
<1> QED BY <1>5, <1>6, <1>7, <1>8, <1>15, <1>16 DEF Counted

\* One such operation, which counts as it should.
LEMMA RestatedSound ==
  ASSUME Arena!HeapConstants, NEW m, NEW s, NEW hs, NEW sys, Sound(m, s, hs, sys),
         NEW h, NEW a, NEW b, NEW e, NEW m2, NEW hs2, Handled(m, hs, h, a, b, e, m2, hs2),
         NEW s2 \in Counter, CountersMove(s, s2, m[a].size, m[a].state, b.state)
  PROVE  Sound(m2, s2, hs2, sys)
<1>1. /\ Tiles(m) /\ s \in Counter /\ Counted(m, s) /\ CountedSystem(sys, s)
  BY DEF Sound
<1>2. /\ a \in DOMAIN m /\ hs2 \in [Slot -> HandleSort] /\ Named(m2, hs2) /\ Elsewhere(hs2, sys)
  BY RestatedNames
<1>6. Restated(m, a, b, m2)
  BY DEF Handled
<1>3. Tiles(m2)
  BY <1>1, <1>2, <1>6, RestatedTiles
<1>4. Counted(m2, s2)
  BY <1>1, <1>2, <1>6, CountedMoves
<1>5. CountedSystem(sys, s2)
  BY <1>1 DEF CountersMove, CountedSystem
<1> QED BY <1>2, <1>3, <1>4, <1>5 DEF Sound


\* A handle whose block is of system memory, and stays so or is given back.
LEMMA SystemNames ==
  ASSUME Arena!HeapConstants, NEW m, NEW hs \in [Slot -> HandleSort], Named(m, hs), NEW h \in Slot,
         hs[h].state \notin {"movable", "locked"}, NEW e \in HandleSort,
         e.state \notin {"movable", "locked"}, InArena(m)
  PROVE  LET hs2 == [hs EXCEPT ![h] = e]
         IN /\ hs2 \in [Slot -> HandleSort] /\ Named(m, hs2) /\ hs2[h] = e
            /\ \A g \in Slot : g # h => hs2[g] = hs[g]
<1>1. PICK hs2 : hs2 = [hs EXCEPT ![h] = e]
  OBVIOUS
<1>2. /\ hs2 \in [Slot -> HandleSort] /\ hs2[h] = e
      /\ \A g \in Slot : g # h => hs2[g] = hs[g]
  BY <1>1
<1>3. ASSUME NEW a \in DOMAIN m, m[a].state # "free"
      PROVE  m[a].handle \in Slot /\ hs2[m[a].handle] = [state |-> m[a].state, data |-> a]
  <2>1. m[a].handle \in Slot /\ hs[m[a].handle] = [state |-> m[a].state, data |-> a]
    BY <1>3 DEF Named
  <2>2. m[a].state \in {"movable", "locked"}
    BY <1>3 DEF InArena, Blocky
  <2>3. m[a].handle # h
    BY <2>1, <2>2
  <2> QED BY <1>2, <2>1, <2>3
<1>4. ASSUME NEW g \in Slot, hs2[g].state \in {"movable", "locked"}
      PROVE  hs2[g] = hs[g]
  BY <1>2, <1>4
<1>5. Named(m, hs2)
  BY <1>3, <1>4 DEF Named
<1> QED BY <1>1, <1>2, <1>5

-----------------------------------------------------------------------------
(* heapBlockDeallocate                                                      *)

LEMMA DeallocateKeeps ==
  ASSUME Arena!HeapConstants, ArenaInv, NEW h \in Slot, Arena!HeapDeallocate(h)
  PROVE  /\ ArenaInv' /\ handles[h].state \in {"movable", "system"} /\ handles'[h] = Arena!Unused
         /\ \A g \in Slot : g # h =>
              /\ KeptAt(header, handles, header', handles', g)
              /\ g \in DOMAIN system => system'[g] = system[g]
<1>1. PICK m, s, hs, sys, m2, s2, hs2, sys2 :
        /\ m = header /\ s = stats /\ hs = handles /\ sys = system
        /\ m2 = header' /\ s2 = stats' /\ hs2 = handles' /\ sys2 = system'
  OBVIOUS
<1>2. /\ Sound(m, s, hs, sys) /\ Tiles(m) /\ hs \in [Slot -> HandleSort] /\ Named(m, hs)
      /\ Elsewhere(hs, sys) /\ s \in Counter /\ Counted(m, s) /\ CountedSystem(sys, s)
  BY <1>1 DEF ArenaInv, Sound
<1>3. hs[h].state \in {"movable", "system"} /\ hs2 = [hs EXCEPT ![h] = Arena!Unused]
  BY <1>1 DEF Arena!HeapDeallocate
<1>4. CASE hs[h].state = "movable"
  <2>1. PICK a, n : a = hs[h].data /\ n = m[a].size
    OBVIOUS
  <2>2. PICK b : b = Arena!FreeBlock(n)
    OBVIOUS
  <2>3. /\ m2 = [m EXCEPT ![a] = b] /\ sys2 = sys
        /\ s2 = [s EXCEPT !.freeBlocks = @ + 1, !.freeSize = @ + n,
                          !.movableBlocks = @ - 1, !.movableSize = @ - n]
    BY <1>1, <1>4, <2>1, <2>2 DEF Arena!HeapDeallocate
  <2>4. a \in DOMAIN m /\ m[a].handle = h /\ n \in Nat \ {0} /\ m[a].state = "movable"
    <3>1. a \in DOMAIN m /\ m[a].handle = h
      BY <1>2, <1>4, <2>1 DEF Named
    <3>2. m[a].state # "free"
      BY <1>2, <3>1, TakenIs
    <3>3. hs[h] = [state |-> m[a].state, data |-> a]
      BY <1>2, <3>1, <3>2 DEF Named
    <3>4. n \in Nat \ {0}
      BY <1>2, <2>1, <3>1, Ends DEF Tiles
    <3> QED BY <1>4, <3>1, <3>3, <3>4
  <2>5. b \in Blocky /\ b.size = n /\ b.state = "free" /\ b.handle = Arena!NoHandle
    BY <2>2, <2>4, FreeBlockIs
  <2>6. Handled(m, hs, h, a, b, Arena!Unused, m2, hs2)
    BY <1>3, <1>4, <2>1, <2>3, <2>5 DEF Handled, Restated, Renamed
  <2>7. PICK w, x, y, z : /\ w = s.freeBlocks + 1 /\ x = s.freeSize + n
                          /\ y = s.movableBlocks - 1 /\ z = s.movableSize - n
    OBVIOUS
  <2>8. w \in Int /\ x \in Int /\ y \in Int /\ z \in Int
    BY <1>2, <2>4, <2>7 DEF Counter
  <2>9. s2 = [s EXCEPT !.freeBlocks = w, !.freeSize = x, !.movableBlocks = y, !.movableSize = z]
    BY <2>3, <2>7
  <2>10. s2 \in Counter /\ CountersMove(s, s2, n, "movable", "free")
    <3>1. s2 \in Counter
      BY <1>2, <2>8, <2>9 DEF Counter
    <3>2. /\ s2.freeBlocks = w /\ s2.freeSize = x /\ s2.movableBlocks = y /\ s2.movableSize = z
          /\ s2.lockedBlocks = s.lockedBlocks /\ s2.lockedSize = s.lockedSize
          /\ s2.systemBlocks = s.systemBlocks /\ s2.systemSize = s.systemSize
      BY <1>2, <2>9 DEF Counter
    <3>3. {s.freeBlocks, s.freeSize, s.movableBlocks, s.movableSize, s.lockedBlocks, s.lockedSize}
            \subseteq Int
      BY <1>2 DEF Counter
    <3> QED BY <2>4, <2>7, <3>1, <3>2, <3>3 DEF CountersMove, If
  <2>11. CountersMove(s, s2, m[a].size, m[a].state, b.state)
    BY <2>1, <2>4, <2>5, <2>10
  <2>12. Sound(m2, s2, hs2, sys)
    BY <1>2, <2>6, <2>10, <2>11, RestatedSound
  <2>13. \A g \in Slot : g # h => KeptAt(m, hs, m2, hs2, g)
    BY <1>2, <2>6, RestatedNames
  <2>14. hs2[h] = Arena!Unused
    BY <1>2, <1>3
  <2> QED BY <1>1, <1>3, <2>3, <2>12, <2>13, <2>14 DEF ArenaInv
<1>5. CASE hs[h].state = "system"
  <2>1. /\ m2 = m /\ sys2 = [g \in DOMAIN sys \ {h} |-> sys[g]]
        /\ s2 = [s EXCEPT !.systemBlocks = @ - 1, !.systemSize = @ - sys[h].size]
    BY <1>1, <1>5 DEF Arena!HeapDeallocate
  <2>2. h \in DOMAIN sys
    BY <1>2, <1>5 DEF Elsewhere
  <2>3. Arena!Unused \in HandleSort /\ Arena!Unused.state = "invalid"
    BY DEF Arena!Unused, HandleSort
  <2>4. InArena(m)
    BY <1>2 DEF Tiles
  <2>5. /\ hs2 \in [Slot -> HandleSort] /\ Named(m, hs2) /\ hs2[h] = Arena!Unused
        /\ \A g \in Slot : g # h => hs2[g] = hs[g]
    BY <1>2, <1>3, <1>5, <2>3, <2>4, SystemNames
  <2>6. DOMAIN sys2 = DOMAIN sys \ {h} /\ \A g \in DOMAIN sys2 : sys2[g] = sys[g]
    BY <2>1
  <2>7. Elsewhere(hs2, sys2)
    <3>1. DOMAIN sys2 = {g \in Slot : hs2[g].state \in {"system", "lockedsystem"}}
      BY <1>2, <2>3, <2>5, <2>6 DEF Elsewhere
    <3>2. \A g \in DOMAIN sys2 : g \in DOMAIN sys /\ hs2[g] = hs[g] /\ sys2[g] = sys[g]
      BY <2>5, <2>6, <3>1
    <3>3. \A g \in Slot : hs2[g].state = "invalid" => hs2[g] = Arena!Unused
      BY <1>2, <2>5 DEF Elsewhere
    <3> QED BY <1>2, <3>1, <3>2, <3>3 DEF Elsewhere
  <2>8. /\ Arena!BytesOf(sys, DOMAIN sys) = Arena!BytesOf(sys2, DOMAIN sys2) + sys[h].size
        /\ Cardinality(DOMAIN sys) = Cardinality(DOMAIN sys2) + 1
        /\ Arena!BytesOf(sys2, DOMAIN sys2) \in Nat /\ Cardinality(DOMAIN sys2) \in Nat
    <3>1. /\ IsFiniteSet(DOMAIN sys2) /\ h \notin DOMAIN sys2
          /\ \A g \in DOMAIN sys : sys[g].size \in Nat
      BY <1>2, <2>6, <2>7, SystemIs
    <3>2. DOMAIN sys = DOMAIN sys2 \cup {h} /\ \A g \in DOMAIN sys2 : sys[g].size = sys2[g].size
      BY <2>2, <2>6
    <3> QED BY <3>1, <3>2, SystemGains
  <2>9. sys[h].size \in Nat
    BY <1>2, <2>2, SystemIs
  <2>10. PICK x, y : x = s.systemBlocks - 1 /\ y = s.systemSize - sys[h].size
    OBVIOUS
  <2>11. x \in Int /\ y \in Int
    BY <1>2, <2>9, <2>10 DEF Counter
  <2>12. s2 = [s EXCEPT !.systemBlocks = x, !.systemSize = y]
    BY <2>1, <2>10
  <2>13. /\ s2 \in Counter /\ s2.systemBlocks = x /\ s2.systemSize = y
         /\ s2.freeBlocks = s.freeBlocks /\ s2.freeSize = s.freeSize
         /\ s2.movableBlocks = s.movableBlocks /\ s2.movableSize = s.movableSize
         /\ s2.lockedBlocks = s.lockedBlocks /\ s2.lockedSize = s.lockedSize
    BY <1>2, <2>11, <2>12 DEF Counter
  <2>14. Counted(m, s2)
    BY <1>2, <2>13 DEF Counted
  <2>15. CountedSystem(sys2, s2)
    BY <1>2, <2>8, <2>9, <2>10, <2>13 DEF CountedSystem
  <2>16. Sound(m2, s2, hs2, sys2)
    BY <1>2, <2>1, <2>5, <2>7, <2>13, <2>14, <2>15 DEF Sound
  <2>17. ASSUME NEW g \in Slot, g # h
         PROVE  KeptAt(m, hs, m2, hs2, g) /\ (g \in DOMAIN sys => sys2[g] = sys[g])
    BY <2>1, <2>5, <2>6, <2>17 DEF KeptAt
  <2> QED BY <1>1, <1>3, <2>5, <2>16, <2>17 DEF ArenaInv
<1> QED BY <1>3, <1>4, <1>5


-----------------------------------------------------------------------------
(* heapLock, heapUnlock and what is written in between                      *)

Relabels(m, hs, h, old, new, m2, hs2) ==
  /\ h \in Slot /\ old \in {"movable", "locked"} /\ new \in {"movable", "locked"}
  /\ hs[h].state = old
  /\ m2 = [m EXCEPT ![hs[h].data].state = new] /\ hs2 = [hs EXCEPT ![h].state = new]

LEMMA Relabelled ==
  ASSUME Arena!HeapConstants, NEW m, NEW s, NEW hs, NEW sys, Sound(m, s, hs, sys), NEW h,
         NEW old, NEW new,
         NEW m2, NEW hs2, Relabels(m, hs, h, old, new, m2, hs2)
  PROVE  LET a == hs[h].data
             b == [m[a] EXCEPT !.state = new]
             e == [state |-> new, data |-> a]
         IN /\ Handled(m, hs, h, a, b, e, m2, hs2) /\ a \in DOMAIN m
            /\ m[a].state = old /\ b.state = new /\ m2[a].bytes = m[a].bytes /\ hs2[h] = e
            /\ m[a].size \in Nat
<1> USE DEF Relabels
<1>1. PICK a, b, e : /\ a = hs[h].data /\ b = [m[a] EXCEPT !.state = new]
                     /\ e = [state |-> new, data |-> a]
  OBVIOUS
<1>2. Tiles(m) /\ hs \in [Slot -> HandleSort] /\ Named(m, hs)
  BY DEF Sound
<1>3. a \in DOMAIN m /\ m[a].handle = h
  BY <1>1, <1>2 DEF Named
<1>4. m[a].state # "free"
  BY <1>2, <1>3, TakenIs
<1>5. hs[h] = [state |-> m[a].state, data |-> a]
  BY <1>2, <1>3, <1>4 DEF Named
<1>6. m[a] \in Blocky /\ m[a].size \in Nat
  BY <1>2, <1>3, Ends DEF Tiles, InArena
<1>7. b \in Blocky /\ b.size = m[a].size /\ b.state = new /\ b.handle = h /\ b.bytes = m[a].bytes
  BY <1>1, <1>3, <1>6 DEF Blocky
<1>8. m2 = [m EXCEPT ![a] = b]
  BY <1>1
<1>9. hs2 = [hs EXCEPT ![h] = e] /\ hs2[h] = e
  <2>1. [hs[h] EXCEPT !.state = new] = e
    BY <1>1, <1>5
  <2>2. hs2 = [hs EXCEPT ![h] = [hs[h] EXCEPT !.state = new]]
    OBVIOUS
  <2>3. hs2 = [hs EXCEPT ![h] = e]
    BY <2>1, <2>2
  <2> QED BY <1>2, <2>3
<1>10. m[a].state = old
  BY <1>5
<1>11. m2[a].bytes = m[a].bytes
  BY <1>3, <1>7, <1>8
<1>12. Restated(m, a, b, m2) /\ Renamed(a, h, b, e)
  BY <1>1, <1>7, <1>8 DEF Restated, Renamed
<1>13. Handled(m, hs, h, a, b, e, m2, hs2)
  BY <1>1, <1>9, <1>12 DEF Handled
<1> QED BY <1>1, <1>3, <1>6, <1>7, <1>9, <1>10, <1>11, <1>13

KeptBut(m, hs, m2, hs2, h) == \A g \in Slot : g # h => KeptAt(m, hs, m2, hs2, g)

LEMMA RelabelledKeeps ==
  ASSUME Arena!HeapConstants, NEW m, NEW s, NEW hs, NEW sys, Sound(m, s, hs, sys), NEW h,
         NEW old, NEW new,
         NEW m2, NEW hs2, Relabels(m, hs, h, old, new, m2, hs2)
  PROVE  /\ hs2[h] = [state |-> new, data |-> hs[h].data]
         /\ m2[hs[h].data].bytes = m[hs[h].data].bytes
         /\ KeptBut(m, hs, m2, hs2, h)
<1>1. PICK a : a = hs[h].data
  OBVIOUS
<1>2. PICK b, e : b = [m[a] EXCEPT !.state = new] /\ e = [state |-> new, data |-> a]
  OBVIOUS
<1>3. /\ Handled(m, hs, h, a, b, e, m2, hs2) /\ m2[a].bytes = m[a].bytes /\ hs2[h] = e
  BY <1>1, <1>2, Relabelled
<1>4. KeptBut(m, hs, m2, hs2, h)
  BY <1>3, RestatedNames DEF KeptBut
<1> QED BY <1>1, <1>2, <1>3, <1>4

\* Moving a block between the movable and the locked ones, counted as such.
LEMMA RelabelledSound ==
  ASSUME Arena!HeapConstants, NEW m, NEW s, NEW hs, NEW sys, Sound(m, s, hs, sys), NEW h,
         NEW old, NEW new,
         NEW m2, NEW hs2, Relabels(m, hs, h, old, new, m2, hs2), NEW s2 \in Counter,
         CountersMove(s, s2, m[hs[h].data].size, old, new)
  PROVE  Sound(m2, s2, hs2, sys)
<1>1. PICK a : a = hs[h].data
  OBVIOUS
<1>2. PICK b, e : b = [m[a] EXCEPT !.state = new] /\ e = [state |-> new, data |-> a]
  OBVIOUS
<1>3. /\ Handled(m, hs, h, a, b, e, m2, hs2) /\ m[a].state = old /\ b.state = new
  BY <1>1, <1>2, Relabelled
<1>4. CountersMove(s, s2, m[a].size, m[a].state, b.state)
  BY <1>1, <1>3
<1> QED BY <1>3, <1>4, RestatedSound

\* A system block keeps its place in every state that has one.
SystemRelabels(hs, h, new, hs2) ==
  /\ h \in Slot /\ new \in {"system", "lockedsystem"}
  /\ hs[h].state \in {"system", "lockedsystem"} /\ hs2 = [hs EXCEPT ![h].state = new]

LEMMA SystemRelabelled ==
  ASSUME Arena!HeapConstants, NEW m, NEW s, NEW hs, NEW sys, Sound(m, s, hs, sys), NEW h,
         NEW new, NEW hs2,
         SystemRelabels(hs, h, new, hs2)
  PROVE  /\ Sound(m, s, hs2, sys) /\ hs2[h] = [state |-> new, data |-> hs[h].data]
         /\ \A g \in Slot : g # h => hs2[g] = hs[g]
<1> USE DEF SystemRelabels
<1>1. /\ Tiles(m) /\ hs \in [Slot -> HandleSort] /\ Named(m, hs)
      /\ Elsewhere(hs, sys) /\ s \in Counter /\ Counted(m, s) /\ CountedSystem(sys, s)
  BY DEF Sound
<1>2. PICK e : e = [state |-> new, data |-> hs[h].data]
  OBVIOUS
<1>3. e \in HandleSort /\ e.state = new /\ e.data = hs[h].data
  BY <1>1, <1>2 DEF HandleSort
<1>5. hs2 = [hs EXCEPT ![h] = e]
  <2>1. [hs[h] EXCEPT !.state = new] = e
    BY <1>1, <1>2 DEF HandleSort
  <2> QED BY <2>1
<1>6. InArena(m)
  BY <1>1 DEF Tiles
<1>7. /\ hs2 \in [Slot -> HandleSort] /\ Named(m, hs2) /\ hs2[h] = e
      /\ \A g \in Slot : g # h => hs2[g] = hs[g]
  <2>1. hs[h].state \notin {"movable", "locked"} /\ e.state \notin {"movable", "locked"}
          /\ h \in Slot
    BY <1>3
  <2>2. LET f == [hs EXCEPT ![h] = e]
        IN /\ f \in [Slot -> HandleSort] /\ Named(m, f) /\ f[h] = e
           /\ \A g \in Slot : g # h => f[g] = hs[g]
    <3> HIDE DEF SystemRelabels
    <3> QED BY <1>1, <1>3, <1>6, <2>1, SystemNames
  <2> QED BY <1>5, <2>2
<1>8. Elsewhere(hs2, sys)
  <2>1. DOMAIN sys = {g \in Slot : hs2[g].state \in {"system", "lockedsystem"}}
    BY <1>1, <1>3, <1>7 DEF Elsewhere
  <2>2. \A g \in Slot : hs2[g].data = hs[g].data
    BY <1>3, <1>7
  <2>3. \A g \in Slot : hs2[g].state = "invalid" => hs2[g] = Arena!Unused
    BY <1>1, <1>3, <1>7 DEF Elsewhere
  <2> QED BY <1>1, <2>1, <2>2, <2>3 DEF Elsewhere
<1>9. Sound(m, s, hs2, sys)
  BY <1>1, <1>7, <1>8 DEF Sound
<1> QED BY <1>2, <1>7, <1>9

\* Nobody else's block is touched.
Others(h) ==
  \A g \in Slot : g # h =>
    /\ KeptAt(header, handles, header', handles', g)
    /\ g \in DOMAIN system => system'[g] = system[g]

LEMMA LockKeeps ==
  ASSUME Arena!HeapConstants, ArenaInv, NEW h \in Slot, Arena!HeapLock(h)
  PROVE  /\ ArenaInv' /\ Others(h) /\ system' = system
         /\ \/ /\ handles[h].state = "movable"
               /\ handles'[h] = [state |-> "locked", data |-> handles[h].data]
               /\ header'[handles[h].data].bytes = header[handles[h].data].bytes
            \/ /\ handles[h].state = "system"
               /\ handles'[h] = [state |-> "lockedsystem", data |-> handles[h].data]
<1>1. /\ Sound(header, stats, handles, system) /\ stats \in Counter
      /\ system' = system /\ handles[h].state \in {"movable", "system"}
  BY DEF ArenaInv, Sound, Arena!HeapLock
<1>2. CASE handles[h].state = "movable"
  <2>1. PICK n : n = header[handles[h].data].size
    OBVIOUS
  <2>2. /\ Relabels(header, handles, h, "movable", "locked", header', handles')
        /\ stats' = [stats EXCEPT !.movableBlocks = @ - 1, !.movableSize = @ - n,
                                  !.lockedBlocks = @ + 1, !.lockedSize = @ + n]
    BY <1>2, <2>1 DEF Arena!HeapLock, Relabels
  <2>3. PICK w, x, y, z : /\ w = stats.movableBlocks - 1 /\ x = stats.movableSize - n
                          /\ y = stats.lockedBlocks + 1 /\ z = stats.lockedSize + n
    OBVIOUS
  <2>4. stats' = [stats EXCEPT !.movableBlocks = w, !.movableSize = x,
                               !.lockedBlocks = y, !.lockedSize = z]
    BY <2>2, <2>3
  <2>5. /\ {stats.movableBlocks, stats.movableSize, stats.lockedBlocks, stats.lockedSize,
            stats.freeBlocks, stats.freeSize} \subseteq Int
    BY <1>1 DEF Counter
  <2>6. ASSUME n \in Nat
        PROVE  stats' \in Counter /\ CountersMove(stats, stats', n, "movable", "locked")
    <3>1. w \in Int /\ x \in Int /\ y \in Int /\ z \in Int
      BY <2>3, <2>5, <2>6
    <3>2. stats' \in Counter
      BY <1>1, <2>4, <3>1 DEF Counter
    <3>3. /\ stats'.movableBlocks = w /\ stats'.movableSize = x
          /\ stats'.lockedBlocks = y /\ stats'.lockedSize = z
          /\ stats'.freeBlocks = stats.freeBlocks /\ stats'.freeSize = stats.freeSize
          /\ stats'.systemBlocks = stats.systemBlocks /\ stats'.systemSize = stats.systemSize
      BY <1>1, <2>4 DEF Counter
    <3> QED BY <2>3, <2>5, <2>6, <3>2, <3>3 DEF CountersMove, If
  <2>7. n \in Nat
    BY <1>1, <2>1, <2>2, Relabelled
  <2>8. /\ Sound(header', stats', handles', system)
        /\ handles'[h] = [state |-> "locked", data |-> handles[h].data]
        /\ header'[handles[h].data].bytes = header[handles[h].data].bytes
        /\ \A g \in Slot : g # h => KeptAt(header, handles, header', handles', g)
    <3>1. PICK m2, s2, hs2 : m2 = header' /\ s2 = stats' /\ hs2 = handles'
      OBVIOUS
    <3>2. PICK old, new : old = "movable" /\ new = "locked"
      OBVIOUS
    <3>3. s2 \in Counter /\ CountersMove(stats, s2, header[handles[h].data].size, old, new)
      BY <2>1, <2>6, <2>7, <3>1, <3>2
    <3>4. Relabels(header, handles, h, old, new, m2, hs2)
      BY <2>2, <3>1, <3>2
    <3>5. Sound(header, stats, handles, system)
      BY <1>1
    <3>6. Sound(m2, s2, hs2, system)
      BY <3>3, <3>4, <3>5, RelabelledSound
    <3>7. /\ hs2[h] = [state |-> new, data |-> handles[h].data]
          /\ m2[handles[h].data].bytes = header[handles[h].data].bytes
      BY <3>4, <3>5, RelabelledKeeps
    <3>8. KeptBut(header, handles, m2, hs2, h)
      BY <3>4, <3>5, RelabelledKeeps
    <3> QED BY <3>1, <3>2, <3>6, <3>7, <3>8 DEF KeptBut
  <2> QED BY <1>1, <1>2, <2>8 DEF ArenaInv, Others
<1>3. CASE handles[h].state = "system"
  <2>1. SystemRelabels(handles, h, "lockedsystem", handles') /\ header' = header /\ stats' = stats
    BY <1>3 DEF Arena!HeapLock, SystemRelabels
  <2>2. /\ Sound(header, stats, handles', system)
        /\ handles'[h] = [state |-> "lockedsystem", data |-> handles[h].data]
        /\ \A g \in Slot : g # h => handles'[g] = handles[g]
    <3>1. PICK hs2 : hs2 = handles'
      OBVIOUS
    <3>2. SystemRelabels(handles, h, "lockedsystem", hs2) /\ Sound(header, stats, handles, system)
      BY <1>1, <2>1, <3>1
    <3> QED BY <3>1, <3>2, SystemRelabelled
  <2>3. Others(h)
    BY <1>1, <2>1, <2>2 DEF Others, KeptAt
  <2> QED BY <1>1, <1>3, <2>1, <2>2, <2>3 DEF ArenaInv
<1> QED BY <1>1, <1>2, <1>3

LEMMA UnlockKeeps ==
  ASSUME Arena!HeapConstants, ArenaInv, NEW h \in Slot, Arena!HeapUnlock(h)
  PROVE  /\ ArenaInv' /\ Others(h) /\ system' = system
         /\ \/ /\ handles[h].state = "locked"
               /\ handles'[h] = [state |-> "movable", data |-> handles[h].data]
               /\ header'[handles[h].data].bytes = header[handles[h].data].bytes
            \/ /\ handles[h].state = "lockedsystem"
               /\ handles'[h] = [state |-> "system", data |-> handles[h].data]
<1>1. /\ Sound(header, stats, handles, system) /\ stats \in Counter
      /\ system' = system /\ handles[h].state \in {"locked", "lockedsystem"}
  BY DEF ArenaInv, Sound, Arena!HeapUnlock
<1>2. CASE handles[h].state = "locked"
  <2>1. PICK n : n = header[handles[h].data].size
    OBVIOUS
  <2>2. /\ Relabels(header, handles, h, "locked", "movable", header', handles')
        /\ stats' = [stats EXCEPT !.movableBlocks = @ + 1, !.movableSize = @ + n,
                                  !.lockedBlocks = @ - 1, !.lockedSize = @ - n]
    BY <1>2, <2>1 DEF Arena!HeapUnlock, Relabels
  <2>3. PICK w, x, y, z : /\ w = stats.movableBlocks + 1 /\ x = stats.movableSize + n
                          /\ y = stats.lockedBlocks - 1 /\ z = stats.lockedSize - n
    OBVIOUS
  <2>4. stats' = [stats EXCEPT !.movableBlocks = w, !.movableSize = x,
                               !.lockedBlocks = y, !.lockedSize = z]
    BY <2>2, <2>3
  <2>5. /\ {stats.movableBlocks, stats.movableSize, stats.lockedBlocks, stats.lockedSize,
            stats.freeBlocks, stats.freeSize} \subseteq Int
    BY <1>1 DEF Counter
  <2>6. ASSUME n \in Nat
        PROVE  stats' \in Counter /\ CountersMove(stats, stats', n, "locked", "movable")
    <3>1. w \in Int /\ x \in Int /\ y \in Int /\ z \in Int
      BY <2>3, <2>5, <2>6
    <3>2. stats' \in Counter
      BY <1>1, <2>4, <3>1 DEF Counter
    <3>3. /\ stats'.movableBlocks = w /\ stats'.movableSize = x
          /\ stats'.lockedBlocks = y /\ stats'.lockedSize = z
          /\ stats'.freeBlocks = stats.freeBlocks /\ stats'.freeSize = stats.freeSize
          /\ stats'.systemBlocks = stats.systemBlocks /\ stats'.systemSize = stats.systemSize
      BY <1>1, <2>4 DEF Counter
    <3> QED BY <2>3, <2>5, <2>6, <3>2, <3>3 DEF CountersMove, If
  <2>7. n \in Nat
    BY <1>1, <2>1, <2>2, Relabelled
  <2>8. /\ Sound(header', stats', handles', system)
        /\ handles'[h] = [state |-> "movable", data |-> handles[h].data]
        /\ header'[handles[h].data].bytes = header[handles[h].data].bytes
        /\ \A g \in Slot : g # h => KeptAt(header, handles, header', handles', g)
    <3>1. PICK m2, s2, hs2 : m2 = header' /\ s2 = stats' /\ hs2 = handles'
      OBVIOUS
    <3>2. PICK old, new : old = "locked" /\ new = "movable"
      OBVIOUS
    <3>3. s2 \in Counter /\ CountersMove(stats, s2, header[handles[h].data].size, old, new)
      BY <2>1, <2>6, <2>7, <3>1, <3>2
    <3>4. Relabels(header, handles, h, old, new, m2, hs2)
      BY <2>2, <3>1, <3>2
    <3>5. Sound(header, stats, handles, system)
      BY <1>1
    <3>6. Sound(m2, s2, hs2, system)
      BY <3>3, <3>4, <3>5, RelabelledSound
    <3>7. /\ hs2[h] = [state |-> new, data |-> handles[h].data]
          /\ m2[handles[h].data].bytes = header[handles[h].data].bytes
      BY <3>4, <3>5, RelabelledKeeps
    <3>8. KeptBut(header, handles, m2, hs2, h)
      BY <3>4, <3>5, RelabelledKeeps
    <3> QED BY <3>1, <3>2, <3>6, <3>7, <3>8 DEF KeptBut
  <2> QED BY <1>1, <1>2, <2>8 DEF ArenaInv, Others
<1>3. CASE handles[h].state = "lockedsystem"
  <2>1. SystemRelabels(handles, h, "system", handles') /\ header' = header /\ stats' = stats
    BY <1>3 DEF Arena!HeapUnlock, SystemRelabels
  <2>2. /\ Sound(header, stats, handles', system)
        /\ handles'[h] = [state |-> "system", data |-> handles[h].data]
        /\ \A g \in Slot : g # h => handles'[g] = handles[g]
    <3>1. PICK hs2 : hs2 = handles'
      OBVIOUS
    <3>2. SystemRelabels(handles, h, "system", hs2) /\ Sound(header, stats, handles, system)
      BY <1>1, <2>1, <3>1
    <3> QED BY <3>1, <3>2, SystemRelabelled
  <2>3. Others(h)
    BY <1>1, <2>1, <2>2 DEF Others, KeptAt
  <2> QED BY <1>1, <1>3, <2>1, <2>2, <2>3 DEF ArenaInv
<1> QED BY <1>1, <1>2, <1>3

LEMMA WriteKeeps ==
  ASSUME Arena!HeapConstants, ArenaInv, NEW h \in Slot, Arena!Write(h)
  PROVE  /\ ArenaInv' /\ Others(h) /\ handles' = handles
         /\ \/ handles[h].state = "locked" /\ header'[handles[h].data].bytes = h
            \/ handles[h].state = "lockedsystem" /\ system'[h].bytes = h
<1>1. /\ Sound(header, stats, handles, system) /\ handles' = handles /\ stats' = stats
      /\ handles[h].state \in {"locked", "lockedsystem"}
      /\ Tiles(header) /\ handles \in [Slot -> HandleSort] /\ Named(header, handles)
      /\ Elsewhere(handles, system) /\ stats \in Counter /\ Counted(header, stats)
      /\ CountedSystem(system, stats)
  BY DEF ArenaInv, Sound, Arena!Write
<1>2. CASE handles[h].state = "locked"
  <2>1. PICK m, a, b, m2 : /\ m = header /\ a = handles[h].data
                           /\ b = [m[a] EXCEPT !.bytes = h] /\ m2 = header'
    OBVIOUS
  <2>2. m2 = [m EXCEPT ![a] = b] /\ system' = system
    BY <1>2, <2>1 DEF Arena!Write
  <2>3. a \in DOMAIN m /\ m[a].handle = h
    BY <1>1, <1>2, <2>1 DEF Named
  <2>4. m[a] \in Blocky /\ m[a].state # "free"
    BY <1>1, <2>1, <2>3, TakenIs DEF Tiles, InArena
  <2>5. handles[h] = [state |-> m[a].state, data |-> a]
    BY <1>1, <2>1, <2>3, <2>4 DEF Named
  <2>6. /\ b \in Blocky /\ b.size = m[a].size /\ b.state = m[a].state /\ b.handle = h /\ b.bytes = h
    BY <2>1, <2>3, <2>4 DEF Blocky
  <2>7. Restated(m, a, b, m2) /\ Renamed(a, h, b, handles[h])
    <3>1. b.state \in {"movable", "locked"}
      BY <2>4, <2>6 DEF Blocky
    <3> QED BY <2>2, <2>5, <2>6, <3>1 DEF Restated, Renamed
  <2>8. handles = [handles EXCEPT ![h] = handles[h]]
    BY <1>1
  <2>9. Handled(m, handles, h, a, b, handles[h], m2, handles)
    BY <1>2, <2>1, <2>7, <2>8 DEF Handled
  <2>10. CountersMove(stats, stats, m[a].size, m[a].state, b.state)
    <3>1. m[a].size \in Nat
      BY <2>4 DEF Blocky
    <3>2. {stats.movableBlocks, stats.movableSize, stats.lockedBlocks, stats.lockedSize,
           stats.freeBlocks, stats.freeSize} \subseteq Int
      BY <1>1 DEF Counter
    <3>3. PICK st : st = m[a].state /\ st = b.state
      BY <2>6
    <3>4. CountersMove(stats, stats, m[a].size, st, st)
      BY <3>1, <3>2 DEF CountersMove, If
    <3> QED BY <3>3, <3>4
  <2>11. Sound(m2, stats, handles, system)
    BY <1>1, <2>1, <2>9, <2>10, RestatedSound
  <2>12. \A g \in Slot : g # h => KeptAt(m, handles, m2, handles, g)
    <3>1. Sound(m, stats, handles, system)
      BY <1>1, <2>1
    <3> QED BY <2>9, <3>1, RestatedNames
  <2>13. m2[a].bytes = h
    BY <2>2, <2>3, <2>6
  <2> QED BY <1>1, <1>2, <2>1, <2>2, <2>11, <2>12, <2>13 DEF ArenaInv, Others
<1>3. CASE handles[h].state = "lockedsystem"
  <2>1. PICK sys2 : sys2 = system'
    OBVIOUS
  <2>2. sys2 = [system EXCEPT ![h].bytes = h] /\ header' = header
    BY <1>3, <2>1 DEF Arena!Write
  <2>3. h \in DOMAIN system
          /\ \A g \in DOMAIN system : system[g] \in [size : Sizes, bytes : Slot \cup {Junk}]
    BY <1>1, <1>3 DEF Elsewhere
  <2>4. /\ DOMAIN sys2 = DOMAIN system /\ \A g \in DOMAIN system : g # h => sys2[g] = system[g]
        /\ sys2[h] = [system[h] EXCEPT !.bytes = h]
    BY <2>2, <2>3
  <2>5. sys2[h] \in [size : Sizes, bytes : Slot \cup {Junk}] /\ sys2[h].size = system[h].size
        /\ sys2[h].bytes = h
    BY <2>3, <2>4
  <2>6. Elsewhere(handles, sys2)
    BY <1>1, <2>3, <2>4, <2>5 DEF Elsewhere
  <2>7. Arena!BytesOf(sys2, DOMAIN sys2) = Arena!BytesOf(system, DOMAIN system)
    <3>1. PICK S, w, v : S = DOMAIN system /\ w = SizeAt(system) /\ v = SizeAt(sys2)
      OBVIOUS
    <3>2. \A g \in S : w[g] = v[g] /\ w[g] \in Nat
      <4>1. \A g \in S : system[g].size \in Nat
        BY <1>1, <3>1, SystemIs
      <4> QED BY <2>4, <2>5, <3>1, <4>1 DEF SizeAt
    <3>3. IsFiniteSet(S)
      BY <1>1, <3>1, SystemIs
    <3>4. Total(w, S) = Total(v, S)
      BY <3>2, <3>3, TotalAlike
    <3>5. DOMAIN sys2 = S
      BY <2>4, <3>1
    <3> QED BY <3>1, <3>4, <3>5, BytesAre
  <2>8. CountedSystem(sys2, stats)
    BY <1>1, <2>4, <2>7 DEF CountedSystem
  <2>9. Sound(header, stats, handles, sys2)
    BY <1>1, <2>6, <2>8 DEF Sound
  <2>10. Others(h)
    BY <1>1, <2>1, <2>2, <2>4 DEF Others, KeptAt
  <2> QED BY <1>1, <1>3, <2>1, <2>2, <2>5, <2>9, <2>10 DEF ArenaInv
<1> QED BY <1>1, <1>2, <1>3


-----------------------------------------------------------------------------
(* The invariant holds, and what it says                                    *)

LEMMA InitSound ==
  ASSUME Arena!HeapConstants, Arena!Init
  PROVE  ArenaInv
<1>1. PICK n : n = ArenaSize - Overhead
  OBVIOUS
<1>2. n \in Nat \ {0} /\ ArenaSize \in Nat /\ Overhead \in Nat /\ n < ArenaSize
  BY <1>1, Places DEF Arena!HeapConstants
<1>3. DOMAIN header = {0} /\ header[0] = Arena!FreeBlock(n)
  BY <1>1 DEF Arena!Init
<1>4. header[0] \in Blocky /\ header[0].size = n /\ header[0].state = "free"
      /\ header[0].handle = Arena!NoHandle
  BY <1>2, <1>3, FreeBlockIs
<1>5. Tiles(header)
  <2>1. Arena!After(header, 0) = ArenaSize
    BY <1>1, <1>2, <1>4 DEF Arena!After
  <2>2. InArena(header)
    BY <1>2, <1>3, <1>4 DEF InArena
  <2>3. Closed(header) /\ InOrder(header)
    BY <1>3, <2>1 DEF Closed, InOrder
  <2> QED BY <2>2, <2>3 DEF Tiles
<1>6. handles = [h \in Slot |-> Arena!Unused] /\ Arena!Unused \in HandleSort
        /\ Arena!Unused.state = "invalid"
  BY DEF Arena!Init, Arena!Unused, HandleSort
<1>7. Named(header, handles)
  BY <1>3, <1>4, <1>6 DEF Named
<1>8. DOMAIN system = {}
  BY DEF Arena!Init
<1>9. Elsewhere(handles, system)
  BY <1>6, <1>8 DEF Elsewhere
<1>10. stats = [freeBlocks    |-> 1, freeSize    |-> n,
                movableBlocks |-> 0, movableSize |-> 0,
                lockedBlocks  |-> 0, lockedSize  |-> 0,
                systemBlocks  |-> 0, systemSize  |-> 0]
  BY <1>1 DEF Arena!Init
<1>11. stats \in Counter
  BY <1>2, <1>10 DEF Counter
<1>12. \A m, S : S = {} /\ S \in SUBSET (DOMAIN m) => Arena!BytesOf(m, S) = 0 /\ Cardinality(S) = 0
  BY BytesAre, TotalNone, FS_EmptySet
<1>13. Counted(header, stats)
  <2>1. Arena!Is(header, "movable") = {} /\ Arena!Is(header, "locked") = {}
    BY <1>3, <1>4 DEF Arena!Is
  <2>2. /\ Arena!BytesOf(header, Arena!Is(header, "movable")) = 0
             /\ Arena!BytesOf(header, Arena!Is(header, "locked")) = 0
        /\ Cardinality(Arena!Is(header, "movable")) = 0
             /\ Cardinality(Arena!Is(header, "locked")) = 0
    BY <1>12, <2>1
  <2>3. Cardinality(DOMAIN header) = 1
    BY <1>3, FS_Singleton
  <2>4. n + 0 + 0 + 1 * Overhead = ArenaSize
    BY <1>1, <1>2
  <2> QED BY <1>10, <2>2, <2>3, <2>4 DEF Counted
<1>14. CountedSystem(system, stats)
  BY <1>8, <1>10, <1>12 DEF CountedSystem
<1> QED BY <1>5, <1>6, <1>7, <1>9, <1>11, <1>13, <1>14 DEF ArenaInv, Sound

LEMMA NextSound ==
  ASSUME Arena!HeapConstants, ArenaInv, [Arena!Next]_(Arena!vars)
  PROVE  ArenaInv'
<1>1. CASE UNCHANGED Arena!vars
  BY <1>1 DEF Arena!vars, ArenaInv
<1>2. CASE Arena!Next
  BY <1>2, AllocateKeeps, DeallocateKeeps, LockKeeps, WriteKeeps, UnlockKeeps DEF Arena!Next
<1> QED BY <1>1, <1>2

LEMMA SoundValidates ==
  ASSUME Arena!HeapConstants, ArenaInv
  PROVE  Arena!Validate
BY CountedFree, SameCardinality DEF ArenaInv, Sound, Arena!Validate, Counted, CountedSystem

LEMMA SoundMatches ==
  ASSUME Arena!HeapConstants, ArenaInv
  PROVE  Arena!HandlesMatch
<1>1. /\ Named(header, handles) /\ Elsewhere(handles, system) /\ handles \in [Slot -> HandleSort]
  BY DEF ArenaInv, Sound
<1>2. ASSUME NEW a \in DOMAIN header
      PROVE  IF header[a].state = "free" THEN header[a].handle = Arena!NoHandle
             ELSE /\ header[a].handle # Arena!NoHandle
                  /\ handles[header[a].handle] = [state |-> header[a].state, data |-> a]
  BY <1>1, Places DEF Named
<1>3. ASSUME NEW h \in Slot
      PROVE  CASE handles[h].state = "invalid" -> handles[h] = Arena!Unused
               /\ h \notin DOMAIN system
               [] handles[h].state \in {"movable", "locked"} ->
                    handles[h].data \in DOMAIN header /\ header[handles[h].data].handle = h
               [] OTHER -> h \in DOMAIN system
  <2>1. handles[h].state \in {"invalid", "movable", "locked", "system", "lockedsystem"}
    BY <1>1 DEF HandleSort
  <2>2. CASE handles[h].state = "invalid"
    BY <1>1, <2>2 DEF Elsewhere
  <2>3. CASE handles[h].state \in {"movable", "locked"}
    BY <1>1, <2>3 DEF Named
  <2>4. CASE handles[h].state \in {"system", "lockedsystem"}
    BY <1>1, <2>4 DEF Elsewhere
  <2> QED BY <2>1, <2>2, <2>3, <2>4
<1> QED BY <1>2, <1>3 DEF Arena!HandlesMatch

LEMMA SoundTiles ==
  ASSUME Arena!HeapConstants, ArenaInv
  PROVE  Arena!Tiling
<1>1. /\ Tiles(header) /\ handles \in [Slot -> HandleSort] /\ Elsewhere(handles, system)
      /\ stats \in Counter /\ Counted(header, stats) /\ CountedSystem(system, stats)
      /\ InArena(header) /\ ArenaSize \in Nat
  BY Places DEF ArenaInv, Sound, Tiles
<1>2. \A a \in DOMAIN header : /\ a \in Nat /\ a < ArenaSize /\ Arena!After(header, a) \in Nat
                               /\ Arena!After(header, a) > a
  BY <1>1, Ends
<1>3. Arena!TypeOK
  <2>1. ASSUME NEW a \in DOMAIN header
        PROVE  /\ a \in 0..(ArenaSize - 1)
               /\ header[a] \in [size : 1..ArenaSize, state : {"free", "movable", "locked"},
                                 handle : Slot \cup {Arena!NoHandle}, bytes : Slot \cup {Junk}]
    <3>1. header[a].size <= ArenaSize /\ header[a] \in Blocky
      BY <1>1, Within DEF InArena
    <3> QED BY <1>1, <1>2, <3>1 DEF Blocky
  <2>2. \A h \in DOMAIN system :
          h \in Slot /\ system[h] \in [size : Sizes, bytes : Slot \cup {Junk}]
    BY <1>1 DEF Elsewhere
  <2>3. handles \in [Slot -> [state : {"invalid", "movable", "locked", "system", "lockedsystem"},
                                data  : (0..(ArenaSize + Arena!Max(Slot))) \cup {Nowhere}]]
    BY <1>1 DEF HandleSort
  <2>4. ASSUME NEW counter \in DOMAIN stats
        PROVE  stats[counter] \in Nat
    <3>1. counter \in {"freeBlocks", "freeSize", "movableBlocks", "movableSize",
                       "lockedBlocks", "lockedSize", "systemBlocks", "systemSize"}
      BY <1>1 DEF Counter
    <3>2. stats.freeBlocks \in Nat /\ stats.freeSize \in Nat
      BY <1>1, CountedFree, StateCounts
    <3>3. /\ stats.movableBlocks \in Nat /\ stats.movableSize \in Nat
          /\ stats.lockedBlocks \in Nat /\ stats.lockedSize \in Nat
      BY <1>1, StateCounts DEF Counted
    <3>4. stats.systemBlocks \in Nat /\ stats.systemSize \in Nat
      <4>1. IsFiniteSet(DOMAIN system) /\ \A g \in DOMAIN system : SizeAt(system)[g] \in Nat
        BY <1>1, SystemIs DEF SizeAt
      <4>2. Total(SizeAt(system), DOMAIN system) \in Nat /\ Cardinality(DOMAIN system) \in Nat
        BY <4>1, TotalNat, FS_CardinalityType
      <4> QED BY <1>1, <4>2, BytesAre DEF CountedSystem
    <3> QED BY <3>1, <3>2, <3>3, <3>4
  <2> QED BY <2>1, <2>2, <2>3, <2>4 DEF Arena!TypeOK
<1>4. DOMAIN header \in SUBSET (0..ArenaSize) /\ 0 \in DOMAIN header
  BY <1>1, <1>2 DEF InArena
<1>5. Arena!Max(DOMAIN header) \in DOMAIN header
        /\ \A y \in DOMAIN header : y <= Arena!Max(DOMAIN header)
  BY <1>1, <1>4, Greatest
<1>6. ASSUME NEW a \in DOMAIN header
      PROVE  IF a = Arena!Max(DOMAIN header) THEN Arena!After(header, a) = ArenaSize
             ELSE Arena!After(header, a) = Arena!Min({b \in DOMAIN header : b > a})
  <2>1. Arena!After(header, a) = ArenaSize \/ Arena!After(header, a) \in DOMAIN header
    BY <1>1 DEF Tiles, Closed
  <2>2. CASE a = Arena!Max(DOMAIN header)
    <3>1. Arena!After(header, a) \notin DOMAIN header
      BY <1>2, <1>5, <2>2
    <3> QED BY <2>1, <2>2, <3>1
  <2>3. CASE a # Arena!Max(DOMAIN header)
    <3>1. PICK T : T = {b \in DOMAIN header : b > a}
      OBVIOUS
    <3>2. Arena!Max(DOMAIN header) \in T
      BY <1>2, <1>5, <2>3, <3>1
    <3>3. T \in SUBSET Nat /\ T # {}
      BY <1>2, <3>1, <3>2
    <3>4. Arena!Min(T) \in T /\ \A y \in T : Arena!Min(T) <= y
      BY <3>3, Smallest
    <3>5. Arena!After(header, a) <= Arena!Min(T)
      <4>1. Arena!Min(T) \in DOMAIN header /\ a < Arena!Min(T)
        BY <1>2, <3>1, <3>4
      <4> QED BY <1>1, <4>1 DEF Tiles, InOrder
    <3>6. Arena!Min(T) < ArenaSize /\ Arena!Min(T) \in Nat
      BY <1>2, <3>1, <3>4
    <3>7. Arena!After(header, a) \in T
      BY <1>1, <1>2, <2>1, <3>1, <3>5, <3>6
    <3>8. Arena!After(header, a) = Arena!Min(T)
      BY <1>2, <3>4, <3>5, <3>6, <3>7
    <3> QED BY <2>3, <3>1, <3>8
  <2> QED BY <2>2, <2>3
<1> QED BY <1>3, <1>4, <1>6 DEF Arena!Tiling


-----------------------------------------------------------------------------
(* What the holders of handles see                                          *)

ModeAt(hs, h) == CASE hs[h].state = "invalid" -> "none"
                   [] hs[h].state \in {"movable", "system"} -> "free"
                   [] OTHER -> "locked"
ContentsAt(m, hs, sys, h) ==
  CASE hs[h].state = "invalid" -> Junk
    [] hs[h].state \in {"movable", "locked"} ->
         IF hs[h].data \in DOMAIN m THEN m[hs[h].data].bytes ELSE Junk
    [] OTHER -> sys[h].bytes
PlaceAt(hs, h) == IF hs[h].state \in {"locked", "lockedsystem"} THEN hs[h].data ELSE Nowhere

\* The handle h is seen with mode, contents and place, before and after a step.
Seen(h, md, c, p, md2, c2, p2) ==
  /\ ModeAt(handles, h) = md /\ ModeAt(handles', h) = md2
  /\ ContentsAt(header, handles, system, h) = c /\ ContentsAt(header', handles', system', h) = c2
  /\ PlaceAt(handles, h) = p /\ PlaceAt(handles', h) = p2
SeenAlike(h) == \E md, c, p : Seen(h, md, c, p, md, c, p)

\* One handle changes, as one action of the promise has it.
SeenStep(h, md, c, p, md2, c2, p2) ==
  /\ Seen(h, md, c, p, md2, c2, p2) /\ \A g \in Slot : g # h => SeenAlike(g)

LEMMA SeenStepIs ==
  ASSUME NEW h \in Slot, NEW md, NEW c, NEW p, NEW md2, NEW c2, NEW p2,
         SeenStep(h, md, c, p, md2, c2, p2),
         \/ md = "none" /\ md2 = "free" /\ c2 = c /\ p2 = p
         \/ md = "free" /\ md2 = "none" /\ c2 = Junk /\ p2 = p
         \/ md = "free" /\ md2 = "locked" /\ c2 = c /\ p2 \in 0..(ArenaSize + Arena!Max(Slot))
         \/ md = "locked" /\ md2 = "locked" /\ c2 = h /\ p2 = p
         \/ md = "locked" /\ md2 = "free" /\ c2 = c /\ p2 = Nowhere
  PROVE  Arena!Promise!Next
<1> DEFINE Md == [g \in Slot |-> CASE handles[g].state = "invalid" -> "none"
                                     [] handles[g].state \in {"movable", "system"} -> "free"
                                     [] OTHER -> "locked"]
           Ct == [g \in Slot |-> Arena!Bytes(g)]
           Pl == [g \in Slot |-> IF handles[g].state \in {"locked", "lockedsystem"}
                                   THEN handles[g].data ELSE Nowhere]
<1>1. PICK M, C, P, M2, C2, P2 : M = Md /\ C = Ct /\ P = Pl /\ M2 = Md' /\ C2 = Ct' /\ P2 = Pl'
  OBVIOUS
<1>2. /\ DOMAIN M = Slot /\ M2 = [g \in Slot |-> M2[g]]
      /\ DOMAIN C = Slot /\ C2 = [g \in Slot |-> C2[g]]
      /\ DOMAIN P = Slot /\ P2 = [g \in Slot |-> P2[g]]
      /\ M = [g \in Slot |-> M[g]] /\ C = [g \in Slot |-> C[g]] /\ P = [g \in Slot |-> P[g]]
  BY <1>1
<1>3. \A g \in Slot : /\ M[g] = ModeAt(handles, g) /\ M2[g] = ModeAt(handles', g)
                        /\ C[g] = ContentsAt(header, handles, system, g)
                        /\ C2[g] = ContentsAt(header', handles', system', g)
                        /\ P[g] = PlaceAt(handles, g) /\ P2[g] = PlaceAt(handles', g)
  BY <1>1 DEF ModeAt, ContentsAt, PlaceAt, Arena!Bytes
<1>4. /\ M[h] = md /\ M2[h] = md2 /\ C[h] = c /\ C2[h] = c2 /\ P[h] = p /\ P2[h] = p2
  BY <1>3 DEF SeenStep, Seen
<1>5. \A g \in Slot : g # h => M2[g] = M[g] /\ C2[g] = C[g] /\ P2[g] = P[g]
  BY <1>3 DEF SeenStep, SeenAlike, Seen
<1>6. M2 = [M EXCEPT ![h] = md2] /\ C2 = [C EXCEPT ![h] = c2] /\ P2 = [P EXCEPT ![h] = p2]
  BY <1>2, <1>4, <1>5
<1>7. /\ md2 = md => M2 = M
      /\ c2 = c => C2 = C
      /\ p2 = p => P2 = P
  BY <1>2, <1>4, <1>5, <1>6
<1>8. \/ M[h] = "none" /\ M2 = [M EXCEPT ![h] = "free"] /\ C2 = C /\ P2 = P
      \/ M[h] = "free" /\ M2 = [M EXCEPT ![h] = "none"] /\ C2 = [C EXCEPT ![h] = Junk] /\ P2 = P
      \/ /\ M[h] = "free" /\ M2 = [M EXCEPT ![h] = "locked"] /\ C2 = C
         /\ \E q \in 0..(ArenaSize + Arena!Max(Slot)) : P2 = [P EXCEPT ![h] = q]
      \/ M[h] = "locked" /\ C2 = [C EXCEPT ![h] = h] /\ M2 = M /\ P2 = P
      \/ M[h] = "locked" /\ M2 = [M EXCEPT ![h] = "free"] /\ P2 = [P EXCEPT ![h] = Nowhere]
           /\ C2 = C
  BY <1>4, <1>6, <1>7
<1>9. \/ Md[h] = "none" /\ Md' = [Md EXCEPT ![h] = "free"] /\ Ct' = Ct /\ Pl' = Pl
      \/ Md[h] = "free" /\ Md' = [Md EXCEPT ![h] = "none"] /\ Ct' = [Ct EXCEPT ![h] = Junk]
           /\ Pl' = Pl
      \/ /\ Md[h] = "free" /\ Md' = [Md EXCEPT ![h] = "locked"] /\ Ct' = Ct
         /\ \E q \in 0..(ArenaSize + Arena!Max(Slot)) : Pl' = [Pl EXCEPT ![h] = q]
      \/ Md[h] = "locked" /\ Ct' = [Ct EXCEPT ![h] = h] /\ Md' = Md /\ Pl' = Pl
      \/ Md[h] = "locked" /\ Md' = [Md EXCEPT ![h] = "free"]
           /\ Pl' = [Pl EXCEPT ![h] = Nowhere] /\ Ct' = Ct
  <2> HIDE DEF Md, Ct, Pl
  <2> QED BY <1>1, <1>8, Zenon
<1> QED
  BY <1>9, Zenon
    DEF Arena!Promise!Next, Arena!Promise!Allocate, Arena!Promise!Deallocate, Arena!Promise!Lock,
                     Arena!Promise!Write, Arena!Promise!Unlock

LEMMA SeenNothing ==
  ASSUME \A g \in Slot : SeenAlike(g)
  PROVE  UNCHANGED Arena!Promise!hvars
<1>1. \A g \in Slot : /\ ModeAt(handles', g) = ModeAt(handles, g)
                        /\ ContentsAt(header', handles', system', g)
                             = ContentsAt(header, handles, system, g)
                        /\ PlaceAt(handles', g) = PlaceAt(handles, g)
  BY DEF SeenAlike, Seen
<1> QED BY <1>1 DEF Arena!Promise!hvars, ModeAt, ContentsAt, PlaceAt, Arena!Bytes


LEMMA KeptSeen ==
  ASSUME Arena!HeapConstants, ArenaInv, ArenaInv', NEW g \in Slot,
         KeptAt(header, handles, header', handles', g),
         g \in DOMAIN system => system'[g] = system[g]
  PROVE  SeenAlike(g)
<1>1. /\ handles[g].state \in {"invalid", "movable", "locked", "system", "lockedsystem"}
      /\ Named(header, handles) /\ Named(header', handles') /\ Elsewhere(handles, system)
  BY DEF ArenaInv, Sound, HandleSort
<1>2. /\ handles'[g].state = handles[g].state
      /\ handles[g].state # "movable" => handles'[g] = handles[g]
      /\ handles[g].state \in {"movable", "locked"} =>
           /\ handles[g].data \in DOMAIN header /\ handles'[g].data \in DOMAIN header'
           /\ header'[handles'[g].data].bytes = header[handles[g].data].bytes
  BY <1>1 DEF KeptAt, Named
<1>3. handles[g].state \in {"system", "lockedsystem"} => system'[g] = system[g]
  BY <1>1 DEF Elsewhere
<1>4. ModeAt(handles', g) = ModeAt(handles, g)
  BY <1>2 DEF ModeAt
<1>5. PlaceAt(handles', g) = PlaceAt(handles, g)
  BY <1>2 DEF PlaceAt
<1>6. ContentsAt(header', handles', system', g) = ContentsAt(header, handles, system, g)
  BY <1>1, <1>2, <1>3 DEF ContentsAt
<1> QED BY <1>4, <1>5, <1>6 DEF SeenAlike, Seen

LEMMA AllocateImplements ==
  ASSUME Arena!HeapConstants, ArenaInv, ArenaInv', NEW n \in Sizes, NEW dis \in BOOLEAN,
         Arena!HeapAllocate(n, dis)
  PROVE  Arena!Promise!Next \/ UNCHANGED Arena!Promise!hvars
<1>1. \/ GotArena(header, handles, header', handles') /\ system' = system
      \/ Kept(header, handles, header', handles) /\ GotSystem(handles, system, handles', system')
  BY AllocateKeeps
<1>2. Named(header', handles')
  BY DEF ArenaInv, Sound
<1>3. CASE Kept(header, handles, header', handles') /\ system' = system
  BY <1>3, KeptSeen, SeenNothing DEF Kept
<1>4. ASSUME NEW h \in Slot, handles[h].state = "invalid", handles'[h].state = "movable",
             header'[handles'[h].data].bytes = Junk, system' = system,
             \A g \in Slot : g # h => KeptAt(header, handles, header', handles', g)
      PROVE  Arena!Promise!Next
  <2>1. handles'[h].data \in DOMAIN header'
    BY <1>2, <1>4 DEF Named
  <2>2. Seen(h, "none", Junk, Nowhere, "free", Junk, Nowhere)
    BY <1>4, <2>1 DEF Seen, ModeAt, ContentsAt, PlaceAt
  <2>3. \A g \in Slot : g # h => SeenAlike(g)
    BY <1>4, KeptSeen
  <2>4. SeenStep(h, "none", Junk, Nowhere, "free", Junk, Nowhere)
    BY <2>2, <2>3 DEF SeenStep
  <2> QED BY <2>4, SeenStepIs
<1>5. ASSUME NEW h \in Slot, handles[h].state = "invalid", handles'[h].state = "system",
             system'[h].bytes = Junk, Kept(header, handles, header', handles),
             \A g \in Slot : g # h => handles'[g] = handles[g],
             \A g \in DOMAIN system : g # h /\ system'[g] = system[g]
      PROVE  Arena!Promise!Next
  <2>1. Seen(h, "none", Junk, Nowhere, "free", Junk, Nowhere)
    BY <1>5 DEF Seen, ModeAt, ContentsAt, PlaceAt
  <2>2. \A g \in Slot : g # h => KeptAt(header, handles, header', handles', g)
    BY <1>5 DEF Kept, KeptAt
  <2>3. \A g \in Slot : g # h => SeenAlike(g)
    BY <1>5, <2>2, KeptSeen
  <2>4. SeenStep(h, "none", Junk, Nowhere, "free", Junk, Nowhere)
    BY <2>1, <2>3 DEF SeenStep
  <2> QED BY <2>4, SeenStepIs
<1> QED BY <1>1, <1>3, <1>4, <1>5 DEF GotArena, GotSystem

LEMMA StepImplements ==
  ASSUME Arena!HeapConstants, ArenaInv, ArenaInv', [Arena!Next]_(Arena!vars)
  PROVE  [Arena!Promise!Next]_(Arena!Promise!hvars)
<1>1. CASE UNCHANGED Arena!vars
  <2>1. \A g \in Slot : SeenAlike(g)
    BY <1>1 DEF Arena!vars, SeenAlike, Seen
  <2> QED BY <2>1, SeenNothing
<1>2. ASSUME NEW n \in Sizes, NEW dis \in BOOLEAN, Arena!HeapAllocate(n, dis)
      PROVE  Arena!Promise!Next \/ UNCHANGED Arena!Promise!hvars
  BY <1>2, AllocateImplements
<1>3. ASSUME NEW h \in Slot, Others(h)
      PROVE  \A g \in Slot : g # h => SeenAlike(g)
  BY <1>3, KeptSeen DEF Others
<1>4. ASSUME NEW h \in Slot
      PROVE  /\ handles[h] \in HandleSort
             /\ handles[h].state \in {"movable", "locked"} => handles[h].data \in DOMAIN header
             /\ handles'[h].state \in {"movable", "locked"} => handles'[h].data \in DOMAIN header'
             /\ handles[h].state \in {"locked", "lockedsystem"} =>
                  handles[h].data \in 0..(ArenaSize + Arena!Max(Slot))
             /\ handles[h].state \in {"system", "lockedsystem"} => h \in DOMAIN system
             /\ handles[h].state \in {"movable", "system"}
                  => handles[h].data \in 0..(ArenaSize + Arena!Max(Slot))
  <2>1. /\ Named(header, handles) /\ Named(header', handles') /\ Elsewhere(handles, system)
        /\ handles \in [Slot -> HandleSort] /\ Tiles(header)
    BY DEF ArenaInv, Sound
  <2>2. handles[h].state \in {"movable", "locked"} =>
          handles[h].data \in DOMAIN header /\ handles[h].data \in 0..(ArenaSize + Arena!Max(Slot))
    <3>1. \A a \in DOMAIN header : a \in Nat /\ a < ArenaSize
      BY <2>1, Ends DEF Tiles
    <3> QED BY <2>1, <3>1, Places, HandleMax DEF Named
  <2>3. handles[h].state \in {"system", "lockedsystem"} =>
          h \in DOMAIN system /\ handles[h].data \in 0..(ArenaSize + Arena!Max(Slot))
    BY <2>1, Places, HandleMax DEF Elsewhere, Arena!SystemPlace
  <2> QED BY <2>1, <2>2, <2>3 DEF Named
<1>5. ASSUME NEW h \in Slot, Arena!HeapDeallocate(h)
      PROVE  Arena!Promise!Next
  <2>1. /\ handles[h].state \in {"movable", "system"} /\ handles'[h] = Arena!Unused /\ Others(h)
    BY <1>5, DeallocateKeeps DEF Others
  <2>2. PICK c : c = ContentsAt(header, handles, system, h)
    OBVIOUS
  <2>3. Seen(h, "free", c, Nowhere, "none", Junk, Nowhere)
    BY <2>1, <2>2 DEF Seen, ModeAt, ContentsAt, PlaceAt, Arena!Unused
  <2>4. SeenStep(h, "free", c, Nowhere, "none", Junk, Nowhere)
    BY <1>3, <2>1, <2>3 DEF SeenStep
  <2> QED BY <2>4, SeenStepIs
<1>6. ASSUME NEW h \in Slot, Arena!HeapLock(h)
      PROVE  Arena!Promise!Next
  <2>1. /\ Others(h) /\ system' = system
        /\ \/ /\ handles[h].state = "movable"
              /\ handles'[h] = [state |-> "locked", data |-> handles[h].data]
              /\ header'[handles[h].data].bytes = header[handles[h].data].bytes
           \/ /\ handles[h].state = "system"
              /\ handles'[h] = [state |-> "lockedsystem", data |-> handles[h].data]
    BY <1>6, LockKeeps
  <2>2. PICK c, p : c = ContentsAt(header, handles, system, h) /\ p = handles[h].data
    OBVIOUS
  <2>3. Seen(h, "free", c, Nowhere, "locked", c, p) /\ p \in 0..(ArenaSize + Arena!Max(Slot))
    BY <1>4, <2>1, <2>2 DEF Seen, ModeAt, ContentsAt, PlaceAt
  <2>4. SeenStep(h, "free", c, Nowhere, "locked", c, p)
    BY <1>3, <2>1, <2>3 DEF SeenStep
  <2> QED BY <2>3, <2>4, SeenStepIs
<1>7. ASSUME NEW h \in Slot, Arena!HeapUnlock(h)
      PROVE  Arena!Promise!Next
  <2>1. /\ Others(h) /\ system' = system
        /\ \/ /\ handles[h].state = "locked"
              /\ handles'[h] = [state |-> "movable", data |-> handles[h].data]
              /\ header'[handles[h].data].bytes = header[handles[h].data].bytes
           \/ /\ handles[h].state = "lockedsystem"
              /\ handles'[h] = [state |-> "system", data |-> handles[h].data]
    BY <1>7, UnlockKeeps
  <2>2. PICK c, p : c = ContentsAt(header, handles, system, h) /\ p = handles[h].data
    OBVIOUS
  <2>3. Seen(h, "locked", c, p, "free", c, Nowhere)
    BY <1>4, <2>1, <2>2 DEF Seen, ModeAt, ContentsAt, PlaceAt
  <2>4. SeenStep(h, "locked", c, p, "free", c, Nowhere)
    BY <1>3, <2>1, <2>3 DEF SeenStep
  <2> QED BY <2>4, SeenStepIs
<1>8. ASSUME NEW h \in Slot, Arena!Write(h)
      PROVE  Arena!Promise!Next
  <2>1. /\ Others(h) /\ handles' = handles
        /\ \/ handles[h].state = "locked" /\ header'[handles[h].data].bytes = h
           \/ handles[h].state = "lockedsystem" /\ system'[h].bytes = h
    BY <1>8, WriteKeeps
  <2>2. PICK c, p : c = ContentsAt(header, handles, system, h) /\ p = handles[h].data
    OBVIOUS
  <2>3. Seen(h, "locked", c, p, "locked", h, p)
    BY <1>4, <2>1, <2>2 DEF Seen, ModeAt, ContentsAt, PlaceAt
  <2>4. SeenStep(h, "locked", c, p, "locked", h, p)
    BY <1>3, <2>1, <2>3 DEF SeenStep
  <2> QED BY <2>4, SeenStepIs
<1> QED BY <1>1, <1>2, <1>5, <1>6, <1>7, <1>8 DEF Arena!Next

LEMMA InitImplements ==
  ASSUME Arena!Init
  PROVE  Arena!Promise!Init
<1>1. \A h \in Slot : handles[h].state = "invalid"
  BY DEF Arena!Init, Arena!Unused
<1> QED BY <1>1 DEF Arena!Promise!Init, Arena!Bytes

Steps == CacheStep \/ HeapStep
Shown == <<vars, avars, scenario>>

LEMMA EitherKeeps ==
  /\ EitherInit => ArenaInv /\ Arena!Promise!Init
  /\ ArenaInv /\ [Steps]_Shown => ArenaInv' /\ [Arena!Next]_(Arena!vars)
<1>1. EitherInit => ArenaInv /\ Arena!Promise!Init
  BY ArenaConstants, InitSound, InitImplements DEF EitherInit
<1>2. [Steps]_Shown => [Arena!Next]_(Arena!vars)
  BY DEF Steps, Shown, CacheStep, HeapStep, avars, Arena!vars
<1>3. ArenaInv /\ [Arena!Next]_(Arena!vars) => ArenaInv'
  BY ArenaConstants, NextSound
<1> QED BY <1>1, <1>2, <1>3

LEMMA ArenaSound == Either => []ArenaInv
<1>1. EitherInit => ArenaInv
  BY EitherKeeps
<1>2. ArenaInv /\ [Steps]_Shown => ArenaInv'
  BY EitherKeeps
<1> QED BY <1>1, <1>2, PTL DEF Either, Steps, Shown

\* The blocks tile the arena, handles and blocks name each other and the counters are
\* what a walk counts, for every arena, set of handles and sizes asked for, whatever the
\* allocations joined, split and moved (heapFindFreeBlock, heapBlockAllocate).
THEOREM EitherValidate == Either => []Validate
<1>1. ArenaInv => Validate
  BY ArenaConstants, SoundTiles, SoundMatches, SoundValidates DEF Validate
<1> QED BY <1>1, ArenaSound, PTL

\* The heap keeps HeapHandles: what a holder wrote stays through every join, split and
\* move, and a locked block stays where heapLock said it is (heapLock, heapFindFreeBlock).
THEOREM EitherImplements == Either => ImplementsHeapHandles
<1>1. EitherInit => ArenaInv /\ Arena!Promise!Init
  BY EitherKeeps
<1>2. ArenaInv /\ ArenaInv' /\ [Arena!Next]_(Arena!vars)
        => [Arena!Promise!Next]_(Arena!Promise!hvars)
  BY ArenaConstants, StepImplements
<1>3. ArenaInv /\ [Steps]_Shown => ArenaInv' /\ [Arena!Next]_(Arena!vars)
  BY EitherKeeps
<1>4. ArenaInv /\ ArenaInv' /\ [Steps]_Shown => [Arena!Promise!Next]_(Arena!Promise!hvars)
  BY <1>2, <1>3
<1> QED
  BY <1>1, <1>4, ArenaSound, PTL
  DEF Either, Steps, Shown, ImplementsHeapHandles, Arena!ImplementsHeapHandles, Arena!Promise!Spec

=============================================================================
