-------------------------- MODULE ScheduleProofs ---------------------------
(***************************************************************************)
(* Proofs about what is put off until later: Animation, for all plans,     *)
(* objects, numbers of slots, sads and descriptions, and GameClock, for all*)
(* lengths of a day, delays and bounds.                                    *)
(***************************************************************************)
EXTENDS Animation, GameClock, SequenceEdits

-----------------------------------------------------------------------------
(* The invariants                                                           *)

PartType == [request : Requests, priority : BOOLEAN, descs : Seq(Desc)]
Description == {d \in Desc : d.kind = "ping" => d.target \in 1..Slots}
SequenceType == [step : Nat \cup {COMPLETE}, idx : Int, descs : Seq(Description),
                 flags : SUBSET Flags]
SadType == [obj : Objects \cup {NIL}, seq : 1..Slots, moves : BOOLEAN, kind : Kinds,
            step : {"new", "init", "going", "complete"}]

Callers == {"main", "callback", "script", "standup"}
Working == {"callback", "run", "ping", "end", "finish"}   \* on the sequence in slot
\* Over the sads, or the slots, at at.
Walking == {"animate", "stepping", "playing", "completed", "stop"}
FrameType ==
  {f \in [op : Ops, slot : Nat, at : Nat, plan : Seq(PartType)] :
     /\ f.op \in Working => f.slot \in 1..Slots
     /\ f.op \in Walking => f.at > 0
     /\ f.op \in Callers /\ f.at = 1 => f.plan # << >>}

\* Only the main loop's frame is at the bottom, and only there.
OneMain == \A k \in 1..Len(stack) : stack[k].op = "main" <=> k = 1

Types ==
  /\ seqs \in [1..Slots -> SequenceType]
  /\ cur \in 0..Slots /\ building \in Seq(Description)
  /\ sads \in Seq(SadType)
  /\ inBk \in BOOLEAN /\ inCombat \in BOOLEAN
  /\ stack \in Seq(FrameType) /\ stack # << >> /\ OneMain

\* What is registered so far is of nobody another sequence in progress animates.
Registers(o) == \E k \in 1..Len(building) : building[k].owner = o /\ ~IsCallback(building[k])
OthersFree ==
  cur # 0 =>
    /\ ~InProgress(cur)
    /\ \A i \in 1..Slots : InProgress(i) =>
         ~\E o \in Objects : Registers(o) /\ Owns(i, o)

Exclusive == OwnersExclusive /\ OthersFree

\* A combat flag is of a sequence in progress, or of one whose end deals damage.
Finishing(i) == \E k \in 1..Len(stack) : stack[k].op = "finish" /\ stack[k].slot = i
FlagsKnown == \A i \in 1..Slots : CombatFlagged(i) => inCombat /\ (InProgress(i) \/ Finishing(i))

\* What dealing damage waits for: nobody, or the one who stands up for the turn's
\* animations, which are flagged.
FinishesWait ==
  \A k \in 1..Len(stack) : stack[k].op = "finish" =>
    /\ inCombat /\ (InProgress(stack[k].slot) => CombatFlagged(stack[k].slot))
    /\ IF k = Len(stack) THEN running = 0 ELSE stack[k + 1].op \in {"standup", "turnrun"}

\* A sequence that is being ended counts, or has been ended by a call from there.
EndsKnown ==
  \A k \in 1..Len(stack) : stack[k].op = "end" =>
    \/ InProgress(stack[k].slot) \/ ~CombatFlagged(stack[k].slot)
    \/ \E m \in (k + 1)..Len(stack) : stack[m].op = "finish" /\ stack[m].slot = stack[k].slot

\* A slot held back is free, and is not begun in; nor is one that somebody builds
\* in ended by a call from there.
HeldFree == \A i \in 1..Slots : "held" \in seqs[i].flags => ~InProgress(i)
BuiltBy(k) ==
  /\ stack[k].op \in Callers /\ stack[k].at = 1
  /\ \A m \in (k + 1)..Len(stack) : stack[m].op \in {"end", "finish"} => stack[m].slot # cur
SomeoneBuilds ==
  cur # 0 => "held" \notin seqs[cur].flags /\ \E k \in 1..Len(stack) : BuiltBy(k)

Turns ==
  /\ FlagsKnown /\ FinishesWait /\ EndsKnown /\ HeldFree /\ SomeoneBuilds
  /\ CombatBalanced

-----------------------------------------------------------------------------
(* Frames                                                                   *)

LEMMA FrameParts ==
  ASSUME NEW f \in FrameType
  PROVE  /\ f.op \in Ops /\ f.slot \in Nat /\ f.at \in Nat /\ f.plan \in Seq(PartType)
         /\ f.op \in Working => f.slot \in 1..Slots
         /\ f.op \in Walking => f.at > 0
         /\ f.op \in Callers /\ f.at = 1 => f.plan # << >>
BY DEF FrameType

LEMMA FrameIs ==
  ASSUME NEW op \in Ops \ {"main", "callback", "script", "standup"}, NEW place \in Nat, NEW at \in Nat,
         op \in Working => place \in 1..Slots, op \in Walking => at > 0
  PROVE  /\ Frame(op, place, at) \in FrameType
         /\ Frame(op, place, at).op = op /\ Frame(op, place, at).slot = place
         /\ Frame(op, place, at).at = at
<1>1. << >> \in Seq(PartType)
  BY EmptySeq
<1> QED BY <1>1 DEF Frame, FrameType, Callers

LEMMA CallerFrameIs ==
  ASSUME NEW op \in {"callback", "script", "standup"}, NEW place \in Nat,
         op = "callback" => place \in 1..Slots
  PROVE  /\ Frame(op, place, 0) \in FrameType
         /\ Frame(op, place, 0).op = op /\ Frame(op, place, 0).slot = place
         /\ Frame(op, place, 0).at = 0
<1>1. << >> \in Seq(PartType)
  BY EmptySeq
<1> QED BY <1>1 DEF Frame, FrameType, Callers, Working, Walking, Ops

\* The stack by its length: the top, and what is below it.
LEMMA StackParts ==
  ASSUME stack \in Seq(FrameType), stack # << >>
  PROVE  /\ Len(stack) \in Nat /\ Len(stack) > 0
         /\ Top = stack[Len(stack)] /\ Top \in FrameType
         /\ \A k \in 1..Len(stack) : stack[k] \in FrameType
         /\ Below \in Seq(FrameType) /\ Len(Below) = Len(stack) - 1
         /\ \A k \in 1..(Len(stack) - 1) : Below[k] = stack[k]
<1>1. Len(stack) \in Nat /\ Len(stack) > 0
  BY LenProperties, EmptySeq
<1>2. \A k \in 1..Len(stack) : stack[k] \in FrameType
  BY ElementOfSeq
<1>3. Top = stack[Len(stack)]
  BY DEF Top, Last
<1>4. Below = SubSeq(stack, 1, Len(stack) - 1)
  BY DEF Below, Front
<1> QED BY <1>1, <1>2, <1>3, <1>4, FrontProperties

\* What a step does to the stack: it keeps the first n frames.
Kept(n, st) ==
  /\ n \in Nat /\ n <= Len(stack) /\ n <= Len(st)
  /\ st \in Seq(FrameType) /\ st # << >>
  /\ \A k \in 1..n : st[k] = stack[k]

LEMMA Calls ==
  ASSUME stack \in Seq(FrameType), stack # << >>, NEW fs \in Seq(FrameType)
  PROVE  /\ Kept(Len(stack), Calling(fs)) /\ Len(Calling(fs)) = Len(stack) + Len(fs)
         /\ \A k \in 1..Len(fs) : Calling(fs)[Len(stack) + k] = fs[k]
<1>1. Len(stack) \in Nat /\ Len(stack) > 0 /\ Len(fs) \in Nat
  BY StackParts, LenProperties
<1>2. PICK st : st = Calling(fs)
  OBVIOUS
<1>3. /\ st \in Seq(FrameType) /\ Len(st) = Len(stack) + Len(fs)
      /\ \A k \in 1..(Len(stack) + Len(fs)) :
           st[k] = IF k <= Len(stack) THEN stack[k] ELSE fs[k - Len(stack)]
  BY <1>2, ConcatProperties DEF Calling
<1>4. st # << >>
  BY <1>1, <1>3, EmptySeq
<1>5. ASSUME NEW k \in 1..Len(fs) PROVE st[Len(stack) + k] = fs[k]
  <2>1. Len(stack) + k \in 1..(Len(stack) + Len(fs)) /\ ~(Len(stack) + k <= Len(stack))
        /\ (Len(stack) + k) - Len(stack) = k
    BY <1>1
  <2> QED BY <1>3, <2>1
<1> QED BY <1>1, <1>2, <1>3, <1>4, <1>5 DEF Kept

\* The top frame returns, and calls are made below it.
LEMMA Returned ==
  ASSUME stack \in Seq(FrameType), stack # << >>, Len(stack) > 1, NEW fs \in Seq(FrameType)
  PROVE  /\ Kept(Len(stack) - 1, Below \o fs) /\ Len(Below \o fs) = Len(stack) - 1 + Len(fs)
         /\ \A k \in 1..Len(fs) : (Below \o fs)[Len(stack) - 1 + k] = fs[k]
<1>1. Len(stack) \in Nat /\ Len(stack) > 1 /\ Len(fs) \in Nat
  BY StackParts, LenProperties
<1>2. PICK st, bs : st = Below \o fs /\ bs = Below
  OBVIOUS
<1>3. /\ bs \in Seq(FrameType) /\ Len(bs) = Len(stack) - 1
      /\ \A k \in 1..(Len(stack) - 1) : bs[k] = stack[k]
  BY <1>2, StackParts
<1>4. /\ st \in Seq(FrameType) /\ Len(st) = Len(bs) + Len(fs)
      /\ \A k \in 1..(Len(bs) + Len(fs)) :
           st[k] = IF k <= Len(bs) THEN bs[k] ELSE fs[k - Len(bs)]
  BY <1>2, <1>3, ConcatProperties, ZenonT(60)
<1>5. st # << >>
  BY <1>1, <1>3, <1>4, EmptySeq
<1>6. ASSUME NEW k \in 1..Len(fs) PROVE st[Len(stack) - 1 + k] = fs[k]
  <2>1. Len(bs) + k \in 1..(Len(bs) + Len(fs)) /\ ~(Len(bs) + k <= Len(bs))
        /\ (Len(bs) + k) - Len(bs) = k
    BY <1>1, <1>3
  <2> QED BY <1>3, <1>4, <2>1
<1>7. \A k \in 1..(Len(stack) - 1) : st[k] = stack[k]
  BY <1>1, <1>3, <1>4
<1>8. Kept(Len(stack) - 1, st) /\ Len(st) = Len(stack) - 1 + Len(fs)
  BY <1>1, <1>3, <1>4, <1>5, <1>7 DEF Kept
<1> QED BY <1>2, <1>6, <1>8, Zenon

\* The top frame goes on as f, and calls are made.
LEMMA Goes ==
  ASSUME stack \in Seq(FrameType), stack # << >>, NEW f \in FrameType, NEW fs \in Seq(FrameType)
  PROVE  /\ Kept(Len(stack) - 1, Replaced(f) \o fs) /\ Len(Replaced(f) \o fs) = Len(stack) + Len(fs)
         /\ (Replaced(f) \o fs)[Len(stack)] = f
         /\ \A k \in 1..Len(fs) : (Replaced(f) \o fs)[Len(stack) + k] = fs[k]
         /\ Replaced(f) \o << >> = Replaced(f)
<1>1. Len(stack) \in Nat /\ Len(stack) > 0 /\ Len(fs) \in Nat
  BY StackParts, LenProperties
<1>2. PICK st, bs : st = bs \o fs /\ bs = Replaced(f)
  OBVIOUS
<1>3. /\ bs \in Seq(FrameType) /\ Len(bs) = Len(stack)
      /\ \A k \in 1..(Len(stack) - 1) : bs[k] = stack[k]
      /\ bs[Len(stack)] = f
  <2>1. PICK cs : cs = Below
    OBVIOUS
  <2>2. /\ cs \in Seq(FrameType) /\ Len(cs) = Len(stack) - 1
        /\ \A k \in 1..(Len(stack) - 1) : cs[k] = stack[k]
    BY <2>1, StackParts
  <2>3. bs = Append(cs, f)
    BY <1>2, <2>1 DEF Replaced
  <2> QED BY <1>1, <2>2, <2>3
<1>4. /\ st \in Seq(FrameType) /\ Len(st) = Len(bs) + Len(fs)
      /\ \A k \in 1..(Len(bs) + Len(fs)) :
           st[k] = IF k <= Len(bs) THEN bs[k] ELSE fs[k - Len(bs)]
  BY <1>2, <1>3, ConcatProperties
<1>5. st # << >>
  BY <1>1, <1>3, <1>4, EmptySeq
<1>6. ASSUME NEW k \in 1..Len(fs) PROVE st[Len(stack) + k] = fs[k]
  <2>1. Len(bs) + k \in 1..(Len(bs) + Len(fs)) /\ ~(Len(bs) + k <= Len(bs))
        /\ (Len(bs) + k) - Len(bs) = k
    BY <1>1, <1>3
  <2> QED BY <1>3, <1>4, <2>1
<1>7. (\A k \in 1..(Len(stack) - 1) : st[k] = stack[k]) /\ st[Len(stack)] = f
  BY <1>1, <1>3, <1>4
<1>8. Kept(Len(stack) - 1, st) /\ Len(st) = Len(stack) + Len(fs)
  BY <1>1, <1>3, <1>4, <1>5, <1>7 DEF Kept
<1>9. bs \o << >> = bs
  BY <1>3, ConcatEmptySeq
<1> QED BY <1>2, <1>6, <1>7, <1>8, <1>9, Zenon

-----------------------------------------------------------------------------
(* A step of the scheduler that ends nobody's damage                         *)

\* Frames n + 1 and on are new: calls, or what the top frame goes on as. Those that
\* end a sequence end one in progress, or go on ending it.
GoesOnEnding(n, k) ==
  k = Len(stack) /\ k = n + 1 /\ Top.op = "end" /\ stack'[k].slot = Top.slot
NewFrames(n) ==
  \A k \in (n + 1)..Len(stack') :
    /\ stack'[k].op # "finish" /\ (stack'[k].op = "main" <=> k = 1)
    /\ stack'[k].op = "end" =>
         seqs'[stack'[k].slot].step # COMPLETE \/ GoesOnEnding(n, k)
StillWaits(n) ==
  Top.op \in {"standup", "turnrun"} /\ n = Len(stack) - 1 =>
    IF Len(stack') = n THEN running' = 0 ELSE stack'[n + 1].op \in {"standup", "turnrun"}
Building(f) == f.op \in Callers /\ f.at = 1
StillBuilds(n) ==
  cur' # 0 =>
    /\ "held" \notin seqs'[cur'].flags
    /\ \/ /\ cur' = cur
          /\ n = Len(stack) - 1 /\ Building(Top) => Len(stack') > n /\ Building(stack'[n + 1])
       \/ Building(stack'[Len(stack')])
FlagsFollow ==
  /\ inCombat => inCombat'
  /\ \A i \in 1..Slots :
       /\ "combat" \in seqs'[i].flags =>
            inCombat' /\ (seqs'[i].step # COMPLETE \/ (CombatFlagged(i) /\ ~InProgress(i)))
       /\ Finishing(i) /\ seqs'[i].step # COMPLETE => "combat" \in seqs'[i].flags

LEMMA MainStays ==
  ASSUME Types, NEW n, Kept(n, stack'),
         \A k \in (n + 1)..Len(stack') : stack'[k].op = "main" <=> k = 1
  PROVE  OneMain'
<1>1. /\ n \in Nat /\ n <= Len(stack) /\ Len(stack) \in Nat /\ Len(stack') \in Nat
      /\ \A k \in 1..n : stack'[k] = stack[k]
  BY StackParts, LenProperties DEF Kept, Types
<1> QED BY <1>1 DEF OneMain, Types

LEMMA StackMoves ==
  ASSUME Types, FlagsKnown, FinishesWait, EndsKnown, SomeoneBuilds, OthersFree',
         cur' \in 0..Slots,
         NEW n, Kept(n, stack'), n = Len(stack) \/ n = Len(stack) - 1, Top.op # "finish",
         NewFrames(n), StillWaits(n), StillBuilds(n), FlagsFollow
  PROVE  FlagsKnown' /\ FinishesWait' /\ EndsKnown' /\ SomeoneBuilds'
<1>1. /\ Len(stack) \in Nat /\ Len(stack) > 0 /\ Top = stack[Len(stack)]
      /\ \A k \in 1..Len(stack) : stack[k] \in FrameType
  BY StackParts DEF Types
<1>2. /\ n \in Nat /\ n <= Len(stack) /\ n <= Len(stack')
      /\ Len(stack') \in Nat /\ Len(stack') > 0
      /\ \A k \in 1..n : stack'[k] = stack[k]
      /\ \A k \in 1..Len(stack') : stack'[k] \in FrameType
  BY LenProperties, ElementOfSeq, EmptySeq DEF Kept
<1>3. \A k \in 1..Len(stack) : stack[k].op = "finish" => k \in 1..n /\ k < Len(stack)
  BY <1>1, <1>2
<1>4. \A k \in 1..Len(stack') : stack'[k].op = "finish" => k \in 1..n /\ stack[k].op = "finish"
  BY <1>2 DEF NewFrames
<1>5. \A k \in 1..Len(stack) : stack[k].op = "finish" =>
        k \in 1..Len(stack') /\ stack'[k] = stack[k]
  BY <1>2, <1>3
<1>7. FlagsKnown'
  <2> SUFFICES ASSUME NEW i \in 1..Slots, "combat" \in seqs'[i].flags
               PROVE  inCombat' /\ (seqs'[i].step # COMPLETE \/ Finishing(i)')
    BY DEF FlagsKnown, CombatFlagged, InProgress
  <2>1. CombatFlagged(i) /\ ~InProgress(i) => Finishing(i)'
    BY <1>5 DEF FlagsKnown, Finishing
  <2> QED BY <2>1 DEF FlagsFollow
<1>8. FinishesWait'
  <2> SUFFICES ASSUME NEW k \in 1..Len(stack'), stack'[k].op = "finish"
               PROVE  /\ inCombat'
                      /\ seqs'[stack'[k].slot].step # COMPLETE =>
                           "combat" \in seqs'[stack'[k].slot].flags
                      /\ IF k = Len(stack') THEN running' = 0
                         ELSE stack'[k + 1].op \in {"standup", "turnrun"}
    BY DEF FinishesWait, InProgress, CombatFlagged
  <2>1. /\ k \in 1..n /\ stack[k].op = "finish" /\ k < Len(stack) /\ stack'[k] = stack[k]
        /\ k \in 1..Len(stack)
    BY <1>1, <1>2, <1>3, <1>4
  <2>2. inCombat /\ stack[k + 1].op \in {"standup", "turnrun"}
    BY <2>1, <1>1 DEF FinishesWait
  <2>3. stack[k].slot \in 1..Slots /\ Finishing(stack[k].slot)
    BY <1>1, <2>1, FrameParts DEF Finishing, Working
  <2>4. inCombat' /\ (seqs'[stack'[k].slot].step # COMPLETE =>
                        "combat" \in seqs'[stack'[k].slot].flags)
    BY <2>1, <2>2, <2>3 DEF FlagsFollow
  <2>5. CASE k < n
    BY <1>2, <2>1, <2>2, <2>4, <2>5
  <2>6. CASE k = n
    BY <1>1, <1>2, <2>1, <2>2, <2>4, <2>6 DEF StillWaits
  <2> QED BY <1>2, <2>1, <2>5, <2>6
<1>9. EndsKnown'
  <2> SUFFICES ASSUME NEW k \in 1..Len(stack'), stack'[k].op = "end",
                      seqs'[stack'[k].slot].step = COMPLETE,
                      "combat" \in seqs'[stack'[k].slot].flags
               PROVE  \E m \in (k + 1)..Len(stack') :
                        stack'[m].op = "finish" /\ stack'[m].slot = stack'[k].slot
    BY DEF EndsKnown, InProgress, CombatFlagged
  <2>1. k \in 1..Len(stack) /\ stack[k].op = "end" /\ stack'[k].slot = stack[k].slot
    <3>1. CASE k \in 1..n
      BY <1>2, <3>1
    <3>2. CASE k \in (n + 1)..Len(stack')
      <4>1. GoesOnEnding(n, k)
        BY <3>2 DEF NewFrames
      <4>2. k = Len(stack) /\ Top.op = "end" /\ stack'[k].slot = Top.slot
        BY <4>1 DEF GoesOnEnding
      <4>3. Top = stack[k] /\ k \in 1..Len(stack)
        BY <1>1, <4>2
      <4> QED BY <4>2, <4>3
    <3> QED BY <1>2, <3>1, <3>2
  <2>2. stack[k].slot \in 1..Slots
    BY <1>1, <2>1, FrameParts DEF Working
  <2>3. CombatFlagged(stack[k].slot) /\ ~InProgress(stack[k].slot)
    BY <2>1, <2>2 DEF FlagsFollow
  <2>4. PICK m \in (k + 1)..Len(stack) : stack[m].op = "finish" /\ stack[m].slot = stack[k].slot
    BY <2>1, <2>3 DEF EndsKnown
  <2>5. m \in 1..Len(stack)
    BY <1>1, <2>1, <2>4
  <2>6. stack'[m] = stack[m] /\ m \in (k + 1)..Len(stack')
    BY <1>2, <1>5, <2>1, <2>4, <2>5
  <2> QED BY <2>1, <2>4, <2>6
<1>10. SomeoneBuilds'
  <2> SUFFICES ASSUME cur' # 0
               PROVE  "held" \notin seqs'[cur'].flags /\ \E k \in 1..Len(stack') : BuiltBy(k)'
    BY DEF SomeoneBuilds
  <2>1. \A k \in (n + 1)..Len(stack') :
          stack'[k].op \in {"end", "finish"} => stack'[k].slot # cur' \/ GoesOnEnding(n, k)
    BY DEF NewFrames, OthersFree, InProgress
  <2>2. ASSUME NEW k \in 1..Len(stack'), k > n, Building(stack'[k]) PROVE BuiltBy(k)'
    BY <1>2, <2>1, <2>2 DEF BuiltBy, Building, GoesOnEnding
  <2>3. CASE Building(stack'[Len(stack')]) /\ Len(stack') > n
    BY <1>2, <2>2, <2>3 DEF StillBuilds
  <2>4. CASE Building(stack'[Len(stack')]) /\ Len(stack') = n
    <3>1. BuiltBy(n)'
      BY <1>2, <2>4 DEF BuiltBy, Building
    <3> QED BY <1>2, <2>4, <3>1 DEF StillBuilds
  <2>5. CASE ~Building(stack'[Len(stack')])
    <3>1. cur' = cur /\ "held" \notin seqs'[cur'].flags
      BY <2>5 DEF StillBuilds
    <3>2. PICK k \in 1..Len(stack) : BuiltBy(k)
      BY <3>1 DEF SomeoneBuilds
    <3>3. CASE k <= n
      <4>1. k \in 1..Len(stack') /\ stack'[k] = stack[k]
        BY <1>2, <3>3
      <4>2. ASSUME NEW m \in (k + 1)..Len(stack'), stack'[m].op \in {"end", "finish"}
            PROVE  stack'[m].slot # cur'
        <5>1. CASE m <= n
          BY <1>1, <1>2, <3>1, <3>2, <3>3, <4>2, <5>1 DEF BuiltBy
        <5>2. CASE m > n
          <6>1. CASE GoesOnEnding(n, m)
            <7>1. m = Len(stack) /\ m = n + 1 /\ Top.op = "end" /\ stack'[m].slot = Top.slot
              BY <6>1 DEF GoesOnEnding
            <7>3. Top = stack[m]
              BY <1>1, <7>1
            <7>4. m \in (k + 1)..Len(stack)
              BY <1>1, <1>2, <3>3, <7>1
            <7>2. stack[m].slot # cur
              <8>1. stack[m].op \in {"end", "finish"}
                BY <7>1, <7>3
              <8> QED BY <3>2, <7>4, <8>1 DEF BuiltBy
            <7> QED BY <3>1, <7>1, <7>2, <7>3
          <6> QED BY <1>2, <2>1, <4>2, <5>2, <6>1
        <5> QED BY <1>2, <5>1, <5>2
      <4>3. BuiltBy(k)'
        BY <4>1, <4>2, <3>2 DEF BuiltBy
      <4> QED BY <3>1, <4>1, <4>3
    <3>4. CASE k > n
      <4>1. k = Len(stack) /\ n = Len(stack) - 1 /\ Building(Top)
        BY <1>1, <1>2, <3>2, <3>4 DEF BuiltBy, Building
      <4>2. Len(stack') > n /\ Building(stack'[n + 1])
        BY <2>5, <4>1 DEF StillBuilds
      <4>3. n + 1 \in 1..Len(stack') /\ n + 1 > n
        BY <1>2, <4>2
      <4> QED BY <2>2, <3>1, <4>2, <4>3
    <3> QED BY <1>1, <1>2, <3>3, <3>4
  <2> QED BY <1>2, <2>3, <2>4, <2>5
<1> QED BY <1>7, <1>8, <1>9, <1>10

-----------------------------------------------------------------------------
(* A step that neither begins nor ends a sequence                            *)

OwnedIn(descs, o) == \E k \in 1..Len(descs) : descs[k].owner = o /\ ~IsCallback(descs[k])

LEMMA OwnedIs ==
  ASSUME NEW i, NEW o
  PROVE  /\ Owns(i, o) <=> OwnedIn(seqs[i].descs, o)
         /\ Registers(o) <=> OwnedIn(building, o)
BY DEF Owns, Registers, OwnedIn

\* What may become of a sequence: it is in progress as before, counts as before, is not
\* held back and animates nobody new.
MildFor(i, q) ==
  /\ q \in SequenceType
  /\ q.step = COMPLETE <=> seqs[i].step = COMPLETE
  /\ "combat" \in q.flags => "combat" \in seqs[i].flags
  /\ seqs[i].step # COMPLETE /\ "combat" \in seqs[i].flags => "combat" \in q.flags
  /\ "held" \in q.flags => "held" \in seqs[i].flags
  /\ \A o \in Objects : OwnedIn(q.descs, o) => OwnedIn(seqs[i].descs, o)
Mild(qs) == qs \in [1..Slots -> SequenceType] /\ \A i \in 1..Slots : MildFor(i, qs[i])

LEMMA MildSame == ASSUME Types PROVE Mild(seqs)
BY DEF Mild, MildFor, Types

LEMMA MildOne ==
  ASSUME Types, NEW i \in 1..Slots, NEW q, MildFor(i, q)
  PROVE  Mild([seqs EXCEPT ![i] = q])
BY DEF Mild, MildFor, Types

\* The sequences that count.
Counted == {i \in 1..Slots : InProgress(i) /\ CombatFlagged(i)}

LEMMA CountedSame ==
  ASSUME CombatBalanced, running' = running,
         \A i \in 1..Slots :
           (seqs'[i].step # COMPLETE /\ "combat" \in seqs'[i].flags)
             <=> (InProgress(i) /\ CombatFlagged(i))
  PROVE  CombatBalanced'
<1>1. {i \in 1..Slots : seqs'[i].step # COMPLETE /\ "combat" \in seqs'[i].flags} =
      {i \in 1..Slots : InProgress(i) /\ CombatFlagged(i)}
  OBVIOUS
<1> QED BY <1>1 DEF CombatBalanced, InProgress, CombatFlagged

LEMMA MildFlags ==
  ASSUME Types, FlagsKnown, FinishesWait, HeldFree, CombatBalanced, Mild(seqs'),
         running' = running, inCombat' = inCombat
  PROVE  FlagsFollow /\ HeldFree' /\ CombatBalanced'
<1>1. \A i \in 1..Slots :
        /\ seqs'[i].step = COMPLETE <=> seqs[i].step = COMPLETE
        /\ "combat" \in seqs'[i].flags => "combat" \in seqs[i].flags
        /\ seqs[i].step # COMPLETE /\ "combat" \in seqs[i].flags => "combat" \in seqs'[i].flags
        /\ "held" \in seqs'[i].flags => "held" \in seqs[i].flags
  BY DEF Mild, MildFor
<1>2. ASSUME NEW i \in 1..Slots, Finishing(i), seqs[i].step # COMPLETE
      PROVE  "combat" \in seqs[i].flags
  BY <1>2 DEF Finishing, FinishesWait, InProgress, CombatFlagged
<1>3. FlagsFollow
  BY <1>1, <1>2 DEF FlagsFollow, FlagsKnown, InProgress, CombatFlagged
<1>4. HeldFree'
  BY <1>1 DEF HeldFree, InProgress
<1>5. CombatBalanced'
  BY <1>1, CountedSame DEF InProgress, CombatFlagged
<1> QED BY <1>3, <1>4, <1>5

LEMMA MildOwners ==
  ASSUME Types, Exclusive, Mild(seqs')
  PROVE  /\ OwnersExclusive'
         /\ (cur' # 0 => cur' = cur /\ \A o \in Objects : Registers(o)' => Registers(o)) =>
              OthersFree'
<1>1. \A i \in 1..Slots :
        /\ seqs'[i].step = COMPLETE <=> seqs[i].step = COMPLETE
        /\ \A o \in Objects : Owns(i, o)' => Owns(i, o)
  BY DEF Mild, MildFor, Owns, OwnedIn
<1>2. OwnersExclusive'
  BY <1>1 DEF OwnersExclusive, Exclusive, InProgress
<1>3. ASSUME cur' # 0 => cur' = cur /\ \A o \in Objects : Registers(o)' => Registers(o)
      PROVE  OthersFree'
  <2> SUFFICES ASSUME cur' # 0
               PROVE  /\ seqs'[cur'].step = COMPLETE
                      /\ \A i \in 1..Slots : seqs'[i].step # COMPLETE =>
                           ~\E o \in Objects : Registers(o)' /\ Owns(i, o)'
    BY DEF OthersFree, InProgress
  <2>1. cur' = cur /\ cur \in 1..Slots /\ seqs[cur].step = COMPLETE
    BY <1>3 DEF Exclusive, OthersFree, InProgress, Types
  <2>2. ASSUME NEW i \in 1..Slots, seqs'[i].step # COMPLETE, NEW o \in Objects,
               Registers(o)', Owns(i, o)'
        PROVE  FALSE
    BY <1>1, <1>3, <2>1, <2>2 DEF Exclusive, OthersFree, InProgress
  <2> QED BY <1>1, <2>1, <2>2
<1> QED BY <1>2, <1>3

-----------------------------------------------------------------------------
(* What every step keeps                                                     *)

NoDamageScripts == "damage" \notin Scripts
Keeps == Types' /\ Exclusive' /\ (NoDamageScripts /\ Turns => Turns')

\* What the step leaves typed besides the stack and the sequences.
RestTyped ==
  /\ cur' \in 0..Slots /\ building' \in Seq(Description) /\ sads' \in Seq(SadType)
  /\ inBk' \in BOOLEAN /\ inCombat' \in BOOLEAN

LEMMA StepKeeps ==
  ASSUME Types, Exclusive', RestTyped, seqs' \in [1..Slots -> SequenceType],
         NEW n, Kept(n, stack'), n = Len(stack) \/ n = Len(stack) - 1, Top.op # "finish",
         NewFrames(n),
         Turns => StillWaits(n) /\ StillBuilds(n) /\ FlagsFollow /\ HeldFree' /\ CombatBalanced'
  PROVE  Keeps
<1>1. OneMain'
  BY MainStays DEF NewFrames
<1>2. Types'
  BY <1>1 DEF Types, RestTyped, Kept
<1>3. Turns => Turns'
  BY StackMoves DEF Turns, Exclusive, RestTyped
<1> QED BY <1>2, <1>3 DEF Keeps

\* Calls that a step makes: those that end a sequence end one in progress.
Fresh(fs) ==
  /\ fs \in Seq(FrameType)
  /\ \A k \in 1..Len(fs) :
       /\ fs[k].op \notin {"main", "finish"}
       /\ fs[k].op = "end" => seqs'[fs[k].slot].step # COMPLETE

LEMMA CallsNew ==
  ASSUME Types, NEW fs, Fresh(fs), stack' = Calling(fs)
  PROVE  /\ Kept(Len(stack), stack') /\ NewFrames(Len(stack)) /\ StillWaits(Len(stack))
         /\ cur' = cur /\ (cur' # 0 => "held" \notin seqs'[cur'].flags) => StillBuilds(Len(stack))
<1>1. /\ Kept(Len(stack), stack') /\ Len(stack') = Len(stack) + Len(fs)
      /\ \A k \in 1..Len(fs) : stack'[Len(stack) + k] = fs[k]
      /\ Len(stack) \in Nat /\ Len(stack) > 0 /\ Len(fs) \in Nat
  BY Calls, StackParts, LenProperties DEF Types, Fresh
<1>2. ASSUME NEW k \in (Len(stack) + 1)..Len(stack')
      PROVE  k - Len(stack) \in 1..Len(fs) /\ stack'[k] = fs[k - Len(stack)] /\ k # 1
  <2>1. k - Len(stack) \in 1..Len(fs) /\ Len(stack) + (k - Len(stack)) = k /\ k # 1
    BY <1>1
  <2> QED BY <1>1, <2>1
<1>3. NewFrames(Len(stack))
  BY <1>2 DEF NewFrames, Fresh
<1> QED BY <1>1, <1>3 DEF StillWaits, StillBuilds

LEMMA ReturnsNew ==
  ASSUME Types, NEW fs, Fresh(fs), stack' = Below \o fs, Top.op \notin {"main", "standup"},
         Top.op = "turnrun" => Len(fs) = 0
  PROVE  /\ Kept(Len(stack) - 1, stack') /\ NewFrames(Len(stack) - 1)
         /\ (Top.op = "turnrun" => running' = 0) => StillWaits(Len(stack) - 1)
         /\ cur' = cur /\ ~Building(Top) /\ (cur' # 0 => "held" \notin seqs'[cur'].flags)
              => StillBuilds(Len(stack) - 1)
<1>0. /\ Len(stack) \in Nat /\ Len(stack) > 0 /\ Top = stack[Len(stack)]
      /\ fs \in Seq(FrameType) /\ Len(fs) \in Nat
  BY StackParts, LenProperties DEF Types, Fresh
<1>1. Len(stack) > 1
  BY <1>0 DEF Types, OneMain
<1>2. /\ Kept(Len(stack) - 1, stack') /\ Len(stack') = Len(stack) - 1 + Len(fs)
      /\ \A k \in 1..Len(fs) : stack'[Len(stack) - 1 + k] = fs[k]
  BY <1>0, <1>1, Returned DEF Types
<1>3. ASSUME NEW k \in ((Len(stack) - 1) + 1)..Len(stack')
      PROVE  /\ k - (Len(stack) - 1) \in 1..Len(fs) /\ k # 1
             /\ stack'[k] = fs[k - (Len(stack) - 1)]
  <2>1. /\ k - (Len(stack) - 1) \in 1..Len(fs) /\ k # 1
        /\ Len(stack) - 1 + (k - (Len(stack) - 1)) = k
    BY <1>0, <1>1, <1>2
  <2> QED BY <1>2, <2>1
<1>4. NewFrames(Len(stack) - 1)
  <2> SUFFICES ASSUME NEW k \in ((Len(stack) - 1) + 1)..Len(stack')
               PROVE  /\ stack'[k].op # "finish" /\ (stack'[k].op = "main" <=> k = 1)
                      /\ stack'[k].op = "end" => \/ seqs'[stack'[k].slot].step # COMPLETE
                                                 \/ GoesOnEnding(Len(stack) - 1, k)
    BY DEF NewFrames
  <2>1. PICK j \in 1..Len(fs) : stack'[k] = fs[j] /\ k # 1
    BY <1>3
  <2> QED BY <2>1 DEF Fresh
<1>5. (Top.op = "turnrun" => running' = 0) => StillWaits(Len(stack) - 1)
  BY <1>0, <1>2 DEF StillWaits
<1> QED BY <1>2, <1>4, <1>5 DEF StillBuilds

LEMMA GoesNew ==
  ASSUME Types, NEW f \in FrameType, NEW fs, Fresh(fs), stack' = Replaced(f) \o fs,
         f.op = "main" <=> Top.op = "main", f.op # "finish",
         f.op = "end" => seqs'[f.slot].step # COMPLETE \/ (Top.op = "end" /\ f.slot = Top.slot),
         Top.op \in {"standup", "turnrun"} => f.op \in {"standup", "turnrun"}
  PROVE  /\ Kept(Len(stack) - 1, stack') /\ NewFrames(Len(stack) - 1) /\ StillWaits(Len(stack) - 1)
         /\ cur' = cur /\ (Building(Top) => Building(f)) /\ (cur' # 0 => "held" \notin seqs'[cur'].flags)
              => StillBuilds(Len(stack) - 1)
         /\ Len(fs) = 0 => Len(stack') = Len(stack) /\ stack'[Len(stack')] = f
<1>0. /\ Len(stack) \in Nat /\ Len(stack) > 0 /\ Top = stack[Len(stack)]
      /\ fs \in Seq(FrameType) /\ Len(fs) \in Nat
  BY StackParts, LenProperties DEF Types, Fresh
<1>1. /\ Kept(Len(stack) - 1, stack') /\ Len(stack') = Len(stack) + Len(fs)
      /\ stack'[Len(stack)] = f
      /\ \A k \in 1..Len(fs) : stack'[Len(stack) + k] = fs[k]
  <2>1. stack \in Seq(FrameType) /\ stack # << >> /\ fs \in Seq(FrameType)
    BY <1>0 DEF Types
  <2>2. /\ Kept(Len(stack) - 1, Replaced(f) \o fs)
        /\ Len(Replaced(f) \o fs) = Len(stack) + Len(fs)
        /\ (Replaced(f) \o fs)[Len(stack)] = f
        /\ \A k \in 1..Len(fs) : (Replaced(f) \o fs)[Len(stack) + k] = fs[k]
    BY <2>1, Goes, ZenonT(60)
  <2> QED BY <2>2, Zenon
<1>2. ASSUME NEW k \in Int, Len(stack) < k, k <= Len(stack')
      PROVE  k - Len(stack) \in 1..Len(fs) /\ stack'[k] = fs[k - Len(stack)] /\ k # 1
  <2>1. k - Len(stack) \in 1..Len(fs) /\ Len(stack) + (k - Len(stack)) = k /\ k # 1
    BY <1>0, <1>1, <1>2
  <2> QED BY <1>1, <2>1
<1>3. f.op = "main" <=> Len(stack) = 1
  <2>1. Top.op = "main" <=> Len(stack) = 1
    <3>1. Len(stack) \in 1..Len(stack)
      BY <1>0
    <3> QED BY <1>0, <3>1 DEF Types, OneMain
  <2> QED BY <2>1
<1>4. NewFrames(Len(stack) - 1)
  <2> SUFFICES ASSUME NEW k \in ((Len(stack) - 1) + 1)..Len(stack')
               PROVE  /\ stack'[k].op # "finish" /\ (stack'[k].op = "main" <=> k = 1)
                      /\ stack'[k].op = "end" => \/ seqs'[stack'[k].slot].step # COMPLETE
                                                 \/ GoesOnEnding(Len(stack) - 1, k)
    BY DEF NewFrames
  <2>1. k \in Int /\ k <= Len(stack') /\ (k = Len(stack) \/ Len(stack) < k)
    BY <1>0, <1>1
  <2>2. CASE k = Len(stack)
    BY <1>0, <1>1, <1>3, <2>2 DEF GoesOnEnding
  <2>3. CASE Len(stack) < k
    BY <1>2, <2>1, <2>3, ZenonT(60) DEF Fresh
  <2> QED BY <2>1, <2>2, <2>3
<1>5. StillWaits(Len(stack) - 1)
  BY <1>0, <1>1 DEF StillWaits
<1>6. (Building(Top) => Building(f)) => (Building(Top) =>
        Len(stack') > Len(stack) - 1 /\ Building(stack'[(Len(stack) - 1) + 1]))
  BY <1>0, <1>1
<1> QED BY <1>0, <1>1, <1>4, <1>5, <1>6 DEF StillBuilds

\* A step that neither begins nor ends a sequence, nor builds one.
Quiet ==
  /\ Mild(seqs') /\ cur' = cur /\ building' = building /\ inCombat' = inCombat
  /\ running' = running /\ sads' \in Seq(SadType) /\ inBk' \in BOOLEAN

LEMMA QuietKeeps ==
  ASSUME Types, Exclusive, Quiet
  PROVE  /\ RestTyped /\ Exclusive' /\ seqs' \in [1..Slots -> SequenceType]
         /\ Turns => /\ FlagsFollow /\ HeldFree' /\ CombatBalanced'
                     /\ cur' # 0 => "held" \notin seqs'[cur'].flags
<1>1. RestTyped /\ seqs' \in [1..Slots -> SequenceType]
  BY DEF RestTyped, Types, Quiet, Mild
<1>2. Exclusive'
  <2>1. cur' # 0 => cur' = cur /\ \A o \in Objects : Registers(o)' => Registers(o)
    BY DEF Quiet, Registers
  <2> QED BY <2>1, MildOwners DEF Quiet, Exclusive
<1>3. Turns => FlagsFollow /\ HeldFree' /\ CombatBalanced'
  BY MildFlags DEF Turns, Quiet
<1>4. Turns => (cur' # 0 => "held" \notin seqs'[cur'].flags)
  BY DEF Turns, SomeoneBuilds, Quiet, Mild, MildFor, Types
<1> QED BY <1>1, <1>2, <1>3, <1>4

LEMMA QuietCalls ==
  ASSUME Types, Exclusive, Quiet, NEW fs, Fresh(fs), stack' = Calling(fs), Top.op # "finish"
  PROVE  Keeps
<1> DEFINE n == Len(stack)
<1>1. /\ Kept(n, stack') /\ NewFrames(n) /\ StillWaits(n)
      /\ cur' = cur /\ (cur' # 0 => "held" \notin seqs'[cur'].flags) => StillBuilds(n)
  BY CallsNew
<1> HIDE DEF n
<1>2. Turns => StillBuilds(n)
  BY <1>1, QuietKeeps DEF Quiet
<1> QED BY <1>1, <1>2, QuietKeeps, StepKeeps DEF n

LEMMA QuietReturns ==
  ASSUME Types, Exclusive, Quiet, NEW fs, Fresh(fs), stack' = Below \o fs,
         Top.op \notin {"main", "standup", "finish"}, ~Building(Top),
         Top.op = "turnrun" => Len(fs) = 0, Top.op = "turnrun" /\ Turns => running' = 0
  PROVE  Keeps
<1> DEFINE n == Len(stack) - 1
<1>1. /\ Kept(n, stack') /\ NewFrames(n)
      /\ (Top.op = "turnrun" => running' = 0) => StillWaits(n)
      /\ cur' = cur /\ ~Building(Top) /\ (cur' # 0 => "held" \notin seqs'[cur'].flags)
           => StillBuilds(n)
  BY ReturnsNew
<1> HIDE DEF n
<1>2. Turns => StillBuilds(n) /\ StillWaits(n)
  BY <1>1, QuietKeeps DEF Quiet
<1> QED BY <1>1, <1>2, QuietKeeps, StepKeeps DEF n

LEMMA QuietGoes ==
  ASSUME Types, Exclusive, Quiet, NEW f \in FrameType, NEW fs, Fresh(fs),
         stack' = Replaced(f) \o fs, Top.op # "finish",
         f.op = "main" <=> Top.op = "main", f.op # "finish",
         f.op = "end" => seqs'[f.slot].step # COMPLETE \/ (Top.op = "end" /\ f.slot = Top.slot),
         Top.op \in {"standup", "turnrun"} => f.op \in {"standup", "turnrun"},
         Building(Top) => Building(f)
  PROVE  Keeps
<1> DEFINE n == Len(stack) - 1
<1>1. /\ Kept(n, stack') /\ NewFrames(n) /\ StillWaits(n)
      /\ cur' = cur /\ (Building(Top) => Building(f)) /\ (cur' # 0 => "held" \notin seqs'[cur'].flags)
           => StillBuilds(n)
  BY GoesNew
<1> HIDE DEF n
<1>2. Turns => StillBuilds(n)
  BY <1>1, QuietKeeps DEF Quiet
<1> QED BY <1>1, <1>2, QuietKeeps, StepKeeps DEF n

-----------------------------------------------------------------------------
(* What becomes of the sequences                                             *)

LEMMA SequenceParts ==
  ASSUME NEW q \in SequenceType
  PROVE  /\ q.step \in Nat \cup {COMPLETE} /\ q.idx \in Int /\ q.descs \in Seq(Description)
         /\ q.flags \in SUBSET Flags /\ Len(q.descs) \in Nat
         /\ \A k \in 1..Len(q.descs) : q.descs[k] \in Description
         /\ \A n : n \in Nat => n # COMPLETE
<1>1. q.descs \in Seq(Description)
  BY DEF SequenceType
<1> QED BY <1>1, LenProperties, ElementOfSeq DEF SequenceType, COMPLETE

LEMMA DescriptionParts ==
  ASSUME NEW d \in Description
  PROVE  /\ d \in Desc /\ d.kind \in Kinds /\ d.owner \in Objects \cup {NIL} /\ d.delay \in Int
         /\ d.forced \in BOOLEAN /\ d.target \in 0..Slots
         /\ d.kind = "ping" => d.target \in 1..Slots
BY DEF Description, Desc

LEMMA DelayChanged ==
  ASSUME NEW d \in Description, NEW n \in Int
  PROVE  /\ [d EXCEPT !.delay = n] \in Description
         /\ [d EXCEPT !.delay = n].owner = d.owner /\ [d EXCEPT !.delay = n].kind = d.kind
<1>1. d \in Desc /\ (d.kind = "ping" => d.target \in 1..Slots)
  BY DEF Description
<1>2. PICK e : e = [d EXCEPT !.delay = n]
  OBVIOUS
<1>3. e \in Desc /\ e.owner = d.owner /\ e.kind = d.kind /\ e.target = d.target
  BY <1>1, <1>2 DEF Desc
<1> QED BY <1>1, <1>2, <1>3 DEF Description

\* The loop counters and the flags that say nothing of combat or of being held.
LEMMA Counters ==
  ASSUME NEW i, NEW q, MildFor(i, q)
  PROVE  /\ MildFor(i, [q EXCEPT !.idx = @ + 1])
         /\ q.step # COMPLETE => MildFor(i, [q EXCEPT !.step = @ + 1])
         /\ MildFor(i, [q EXCEPT !.flags = @ \ {"waiting"}])
         /\ MildFor(i, [q EXCEPT !.flags = @ \ {"accumulating", "waiting"}])
<1> DEFINE onward == [q EXCEPT !.idx = @ + 1]
           stepped == [q EXCEPT !.step = @ + 1]
           resumed == [q EXCEPT !.flags = @ \ {"waiting"}]
           cleaned == [q EXCEPT !.flags = @ \ {"accumulating", "waiting"}]
<1>1. q \in SequenceType /\ q.idx \in Int /\ q.step \in Nat \cup {COMPLETE} /\ q.flags \in SUBSET Flags
  BY SequenceParts DEF MildFor
<1>2. /\ onward \in SequenceType /\ onward.step = q.step /\ onward.flags = q.flags
      /\ onward.descs = q.descs
  BY <1>1 DEF SequenceType
<1>3. /\ q.step # COMPLETE => stepped \in SequenceType /\ stepped.step # COMPLETE
      /\ stepped.flags = q.flags /\ stepped.descs = q.descs
  BY <1>1 DEF SequenceType, COMPLETE
<1>4. /\ resumed \in SequenceType /\ resumed.step = q.step /\ resumed.flags = q.flags \ {"waiting"}
      /\ resumed.descs = q.descs
  BY <1>1 DEF SequenceType
<1>5. /\ cleaned \in SequenceType /\ cleaned.step = q.step
      /\ cleaned.flags = q.flags \ {"accumulating", "waiting"} /\ cleaned.descs = q.descs
  BY <1>1 DEF SequenceType
<1> HIDE DEF onward, stepped, resumed, cleaned
<1>6. MildFor(i, onward)
  BY <1>2, Zenon DEF MildFor
<1>7. q.step # COMPLETE => MildFor(i, stepped)
  BY <1>3 DEF MildFor
<1>8. MildFor(i, resumed)
  BY <1>4 DEF MildFor
<1>9. MildFor(i, cleaned)
  BY <1>5 DEF MildFor
<1> QED BY <1>6, <1>7, <1>8, <1>9 DEF onward, stepped, resumed, cleaned

LEMMA MildAgain ==
  ASSUME NEW qs, Mild(qs), NEW i \in 1..Slots, NEW q, MildFor(i, q)
  PROVE  Mild([qs EXCEPT ![i] = q])
BY DEF Mild, MildFor

LEMMA MildIs ==
  ASSUME Types, NEW i \in 1..Slots
  PROVE  MildFor(i, seqs[i]) /\ seqs[i] \in SequenceType /\ (InProgress(i) <=> seqs[i].step # COMPLETE)
BY MildSame DEF Mild, InProgress

LEMMA ContinuedMild ==
  ASSUME Types, NEW i \in 1..Slots
  PROVE  Mild(Continued(i))
<1>1. MildFor(i, [seqs[i] EXCEPT !.idx = @ + 1])
  BY MildIs, Counters
<1> QED BY <1>1, MildOne DEF Continued

\* The calls _anim_set_continue makes are of the sequence itself.
LEMMA ContinueCallsAre ==
  ASSUME NEW i \in 1..Slots, NEW more \in BOOLEAN
  PROVE  /\ ContinueCalls(i, more) \in Seq(FrameType)
         /\ \A k \in 1..Len(ContinueCalls(i, more)) :
              /\ ContinueCalls(i, more)[k].op \in {"end", "run"}
              /\ ContinueCalls(i, more)[k].slot = i
<1>1. /\ Frame("end", i, 0) \in FrameType /\ Frame("end", i, 0).op = "end"
      /\ Frame("end", i, 0).slot = i
      /\ Frame("run", i, 0) \in FrameType /\ Frame("run", i, 0).op = "run"
      /\ Frame("run", i, 0).slot = i
  <2>1. i \in Nat
    OBVIOUS
  <2> QED BY <2>1, FrameIs DEF Ops, Working, Walking
<1>2. PICK e, r : e = Frame("end", i, 0) /\ r = Frame("run", i, 0)
  OBVIOUS
<1>3. <<e>> \in Seq(FrameType) /\ <<r>> \in Seq(FrameType) /\ << >> \in Seq(FrameType)
  BY <1>1, <1>2, EmptySeq
<1>4. /\ Len(<<e>>) = 1 /\ Len(<<r>>) = 1 /\ Len(<< >>) = 0
      /\ <<e>>[1] = e /\ <<r>>[1] = r
  OBVIOUS
<1>5. PICK cs \in {<<e>>, <<r>>, << >>} : cs = ContinueCalls(i, more)
  BY <1>2, Zenon DEF ContinueCalls
<1>6. /\ cs \in Seq(FrameType)
      /\ \A k \in 1..Len(cs) : cs[k].op \in {"end", "run"} /\ cs[k].slot = i
  <2>1. CASE cs = <<e>>
    BY <1>1, <1>2, <1>3, <1>4, <2>1
  <2>2. CASE cs = <<r>>
    BY <1>1, <1>2, <1>3, <1>4, <2>2
  <2>3. CASE cs = << >>
    BY <1>3, <1>4, <2>3
  <2> QED BY <1>5, <2>1, <2>2, <2>3
<1> QED BY <1>5, <1>6

LEMMA FreshOnes ==
  /\ Fresh(<< >>) /\ Len(<< >>) = 0
  /\ \A f \in FrameType : f.op \notin {"main", "finish"}
       /\ (f.op = "end" => seqs'[f.slot].step # COMPLETE) => Fresh(<<f>>)
  /\ \A fs, gs : Fresh(fs) /\ Fresh(gs) => Fresh(fs \o gs)
<1>1. Fresh(<< >>) /\ Len(<< >>) = 0
  BY EmptySeq DEF Fresh
<1>2. ASSUME NEW f \in FrameType, f.op \notin {"main", "finish"},
             f.op = "end" => seqs'[f.slot].step # COMPLETE
      PROVE  Fresh(<<f>>)
  <2>1. <<f>> \in Seq(FrameType) /\ Len(<<f>>) = 1 /\ <<f>>[1] = f
    OBVIOUS
  <2> QED BY <1>2, <2>1 DEF Fresh
<1>3. ASSUME NEW fs, NEW gs, Fresh(fs), Fresh(gs) PROVE Fresh(fs \o gs)
  <2>1. fs \in Seq(FrameType) /\ gs \in Seq(FrameType) /\ Len(fs) \in Nat /\ Len(gs) \in Nat
    BY <1>3, LenProperties DEF Fresh
  <2>2. PICK hs : hs = fs \o gs
    OBVIOUS
  <2>3. /\ hs \in Seq(FrameType) /\ Len(hs) = Len(fs) + Len(gs)
        /\ \A k \in 1..(Len(fs) + Len(gs)) :
             hs[k] = IF k <= Len(fs) THEN fs[k] ELSE gs[k - Len(fs)]
    BY <2>1, <2>2, ConcatProperties
  <2>4. ASSUME NEW k \in 1..Len(hs)
        PROVE  /\ hs[k].op \notin {"main", "finish"}
               /\ hs[k].op = "end" => seqs'[hs[k].slot].step # COMPLETE
    <3>1. CASE k <= Len(fs)
      <4>1. k \in 1..Len(fs) /\ hs[k] = fs[k]
        BY <2>1, <2>3, <3>1
      <4> QED BY <1>3, <4>1 DEF Fresh
    <3>2. CASE ~(k <= Len(fs))
      <4>1. k - Len(fs) \in 1..Len(gs) /\ hs[k] = gs[k - Len(fs)]
        BY <2>1, <2>3, <3>2
      <4> QED BY <1>3, <4>1 DEF Fresh
    <3> QED BY <3>1, <3>2
  <2> QED BY <2>2, <2>3, <2>4 DEF Fresh
<1> QED BY <1>1, <1>2, <1>3

LEMMA ContinueFresh ==
  ASSUME NEW i \in 1..Slots, NEW more \in BOOLEAN, seqs'[i].step # COMPLETE
  PROVE  Fresh(ContinueCalls(i, more))
BY ContinueCallsAre DEF Fresh

LEMMA EndFresh ==
  ASSUME NEW i \in 1..Slots, seqs'[i].step # COMPLETE
  PROVE  /\ Fresh(<<Frame("end", i, 0)>>) /\ Frame("end", i, 0) \in FrameType
         /\ Frame("end", i, 0).op = "end" /\ Frame("end", i, 0).slot = i
<1>1. i \in Nat
  OBVIOUS
<1>2. PICK f : f = Frame("end", i, 0)
  OBVIOUS
<1>3. f \in FrameType /\ f.op = "end" /\ f.slot = i
  BY <1>1, <1>2, FrameIs DEF Ops, Working, Walking
<1> QED BY <1>2, <1>3, FreshOnes

LEMMA ScriptFresh ==
  /\ Fresh(<<Frame("script", 0, 0)>>)
  /\ \A i \in 1..Slots : Fresh(<<Frame("callback", i, 0)>>)
<1>1. PICK f : f = Frame("script", 0, 0)
  OBVIOUS
<1>2. f \in FrameType /\ f.op = "script"
  BY <1>1, CallerFrameIs
<1>3. Fresh(<<f>>)
  BY <1>2, FreshOnes
<1>4. ASSUME NEW i \in 1..Slots PROVE Fresh(<<Frame("callback", i, 0)>>)
  <2>1. PICK g : g = Frame("callback", i, 0)
    OBVIOUS
  <2>2. g \in FrameType /\ g.op = "callback"
    BY <2>1, CallerFrameIs
  <2> QED BY <2>1, <2>2, FreshOnes
<1> QED BY <1>1, <1>3, <1>4

\* The sequence the top frame works on.
LEMMA TopSlot ==
  ASSUME Types, Top.op \in Working
  PROVE  Top.slot \in 1..Slots /\ Top \in FrameType
BY StackParts, FrameParts DEF Types

-----------------------------------------------------------------------------
(* Running a sequence                                                        *)

\* The description that is run is one of the sequence's.
LEMMA RunsOne ==
  ASSUME Types, NEW kinds, Runs(kinds)
  PROVE  /\ Top.op = "run" /\ Top.slot \in 1..Slots /\ InProgress(Top.slot)
         /\ seqs[Top.slot].step \in Nat
         /\ S.step + 1 \in 1..Len(S.descs) /\ D \in Description /\ D.kind \in kinds
<1>1. Top.op = "run" /\ Top.slot \in 1..Slots /\ InProgress(Top.slot)
  BY TopSlot DEF Runs, Running, TopIs, Working
<1>2. S = seqs[Top.slot] /\ S \in SequenceType /\ S.step \in Nat
  BY <1>1, MildIs, SequenceParts DEF S, InProgress
<1>3. S.step + 1 \in 1..Len(S.descs)
  BY <1>2, SequenceParts DEF Runs, AtRest
<1> QED BY <1>1, <1>2, <1>3, SequenceParts DEF D, Runs

LEMMA SteppedMild ==
  ASSUME Types, Top.slot \in 1..Slots, InProgress(Top.slot)
  PROVE  /\ Mild(Stepped) /\ Stepped[Top.slot].step # COMPLETE
         /\ Mild(SteppedOn) /\ SteppedOn[Top.slot].step # COMPLETE
<1>1. PICK i \in 1..Slots : i = Top.slot
  OBVIOUS
<1>2. PICK q : q = [seqs[i] EXCEPT !.step = @ + 1]
  OBVIOUS
<1>3. MildFor(i, q)
  BY <1>1, <1>2, MildIs, Counters
<1>4. MildFor(i, [q EXCEPT !.idx = @ + 1])
  BY <1>3, Counters
<1>5. Stepped = [seqs EXCEPT ![i] = q]
  BY <1>1, <1>2 DEF Stepped
<1>6. SteppedOn = [seqs EXCEPT ![i] = [q EXCEPT !.idx = @ + 1]]
  BY <1>1, <1>2 DEF SteppedOn, Types
<1>7. Mild(Stepped) /\ Mild(SteppedOn)
  BY <1>3, <1>4, <1>5, <1>6, MildOne
<1> QED BY <1>1, <1>7 DEF Mild, MildFor, InProgress

LEMMA NewSadIs ==
  ASSUME NEW d \in Description, NEW i \in 1..Slots, D = d, Top.slot = i,
         NEW step \in {"new", "init", "going", "complete"}
  PROVE  NewSad(step) \in SadType
BY DescriptionParts DEF NewSad, SadType

LEMMA SadAdded ==
  ASSUME Types, NEW s \in SadType
  PROVE  Append(sads, s) \in Seq(SadType)
BY DEF Types

LEMMA RunReturnsKeeps == ASSUME Types, Exclusive, RunReturns PROVE Keeps
<1>1. Top.op = "run" /\ Top.slot \in 1..Slots
  BY TopSlot DEF RunReturns, Running, TopIs, Working
<1>2. Mild(seqs')
  <2>1. CASE UNCHANGED seqs
    BY <2>1, MildSame
  <2>2. CASE /\ InProgress(Top.slot) /\ S.step < Len(S.descs)
             /\ seqs' = [seqs EXCEPT ![Top.slot].descs[S.step + 1].delay = @ - 1]
    <3>0. PICK i \in 1..Slots : i = Top.slot
      BY <1>1
    <3>1. PICK q, k : i = Top.slot /\ q = seqs[i] /\ k = q.step + 1
      BY <3>0
    <3>2. q \in SequenceType /\ q.descs \in Seq(Description) /\ k \in 1..Len(q.descs)
          /\ q.descs[k] \in Description
      BY <2>2, <3>1, MildIs, SequenceParts, SMTT(30) DEF InProgress, S
    <3>3. PICK d : d = [q.descs[k] EXCEPT !.delay = @ - 1]
      OBVIOUS
    <3>4. /\ d \in Description /\ d.owner = q.descs[k].owner /\ d.kind = q.descs[k].kind
      <4>1. q.descs[k].delay - 1 \in Int
        BY <3>2, DescriptionParts
      <4> QED BY <3>2, <3>3, <4>1, DelayChanged
    <3>5. PICK ds : ds = [q.descs EXCEPT ![k] = d]
      OBVIOUS
    <3>6. /\ ds \in Seq(Description) /\ Len(ds) = Len(q.descs)
          /\ \A j \in 1..Len(q.descs) : ds[j] = IF j = k THEN d ELSE q.descs[j]
      BY <3>2, <3>4, <3>5, ExceptSeq
    <3>7. \A o \in Objects : OwnedIn(ds, o) => OwnedIn(q.descs, o)
      BY <3>4, <3>6 DEF OwnedIn, IsCallback
    <3>8. PICK r : r = [q EXCEPT !.descs = ds]
      OBVIOUS
    <3>9. r \in SequenceType /\ r.step = q.step /\ r.flags = q.flags /\ r.descs = ds
      BY <3>2, <3>6, <3>8 DEF SequenceType
    <3>10. MildFor(i, r)
      <4>1. \A o \in Objects : OwnedIn(r.descs, o) => OwnedIn(seqs[i].descs, o)
        BY <3>1, <3>7, <3>9
      <4>2. r \in SequenceType /\ r.step = seqs[i].step /\ r.flags = seqs[i].flags
        BY <3>1, <3>9
      <4> QED BY <4>1, <4>2 DEF MildFor
    <3>11. seqs' = [seqs EXCEPT ![i] = r]
      <4>1. S = q /\ S.step + 1 = k /\ Top.slot = i
        BY <3>1 DEF S
      <4>2. seqs' = [seqs EXCEPT ![i].descs[k].delay = @ - 1]
        BY <2>2, <4>1
      <4>3. seqs' = [seqs EXCEPT ![i] = [q EXCEPT !.descs =
                      [q.descs EXCEPT ![k] = [q.descs[k] EXCEPT !.delay = @ - 1]]]]
        BY <3>1, <4>2
      <4>4. [q.descs EXCEPT ![k] = [q.descs[k] EXCEPT !.delay = @ - 1]] = ds
        BY <3>3, <3>5
      <4>5. [q EXCEPT !.descs = [q.descs EXCEPT ![k] = [q.descs[k] EXCEPT !.delay = @ - 1]]] = r
        BY <3>8, <4>4
      <4> QED BY <4>3, <4>5
    <3> QED BY <3>10, <3>11, MildOne
  <2> QED BY <2>1, <2>2 DEF RunReturns
<1>3. stack' = Below \o << >>
  BY StackParts, ConcatEmptySeq DEF RunReturns, Returns, Types
<1>4. Quiet
  BY <1>2 DEF Quiet, RunReturns, slotVars, gameVars, Types
<1> QED BY <1>1, <1>3, <1>4, FreshOnes, QuietReturns DEF Building, Callers

LEMMA RunInstantKeeps == ASSUME Types, Exclusive, RunInstant PROVE Keeps
<1>1. Top.op = "run" /\ Top.slot \in 1..Slots /\ InProgress(Top.slot)
  BY RunsOne DEF RunInstant
<1>2. Mild(seqs') /\ seqs'[Top.slot].step # COMPLETE
  BY <1>1, SteppedMild DEF RunInstant
<1>3. PICK fs : fs = ContinueCalls(Top.slot, FALSE)
  OBVIOUS
<1>4. Fresh(fs)
  BY <1>1, <1>2, <1>3, ContinueFresh
<1>5. Quiet
  BY <1>2 DEF Quiet, RunInstant, slotVars, gameVars, Types
<1> QED BY <1>1, <1>3, <1>4, <1>5, QuietCalls DEF RunInstant

LEMMA RunTakesTimeKeeps == ASSUME Types, Exclusive, RunTakesTime PROVE Keeps
<1>1. /\ Top.op = "run" /\ Top.slot \in 1..Slots /\ InProgress(Top.slot)
      /\ D \in Description
  BY RunsOne DEF RunTakesTime
<1>2. Mild(seqs')
  BY <1>1, SteppedMild DEF RunTakesTime
<1>3. sads' \in Seq(SadType)
  <2>1. PICK step \in {"new", "init"} : sads' = Append(sads, NewSad(step))
    BY DEF RunTakesTime
  <2> QED BY <1>1, <2>1, NewSadIs, SadAdded
<1>4. stack' = Calling(<< >>)
  BY ConcatEmptySeq DEF RunTakesTime, Calling, Types
<1>5. Quiet
  BY <1>2, <1>3 DEF Quiet, RunTakesTime, slotVars, gameVars, Types
<1> QED BY <1>1, <1>4, <1>5, FreshOnes, QuietCalls

LEMMA RunArrivedKeeps == ASSUME Types, Exclusive, RunArrived PROVE Keeps
<1>1. /\ Top.op = "run" /\ Top.slot \in 1..Slots /\ InProgress(Top.slot)
      /\ D \in Description
  BY RunsOne DEF RunArrived
<1>2. Mild(seqs') /\ seqs'[Top.slot].step # COMPLETE
  BY <1>1, SteppedMild DEF RunArrived
<1>3. sads' \in Seq(SadType)
  BY <1>1, NewSadIs, SadAdded DEF RunArrived
<1>4. PICK fs : fs = ContinueCalls(Top.slot, FALSE)
  OBVIOUS
<1>5. Fresh(fs)
  BY <1>1, <1>2, <1>4, ContinueFresh
<1>6. Quiet
  BY <1>2, <1>3 DEF Quiet, RunArrived, slotVars, gameVars, Types
<1> QED BY <1>1, <1>4, <1>5, <1>6, QuietCalls DEF RunArrived

LEMMA RunFailsKeeps == ASSUME Types, Exclusive, RunFails PROVE Keeps
<1>1. Top.op = "run" /\ Top.slot \in 1..Slots /\ InProgress(Top.slot)
  BY RunsOne DEF RunFails
<1>2. Mild(seqs') /\ seqs'[Top.slot].step # COMPLETE
  BY <1>1, SteppedMild DEF RunFails
<1>3. PICK fs : fs = <<Frame("end", Top.slot, 0)>>
  OBVIOUS
<1>4. Fresh(fs)
  BY <1>1, <1>2, <1>3, EndFresh
<1>5. Quiet
  BY <1>2 DEF Quiet, RunFails, slotVars, gameVars, Types
<1> QED BY <1>1, <1>3, <1>4, <1>5, QuietCalls DEF RunFails

LEMMA RunCallbackKeeps == ASSUME Types, Exclusive, RunCallback PROVE Keeps
<1>1. Top.op = "run" /\ Top.slot \in 1..Slots /\ InProgress(Top.slot)
  BY RunsOne DEF RunCallback
<1>2. Mild(seqs')
  BY <1>1, SteppedMild DEF RunCallback
<1>3. PICK fs : fs = <<Frame("callback", Top.slot, 0)>>
  OBVIOUS
<1>4. Fresh(fs)
  BY <1>1, <1>3, ScriptFresh
<1>5. Quiet
  BY <1>2 DEF Quiet, RunCallback, slotVars, gameVars, Types
<1> QED BY <1>1, <1>3, <1>4, <1>5, QuietCalls DEF RunCallback

\* What a ping does to the sequence it starts.
LEMMA RunPingKeeps == ASSUME Types, Exclusive, RunPing PROVE Keeps
<1>1. /\ Top.op = "run" /\ Top.slot \in 1..Slots /\ InProgress(Top.slot)
      /\ D \in Description /\ D.kind = "ping"
  BY RunsOne DEF RunPing
<1>2. PICK t \in 1..Slots, i \in 1..Slots : t = D.target /\ i = Top.slot
  BY <1>1, DescriptionParts
<1>3. PICK s1 : s1 = Stepped
  OBVIOUS
<1>4. Mild(s1) /\ MildFor(t, s1[t])
  BY <1>1, <1>3, SteppedMild DEF Mild
<1>5. PICK ping : ping = Frame("ping", i, 0)
  OBVIOUS
<1>6. ping \in FrameType /\ ping.op = "ping" /\ Fresh(<<ping>>)
  <2>1. i \in Nat /\ ping \in FrameType /\ ping.op = "ping"
    BY <1>5, FrameIs DEF Ops, Working, Walking
  <2> QED BY <2>1, FreshOnes
<1>7. PICK q : q = [s1[t] EXCEPT !.flags = @ \ {"waiting"}]
  OBVIOUS
<1>8. MildFor(t, q) /\ MildFor(t, [q EXCEPT !.idx = @ + 1])
  BY <1>4, <1>7, Counters
<1>9. CASE InProgress(t)
  <2>1. seqs' = [s1 EXCEPT ![t] = [q EXCEPT !.idx = @ + 1]]
    <3>1. seqs' = [s1 EXCEPT ![t].flags = @ \ {"waiting"}, ![t].idx = @ + 1]
      BY <1>2, <1>3, <1>9 DEF RunPing
    <3> QED BY <1>4, <1>7, <3>1 DEF Mild
  <2>2. Mild(seqs')
    BY <1>4, <1>8, <2>1, MildAgain
  <2>3. seqs'[t].step # COMPLETE
    BY <1>9, <2>2 DEF Mild, MildFor, InProgress
  <2>4. PICK fs, cs : cs = ContinueCalls(t, TRUE) /\ fs = <<ping>> \o cs
    OBVIOUS
  <2>5. Fresh(fs)
    BY <1>6, <2>3, <2>4, ContinueFresh, FreshOnes
  <2>6. stack' = Calling(fs)
    BY <1>2, <1>5, <1>9, <2>4 DEF RunPing
  <2>7. Quiet
    BY <2>2 DEF Quiet, RunPing, slotVars, gameVars, Types
  <2> QED BY <1>1, <2>5, <2>6, <2>7, QuietCalls
<1>10. CASE ~InProgress(t)
  <2>1. seqs' = [s1 EXCEPT ![t] = q]
    BY <1>2, <1>3, <1>7, <1>10 DEF RunPing
  <2>2. Mild(seqs')
    BY <1>4, <1>8, <2>1, MildAgain
  <2>3. stack' = Calling(<<ping>>)
    BY <1>2, <1>5, <1>10 DEF RunPing
  <2>4. Quiet
    BY <2>2 DEF Quiet, RunPing, slotVars, gameVars, Types
  <2> QED BY <1>1, <1>6, <2>3, <2>4, QuietCalls
<1> QED BY <1>9, <1>10

\* What goes on with sequence i after the top frame has returned.
LEMMA ContinuesKeeps ==
  ASSUME Types, Exclusive, NEW i \in 1..Slots, Top.op \in {"ping", "callback"}, ~Building(Top),
         InProgress(i), seqs' = Continued(i), stack' = Below \o ContinueCalls(i, FALSE),
         UNCHANGED <<sads, inBk, slotVars, gameVars>>
  PROVE  Keeps
<1>1. Mild(seqs') /\ seqs'[i].step # COMPLETE
  BY ContinuedMild DEF Mild, MildFor, InProgress
<1>2. PICK fs : fs = ContinueCalls(i, FALSE)
  OBVIOUS
<1>3. Fresh(fs)
  BY <1>1, <1>2, ContinueFresh
<1>4. Quiet
  BY <1>1 DEF Quiet, slotVars, gameVars, Types
<1> QED BY <1>2, <1>3, <1>4, QuietReturns

LEMMA JustReturnsKeeps ==
  ASSUME Types, Exclusive, Top.op \notin {"main", "standup", "finish"}, ~Building(Top),
         Top.op = "turnrun" /\ Turns => running = 0,
         stack' = Below, UNCHANGED <<cur, building, inCombat, running>>, Mild(seqs'),
         sads' \in Seq(SadType), inBk' \in BOOLEAN
  PROVE  Keeps
<1>1. stack' = Below \o << >>
  BY StackParts, ConcatEmptySeq DEF Types
<1>2. Quiet
  BY DEF Quiet
<1> QED BY <1>1, <1>2, FreshOnes, QuietReturns

LEMMA PingReturnsKeeps == ASSUME Types, Exclusive, PingReturns PROVE Keeps
<1>1. Top.op = "ping" /\ Top.slot \in 1..Slots /\ ~Building(Top)
  BY TopSlot DEF PingReturns, TopIs, Working, Building, Callers
<1>2. PICK i \in 1..Slots : i = Top.slot
  BY <1>1
<1>3. /\ UNCHANGED <<sads, inBk, slotVars, gameVars>>
      /\ UNCHANGED <<cur, building, inCombat, running, sads, inBk>>
  BY DEF PingReturns, slotVars, gameVars
<1>4. CASE ~InProgress(i)
  BY <1>1, <1>2, <1>3, <1>4, MildSame, JustReturnsKeeps DEF PingReturns, Types
<1>5. CASE InProgress(i) /\ ret = -1
  <2>1. seqs' = seqs /\ seqs'[i].step # COMPLETE /\ stack' = Replaced(Frame("end", i, 0))
    BY <1>2, <1>5 DEF PingReturns, InProgress
  <2>2. PICK f : f = Frame("end", i, 0)
    OBVIOUS
  <2>3. f \in FrameType /\ f.op = "end" /\ f.slot = i
    BY <2>1, <2>2, EndFresh
  <2>4. stack' = Replaced(f) \o << >>
    BY <2>1, <2>2, <2>3, FreshOnes, Goes DEF Types, Fresh
  <2>5. Quiet
    BY <1>3, <2>1, MildSame DEF Quiet, Types
  <2> QED BY <1>1, <2>1, <2>3, <2>4, <2>5, FreshOnes, QuietGoes
<1>6. CASE InProgress(i) /\ ret # -1
  <2>1. seqs' = Continued(i) /\ stack' = Below \o ContinueCalls(i, FALSE)
    BY <1>2, <1>6 DEF PingReturns
  <2> QED BY <1>1, <1>3, <1>6, <2>1, ContinuesKeeps
<1> QED BY <1>4, <1>5, <1>6

-----------------------------------------------------------------------------
(* Callers that return, and what they clear                                  *)

LEMMA CallbackReturnsKeeps == ASSUME Types, Exclusive, CallbackReturns PROVE Keeps
<1>1. Top.op = "callback" /\ Top.slot \in 1..Slots /\ ~Building(Top)
  BY TopSlot DEF CallbackReturns, AtLeisure, TopIs, Working, Building
<1>2. PICK i \in 1..Slots : i = Top.slot
  BY <1>1
<1>3. /\ UNCHANGED <<sads, inBk, slotVars, gameVars>>
      /\ UNCHANGED <<cur, building, inCombat, running, sads, inBk>>
  BY DEF CallbackReturns, slotVars, gameVars
<1>4. CASE ~InProgress(i) /\ stack' = Below /\ UNCHANGED seqs
  BY <1>1, <1>3, <1>4, MildSame, JustReturnsKeeps DEF Types
<1>5. CASE InProgress(i) /\ stack' = Below \o <<Frame("end", i, 0)>> /\ UNCHANGED seqs
  <2>1. seqs'[i].step # COMPLETE
    BY <1>5 DEF InProgress
  <2>2. PICK fs : fs = <<Frame("end", i, 0)>>
    OBVIOUS
  <2>3. Fresh(fs)
    BY <2>1, <2>2, EndFresh
  <2>4. Quiet
    BY <1>3, <1>5, MildSame DEF Quiet, Types
  <2> QED BY <1>1, <1>5, <2>2, <2>3, <2>4, QuietReturns
<1>6. CASE InProgress(i) /\ seqs' = Continued(i) /\ stack' = Below \o ContinueCalls(i, FALSE)
  BY <1>1, <1>3, <1>6, ContinuesKeeps
<1> QED BY <1>2, <1>4, <1>5, <1>6 DEF CallbackReturns

LEMMA ScriptReturnsKeeps == ASSUME Types, Exclusive, ScriptReturns PROVE Keeps
<1>1. Top.op \in {"script", "standup"} /\ ~Building(Top)
  BY DEF ScriptReturns, AtLeisure, TopIs, Building
<1>2. Quiet
  BY MildSame DEF ScriptReturns, Quiet, slotVars, gameVars, Types
<1>3. CASE Top.op = "script"
  <2>1. stack' = Below
    BY <1>3 DEF ScriptReturns, TopIs
  <2> QED BY <1>1, <1>2, <1>3, <2>1, JustReturnsKeeps DEF Quiet
<1>4. CASE Top.op = "standup"
  <2>1. PICK f : f = Frame("turnrun", 0, 0)
    OBVIOUS
  <2>2. f \in FrameType /\ f.op = "turnrun"
    BY <2>1, FrameIs DEF Ops, Working, Walking
  <2>3. stack' = Replaced(f)
    BY <1>4, <2>1 DEF ScriptReturns, TopIs
  <2>4. stack' = Replaced(f) \o << >>
    BY <2>2, <2>3, FreshOnes, Goes DEF Types, Fresh
  <2> QED BY <1>1, <1>2, <1>4, <2>2, <2>4, FreshOnes, QuietGoes
<1> QED BY <1>1, <1>3, <1>4

LEMMA EndingKeeps ==
  ASSUME Types, Exclusive, Top.op # "finish", NEW i \in 1..Slots, InProgress(i),
         stack' = Calling(<<Frame("end", i, 0)>>),
         UNCHANGED <<seqs, sads, inBk, slotVars, gameVars>>
  PROVE  Keeps
<1>1. seqs'[i].step # COMPLETE
  BY DEF InProgress
<1>2. PICK fs : fs = <<Frame("end", i, 0)>>
  OBVIOUS
<1>3. Fresh(fs)
  BY <1>1, <1>2, EndFresh
<1>4. Quiet
  BY MildSame DEF Quiet, slotVars, gameVars, Types
<1> QED BY <1>2, <1>3, <1>4, QuietCalls

LEMMA ClearKeeps == ASSUME Types, Exclusive, NEW o, Clear(o) PROVE Keeps
<1>1. PICK i \in 1..Slots : InProgress(i) /\ stack' = Calling(<<Frame("end", i, 0)>>)
  BY DEF Clear, FirstOwning
<1>2. Top.op # "finish" /\ UNCHANGED <<seqs, sads, inBk, slotVars, gameVars>>
  BY DEF Clear, AtLeisure, Caller
<1> QED BY <1>1, <1>2, EndingKeeps

\* While the caller registers its plan is not empty.
LEMMA PlanParts ==
  ASSUME Types, Registering
  PROVE  /\ Top \in FrameType /\ Top.op \in Callers /\ Top.at = 1 /\ Building(Top)
         /\ Top.plan \in Seq(PartType) /\ Top.plan # << >>
         /\ Head(Top.plan) \in PartType /\ Tail(Top.plan) \in Seq(PartType)
         /\ Head(Top.plan).descs \in Seq(Desc)
<1>1. Top \in FrameType /\ Top.op \in Callers /\ Top.at = 1
  BY StackParts DEF Types, Registering, Caller, Callers
<1>2. Top.plan \in Seq(PartType) /\ Top.plan # << >>
  BY <1>1, FrameParts
<1>3. PICK p, rest : p = Head(Top.plan) /\ rest = Tail(Top.plan)
  OBVIOUS
<1>4. p \in PartType /\ rest \in Seq(PartType)
  BY <1>2, <1>3, HeadTailProperties
<1>5. p.descs \in Seq(Desc)
  BY <1>4 DEF PartType
<1> QED BY <1>1, <1>2, <1>3, <1>4, <1>5 DEF Building

\* The caller goes on with the rest of its plan.
LEMMA PlannedIs ==
  ASSUME Types, Pending
  PROVE  \E f \in FrameType : /\ Planned = Replaced(f) /\ Planned = Replaced(f) \o << >>
                              /\ f.op = Top.op /\ Building(f)
<1>1. Registering /\ Head(Top.plan).descs # << >>
  BY DEF Pending
<1>2. PICK plan, p : plan = Top.plan /\ p = Shortened(Head(plan))
  OBVIOUS
<1>3. plan \in Seq(PartType) /\ plan # << >> /\ Tail(plan) \in Seq(PartType)
  BY <1>1, <1>2, PlanParts
<1>4. p \in PartType
  <2>1. PICK q : q = Head(plan)
    OBVIOUS
  <2>2. q \in PartType /\ q.descs \in Seq(Desc) /\ q.descs # << >>
    BY <1>1, <1>2, <2>1, PlanParts
  <2>3. Tail(q.descs) \in Seq(Desc)
    BY <2>2, HeadTailProperties
  <2>4. p = [q EXCEPT !.descs = Tail(@)]
    BY <1>2, <2>1 DEF Shortened
  <2> QED BY <2>2, <2>3, <2>4 DEF PartType
<1>5. PICK rest : rest = <<p>> \o Tail(plan)
  OBVIOUS
<1>6. rest \in Seq(PartType) /\ rest # << >>
  <2>1. <<p>> \in Seq(PartType) /\ Len(<<p>>) = 1
    BY <1>4
  <2>2. rest \in Seq(PartType) /\ Len(rest) = 1 + Len(Tail(plan)) /\ Len(Tail(plan)) \in Nat
    BY <1>3, <1>5, <2>1, ConcatProperties, LenProperties
  <2>3. Len(rest) > 0
    BY <2>2
  <2> QED BY <2>2, <2>3, EmptySeq
<1>7. PICK f : f = [Top EXCEPT !.plan = rest]
  OBVIOUS
<1>8. f \in FrameType /\ f.op = Top.op /\ Building(f)
  <2>1. /\ Top \in FrameType /\ Top.op \in Callers /\ Top.at = 1
    BY <1>1, PlanParts
  <2> QED BY <1>6, <1>7, <2>1 DEF FrameType, Building
<1>9. Planned = Replaced(f)
  BY <1>2, <1>5, <1>7 DEF Planned
<1>10. Replaced(f) \o << >> = Replaced(f)
  BY <1>8, FreshOnes, Goes DEF Types, Fresh
<1> QED BY <1>8, <1>9, <1>10

LEMMA RegisterNothingKeeps == ASSUME Types, Exclusive, RegisterNothing PROVE Keeps
<1>1. PICK f \in FrameType : stack' = Replaced(f) \o << >> /\ f.op = Top.op /\ Building(f)
  BY PlannedIs DEF RegisterNothing
<1>2. Top.op \in Callers
  BY PlanParts DEF RegisterNothing, Pending
<1>3. Quiet
  BY MildSame DEF RegisterNothing, Quiet, slotVars, gameVars, Types
<1> QED BY <1>1, <1>2, <1>3, FreshOnes, QuietGoes DEF Callers

LEMMA RegisterEndsRivalKeeps == ASSUME Types, Exclusive, RegisterEndsRival PROVE Keeps
<1>1. PICK i \in 1..Slots : InProgress(i) /\ stack' = Calling(<<Frame("end", i, 0)>>)
  BY DEF RegisterEndsRival, Rivals
<1>2. Top.op \in Callers /\ UNCHANGED <<seqs, sads, inBk, slotVars, gameVars>>
  BY PlanParts DEF RegisterEndsRival, Pending
<1> QED BY <1>1, <1>2, EndingKeeps DEF Callers

\* The top frame goes on as f, and nothing is called.
LEMMA GoesAlone ==
  ASSUME Types, Exclusive, Quiet, NEW f \in FrameType, stack' = Replaced(f),
         Top.op # "finish", f.op = "main" <=> Top.op = "main", f.op # "finish",
         f.op = "end" => Top.op = "end" /\ f.slot = Top.slot,
         Top.op \in {"standup", "turnrun"} => f.op \in {"standup", "turnrun"},
         Building(Top) => Building(f)
  PROVE  Keeps
<1>1. PICK st : st = Replaced(f)
  OBVIOUS
<1>2. st \o << >> = st
  BY <1>1, FreshOnes, Goes DEF Types, Fresh
<1>3. stack' = Replaced(f) \o << >>
  BY <1>1, <1>2
<1> QED BY <1>3, FreshOnes, QuietGoes

LEMMA PlanDoneKeeps == ASSUME Types, Exclusive, PlanDone PROVE Keeps
<1>1. Top \in FrameType /\ Top.op \in Callers /\ Top.at = 2
  BY StackParts DEF PlanDone, Caller, Callers, Types
<1>2. PICK f : f = [Top EXCEPT !.at = 0, !.plan = << >>,
                               !.slot = IF Top.op = "main" THEN 0 ELSE @]
  OBVIOUS
<1>3. f \in FrameType /\ f.op = Top.op
  <2>1. << >> \in Seq(PartType)
    BY EmptySeq
  <2>2. PICK place : place = IF Top.op = "main" THEN 0 ELSE Top.slot
    OBVIOUS
  <2>3. place \in Nat /\ (Top.op = "callback" => place \in 1..Slots)
    BY <1>1, <2>2, FrameParts DEF Working
  <2>4. f = [Top EXCEPT !.at = 0, !.plan = << >>, !.slot = place]
    BY <1>2, <2>2
  <2>5. /\ f \in [op : Ops, slot : Nat, at : Nat, plan : Seq(PartType)]
        /\ f.op = Top.op /\ f.slot = place /\ f.at = 0
    BY <1>1, <2>1, <2>3, <2>4 DEF FrameType
  <2> QED BY <1>1, <2>3, <2>5 DEF FrameType, Callers, Working, Walking
<1>4. stack' = Replaced(f)
  BY <1>2 DEF PlanDone
<1>5. Quiet
  BY MildSame DEF PlanDone, Quiet, slotVars, Types
<1> QED BY <1>1, <1>3, <1>4, <1>5, GoesAlone DEF Callers, Building

-----------------------------------------------------------------------------
(* Ending a sequence                                                         *)

LEMMA SeqByIndex ==
  ASSUME NEW T, NEW n \in Nat, NEW f \in [1..n -> T]
  PROVE  f \in Seq(T) /\ Len(f) = n
OBVIOUS

LEMMA CompletedTyped ==
  ASSUME Types, NEW ks
  PROVE  /\ Completed(ks) \in Seq(SadType) /\ Len(Completed(ks)) = Len(sads)
         /\ \A k \in 1..Len(sads) : sads[k] \in SadType /\ sads[k].seq \in 1..Slots
<1>1. Len(sads) \in Nat /\ \A k \in 1..Len(sads) : sads[k] \in SadType
  BY LenProperties, ElementOfSeq DEF Types
<1>2. \A s \in SadType : [s EXCEPT !.step = "complete"] \in SadType /\ s.seq \in 1..Slots
  BY DEF SadType
<1>3. Completed(ks) \in [1..Len(sads) -> SadType]
  BY <1>1, <1>2 DEF Completed
<1> QED BY <1>1, <1>2, <1>3, SeqByIndex

LEMMA ForgottenMild ==
  ASSUME Types, NEW i \in 1..Slots
  PROVE  Mild([seqs EXCEPT ![i].descs = Forgotten(i)])
<1>1. PICK q : q = seqs[i]
  OBVIOUS
<1>2. /\ q \in SequenceType /\ q.descs \in Seq(Description) /\ Len(q.descs) \in Nat
      /\ \A k \in 1..Len(q.descs) : q.descs[k] \in Description
  BY <1>1, MildIs, SequenceParts
<1>3. ASSUME NEW d \in Description
      PROVE  /\ [d EXCEPT !.owner = NIL] \in Description /\ [d EXCEPT !.owner = NIL].kind = d.kind
             /\ [d EXCEPT !.owner = NIL].owner = NIL
  <2>1. PICK e : e = [d EXCEPT !.owner = NIL]
    OBVIOUS
  <2>2. d \in Desc /\ (d.kind = "ping" => d.target \in 1..Slots)
    BY DEF Description
  <2>3. e \in Desc /\ e.kind = d.kind /\ e.owner = NIL /\ e.target = d.target
    BY <2>1, <2>2 DEF Desc
  <2> QED BY <2>1, <2>2, <2>3 DEF Description
<1>4. PICK ds : ds = Forgotten(i)
  OBVIOUS
<1>5. /\ ds \in [1..Len(q.descs) -> Description]
      /\ \A k \in 1..Len(q.descs) : \/ ds[k] = q.descs[k]
                                    \/ ds[k] = [q.descs[k] EXCEPT !.owner = NIL]
  BY <1>1, <1>2, <1>3, <1>4 DEF Forgotten
<1>6. ds \in Seq(Description) /\ Len(ds) = Len(q.descs)
  BY <1>2, <1>5, SeqByIndex
<1>7. ASSUME NEW o \in Objects, OwnedIn(ds, o) PROVE OwnedIn(q.descs, o)
  <2>1. PICK k \in 1..Len(q.descs) : ds[k].owner = o /\ ds[k].kind # "callback"
    BY <1>6, <1>7 DEF OwnedIn, IsCallback
  <2>2. o # NIL
    BY AnimationConstants
  <2>3. ds[k] = q.descs[k]
    BY <1>2, <1>3, <1>5, <2>1, <2>2
  <2> QED BY <2>1, <2>3 DEF OwnedIn, IsCallback
<1>8. PICK r : r = [q EXCEPT !.descs = ds]
  OBVIOUS
<1>9. r \in SequenceType /\ r.step = q.step /\ r.flags = q.flags /\ r.descs = ds
  BY <1>2, <1>6, <1>8 DEF SequenceType
<1>10. MildFor(i, r)
  BY <1>1, <1>7, <1>9 DEF MildFor
<1>11. [seqs EXCEPT ![i].descs = Forgotten(i)] = [seqs EXCEPT ![i] = r]
  BY <1>1, <1>4, <1>8
<1> QED BY <1>10, <1>11, MildOne

LEMMA EndBeginsKeeps == ASSUME Types, Exclusive, EndBegins PROVE Keeps
<1>1. Top.op = "end" /\ Top.slot \in 1..Slots /\ Top \in FrameType
  BY TopSlot DEF EndBegins, EndStarts, TopIs, Working
<1>2. PICK f : f = [Top EXCEPT !.at = 1]
  OBVIOUS
<1>3. f \in FrameType /\ f.op = "end" /\ f.slot = Top.slot
  BY <1>1, <1>2 DEF FrameType, Callers, Working, Walking
<1>4. stack' = Replaced(f)
  BY <1>2 DEF EndBegins
<1>5. Mild(seqs')
  BY <1>1, ForgottenMild DEF EndBegins
<1>6. sads' \in Seq(SadType)
  BY CompletedTyped DEF EndBegins
<1>7. Quiet
  BY <1>5, <1>6 DEF Quiet, EndBegins, slotVars, Types
<1> QED BY <1>1, <1>3, <1>4, <1>7, GoesAlone DEF Building, Callers

\* The next of its forced callbacks.
LEMMA ForcedIs ==
  ASSUME Types, NEW i \in 1..Slots, NEW at \in Nat, ForcedFrom(i, at) # {}
  PROVE  (CHOOSE k \in ForcedFrom(i, at) : \A j \in ForcedFrom(i, at) : k <= j)
           \in ForcedFrom(i, at) \cap Nat
<1>1. ForcedFrom(i, at) \in SUBSET Nat
  BY MildIs, SequenceParts DEF ForcedFrom
<1> QED BY <1>1, Least

LEMMA EndCallsBackKeeps == ASSUME Types, Exclusive, EndCallsBack PROVE Keeps
<1>1. Top.op = "end" /\ Top.slot \in 1..Slots /\ Top \in FrameType /\ Top.at \in Nat
  BY TopSlot, FrameParts DEF EndCallsBack, EndRuns, TopIs, Working
<1>2. PICK k \in Nat : stack' = Replaced([Top EXCEPT !.at = k + 1]) \o <<Frame("script", 0, 0)>>
  BY <1>1, ForcedIs DEF EndCallsBack
<1>3. PICK f, fs : f = [Top EXCEPT !.at = k + 1] /\ fs = <<Frame("script", 0, 0)>>
  OBVIOUS
<1>4. f \in FrameType /\ f.op = "end" /\ f.slot = Top.slot
  BY <1>1, <1>3 DEF FrameType, Callers, Working, Walking
<1>5. Fresh(fs) /\ stack' = Replaced(f) \o fs
  BY <1>2, <1>3, ScriptFresh
<1>6. Quiet
  BY MildSame DEF Quiet, EndCallsBack, slotVars, gameVars, Types
<1> QED BY <1>1, <1>4, <1>5, <1>6, QuietGoes DEF Building, Callers

-----------------------------------------------------------------------------
(* A pass over the sads                                                      *)

LEMMA CountedFinite ==
  /\ IsFiniteSet(Counted) /\ Cardinality(Counted) \in Nat
  /\ CombatBalanced => running = Cardinality(Counted) /\ running \in Nat
<1>1. Slots \in Nat
  BY AnimationConstants
<1>2. IsFiniteSet(1..Slots)
  BY <1>1, CountTo
<1>3. IsFiniteSet(Counted)
  BY <1>2, FS_Subset DEF Counted
<1> QED BY <1>3, FS_CardinalityType DEF CombatBalanced, Counted

LEMMA PassKeeps ==
  ASSUME Types, Exclusive, Pass, Top.op # "finish",
         UNCHANGED <<seqs, sads, slotVars, gameVars>>
  PROVE  Keeps
<1>1. CASE UNCHANGED <<stack, inBk>>
  <2>1. stack' = Calling(<< >>)
    BY <1>1, ConcatEmptySeq DEF Calling, Types
  <2>2. Quiet
    BY <1>1, MildSame DEF Quiet, slotVars, gameVars, Types
  <2> QED BY <2>1, <2>2, FreshOnes, QuietCalls
<1>2. CASE stack' = Calling(<<Frame("animate", 0, 1)>>) /\ inBk' = TRUE
  <2>1. PICK f : f = Frame("animate", 0, 1)
    OBVIOUS
  <2>2. f \in FrameType /\ f.op = "animate"
    BY <2>1, FrameIs DEF Ops, Working, Walking
  <2>3. PICK fs : fs = <<f>>
    OBVIOUS
  <2>4. Fresh(fs) /\ stack' = Calling(fs)
    BY <1>2, <2>1, <2>2, <2>3, FreshOnes
  <2>5. Quiet
    BY <1>2, MildSame DEF Quiet, slotVars, gameVars, Types
  <2> QED BY <2>4, <2>5, QuietCalls
<1> QED BY <1>1, <1>2 DEF Pass

LEMMA UpdateKeeps == ASSUME Types, Exclusive, Update PROVE Keeps
<1>1. Top.op # "finish" /\ Pass /\ UNCHANGED <<seqs, sads, slotVars, gameVars>>
  BY DEF Update, TopIs
<1> QED BY <1>1, PassKeeps

LEMMA TurnRunKeeps == ASSUME Types, Exclusive, TurnRun PROVE Keeps
<1>1. Top.op = "turnrun" /\ UNCHANGED <<seqs, sads, slotVars, gameVars>>
  BY DEF TurnRun, TopIs
<1>2. CASE running > 0
  <2>1. Pass
    BY <1>2 DEF TurnRun
  <2> QED BY <1>1, <2>1, PassKeeps
<1>3. CASE ~(running > 0)
  <2>1. stack' = Below /\ inBk' = inBk
    BY <1>3 DEF TurnRun
  <2>2. Turns => running = 0
    BY <1>3, CountedFinite DEF Turns
  <2>3. /\ UNCHANGED <<cur, building, inCombat, running>> /\ Mild(seqs')
        /\ sads' \in Seq(SadType) /\ inBk' \in BOOLEAN
    BY <1>1, <2>1, MildSame DEF slotVars, gameVars, Types
  <2> QED BY <1>1, <2>1, <2>2, <2>3, JustReturnsKeeps DEF Building, Callers
<1> QED BY <1>2, <1>3

LEMMA TopWalks ==
  ASSUME Types, Top.op \in Walking
  PROVE  /\ Top \in FrameType /\ Top.at \in Nat /\ Top.at > 0 /\ ~Building(Top)
         /\ Onward \in FrameType /\ Onward.op = "animate"
         /\ \A op \in Walking : [Top EXCEPT !.op = op] \in FrameType
                                /\ [Top EXCEPT !.op = op].op = op
<1>1. Top \in FrameType /\ Top.at \in Nat /\ Top.at > 0
  BY StackParts, FrameParts DEF Types
<1>2. Onward \in FrameType /\ Onward.op = "animate"
  <2>1. PICK at : at = Top.at + 1
    OBVIOUS
  <2>2. at \in Nat /\ at > 0
    BY <1>1, <2>1
  <2>3. Onward = [Top EXCEPT !.op = "animate", !.slot = 0, !.at = at]
    BY <2>1 DEF Onward
  <2>4. Onward \in [op : Ops, slot : Nat, at : Nat, plan : Seq(PartType)]
        /\ Onward.op = "animate" /\ Onward.at = at
    BY <1>1, <2>2, <2>3 DEF FrameType, Ops
  <2> QED BY <2>2, <2>4 DEF FrameType, Working, Walking, Callers
<1>3. ASSUME NEW op \in Walking
      PROVE  [Top EXCEPT !.op = op] \in FrameType /\ [Top EXCEPT !.op = op].op = op
  BY <1>1 DEF FrameType, Working, Walking, Callers, Ops
<1> QED BY <1>1, <1>2, <1>3 DEF Building, Walking, Callers

\* The pass goes on, after what a sad's step calls.
LEMMA PassGoesKeeps ==
  ASSUME Types, Exclusive, Quiet, Top.op \in Walking,
         NEW op \in Walking, NEW f \in FrameType, f.op = op, NEW fs, Fresh(fs),
         stack' = Replaced(f) \o fs
  PROVE  Keeps
<1>1. ~Building(Top) /\ Top.op \notin {"main", "finish", "end", "standup", "turnrun"}
  BY TopWalks DEF Walking
<1>2. f.op \notin {"main", "finish", "end"}
  BY DEF Walking
<1> QED BY <1>1, <1>2, QuietGoes

LEMMA PassGoesAlone ==
  ASSUME Types, Exclusive, Quiet, Top.op \in Walking,
         NEW op \in Walking, NEW f \in FrameType, f.op = op, stack' = Replaced(f)
  PROVE  Keeps
<1>1. ~Building(Top) /\ Top.op \notin {"main", "finish", "end", "standup", "turnrun"}
  BY TopWalks DEF Walking
<1>2. f.op \notin {"main", "finish", "end"}
  BY DEF Walking
<1> QED BY <1>1, <1>2, GoesAlone

LEMMA SkipSadKeeps == ASSUME Types, Exclusive, SkipSad PROVE Keeps
<1>1. Top.op \in Walking /\ stack' = Replaced(Onward)
  BY DEF SkipSad, Passing, TopIs, Walking
<1>2. Quiet
  BY MildSame DEF Quiet, SkipSad, slotVars, gameVars, Types
<1> QED BY <1>1, <1>2, TopWalks, PassGoesAlone DEF Walking

LEMMA SadDueKeeps == ASSUME Types, Exclusive, SadDue PROVE Keeps
<1>1. Top.op \in Walking /\ Top.at <= Len(sads)
  BY DEF SadDue, Passing, TopIs, Walking
<1>2. Top.at \in 1..Len(sads)
  BY <1>1, TopWalks, LenProperties DEF Types
<1>3. PICK i \in 1..Slots : i = sads[Top.at].seq
  BY <1>2, CompletedTyped
<1>4. PICK f, r : f = [Top EXCEPT !.op = "stepping"] /\ r = Frame("run", i, 0)
  OBVIOUS
<1>5. f \in FrameType /\ f.op = "stepping"
  BY <1>1, <1>4, TopWalks DEF Walking
<1>6. r \in FrameType /\ r.op = "run"
  <2>1. i \in Nat
    OBVIOUS
  <2> QED BY <1>4, <2>1, FrameIs DEF Ops, Working, Walking
<1>7. PICK fs : fs = <<r>>
  OBVIOUS
<1>8. Fresh(fs) /\ stack' = Replaced(f) \o fs
  BY <1>3, <1>4, <1>6, <1>7, FreshOnes DEF SadDue
<1>9. Quiet
  BY MildSame DEF Quiet, SadDue, slotVars, gameVars, Types
<1> QED BY <1>1, <1>5, <1>8, <1>9, PassGoesKeeps DEF Walking

LEMMA SadEndedKeeps == ASSUME Types, Exclusive, SadEnded PROVE Keeps
<1>1. Top.op \in Walking /\ stack' = Replaced(Onward)
  BY DEF SadEnded, TopIs, Walking
<1>2. Quiet
  BY MildSame DEF Quiet, SadEnded, slotVars, gameVars, Types
<1> QED BY <1>1, <1>2, TopWalks, PassGoesAlone DEF Walking

\* The sad at which the pass is.
LEMMA SadAt ==
  ASSUME Types, PassInBounds,
         (TopIs("stepping") /\ ret # -1) \/ Top.op \in {"playing", "completed"}
  PROVE  Top.op \in Walking /\ Top.at \in 1..Len(sads)
<1>1. Top.op \in Walking
  BY DEF TopIs, Walking
<1>2. Top.at <= Len(sads)
  BY DEF PassInBounds
<1> QED BY <1>1, <1>2, TopWalks, LenProperties DEF Types

LEMMA SadChanged ==
  ASSUME Types, NEW k \in 1..Len(sads), NEW step \in {"new", "init", "going", "complete"}
  PROVE  [sads EXCEPT ![k].step = step] \in Seq(SadType)
<1>1. PICK s : s = [sads[k] EXCEPT !.step = step]
  OBVIOUS
<1>2. sads[k] \in SadType
  BY CompletedTyped
<1>3. s \in SadType
  BY <1>1, <1>2 DEF SadType
<1>4. [sads EXCEPT ![k].step = step] = [sads EXCEPT ![k] = s]
  BY <1>1
<1> QED BY <1>3, <1>4, ExceptSeq DEF Types

\* A sad that is done with lets its sequence go on.
LEMMA SadCompletesIs ==
  ASSUME Types, NEW k \in 1..Len(sads), SadCompletes(k)
  PROVE  Mild(seqs') /\ sads' \in Seq(SadType) /\ Fresh(CompleteCalls(k))
<1>1. PICK i \in 1..Slots : i = sads[k].seq
  BY CompletedTyped
<1>2. sads' \in Seq(SadType)
  BY CompletedTyped DEF SadCompletes
<1>3. CASE InProgress(i)
  <2>1. Mild(seqs')
    BY <1>1, <1>3, ContinuedMild DEF SadCompletes
  <2>2. seqs'[i].step # COMPLETE
    BY <1>3, <2>1 DEF Mild, MildFor, InProgress
  <2>3. Fresh(CompleteCalls(k))
    BY <1>1, <1>3, <2>2, ContinueFresh DEF CompleteCalls
  <2> QED BY <1>2, <2>1, <2>3
<1>4. CASE ~InProgress(i)
  <2>1. Mild(seqs')
    BY <1>1, <1>4, MildSame DEF SadCompletes
  <2>2. Fresh(CompleteCalls(k))
    BY <1>1, <1>4, FreshOnes DEF CompleteCalls
  <2> QED BY <1>2, <2>1, <2>2
<1> QED BY <1>3, <1>4

LEMMA MaybeScriptFresh == \A script \in MaybeScript : Fresh(script)
BY FreshOnes, ScriptFresh DEF MaybeScript

LEMMA StepOnWayKeeps == ASSUME Types, Exclusive, PassInBounds, StepOnWay PROVE Keeps
<1>1. Top.op \in Walking /\ Top.at \in 1..Len(sads)
  BY SadAt DEF StepOnWay, Stepping
<1>2. PICK script : Fresh(script) /\ stack' = Replaced(Onward) \o script
  BY MaybeScriptFresh DEF StepOnWay
<1>3. sads' \in Seq(SadType)
  BY <1>1, SadChanged DEF StepOnWay
<1>4. Quiet
  BY <1>3, MildSame DEF Quiet, StepOnWay, slotVars, gameVars, Types
<1> QED BY <1>1, <1>2, <1>4, TopWalks, PassGoesKeeps DEF Walking

LEMMA StepArrivesKeeps == ASSUME Types, Exclusive, PassInBounds, StepArrives PROVE Keeps
<1>1. Top.op \in Walking /\ Top.at \in 1..Len(sads)
  BY SadAt DEF StepArrives, Stepping
<1>2. Mild(seqs') /\ sads' \in Seq(SadType) /\ Fresh(CompleteCalls(Top.at))
  BY <1>1, SadCompletesIs DEF StepArrives
<1>3. PICK script \in MaybeScript : stack' = Replaced(Onward) \o script \o CompleteCalls(Top.at)
  BY DEF StepArrives
<1>4. PICK cs, fs : cs = CompleteCalls(Top.at) /\ fs = script \o cs
  OBVIOUS
<1>5. Fresh(fs)
  BY <1>2, <1>4, MaybeScriptFresh, FreshOnes
<1>6. stack' = Replaced(Onward) \o fs
  <2>1. PICK st : st = Replaced(Onward)
    OBVIOUS
  <2>2. st \in Seq(FrameType)
    <3>1. st \o << >> = st /\ Kept(Len(stack) - 1, st \o << >>)
      BY <1>1, <2>1, TopWalks, FreshOnes, Goes DEF Types, Fresh
    <3> QED BY <3>1 DEF Kept
  <2>3. (st \o script) \o cs = st \o (script \o cs)
    <3>1. script \in Seq(FrameType) /\ cs \in Seq(FrameType)
      BY <1>2, <1>4, MaybeScriptFresh DEF Fresh
    <3> QED BY <2>2, <3>1, ConcatAssociative, SMTT(30)
  <2> QED BY <1>3, <1>4, <2>1, <2>3
<1>7. Quiet
  BY <1>2 DEF Quiet, StepArrives, slotVars, gameVars, Types
<1> QED BY <1>1, <1>5, <1>6, <1>7, TopWalks, PassGoesKeeps DEF Walking

LEMMA StartPlayingKeeps == ASSUME Types, Exclusive, StartPlaying PROVE Keeps
<1>1. Top.op \in Walking
  BY DEF StartPlaying, Stepping, TopIs, Walking
<1>2. PICK f : f = [Top EXCEPT !.op = "playing"]
  OBVIOUS
<1>3. f \in FrameType /\ f.op = "playing" /\ stack' = Replaced(f)
  BY <1>1, <1>2, TopWalks DEF StartPlaying, Walking
<1>4. Quiet
  BY MildSame DEF Quiet, StartPlaying, slotVars, gameVars, Types
<1> QED BY <1>1, <1>3, <1>4, PassGoesAlone DEF Walking

LEMMA CutsShortKeeps == ASSUME Types, Exclusive, CutsShort PROVE Keeps
<1>1. Top.op \in Walking
  BY DEF CutsShort, Playing, TopIs, Walking
<1>2. PICK k \in CutShort : SadCompletes(k) /\ stack' = Calling(CompleteCalls(k))
  <2>1. CutShort \in SUBSET Nat
    BY LenProperties DEF CutShort, Types
  <2>2. \E k \in CutShort : \A j \in CutShort : k <= j
    BY <2>1, Least DEF CutsShort
  <2> QED BY <2>2 DEF CutsShort
<1>3. Mild(seqs') /\ sads' \in Seq(SadType) /\ Fresh(CompleteCalls(k))
  BY <1>2, SadCompletesIs DEF CutShort
<1>4. Quiet
  BY <1>3 DEF Quiet, CutsShort, slotVars, gameVars, Types
<1> QED BY <1>1, <1>2, <1>3, <1>4, QuietCalls DEF Walking

LEMMA PlayFrameKeeps == ASSUME Types, Exclusive, PassInBounds, PlayFrame PROVE Keeps
<1>1. Top.op \in Walking /\ Top.at \in 1..Len(sads)
  BY SadAt DEF PlayFrame, Playing, TopIs
<1>2. stack' = Replaced(Onward) /\ sads' \in Seq(SadType)
  BY <1>1, SadChanged DEF PlayFrame
<1>3. Quiet
  BY <1>2, MildSame DEF Quiet, PlayFrame, slotVars, gameVars, Types
<1> QED BY <1>1, <1>2, <1>3, TopWalks, PassGoesAlone DEF Walking

LEMMA PlayLastFrameKeeps == ASSUME Types, Exclusive, PlayLastFrame PROVE Keeps
<1>1. Top.op \in Walking
  BY DEF PlayLastFrame, Playing, TopIs, Walking
<1>2. PICK script : Fresh(script) /\ stack' = Replaced([Top EXCEPT !.op = "completed"]) \o script
  BY MaybeScriptFresh DEF PlayLastFrame
<1>3. PICK f : f = [Top EXCEPT !.op = "completed"]
  OBVIOUS
<1>4. f \in FrameType /\ f.op = "completed" /\ stack' = Replaced(f) \o script
  BY <1>1, <1>2, <1>3, TopWalks DEF Walking
<1>5. sads' \in Seq(SadType)
  BY CompletedTyped DEF PlayLastFrame
<1>6. Quiet
  BY <1>5, MildSame DEF Quiet, PlayLastFrame, slotVars, gameVars, Types
<1> QED BY <1>1, <1>2, <1>4, <1>6, PassGoesKeeps DEF Walking

LEMMA PlayCompletedKeeps == ASSUME Types, Exclusive, PassInBounds, PlayCompleted PROVE Keeps
<1>1. Top.op \in Walking /\ Top.at \in 1..Len(sads)
  BY SadAt DEF PlayCompleted, TopIs
<1>2. Mild(seqs') /\ sads' \in Seq(SadType) /\ Fresh(CompleteCalls(Top.at))
  BY <1>1, SadCompletesIs DEF PlayCompleted
<1>3. stack' = Replaced(Onward) \o CompleteCalls(Top.at)
  BY DEF PlayCompleted
<1>4. Quiet
  BY <1>2 DEF Quiet, PlayCompleted, slotVars, gameVars, Types
<1> QED BY <1>1, <1>2, <1>3, <1>4, TopWalks, PassGoesKeeps DEF Walking

-----------------------------------------------------------------------------
(* Stopping                                                                  *)

LEMMA StopNextKeeps == ASSUME Types, Exclusive, StopNext PROVE Keeps
<1>1. Top.op = "stop" /\ Top.at <= Slots /\ Top \in FrameType /\ Top.at \in Nat /\ Top.at > 0
  BY TopWalks DEF StopNext, TopIs, Walking
<1>2. PICK i \in 1..Slots : i = Top.at
  BY <1>1, AnimationConstants
<1>3. PICK f : f = [Top EXCEPT !.at = @ + 1]
  OBVIOUS
<1>4. f \in FrameType /\ f.op = "stop"
  BY <1>1, <1>3 DEF FrameType, Working, Walking, Callers
<1>5. PICK fs : fs = IF InProgress(i) THEN <<Frame("end", i, 0)>> ELSE << >>
  OBVIOUS
<1>6. seqs' = seqs /\ stack' = Replaced(f) \o fs
  BY <1>2, <1>3, <1>5 DEF StopNext
<1>7. Fresh(fs)
  <2>1. CASE InProgress(i)
    BY <1>5, <1>6, <2>1, EndFresh DEF InProgress
  <2>2. CASE ~InProgress(i)
    BY <1>5, <2>2, FreshOnes
  <2> QED BY <2>1, <2>2
<1>8. Quiet
  BY MildSame DEF Quiet, StopNext, slotVars, gameVars, Types
<1> QED BY <1>1, <1>4, <1>6, <1>7, <1>8, PassGoesKeeps DEF Walking

LEMMA StopReturnsKeeps == ASSUME Types, Exclusive, StopReturns PROVE Keeps
<1>1. Top.op = "stop" /\ ~Building(Top) /\ stack' = Below
  BY DEF StopReturns, TopIs, Building, Callers
<1>2. sads' \in Seq(SadType)
  BY EmptySeq DEF StopReturns
<1>3. UNCHANGED <<cur, building, inCombat, running, seqs, inBk>>
  BY DEF StopReturns, slotVars, gameVars
<1>4. Mild(seqs') /\ inBk' \in BOOLEAN
  BY <1>3, MildSame DEF Types
<1> QED BY <1>1, <1>2, <1>3, <1>4, JustReturnsKeeps

\* Nobody comes under way, and nobody animates somebody new.
LEMMA FewerOwners ==
  ASSUME Types, Exclusive, UNCHANGED <<cur, building>>,
         \A i \in 1..Slots : seqs'[i].step # COMPLETE =>
           seqs[i].step # COMPLETE /\ seqs'[i].descs = seqs[i].descs
  PROVE  Exclusive'
<1>1. \A i \in 1..Slots : seqs'[i].step # COMPLETE =>
        seqs[i].step # COMPLETE /\ \A o \in Objects : Owns(i, o)' => Owns(i, o)
  BY DEF Owns
<1>2. OwnersExclusive'
  BY <1>1 DEF OwnersExclusive, Exclusive, InProgress
<1>3. OthersFree'
  <2> SUFFICES ASSUME cur' # 0
               PROVE  /\ ~InProgress(cur)'
                      /\ \A i \in 1..Slots : InProgress(i)' =>
                           ~\E o \in Objects : Registers(o)' /\ Owns(i, o)'
    BY DEF OthersFree
  <2>1. cur' = cur /\ cur \in 1..Slots /\ seqs[cur].step = COMPLETE
    BY DEF Exclusive, OthersFree, InProgress, Types
  <2>2. ~InProgress(cur)'
    BY <1>1, <2>1 DEF InProgress
  <2>3. \A o \in Objects : Registers(o)' => Registers(o)
    BY DEF Registers
  <2> QED BY <1>1, <2>1, <2>2, <2>3 DEF Exclusive, OthersFree, InProgress
<1> QED BY <1>2, <1>3 DEF Exclusive

\* In a set of places there is one of every rank.
LEMMA NthExists ==
  ASSUME NEW m \in Nat, NEW T \in SUBSET (1..m), NEW n \in 1..Cardinality(T)
  PROVE  \E k \in T : Cardinality({j \in T : j <= k}) = n
<1> DEFINE UpTo(k) == {j \in T : j <= k}
           Enough == {k \in Nat : Cardinality(UpTo(k)) >= n}
<1>0. \A j \in T : j \in Nat /\ j > 0 /\ j <= m
  OBVIOUS
<1>1. IsFiniteSet(T) /\ Cardinality(T) \in Nat
  BY CountTo, FS_Subset, FS_CardinalityType
<1>2. \A k \in Nat : IsFiniteSet(UpTo(k)) /\ Cardinality(UpTo(k)) \in Nat
  BY <1>1, FS_Subset, FS_CardinalityType
<1>3. m \in Enough
  <2>1. UpTo(m) = T
    BY <1>0
  <2> QED BY <1>1, <2>1
<1>4. PICK k \in Enough : \A j \in Enough : k <= j
  <2>1. Enough \in SUBSET Nat /\ Enough # {}
    BY <1>3
  <2> HIDE DEF Enough
  <2> QED BY <2>1, Least
<1>5. k \in Nat /\ Cardinality(UpTo(k)) >= n
  BY <1>4
<1>6. k # 0
  <2>1. UpTo(0) = {}
    <3>1. \A j \in T : ~(j <= 0)
      BY <1>0
    <3> QED BY <3>1
  <2>2. Cardinality({}) = 0
    BY FS_EmptySet
  <2> HIDE DEF UpTo
  <2> QED BY <1>1, <1>5, <2>1, <2>2
<1>7. k - 1 \in Nat /\ Cardinality(UpTo(k - 1)) < n
  <2>1. k - 1 \in Nat /\ k - 1 \notin Enough
    <3>1. k - 1 \in Nat /\ ~(k <= k - 1)
      BY <1>5, <1>6
    <3> HIDE DEF Enough
    <3> QED BY <1>4, <3>1
  <2>2. ~(Cardinality(UpTo(k - 1)) >= n)
    BY <2>1
  <2> HIDE DEF UpTo, Enough
  <2> QED BY <1>1, <1>2, <2>1, <2>2
<1>8. k \in T
  <2> SUFFICES ASSUME k \notin T
               PROVE  FALSE
    OBVIOUS
  <2>1. UpTo(k) = UpTo(k - 1)
    <3>1. \A j \in T : j <= k <=> j <= k - 1
      BY <1>0, <1>5
    <3> QED BY <3>1
  <2> HIDE DEF UpTo
  <2> QED BY <1>1, <1>2, <1>5, <1>7, <2>1
<1>9. UpTo(k) = UpTo(k - 1) \cup {k} /\ k \notin UpTo(k - 1)
  <2>1. \A j \in T : j <= k <=> j <= k - 1 \/ j = k
    BY <1>0, <1>5
  <2>2. ~(k <= k - 1) /\ k <= k
    BY <1>5
  <2> QED BY <1>8, <2>1, <2>2
<1>10. Cardinality(UpTo(k)) = Cardinality(UpTo(k - 1)) + 1
  <2> HIDE DEF UpTo
  <2> QED BY <1>2, <1>7, <1>9, FS_AddElement
<1>11. Cardinality(UpTo(k)) = n
  <2> HIDE DEF UpTo
  <2> QED BY <1>1, <1>2, <1>5, <1>7, <1>10
<1> QED BY <1>8, <1>11

LEMMA NthLiveIs ==
  ASSUME Types
  PROVE  /\ Cardinality(LiveSads) \in Nat
         /\ \A n \in 1..Cardinality(LiveSads) : NthLive(n) \in 1..Len(sads)
<1>1. Len(sads) \in Nat /\ LiveSads \in SUBSET (1..Len(sads))
  BY LenProperties DEF Types, LiveSads
<1>2. Cardinality(LiveSads) \in Nat
  BY <1>1, CountTo, FS_Subset, FS_CardinalityType
<1>3. ASSUME NEW n \in 1..Cardinality(LiveSads) PROVE NthLive(n) \in LiveSads
  <2>1. \E k \in LiveSads : Cardinality({j \in LiveSads : j <= k}) = n
    BY <1>1, NthExists
  <2> QED BY <2>1 DEF NthLive
<1> QED BY <1>1, <1>2, <1>3

LEMMA PassReturnsKeeps == ASSUME Types, Exclusive, PassReturns PROVE Keeps
<1>1. Top.op = "animate" /\ ~Building(Top) /\ stack' = Below
  BY DEF PassReturns, TopIs, Building, Callers
<1>2. sads' \in Seq(SadType)
  <2>1. PICK m : m = Cardinality(LiveSads)
    OBVIOUS
  <2>2. m \in Nat /\ \A n \in 1..m : sads[NthLive(n)] \in SadType
    BY <2>1, NthLiveIs, CompletedTyped
  <2>3. sads' \in [1..m -> SadType]
    BY <2>1, <2>2 DEF PassReturns
  <2> QED BY <2>2, <2>3, SeqByIndex
<1>3. ASSUME NEW i \in 1..Slots
      PROVE  /\ seqs'[i] \in SequenceType /\ seqs'[i].step = seqs[i].step
             /\ seqs'[i].descs = seqs[i].descs
             /\ seqs'[i].flags = IF "held" \in seqs[i].flags THEN {} ELSE seqs[i].flags
  <2>1. PICK fl : fl = IF "held" \in seqs[i].flags THEN {} ELSE seqs[i].flags
    OBVIOUS
  <2>2. seqs[i] \in SequenceType /\ fl \in SUBSET Flags
    BY <2>1, MildIs, SequenceParts
  <2>3. seqs'[i] = [seqs[i] EXCEPT !.flags = fl]
    BY <2>1 DEF PassReturns
  <2> QED BY <2>1, <2>2, <2>3 DEF SequenceType
<1>4. seqs' \in [1..Slots -> SequenceType]
  <2>1. PICK g : g = [i \in 1..Slots |-> seqs'[i]]
    OBVIOUS
  <2>2. seqs' = g
    BY <2>1 DEF PassReturns
  <2> QED BY <1>3, <2>1, <2>2
<1>5. UNCHANGED <<cur, building, inCombat, running>> /\ inBk' = FALSE
  BY DEF PassReturns, slotVars, gameVars
<1>6. Exclusive'
  BY <1>3, <1>5, FewerOwners
<1>7. RestTyped
  BY <1>2, <1>5 DEF RestTyped, Types
<1>8. Turns => Mild(seqs')
  BY <1>3, <1>4 DEF Turns, HeldFree, InProgress, Mild, MildFor
<1>9. Turns => FlagsFollow /\ HeldFree' /\ CombatBalanced'
  BY <1>5, <1>8, MildFlags DEF Turns
<1>10. PICK n \in Int : n = Len(stack) - 1
  BY StackParts DEF Types
<1>11. /\ Kept(n, stack') /\ NewFrames(n)
       /\ (Top.op = "turnrun" => running' = 0) => StillWaits(n)
       /\ cur' = cur /\ ~Building(Top) /\ (cur' # 0 => "held" \notin seqs'[cur'].flags)
            => StillBuilds(n)
  <2>1. stack' = Below \o << >>
    BY <1>1, StackParts, ConcatEmptySeq DEF Types
  <2>2. Top.op \notin {"main", "standup"} /\ (Top.op = "turnrun" => Len(<< >>) = 0)
    BY <1>1
  <2> QED BY <1>10, <2>1, <2>2, FreshOnes, ReturnsNew
<1>12. Turns => StillWaits(n) /\ StillBuilds(n)
  <2>1. cur' # 0 => "held" \notin seqs'[cur'].flags
    BY <1>3, <1>5 DEF Types
  <2> QED BY <1>1, <1>5, <1>11, <2>1
<1> QED BY <1>1, <1>4, <1>6, <1>7, <1>9, <1>10, <1>11, <1>12, StepKeeps

-----------------------------------------------------------------------------
(* Building a sequence                                                       *)

\* A caller goes on as f, having begun, added to, or given up a sequence.
LEMMA CallerGoes ==
  ASSUME Types, Exclusive, RestTyped, Mild(seqs'), OthersFree',
         running' = running, inCombat' = inCombat,
         NEW f \in FrameType, stack' = Replaced(f), f.op = Top.op, Top.op \in Callers,
         cur' # 0 => Building(f) /\ (Turns => "held" \notin seqs'[cur'].flags)
  PROVE  Keeps
<1>1. PICK n \in Int : n = Len(stack) - 1
  BY StackParts DEF Types
<1>2. PICK st : st = Replaced(f)
  OBVIOUS
<1>3. st \o << >> = st
  BY <1>2, FreshOnes, Goes DEF Types, Fresh
<1>4. stack' = Replaced(f) \o << >>
  BY <1>2, <1>3
<1>5. Top.op \notin {"finish", "end", "turnrun"}
  BY DEF Callers
<1>6. /\ Kept(n, stack') /\ NewFrames(n) /\ StillWaits(n)
      /\ Len(stack') = Len(stack) /\ stack'[Len(stack')] = f
  BY <1>1, <1>4, <1>5, FreshOnes, GoesNew
<1>7. Turns => StillBuilds(n)
  BY <1>6 DEF StillBuilds
<1>8. Exclusive' /\ seqs' \in [1..Slots -> SequenceType]
  BY MildOwners DEF Exclusive, Mild
<1>9. Turns => FlagsFollow /\ HeldFree' /\ CombatBalanced'
  BY MildFlags DEF Turns
<1> QED BY <1>1, <1>5, <1>6, <1>7, <1>8, <1>9, StepKeeps

\* Flags other than those of combat and of being held.
LEMMA FlagsAdded ==
  ASSUME Types, NEW i \in 1..Slots, NEW more \in SUBSET (Flags \ {"combat", "held"})
  PROVE  /\ Mild([seqs EXCEPT ![i].flags = @ \cup more])
         /\ [seqs EXCEPT ![i].flags = @ \cup more][i].flags = seqs[i].flags \cup more
<1>1. PICK q, fl : q = seqs[i] /\ fl = q.flags \cup more
  OBVIOUS
<1>2. q \in SequenceType /\ fl \in SUBSET Flags
  BY <1>1, MildIs, SequenceParts
<1>3. PICK r : r = [q EXCEPT !.flags = fl]
  OBVIOUS
<1>4. r \in SequenceType /\ r.step = q.step /\ r.descs = q.descs /\ r.flags = fl
  BY <1>2, <1>3 DEF SequenceType
<1>5. MildFor(i, r)
  BY <1>1, <1>4 DEF MildFor
<1>6. [seqs EXCEPT ![i].flags = @ \cup more] = [seqs EXCEPT ![i] = r]
  BY <1>1, <1>3
<1>7. [seqs EXCEPT ![i] = r][i] = r
  BY DEF Types
<1> QED BY <1>1, <1>4, <1>5, <1>6, <1>7, MildOne

LEMMA OpenOnes ==
  ASSUME Types, NEW pinging \in BOOLEAN, Open(pinging) # {}
  PROVE  /\ FreeSlot(pinging) \in 1..Slots /\ ~InProgress(FreeSlot(pinging))
         /\ "held" \notin seqs[FreeSlot(pinging)].flags
<1>1. Open(pinging) \in SUBSET Nat
  BY DEF Open
<1>2. FreeSlot(pinging) \in Open(pinging)
  BY <1>1, Least DEF FreeSlot
<1> QED BY <1>2 DEF Open, Taken

LEMMA BeginPartKeeps ==
  ASSUME Types, Exclusive, Top.op \in Callers, NEW plan \in Seq(PartType), plan # << >>,
         CanBegin(Head(plan)), NEW attack, BeginPart(plan, attack)
  PROVE  Keeps
<1>1. PICK p : p = Head(plan)
  OBVIOUS
<1>2. p.request \in Requests
  <2>1. p \in PartType
    BY <1>1, HeadTailProperties
  <2> QED BY <2>1 DEF PartType
<1>3. PICK i : i = IF cur # 0 THEN cur ELSE FreeSlot(FALSE)
  OBVIOUS
<1>4. PICK fresh, priority : /\ fresh = IF cur # 0 THEN {} ELSE {"accumulating"} \cup p.request
                             /\ priority = IF p.priority THEN {"prioritized"} ELSE {}
  OBVIOUS
<1>5. /\ i \in 1..Slots /\ ~InProgress(i)
      /\ cur = 0 => "held" \notin seqs[i].flags
  <2>1. CASE cur # 0
    BY <1>3, <2>1 DEF Exclusive, OthersFree, Types
  <2>2. CASE cur = 0
    <3>1. Open(FALSE) # {}
      BY <2>2 DEF CanBegin, CanFreeSlot
    <3> QED BY <1>3, <2>2, <3>1, OpenOnes
  <2> QED BY <2>1, <2>2
<1>6. PICK more : more = fresh \cup priority
  OBVIOUS
<1>7. more \in SUBSET (Flags \ {"combat", "held"})
  BY <1>2, <1>4, <1>6 DEF Flags, Requests
<1>8. /\ seqs' = [seqs EXCEPT ![i].flags = @ \cup more]
      /\ cur' = i /\ building' = IF cur # 0 THEN building ELSE << >>
      /\ stack' = BeginCalls(plan, attack)
      /\ UNCHANGED <<sads, inBk, inStop, ret, gameVars>>
  <2>1. seqs' = [seqs EXCEPT ![i].flags = @ \cup fresh \cup priority]
    BY <1>1, <1>3, <1>4 DEF BeginPart
  <2>2. \A a : a \cup fresh \cup priority = a \cup more
    BY <1>6
  <2>3. seqs' = [seqs EXCEPT ![i].flags = @ \cup more]
    BY <2>1, <2>2
  <2> QED BY <1>1, <1>3, <2>3 DEF BeginPart
<1>9. Mild(seqs') /\ seqs'[i].flags = seqs[i].flags \cup more
  BY <1>5, <1>7, <1>8, FlagsAdded
<1>10. OthersFree'
  <2>1. CASE cur # 0
    <3>1. cur' = cur /\ \A o \in Objects : Registers(o)' => Registers(o)
      BY <1>3, <1>8, <2>1 DEF Registers
    <3> QED BY <1>9, <3>1, MildOwners
  <2>2. CASE cur = 0
    <3>1. building' = << >> /\ Len(<< >>) = 0
      BY <1>8, <2>2
    <3>2. \A o : ~Registers(o)'
      BY <3>1 DEF Registers
    <3>3. ~InProgress(cur)'
      BY <1>5, <1>8, <1>9 DEF InProgress, Mild, MildFor
    <3> QED BY <3>2, <3>3 DEF OthersFree
  <2> QED BY <2>1, <2>2
<1>11. Turns => "held" \notin seqs'[cur'].flags
  <2>1. Turns /\ cur # 0 => "held" \notin seqs[i].flags
    BY <1>3 DEF Turns, SomeoneBuilds
  <2> QED BY <1>5, <1>7, <1>8, <1>9, <2>1
<1>12. RestTyped
  BY <1>5, <1>8, EmptySeq DEF RestTyped, Types, gameVars
<1>13. PICK place : place = IF Top.op = "main" THEN (IF attack THEN 1 ELSE 0) ELSE Top.slot
  OBVIOUS
<1>14. PICK f : f = [Top EXCEPT !.at = 1, !.plan = plan, !.slot = place]
  OBVIOUS
<1>15. f \in FrameType /\ f.op = Top.op /\ Building(f)
  <2>1. Top \in FrameType
    BY StackParts DEF Types
  <2>2. place \in Nat /\ (Top.op \in Working => place \in 1..Slots)
    BY <1>13, <2>1, FrameParts DEF Working
  <2>3. /\ f \in [op : Ops, slot : Nat, at : Nat, plan : Seq(PartType)]
        /\ f.op = Top.op /\ f.slot = place /\ f.at = 1 /\ f.plan = plan
    BY <1>14, <2>1, <2>2 DEF FrameType
  <2>4. f.op \notin Walking
    BY <2>3 DEF Callers, Walking
  <2> QED BY <2>2, <2>3, <2>4 DEF FrameType, Building
<1>16. stack' = Replaced(f)
  BY <1>8, <1>13, <1>14 DEF BeginCalls
<1>17. running' = running /\ inCombat' = inCombat
  BY <1>8 DEF gameVars
<1> QED BY <1>9, <1>10, <1>11, <1>12, <1>15, <1>16, <1>17, CallerGoes

LEMMA BeginKeeps == ASSUME Types, Exclusive, NEW plan \in Plans, Begin(plan) PROVE Keeps
<1>1. Top.op \in Callers
  BY DEF Begin, AtLeisure, Caller, Callers
<1>2. plan \in Seq(PartType) /\ plan # << >>
  BY AnimationConstants DEF PartType
<1> QED BY <1>1, <1>2, BeginPartKeeps DEF Begin

LEMMA BeginNextKeeps == ASSUME Types, Exclusive, BeginNext PROVE Keeps
<1>1. Top.op \in Callers
  BY DEF BeginNext, Caller, Callers
<1>2. Top.plan \in Seq(PartType)
  BY StackParts, FrameParts DEF Types
<1> QED BY <1>1, <1>2, BeginPartKeeps DEF BeginNext

\* The description registered next.
LEMMA UpcomingIs ==
  ASSUME Types, Pending
  PROVE  Upcoming \in Desc
<1>1. PICK ds : ds = Head(Top.plan).descs
  OBVIOUS
<1>2. ds \in Seq(Desc) /\ ds # << >>
  BY <1>1, PlanParts DEF Pending
<1> QED BY <1>1, <1>2, HeadTailProperties DEF Upcoming

\* One more description is of somebody no other sequence in progress animates.
LEMMA RegistersOne ==
  ASSUME Types, Exclusive, Mild(seqs'), cur # 0, cur' = cur,
         NEW o, Rivals(o) = {}, NEW d \in Description, d.owner = o,
         building' = Append(building, d)
  PROVE  OthersFree' /\ building' \in Seq(Description)
<1>1. /\ building' \in Seq(Description) /\ Len(building) \in Nat
      /\ Len(building') = Len(building) + 1
      /\ \A k \in 1..Len(building') :
           building'[k] = IF k <= Len(building) THEN building[k] ELSE d
  BY LenProperties, AppendProperties DEF Types
<1>2. \A x : Registers(x)' => Registers(x) \/ x = o
  BY <1>1 DEF Registers
<1>3. \A i \in 1..Slots :
        /\ seqs'[i].step # COMPLETE => InProgress(i)
        /\ \A x \in Objects : Owns(i, x)' => Owns(i, x)
  BY DEF Mild, MildFor, Owns, OwnedIn, InProgress
<1>4. ~InProgress(cur)'
  BY <1>3 DEF Exclusive, OthersFree, InProgress, Types
<1>5. ASSUME NEW i \in 1..Slots, InProgress(i)', NEW x \in Objects, Registers(x)', Owns(i, x)'
      PROVE  FALSE
  <2>1. InProgress(i) /\ Owns(i, x) /\ i # cur
    BY <1>3, <1>5 DEF InProgress, Exclusive, OthersFree
  <2>2. CASE Registers(x)
    BY <2>1, <2>2 DEF Exclusive, OthersFree
  <2>3. CASE x = o
    <3>1. o # NIL
      BY <1>5, <2>3, AnimationConstants
    <3> QED BY <2>1, <2>3, <3>1 DEF Rivals
  <2> QED BY <1>2, <1>5, <2>2, <2>3
<1> QED BY <1>1, <1>4, <1>5 DEF OthersFree

LEMMA RegisterKeeps == ASSUME Types, Exclusive, Register PROVE Keeps
<1>1. PICK f \in FrameType : stack' = Replaced(f) /\ f.op = Top.op /\ Building(f)
  BY PlannedIs DEF Register
<1>2. Top.op \in Callers /\ Upcoming \in Desc
  BY PlanParts, UpcomingIs DEF Register, Pending
<1>3. /\ cur # 0 /\ cur' = cur /\ Rivals(Upcoming.owner) = {}
      /\ UNCHANGED <<sads, inBk, gameVars>>
  BY DEF Register
<1>4. Mild(seqs') /\ OthersFree' /\ building' \in Seq(Description)
  <2>1. CASE Upcoming.kind # "ping"
    <3>1. building' = Append(building, Upcoming) /\ seqs' = seqs
      BY <2>1 DEF Register
    <3>2. Upcoming \in Description
      BY <1>2, <2>1 DEF Description
    <3>3. Mild(seqs')
      BY <3>1, MildSame
    <3> QED BY <1>3, <3>1, <3>2, <3>3, RegistersOne
  <2>2. CASE Upcoming.kind = "ping" /\ CanFreeSlot({"reserved"}, TRUE)
    <3>1. PICK i : i = FreeSlot(TRUE)
      OBVIOUS
    <3>2. /\ building' = Append(building, [Upcoming EXCEPT !.target = i])
          /\ seqs' = [seqs EXCEPT ![i].flags = {"waiting"}]
      BY <2>2, <3>1 DEF Register
    <3>3. i \in 1..Slots /\ ~InProgress(i)
      BY <2>2, <3>1, OpenOnes DEF CanFreeSlot
    <3>4. PICK d : d = [Upcoming EXCEPT !.target = i]
      OBVIOUS
    <3>5. d \in Description /\ d.owner = Upcoming.owner
      <4>1. i \in 0..Slots
        BY <3>3, AnimationConstants
      <4>2. d \in Desc /\ d.target = i /\ d.owner = Upcoming.owner
        BY <1>2, <3>4, <4>1 DEF Desc
      <4> QED BY <3>3, <4>2 DEF Description
    <3>6. PICK q : q = [seqs[i] EXCEPT !.flags = {"waiting"}]
      OBVIOUS
    <3>7. q \in SequenceType /\ q.step = seqs[i].step /\ q.flags = {"waiting"}
          /\ q.descs = seqs[i].descs
      <4>1. seqs[i] \in SequenceType /\ {"waiting"} \in SUBSET Flags
        BY <3>3, MildIs DEF Flags
      <4> QED BY <3>6, <4>1 DEF SequenceType
    <3>8. MildFor(i, q)
      BY <3>3, <3>7 DEF MildFor, InProgress
    <3>9. Mild(seqs')
      BY <3>2, <3>3, <3>6, <3>8, MildOne
    <3> QED BY <1>3, <3>2, <3>4, <3>5, <3>9, RegistersOne
  <2>3. CASE Upcoming.kind = "ping" /\ ~CanFreeSlot({"reserved"}, TRUE)
    <3>1. building' = building /\ seqs' = seqs
      BY <2>3 DEF Register
    <3>2. Mild(seqs') /\ \A o \in Objects : Registers(o)' => Registers(o)
      BY <3>1, MildSame DEF Registers
    <3> QED BY <1>3, <3>1, <3>2, MildOwners DEF Types
  <2> QED BY <2>1, <2>2, <2>3
<1>5. RestTyped
  BY <1>3, <1>4 DEF RestTyped, Types, gameVars
<1>6. Turns => "held" \notin seqs'[cur'].flags
  BY <1>3, <1>4 DEF Turns, SomeoneBuilds, Mild, MildFor, Types
<1>7. running' = running /\ inCombat' = inCombat
  BY <1>3 DEF gameVars
<1> QED BY <1>1, <1>2, <1>4, <1>5, <1>6, <1>7, CallerGoes

LEMMA RegisterFailsKeeps == ASSUME Types, Exclusive, RegisterFails PROVE Keeps
<1>1. PICK f \in FrameType : stack' = Replaced(f) /\ f.op = Top.op /\ Building(f)
  BY PlannedIs DEF RegisterFails
<1>2. Top.op \in Callers
  BY PlanParts DEF RegisterFails, Pending
<1>3. cur' = 0 /\ building' = << >> /\ UNCHANGED <<sads, inBk, gameVars>>
  BY DEF RegisterFails
<1>4. ASSUME NEW i \in 1..Slots
      PROVE  MildFor(i, seqs'[i]) /\ seqs'[i] \in SequenceType
  <2>1. seqs'[i] = [seqs[i] EXCEPT !.flags = @ \ {"accumulating", "waiting"}]
    BY DEF RegisterFails, CleanedFlags
  <2>2. PICK q : q = seqs[i]
    OBVIOUS
  <2>3. MildFor(i, q)
    BY <2>2, MildIs
  <2>4. MildFor(i, [q EXCEPT !.flags = @ \ {"accumulating", "waiting"}])
    BY <2>3, Counters
  <2>5. MildFor(i, seqs'[i])
    BY <2>1, <2>2, <2>4
  <2> QED BY <2>5 DEF MildFor
<1>5. Mild(seqs')
  <2>1. PICK g : g = [i \in 1..Slots |-> seqs'[i]]
    OBVIOUS
  <2>2. seqs' = g
    BY <2>1 DEF RegisterFails
  <2>3. seqs' \in [1..Slots -> SequenceType]
    BY <1>4, <2>1, <2>2
  <2> QED BY <1>4, <2>3 DEF Mild
<1>6. OthersFree'
  BY <1>3 DEF OthersFree
<1>7. RestTyped
  BY <1>3, EmptySeq, AnimationConstants DEF RestTyped, Types, gameVars
<1>8. running' = running /\ inCombat' = inCombat
  BY <1>3 DEF gameVars
<1> QED BY <1>1, <1>2, <1>3, <1>5, <1>6, <1>7, <1>8, CallerGoes

\* A sequence that starts: it is of what was registered.
LEMMA StartedIs ==
  ASSUME Types, NEW i \in 1..Slots
  PROVE  /\ Started(i) \in SequenceType /\ Started(i).step = 0 /\ Started(i).step # COMPLETE
         /\ Started(i).flags = StartFlags(i)
         /\ \A o : OwnedIn(Started(i).descs, o) => Registers(o)
<1>1. StartFlags(i) \in SUBSET Flags
  BY MildIs, SequenceParts DEF StartFlags, Flags
<1>2. PICK ds : ds = IF building = << >> THEN << >> ELSE [building EXCEPT ![1].delay = 0]
  OBVIOUS
<1>3. ds \in Seq(Description) /\ \A o : OwnedIn(ds, o) => Registers(o)
  <2>1. CASE building = << >>
    <3>1. ds = << >> /\ Len(<< >>) = 0
      BY <1>2, <2>1
    <3> QED BY <3>1, EmptySeq DEF OwnedIn
  <2>2. CASE building # << >>
    <3>1. /\ building \in Seq(Description) /\ 1 \in 1..Len(building)
          /\ Len(building) \in Nat
      BY <2>2, EmptySeq, LenProperties DEF Types
    <3>2. PICK b, d : b = building[1] /\ d = [b EXCEPT !.delay = 0]
      OBVIOUS
    <3>3. b \in Description
      BY <3>1, <3>2, ElementOfSeq
    <3>4. d \in Description /\ d.owner = b.owner /\ d.kind = b.kind
      BY <3>2, <3>3, DelayChanged
    <3>5. ds = [building EXCEPT ![1] = d]
      BY <1>2, <2>2, <3>2
    <3>6. /\ ds \in Seq(Description) /\ Len(ds) = Len(building)
          /\ \A k \in 1..Len(building) : ds[k] = IF k = 1 THEN d ELSE building[k]
      BY <3>1, <3>4, <3>5, ExceptSeq
    <3>7. ASSUME NEW o, OwnedIn(ds, o) PROVE Registers(o)
      <4>1. PICK k \in 1..Len(building) : ds[k].owner = o /\ ds[k].kind # "callback"
        BY <3>6, <3>7 DEF OwnedIn, IsCallback
      <4>2. ds[k].owner = building[k].owner /\ ds[k].kind = building[k].kind
        BY <3>2, <3>4, <3>6
      <4> QED BY <4>1, <4>2 DEF Registers, IsCallback
    <3> QED BY <3>6, <3>7
  <2> QED BY <2>1, <2>2
<1>4. PICK idx \in {-1, 0} : idx = IF Waits(i) THEN -1 ELSE 0
  OBVIOUS
<1>5. Started(i) = [step |-> 0, idx |-> idx, flags |-> StartFlags(i), descs |-> ds]
  BY <1>2, <1>4 DEF Started
<1>6. 0 # COMPLETE
  BY DEF COMPLETE
<1> QED BY <1>1, <1>3, <1>5, <1>6 DEF SequenceType

\* The sequences that count, when one starts.
LEMMA CountedStarts ==
  ASSUME Types, Exclusive, Turns, cur # 0,
         seqs' = [seqs EXCEPT ![cur] = Started(cur)],
         running' = IF inCombat THEN running + 1 ELSE running, inCombat' = inCombat
  PROVE  FlagsFollow /\ HeldFree' /\ CombatBalanced'
<1>1. PICK i \in 1..Slots : i = cur
  BY DEF Types
<1>2. ~InProgress(i) /\ "held" \notin seqs[i].flags
  BY <1>1 DEF Exclusive, OthersFree, Turns, SomeoneBuilds
<1>3. /\ seqs'[i].step # COMPLETE
      /\ seqs'[i].flags = (seqs[i].flags \ {"accumulating"})
                            \cup (IF inCombat THEN {"combat"} ELSE {})
      /\ \A j \in 1..Slots : j # i => seqs'[j] = seqs[j]
  BY <1>1, StartedIs DEF StartFlags, Types
<1>4. "combat" \in seqs'[i].flags <=> inCombat
  BY <1>3 DEF Turns, FlagsKnown, CombatFlagged
<1>5. \A j \in 1..Slots : Finishing(j) =>
        inCombat /\ (seqs[j].step # COMPLETE => "combat" \in seqs[j].flags)
  BY DEF Turns, FinishesWait, Finishing, InProgress, CombatFlagged
<1>6. FlagsFollow
  BY <1>3, <1>4, <1>5 DEF FlagsFollow, Turns, FlagsKnown, InProgress, CombatFlagged
<1>7. HeldFree'
  BY <1>2, <1>3 DEF HeldFree, Turns, InProgress
<1>8. ASSUME inCombat PROVE CombatBalanced'
  <2>1. Counted' = Counted \cup {i} /\ i \notin Counted
    BY <1>2, <1>3, <1>4, <1>8 DEF Counted, InProgress, CombatFlagged
  <2>2. running' = Cardinality(Counted) + 1
    BY <1>8, CountedFinite DEF Turns
  <2>3. Cardinality(Counted \cup {i}) = Cardinality(Counted) + 1
    BY <2>1, CountedFinite, FS_AddElement
  <2>4. running' = Cardinality(Counted')
    BY <2>1, <2>2, <2>3
  <2> QED BY <2>4 DEF CombatBalanced, Counted
<1>9. ASSUME ~inCombat PROVE CombatBalanced'
  <2>1. \A j \in 1..Slots :
          (seqs'[j].step # COMPLETE /\ "combat" \in seqs'[j].flags)
            <=> (InProgress(j) /\ CombatFlagged(j))
    BY <1>2, <1>3, <1>4, <1>9 DEF InProgress, CombatFlagged
  <2> QED BY <1>9, <2>1, CountedSame DEF Turns
<1> QED BY <1>6, <1>7, <1>8, <1>9

LEMMA StartedExclusive ==
  ASSUME Types, Exclusive, cur # 0, seqs' = [seqs EXCEPT ![cur] = Started(cur)], cur' = 0
  PROVE  Exclusive' /\ seqs' \in [1..Slots -> SequenceType] /\ seqs'[cur].step # COMPLETE
<1>1. PICK i \in 1..Slots : i = cur
  BY DEF Types
<1>2. /\ seqs' \in [1..Slots -> SequenceType] /\ seqs'[i].step # COMPLETE
      /\ \A o : Owns(i, o)' => Registers(o)
      /\ \A j \in 1..Slots : j # i => /\ InProgress(j)' <=> InProgress(j)
                                      /\ \A o : Owns(j, o)' <=> Owns(j, o)
  <2>1. seqs'[i] = Started(i) /\ \A j \in 1..Slots : j # i => seqs'[j] = seqs[j]
    BY <1>1 DEF Types
  <2>2. seqs' \in [1..Slots -> SequenceType]
    BY <1>1, StartedIs DEF Types
  <2>3. \A o : Owns(i, o)' <=> OwnedIn(Started(i).descs, o)
    BY <2>1 DEF Owns, OwnedIn
  <2>4. seqs'[i].step # COMPLETE /\ \A o : Owns(i, o)' => Registers(o)
    BY <2>1, <2>3, StartedIs
  <2> QED BY <2>1, <2>2, <2>4 DEF Owns, InProgress
<1>3. OwnersExclusive'
  <2> SUFFICES ASSUME NEW k \in 1..Slots, NEW j \in 1..Slots, k # j, InProgress(k)', InProgress(j)',
                      NEW o \in Objects, Owns(k, o)', Owns(j, o)'
               PROVE  FALSE
    BY DEF OwnersExclusive
  <2>1. CASE k = i
    BY <1>1, <1>2, <2>1 DEF Exclusive, OthersFree
  <2>2. CASE j = i
    BY <1>1, <1>2, <2>2 DEF Exclusive, OthersFree
  <2>3. CASE k # i /\ j # i
    BY <1>2, <2>3 DEF Exclusive, OwnersExclusive
  <2> QED BY <2>1, <2>2, <2>3
<1>4. OthersFree'
  BY DEF OthersFree
<1> QED BY <1>1, <1>2, <1>3, <1>4 DEF Exclusive

LEMMA CallerFrameGoes ==
  ASSUME NEW g \in FrameType, g.op \in Callers, NEW plan \in Seq(PartType), NEW at \in {0, 2},
         NEW f, f = [g EXCEPT !.at = at, !.plan = plan]
  PROVE  f \in FrameType /\ f.op = g.op
<1>0. g \in [op : Ops, slot : Nat, at : Nat, plan : Seq(PartType)] /\ at \in Nat /\ at # 1
  BY DEF FrameType
<1>1. /\ f \in [op : Ops, slot : Nat, at : Nat, plan : Seq(PartType)]
      /\ f.op = g.op /\ f.slot = g.slot /\ f.at = at
  BY <1>0
<1>2. f.op \notin Walking
  BY <1>1 DEF Callers, Walking
<1>3. f.op \in Working => f.slot \in 1..Slots
  BY <1>1, FrameParts
<1> QED BY <1>0, <1>1, <1>2, <1>3 DEF FrameType

LEMMA RegisterEndKeeps == ASSUME Types, Exclusive, RegisterEnd PROVE Keeps
<1>1. /\ Top \in FrameType /\ Top.op \in Callers
      /\ Top.plan \in Seq(PartType) /\ Tail(Top.plan) \in Seq(PartType)
  BY PlanParts DEF RegisterEnd
<1>2. UNCHANGED <<sads, inBk, inCombat>>
  BY DEF RegisterEnd
<1>3. CASE cur = 0
  <2>1. /\ UNCHANGED <<seqs, cur, building, running>>
        /\ stack' = Replaced([Top EXCEPT !.at = 0, !.plan = << >>])
    BY <1>3 DEF RegisterEnd
  <2>2. PICK f : f = [Top EXCEPT !.at = 0, !.plan = << >>]
    OBVIOUS
  <2>3. f \in FrameType /\ f.op = Top.op
    <3>1. << >> \in Seq(PartType)
      BY EmptySeq
    <3>2. PICK p \in Seq(PartType) : p = << >>
      BY <3>1
    <3>3. f = [Top EXCEPT !.at = 0, !.plan = p] /\ 0 \in {0, 2}
      BY <2>2, <3>2
    <3>4. Top \in FrameType /\ Top.op \in Callers
      BY <1>1
    <3> QED BY <3>3, <3>4, CallerFrameGoes, ZenonT(60)
  <2>4. Mild(seqs') /\ OthersFree'
    BY <1>3, <2>1, MildSame DEF OthersFree
  <2>5. RestTyped
    BY <1>2, <2>1 DEF RestTyped, Types
  <2> QED BY <1>1, <1>2, <1>3, <2>1, <2>2, <2>3, <2>4, <2>5, CallerGoes
<1>4. CASE cur # 0
  <2>1. PICK i \in 1..Slots : i = cur
    BY <1>4 DEF Types
  <2>2. PICK f : f = [Top EXCEPT !.at = 2, !.plan = Tail(Top.plan)]
    OBVIOUS
  <2>3. f \in FrameType /\ f.op = Top.op
    <3>1. PICK p \in Seq(PartType) : p = Tail(Top.plan)
      BY <1>1
    <3>2. f = [Top EXCEPT !.at = 2, !.plan = p] /\ 2 \in {0, 2}
      BY <2>2, <3>1
    <3>3. Top \in FrameType /\ Top.op \in Callers
      BY <1>1
    <3> QED BY <3>2, <3>3, CallerFrameGoes, ZenonT(60)
  <2>4. PICK e, r : e = Frame("end", i, 0) /\ r = Frame("run", i, 0)
    OBVIOUS
  <2>5. PICK fs \in {<< >>, <<e>>, <<r>>} :
          fs = IF Waits(i) THEN << >> ELSE IF building = << >> THEN <<e>> ELSE <<r>>
    OBVIOUS
  <2>6. /\ seqs' = [seqs EXCEPT ![cur] = Started(cur)]
        /\ running' = IF inCombat THEN running + 1 ELSE running
        /\ cur' = 0 /\ building' = << >> /\ inCombat' = inCombat
    BY <1>2, <1>4 DEF RegisterEnd
  <2>7. stack' = Replaced(f) \o fs
    BY <1>4, <2>1, <2>2, <2>4, <2>5 DEF RegisterEnd
  <2>8. Exclusive' /\ seqs' \in [1..Slots -> SequenceType] /\ seqs'[i].step # COMPLETE
    BY <1>4, <2>1, <2>6, StartedExclusive
  <2>9. Fresh(fs)
    <3>1. Fresh(<<e>>)
      BY <2>4, <2>8, EndFresh
    <3>2. r \in FrameType /\ r.op = "run"
      <4>1. i \in Nat
        OBVIOUS
      <4> QED BY <2>4, <4>1, FrameIs DEF Ops, Working, Walking
    <3>3. Fresh(<<r>>)
      BY <3>2, FreshOnes
    <3> QED BY <2>5, <3>1, <3>3, FreshOnes
  <2>10. RestTyped
    BY <1>2, <2>6, EmptySeq, AnimationConstants DEF RestTyped, Types
  <2>11. PICK n \in Int : n = Len(stack) - 1
    BY StackParts DEF Types
  <2>12. Kept(n, stack') /\ NewFrames(n) /\ StillWaits(n)
    <3>1. Top.op \notin {"finish", "end", "turnrun"}
      BY <1>1 DEF Callers
    <3> QED BY <2>3, <2>7, <2>9, <2>11, <3>1, GoesNew
  <2>13. StillBuilds(n)
    BY <2>6 DEF StillBuilds
  <2>14. Turns => FlagsFollow /\ HeldFree' /\ CombatBalanced'
    BY <1>4, <2>6, CountedStarts
  <2>15. Top.op # "finish"
    BY <1>1 DEF Callers
  <2> QED BY <2>8, <2>10, <2>11, <2>12, <2>13, <2>14, <2>15, StepKeeps
<1> QED BY <1>3, <1>4

-----------------------------------------------------------------------------
(* The ends of combat                                                        *)

LEMMA StopCallsIs ==
  ASSUME Types, StopCalls
  PROVE  \E fs : Fresh(fs) /\ stack' = Calling(fs)
<1>1. PICK f : f = Frame("stop", 0, 1)
  OBVIOUS
<1>2. f \in FrameType /\ f.op = "stop"
  BY <1>1, FrameIs DEF Ops, Working, Walking
<1>3. Fresh(<<f>>)
  BY <1>2, FreshOnes
<1> QED BY <1>1, <1>3 DEF StopCalls

\* Whoever stops everything gives up what it was building.
LEMMA StoppingKeeps ==
  ASSUME Types, Exclusive, StopCalls, Stopping, Top.op # "finish",
         UNCHANGED <<seqs, sads, inBk>>, inCombat' \in BOOLEAN, inCombat => inCombat',
         Turns => CombatBalanced'
  PROVE  Keeps
<1>1. PICK fs : Fresh(fs) /\ stack' = Calling(fs)
  BY StopCallsIs
<1>2. PICK n \in Int : n = Len(stack)
  BY StackParts DEF Types
<1>3. Kept(n, stack') /\ NewFrames(n) /\ StillWaits(n)
  BY <1>1, <1>2, CallsNew
<1>4. cur' = 0 /\ building' = << >>
  BY DEF Stopping
<1>5. StillBuilds(n)
  BY <1>4 DEF StillBuilds
<1>6. RestTyped /\ seqs' \in [1..Slots -> SequenceType]
  BY <1>4, EmptySeq, AnimationConstants DEF RestTyped, Types
<1>7. Exclusive'
  <2>1. Mild(seqs')
    BY MildSame
  <2> QED BY <1>4, <2>1, MildOwners DEF Exclusive
<1>8. Turns => FlagsFollow
  BY DEF Turns, FlagsFollow, FlagsKnown, FinishesWait, Finishing, InProgress, CombatFlagged
<1>9. Turns => HeldFree'
  BY DEF Turns, HeldFree, InProgress
<1> QED BY <1>2, <1>3, <1>5, <1>6, <1>7, <1>8, <1>9, StepKeeps

LEMMA StopKeeps == ASSUME Types, Exclusive, Stop PROVE Keeps
<1>1. /\ Top.op # "finish" /\ StopCalls /\ Stopping /\ UNCHANGED <<seqs, sads, inBk>>
      /\ inCombat' = inCombat /\ running' = running
  BY DEF Stop, AtRoot, TopIs, gameVars
<1>2. Turns => CombatBalanced'
  BY <1>1 DEF Turns, CombatBalanced, InProgress, CombatFlagged
<1> QED BY <1>1, <1>2, StoppingKeeps DEF Types

LEMMA CombatBeginKeeps == ASSUME Types, Exclusive, CombatBegin PROVE Keeps
<1>1. /\ Top.op # "finish" /\ StopCalls /\ Stopping /\ UNCHANGED <<seqs, sads, inBk>>
      /\ inCombat' = TRUE /\ ~inCombat /\ running' = 0
  BY DEF CombatBegin, AtRoot, TopIs
<1>2. ASSUME Turns PROVE CombatBalanced'
  <2>1. {i \in 1..Slots : seqs'[i].step # COMPLETE /\ "combat" \in seqs'[i].flags} = {}
    BY <1>1, <1>2 DEF Turns, FlagsKnown, CombatFlagged
  <2> QED BY <1>1, <2>1, FS_EmptySet DEF CombatBalanced, InProgress, CombatFlagged
<1> QED BY <1>1, <1>2, StoppingKeeps

LEMMA CombatOverKeeps == ASSUME Types, Exclusive, CombatOver PROVE Keeps
<1>1. /\ UNCHANGED <<seqs, cur, building, sads, inBk, stack, running>> /\ inCombat' = FALSE
      /\ Top.op = "main" /\ running <= 0
  BY DEF CombatOver, AtRoot, TopIs, slotVars
<1>2. Types'
  BY <1>1 DEF Types, OneMain
<1>3. Exclusive'
  BY <1>1, FewerOwners
<1>4. Len(stack) = 1 /\ stack[1].op = "main"
  BY <1>1, StackParts DEF Types, OneMain
<1>5. ASSUME Turns PROVE Turns'
  <2>1. \A k \in 1..Len(stack) : stack[k].op = "main"
    BY <1>4
  <2>2. \A i \in 1..Slots : ~Finishing(i)
    BY <2>1 DEF Finishing
  <2>3. running = 0 /\ Cardinality(Counted) = 0
    BY <1>1, <1>5, CountedFinite DEF Turns
  <2>4. Counted = {}
    BY <2>3, CountedFinite, FS_EmptySet
  <2>5. \A i \in 1..Slots : ~CombatFlagged(i)
    BY <1>5, <2>2, <2>4 DEF Turns, FlagsKnown, Counted
  <2>6. FlagsKnown'
    BY <1>1, <2>5 DEF FlagsKnown, CombatFlagged
  <2>7. FinishesWait' /\ EndsKnown'
    BY <1>1, <2>1 DEF FinishesWait, EndsKnown
  <2>8. HeldFree' /\ SomeoneBuilds'
    BY <1>1, <1>5 DEF Turns, HeldFree, SomeoneBuilds, BuiltBy, InProgress
  <2>9. CombatBalanced'
    BY <1>1, <1>5 DEF Turns, CombatBalanced, InProgress, CombatFlagged
  <2> QED BY <2>6, <2>7, <2>8, <2>9 DEF Turns
<1> QED BY <1>2, <1>3, <1>5 DEF Keeps

-----------------------------------------------------------------------------
(* The end of a sequence, and of a turn                                      *)

\* What is being built is not being ended.
LEMMA NotBuilt ==
  ASSUME Types, SomeoneBuilds, cur # 0, Top.op \in {"end", "finish"}
  PROVE  Top.slot # cur
<1>1. Len(stack) \in Nat /\ Len(stack) > 0 /\ Top = stack[Len(stack)]
  BY StackParts DEF Types
<1>2. PICK k \in 1..Len(stack) : BuiltBy(k)
  BY DEF SomeoneBuilds
<1>3. k # Len(stack)
  BY <1>1, <1>2 DEF BuiltBy, Callers
<1>4. Len(stack) \in (k + 1)..Len(stack)
  BY <1>1, <1>3
<1> QED BY <1>1, <1>2, <1>4 DEF BuiltBy

\* A slot that is freed: its sequence counts no more, if it did.
LEMMA FreedIs ==
  ASSUME Types, NEW i \in 1..Slots, NEW flags \in SUBSET Flags, seqs' = Emptied(i, flags)
  PROVE  /\ seqs' \in [1..Slots -> SequenceType]
         /\ seqs'[i].step = COMPLETE /\ seqs'[i].flags = flags
         /\ \A j \in 1..Slots : j # i => seqs'[j] = seqs[j]
<1>1. PICK q : q = [step |-> COMPLETE, idx |-> -1, descs |-> << >>, flags |-> flags]
  OBVIOUS
<1>2. q \in SequenceType /\ q.step = COMPLETE /\ q.flags = flags
  <2>1. << >> \in Seq(Description)
    BY EmptySeq
  <2> QED BY <1>1, <2>1 DEF SequenceType
<1>3. seqs' = [seqs EXCEPT ![i] = q]
  BY <1>1 DEF Emptied
<1> QED BY <1>2, <1>3 DEF Types

LEMMA CountedEnds ==
  ASSUME Types, CombatBalanced, NEW i \in 1..Slots, seqs'[i].step = COMPLETE,
         \A j \in 1..Slots : j # i => seqs'[j] = seqs[j],
         InProgress(i) \/ ~CombatFlagged(i), running' = Finished(i)
  PROVE  CombatBalanced'
<1>1. Counted' = Counted \ {i}
  BY DEF Counted, InProgress, CombatFlagged
<1>2. CASE CombatFlagged(i)
  <2>1. i \in Counted
    BY <1>2 DEF Counted
  <2>2. Cardinality(Counted \ {i}) = Cardinality(Counted) - 1
    BY <2>1, CountedFinite, FS_RemoveElement
  <2>3. running' = Cardinality(Counted) - 1
    BY <1>2, CountedFinite DEF Finished
  <2>4. running' = Cardinality(Counted')
    BY <1>1, <2>2, <2>3
  <2> QED BY <2>4 DEF CombatBalanced, Counted
<1>3. CASE ~CombatFlagged(i)
  <2>1. Counted' = Counted
    BY <1>1, <1>3 DEF Counted
  <2>2. running' = Cardinality(Counted)
    BY <1>3, CountedFinite DEF Finished
  <2>3. running' = Cardinality(Counted')
    BY <2>1, <2>2
  <2> QED BY <2>3 DEF CombatBalanced, Counted
<1> QED BY <1>2, <1>3

\* The sequence being ended by the top frame counts, if it is flagged.
LEMMA TopEnds ==
  ASSUME Types, EndsKnown, Top.op = "end"
  PROVE  InProgress(Top.slot) \/ ~CombatFlagged(Top.slot)
<1>1. Len(stack) \in Nat /\ Len(stack) > 0 /\ Top = stack[Len(stack)]
  BY StackParts DEF Types
<1>2. Len(stack) \in 1..Len(stack) /\ ((Len(stack) + 1)..Len(stack)) = {}
  BY <1>1
<1> QED BY <1>1, <1>2 DEF EndsKnown

\* The slot is just freed.
LEMMA EndFreesKeeps ==
  ASSUME Types, Exclusive, Top.op = "end", NEW i \in 1..Slots, i = Top.slot,
         seqs' = Emptied(i, FreedFlags), stack' = Below, running' = Finished(i),
         UNCHANGED <<sads, inBk, cur, building, inCombat>>
  PROVE  Keeps
<1>1. FreedFlags \in SUBSET Flags /\ "combat" \notin FreedFlags
  BY DEF FreedFlags, Flags
<1>2. /\ seqs' \in [1..Slots -> SequenceType] /\ seqs'[i].step = COMPLETE
      /\ seqs'[i].flags = FreedFlags
      /\ \A j \in 1..Slots : j # i => seqs'[j] = seqs[j]
  BY <1>1, FreedIs
<1>3. Exclusive'
  BY <1>2, FewerOwners
<1>4. RestTyped
  BY DEF RestTyped, Types
<1>5. PICK n \in Int : n = Len(stack) - 1
  BY StackParts DEF Types
<1>6. ~Building(Top)
  BY DEF Building, Callers
<1>7. /\ Kept(n, stack') /\ NewFrames(n) /\ StillWaits(n)
      /\ cur' = cur /\ (cur' # 0 => "held" \notin seqs'[cur'].flags) => StillBuilds(n)
  <2>1. stack' = Below \o << >>
    BY StackParts, ConcatEmptySeq DEF Types
  <2> QED BY <1>5, <1>6, <2>1, FreshOnes, ReturnsNew
<1>8. ASSUME Turns PROVE StillBuilds(n)
  <2>1. cur' # 0 => "held" \notin seqs'[cur'].flags
    BY <1>2, <1>8, NotBuilt DEF Turns, SomeoneBuilds, Types
  <2> QED BY <1>7, <2>1
<1>9. ASSUME Turns PROVE FlagsFollow /\ HeldFree' /\ CombatBalanced'
  <2>1. FlagsFollow
    BY <1>1, <1>2, <1>9
      DEF Turns, FlagsFollow, FlagsKnown, FinishesWait, Finishing, InProgress, CombatFlagged
  <2>2. HeldFree'
    BY <1>2, <1>9 DEF Turns, HeldFree, InProgress
  <2>3. CombatBalanced'
    BY <1>2, <1>9, TopEnds, CountedEnds DEF Turns
  <2> QED BY <2>1, <2>2, <2>3
<1> QED BY <1>2, <1>3, <1>4, <1>5, <1>7, <1>8, <1>9, StepKeeps

DamageDue(i, fallen) ==
  stack' = Replaced(Frame("finish", i, 0))
             \o (IF fallen THEN <<Frame("standup", 0, 0)>> ELSE << >>)
             \o (IF "damage" \in Scripts THEN <<Frame("script", 0, 0)>> ELSE << >>)

\* What follows a turn whose damage is due: the fallen attacker stands up, if there is one.
LEMMA FinishCallsAre ==
  ASSUME Types, NoDamageScripts, NEW i \in 1..Slots, NEW fallen \in BOOLEAN,
         DamageDue(i, fallen)
  PROVE  /\ Kept(Len(stack) - 1, stack') /\ Len(stack') >= Len(stack)
         /\ stack'[Len(stack)].op = "finish" /\ stack'[Len(stack)].slot = i
         /\ \A k \in (Len(stack) + 1)..Len(stack') : stack'[k].op = "standup"
<1>1. PICK f, u : f = Frame("finish", i, 0) /\ u = Frame("standup", 0, 0)
  OBVIOUS
<1>2. f \in FrameType /\ f.op = "finish" /\ f.slot = i
  <2>1. i \in Nat
    OBVIOUS
  <2> QED BY <1>1, <2>1, FrameIs DEF Ops, Working, Walking
<1>3. u \in FrameType /\ u.op = "standup"
  BY <1>1, CallerFrameIs
<1>4. PICK fs \in {<< >>, <<u>>} : fs = IF fallen THEN <<u>> ELSE << >>
  OBVIOUS
<1>5. /\ fs \in Seq(FrameType) /\ Len(fs) \in Nat
      /\ \A k \in 1..Len(fs) : fs[k].op = "standup"
  <2>1. CASE fs = << >>
    BY <2>1, EmptySeq
  <2>2. CASE fs = <<u>>
    <3>1. <<u>> \in Seq(FrameType) /\ Len(<<u>>) = 1 /\ <<u>>[1] = u
      BY <1>3
    <3> QED BY <1>3, <2>2, <3>1
  <2> QED BY <1>4, <2>1, <2>2
<1>6. PICK st : st = Replaced(f) \o fs
  OBVIOUS
<1>7. /\ Kept(Len(stack) - 1, st) /\ Len(st) = Len(stack) + Len(fs) /\ st[Len(stack)] = f
      /\ \A k \in 1..Len(fs) : st[Len(stack) + k] = fs[k]
  BY <1>2, <1>5, <1>6, Goes, ZenonT(60) DEF Types
<1>8. stack' = st
  <2>1. stack' = st \o << >>
    BY <1>1, <1>4, <1>6 DEF NoDamageScripts, DamageDue
  <2>2. st \in Seq(FrameType)
    BY <1>7 DEF Kept
  <2> QED BY <2>1, <2>2, ConcatEmptySeq
<1>9. Len(stack) \in Nat /\ Len(stack) > 0
  BY StackParts DEF Types
<1>10. ASSUME NEW k \in (Len(stack) + 1)..Len(stack') PROVE stack'[k].op = "standup"
  <2>1. k - Len(stack) \in 1..Len(fs) /\ Len(stack) + (k - Len(stack)) = k
    BY <1>5, <1>7, <1>8, <1>9
  <2>2. st[Len(stack) + (k - Len(stack))] = fs[k - Len(stack)]
    BY <1>7, <2>1
  <2> QED BY <1>5, <1>8, <2>1, <2>2
<1> QED BY <1>2, <1>5, <1>7, <1>8, <1>9, <1>10

\* The types, when damage is due.
LEMMA FinishTyped ==
  ASSUME Types, NEW i \in 1..Slots, NEW fallen \in BOOLEAN, Top.op # "main",
         DamageDue(i, fallen),
         seqs' \in [1..Slots -> SequenceType],
         UNCHANGED <<cur, building, sads, inBk, inCombat>>
  PROVE  Types'
<1>1. PICK f, u, s : /\ f = Frame("finish", i, 0) /\ u = Frame("standup", 0, 0)
                     /\ s = Frame("script", 0, 0)
  OBVIOUS
<1>2. f \in FrameType /\ f.op = "finish"
  <2>1. i \in Nat
    OBVIOUS
  <2> QED BY <1>1, <2>1, FrameIs DEF Ops, Working, Walking
<1>3. u \in FrameType /\ u.op = "standup" /\ s \in FrameType /\ s.op = "script"
  BY <1>1, CallerFrameIs
<1>4. PICK us, ss : /\ us = IF fallen THEN <<u>> ELSE << >>
                    /\ ss = IF "damage" \in Scripts THEN <<s>> ELSE << >>
  OBVIOUS
<1>5. Fresh(us) /\ Fresh(ss)
  BY <1>3, <1>4, FreshOnes
<1>6. PICK fs : fs = us \o ss
  OBVIOUS
<1>7. Fresh(fs)
  BY <1>5, <1>6, FreshOnes
<1>8. PICK st, base : base = Replaced(f) /\ st = base \o fs
  OBVIOUS
<1>9. /\ Kept(Len(stack) - 1, st) /\ Len(st) = Len(stack) + Len(fs) /\ st[Len(stack)] = f
      /\ \A k \in 1..Len(fs) : st[Len(stack) + k] = fs[k]
  BY <1>2, <1>7, <1>8, Goes, ZenonT(60) DEF Types, Fresh
<1>10. stack' = st
  <2>1. base \in Seq(FrameType)
    <3>1. base \o << >> = base /\ Kept(Len(stack) - 1, base \o << >>)
      BY <1>2, <1>8, FreshOnes, Goes DEF Types, Fresh
    <3> QED BY <3>1 DEF Kept
  <2>2. (base \o us) \o ss = base \o (us \o ss)
    <3>1. us \in Seq(FrameType) /\ ss \in Seq(FrameType)
      BY <1>5 DEF Fresh
    <3> QED BY <2>1, <3>1, ConcatAssociative, SMTT(30)
  <2>3. stack' = (base \o us) \o ss
    BY <1>1, <1>4, <1>8 DEF DamageDue
  <2> QED BY <1>6, <1>8, <2>2, <2>3
<1>11. Len(stack) \in Nat /\ Len(stack) > 1 /\ Len(fs) \in Nat
  <2>1. Len(stack) \in Nat /\ Len(stack) > 0 /\ Top = stack[Len(stack)]
    BY StackParts DEF Types
  <2>2. Len(stack) # 1
    BY <2>1 DEF Types, OneMain
  <2>3. Len(fs) \in Nat
    BY <1>7, LenProperties DEF Fresh
  <2> QED BY <2>1, <2>2, <2>3
<1>12. ASSUME NEW k \in ((Len(stack) - 1) + 1)..Len(stack')
       PROVE  stack'[k].op = "main" <=> k = 1
  <2>1. CASE k = Len(stack)
    BY <1>2, <1>9, <1>10, <1>11, <2>1
  <2>2. CASE k # Len(stack)
    <3>1. k - Len(stack) \in 1..Len(fs) /\ Len(stack) + (k - Len(stack)) = k /\ k # 1
      BY <1>9, <1>10, <1>11, <2>2
    <3>2. stack'[k] = fs[k - Len(stack)]
      BY <1>9, <1>10, <3>1
    <3> QED BY <1>7, <3>1, <3>2 DEF Fresh
  <2> QED BY <2>1, <2>2
<1>13. OneMain'
  <2>1. PICK n \in Int : n = Len(stack) - 1
    BY <1>11
  <2>2. Kept(n, stack')
    BY <1>9, <1>10, <2>1
  <2>3. \A k \in (n + 1)..Len(stack') : stack'[k].op = "main" <=> k = 1
    BY <1>12, <2>1
  <2> QED BY <2>2, <2>3, MainStays
<1>14. stack' \in Seq(FrameType) /\ stack' # << >>
  BY <1>9, <1>10 DEF Kept
<1> QED BY <1>13, <1>14 DEF Types

\* The last sequence of a turn ends, and damage is due.
LEMMA EndFinishes ==
  ASSUME Types, Exclusive, Turns, NoDamageScripts, Top.op = "end", NEW i \in 1..Slots,
         i = Top.slot, TurnOver(i), seqs' = Emptied(i, seqs[i].flags), running' = Finished(i),
         UNCHANGED <<sads, inBk, cur, building, inCombat>>, NEW fallen \in BOOLEAN,
         DamageDue(i, fallen)
  PROVE  Turns'
<1>1. /\ Len(stack) \in Nat /\ Len(stack) > 0 /\ Top = stack[Len(stack)]
      /\ \A k \in 1..Len(stack) : stack[k] \in FrameType
  BY StackParts DEF Types
<1>2. /\ seqs'[i].step = COMPLETE /\ seqs'[i].flags = seqs[i].flags
      /\ \A j \in 1..Slots : j # i => seqs'[j] = seqs[j]
  BY MildIs, SequenceParts, FreedIs
<1>3. /\ Len(stack') \in Nat /\ Len(stack') >= Len(stack)
      /\ \A k \in 1..(Len(stack) - 1) : stack'[k] = stack[k]
      /\ stack'[Len(stack)].op = "finish" /\ stack'[Len(stack)].slot = i
      /\ \A k \in (Len(stack) + 1)..Len(stack') : stack'[k].op = "standup"
  <2>1. /\ Kept(Len(stack) - 1, stack') /\ Len(stack') >= Len(stack)
        /\ stack'[Len(stack)].op = "finish" /\ stack'[Len(stack)].slot = i
        /\ \A k \in (Len(stack) + 1)..Len(stack') : stack'[k].op = "standup"
    BY FinishCallsAre
  <2> QED BY <2>1, LenProperties DEF Kept
<1>4. CombatFlagged(i) /\ running = 1 /\ inCombat /\ inCombat'
  BY DEF TurnOver, Turns, FlagsKnown
<1>5. running' = 0
  BY <1>4 DEF Finished
<1>6. \A k \in 1..Len(stack) : stack[k].op = "finish" => k \in 1..(Len(stack) - 1)
  BY <1>1
<1>7. ASSUME NEW k \in 1..Len(stack')
      PROVE  \/ k \in 1..(Len(stack) - 1) /\ k \in 1..Len(stack) /\ stack'[k] = stack[k]
             \/ k = Len(stack)
             \/ k \in (Len(stack) + 1)..Len(stack') /\ stack'[k].op = "standup"
  BY <1>1, <1>3
<1>8. FlagsKnown'
  <2> SUFFICES ASSUME NEW j \in 1..Slots, "combat" \in seqs'[j].flags
               PROVE  seqs'[j].step # COMPLETE \/ Finishing(j)'
    BY <1>4 DEF FlagsKnown, CombatFlagged, InProgress
  <2>1. CASE j = i
    <3>1. Len(stack) \in 1..Len(stack')
      BY <1>1, <1>3
    <3> QED BY <1>3, <2>1, <3>1 DEF Finishing
  <2>2. CASE j # i
    <3>1. seqs[j].step # COMPLETE \/ Finishing(j)
      BY <1>2, <2>2 DEF Turns, FlagsKnown, CombatFlagged, InProgress
    <3>2. Finishing(j) => Finishing(j)'
      <4>1. \A k \in 1..(Len(stack) - 1) : k \in 1..Len(stack')
        BY <1>1, <1>3
      <4> QED BY <1>3, <1>6, <4>1 DEF Finishing
    <3> QED BY <1>2, <2>2, <3>1, <3>2
  <2> QED BY <2>1, <2>2
<1>9. FinishesWait'
  <2> SUFFICES ASSUME NEW k \in 1..Len(stack'), stack'[k].op = "finish"
               PROVE  /\ seqs'[stack'[k].slot].step # COMPLETE =>
                           "combat" \in seqs'[stack'[k].slot].flags
                      /\ IF k = Len(stack') THEN running' = 0
                         ELSE stack'[k + 1].op \in {"standup", "turnrun"}
    BY <1>4 DEF FinishesWait, InProgress, CombatFlagged
  <2>1. CASE k = Len(stack)
    <3>1. k # Len(stack') => k + 1 \in (Len(stack) + 1)..Len(stack')
      BY <1>3, <2>1
    <3> QED BY <1>2, <1>3, <1>5, <2>1, <3>1
  <2>2. CASE k \in 1..(Len(stack) - 1)
    <3>1. k \in 1..Len(stack) /\ stack'[k] = stack[k] /\ k # Len(stack) /\ k # Len(stack')
      BY <1>1, <1>3, <2>2
    <3>2. /\ stack[k].slot \in 1..Slots /\ stack[k + 1].op \in {"standup", "turnrun"}
          /\ seqs[stack[k].slot].step # COMPLETE => "combat" \in seqs[stack[k].slot].flags
      BY <1>1, <3>1, FrameParts DEF Turns, FinishesWait, InProgress, CombatFlagged, Working
    <3>3. k + 1 \in 1..(Len(stack) - 1)
      <4>1. k + 1 # Len(stack)
        BY <1>1, <3>2
      <4> QED BY <1>1, <2>2, <4>1
    <3> QED BY <1>2, <1>3, <3>1, <3>2, <3>3
  <2> QED BY <1>7, <2>1, <2>2, SMTT(30)
<1>10. EndsKnown'
  <2> SUFFICES ASSUME NEW k \in 1..Len(stack'), stack'[k].op = "end",
                      seqs'[stack'[k].slot].step = COMPLETE,
                      "combat" \in seqs'[stack'[k].slot].flags
               PROVE  \E m \in (k + 1)..Len(stack') :
                        stack'[m].op = "finish" /\ stack'[m].slot = stack'[k].slot
    BY DEF EndsKnown, InProgress, CombatFlagged
  <2>1. k \in 1..(Len(stack) - 1) /\ k \in 1..Len(stack) /\ stack'[k] = stack[k]
    BY <1>3, <1>7, SMTT(30)
  <2>2. stack[k].slot \in 1..Slots
    BY <1>1, <2>1, FrameParts DEF Working
  <2>3. CASE stack[k].slot = i
    <3>1. Len(stack) \in (k + 1)..Len(stack')
      BY <1>1, <1>3, <2>1, SMTT(30)
    <3> QED BY <1>3, <2>1, <2>3, <3>1, SMTT(30)
  <2>4. CASE stack[k].slot # i
    <3>1. seqs[stack[k].slot].step = COMPLETE /\ "combat" \in seqs[stack[k].slot].flags
      BY <1>2, <2>1, <2>2, <2>4
    <3>2. PICK m \in (k + 1)..Len(stack) : stack[m].op = "finish" /\ stack[m].slot = stack[k].slot
      BY <2>1, <3>1 DEF Turns, EndsKnown, InProgress, CombatFlagged
    <3>3. m \in 1..Len(stack)
      BY <2>1, <3>2, SMTT(30)
    <3>4. stack'[m] = stack[m] /\ m \in (k + 1)..Len(stack')
      BY <1>1, <1>3, <1>6, <3>2, <3>3
    <3> QED BY <2>1, <3>2, <3>4
  <2> QED BY <2>3, <2>4
<1>11. HeldFree'
  BY <1>2 DEF Turns, HeldFree, InProgress
<1>12. SomeoneBuilds'
  <2> SUFFICES ASSUME cur # 0
               PROVE  "held" \notin seqs'[cur].flags /\ \E k \in 1..Len(stack') : BuiltBy(k)'
    BY DEF SomeoneBuilds
  <2>1. i # cur
    BY NotBuilt DEF Turns
  <2>2. "held" \notin seqs'[cur].flags
    BY <1>2, <2>1 DEF Turns, SomeoneBuilds, Types
  <2>3. PICK k \in 1..Len(stack) : BuiltBy(k)
    BY DEF Turns, SomeoneBuilds
  <2>4. k \in 1..(Len(stack) - 1) /\ k \in 1..Len(stack') /\ stack'[k] = stack[k]
    <3>1. k # Len(stack)
      BY <1>1, <2>3 DEF BuiltBy, Callers
    <3> QED BY <1>1, <1>3, <2>3, <3>1
  <2>5. ASSUME NEW m \in (k + 1)..Len(stack'), stack'[m].op \in {"end", "finish"}
        PROVE  stack'[m].slot # cur
    <3>1. m \in 1..Len(stack')
      BY <2>4, <2>5
    <3>2. CASE m = Len(stack)
      BY <1>3, <2>1, <3>2
    <3>3. CASE m \in 1..(Len(stack) - 1) /\ stack'[m] = stack[m]
      <4>1. m \in (k + 1)..Len(stack)
        BY <1>1, <2>4, <2>5, <3>3
      <4> QED BY <2>3, <2>5, <3>3, <4>1 DEF BuiltBy
    <3> QED BY <1>7, <2>5, <3>1, <3>2, <3>3
  <2>6. BuiltBy(k)'
    BY <2>3, <2>4, <2>5 DEF BuiltBy
  <2> QED BY <2>2, <2>4, <2>6
<1>13. CombatBalanced'
  BY <1>2, TopEnds, CountedEnds DEF Turns
<1> QED BY <1>8, <1>9, <1>10, <1>11, <1>12, <1>13 DEF Turns

LEMMA EndReturnsKeeps == ASSUME Types, Exclusive, EndReturns PROVE Keeps
<1>1. PICK i \in 1..Slots : i = Top.slot
  BY TopSlot DEF EndReturns, EndRuns, TopIs, Working
<1>2. /\ Top.op = "end" /\ running' = Finished(i)
      /\ UNCHANGED <<sads, inBk, cur, building, inCombat>>
  BY <1>1 DEF EndReturns, EndRuns, TopIs, slotVars
<1>3. CASE TurnOver(i) /\ cleanup
  <2>1. seqs' = Emptied(i, seqs[i].flags)
    BY <1>1, <1>3 DEF EndReturns
  <2>2. PICK fallen \in BOOLEAN : DamageDue(i, fallen)
    BY <1>1, <1>3 DEF EndReturns, DamageDue
  <2>3. /\ seqs' \in [1..Slots -> SequenceType] /\ seqs'[i].step = COMPLETE
        /\ \A j \in 1..Slots : j # i => seqs'[j] = seqs[j]
    BY <2>1, MildIs, SequenceParts, FreedIs
  <2>4. Types'
    BY <1>2, <2>2, <2>3, FinishTyped
  <2>5. Exclusive'
    BY <1>2, <2>3, FewerOwners
  <2>6. NoDamageScripts /\ Turns => Turns'
    BY <1>1, <1>2, <1>3, <2>1, <2>2, EndFinishes
  <2> QED BY <2>4, <2>5, <2>6 DEF Keeps
<1>4. CASE ~(TurnOver(i) /\ cleanup)
  <2>1. seqs' = Emptied(i, FreedFlags) /\ stack' = Below
    BY <1>1, <1>4 DEF EndReturns
  <2> QED BY <1>1, <1>2, <2>1, EndFreesKeeps
<1> QED BY <1>3, <1>4

\* The damage has been dealt: nobody has begun anything in the turn's name meanwhile.
LEMMA FinishReturnsKeeps == ASSUME Types, Exclusive, FinishReturns PROVE Keeps
<1>1. PICK i \in 1..Slots : i = Top.slot
  BY TopSlot DEF FinishReturns, TopIs, Working
<1>2. /\ Top.op = "finish" /\ stack' = Below
      /\ UNCHANGED <<sads, inBk, cur, building, inCombat, running>>
  BY DEF FinishReturns, TopIs, slotVars, gameVars
<1>3. /\ Len(stack) \in Nat /\ Len(stack) > 0 /\ Top = stack[Len(stack)]
      /\ \A k \in 1..Len(stack) : stack[k] \in FrameType
      /\ Len(stack') = Len(stack) - 1 /\ stack' \in Seq(FrameType)
      /\ \A k \in 1..(Len(stack) - 1) : stack'[k] = stack[k]
  BY <1>2, StackParts DEF Types
<1>4. FreedFlags \in SUBSET Flags /\ "combat" \notin FreedFlags
  BY DEF FreedFlags, Flags
<1>5. /\ seqs' \in [1..Slots -> SequenceType]
      /\ seqs'[i].step = seqs[i].step /\ seqs'[i].descs = seqs[i].descs
      /\ seqs'[i].flags = FreedFlags
      /\ \A j \in 1..Slots : j # i => seqs'[j] = seqs[j]
  <2>1. PICK fl, q : fl = FreedFlags /\ q = [seqs[i] EXCEPT !.flags = fl]
    OBVIOUS
  <2>2. /\ q \in SequenceType /\ q.step = seqs[i].step /\ q.descs = seqs[i].descs /\ q.flags = fl
    <3>1. seqs[i] \in SequenceType
      BY MildIs
    <3> QED BY <1>4, <2>1, <3>1 DEF SequenceType
  <2>3. seqs' = [seqs EXCEPT ![i] = q]
    BY <1>1, <2>1 DEF FinishReturns
  <2> QED BY <2>1, <2>2, <2>3 DEF Types
<1>6. Len(stack) > 1
  <2>1. Len(stack) # 1
    BY <1>2, <1>3 DEF Types, OneMain
  <2> QED BY <1>3, <2>1
<1>7. Types'
  <2>1. stack' # << >>
    BY <1>3, <1>6, EmptySeq
  <2>2. OneMain'
    <3> SUFFICES ASSUME NEW k \in 1..Len(stack') PROVE stack'[k].op = "main" <=> k = 1
      BY DEF OneMain
    <3>1. k \in 1..(Len(stack) - 1) /\ k \in 1..Len(stack) /\ stack'[k] = stack[k]
      BY <1>3
    <3> QED BY <3>1 DEF Types, OneMain
  <2> QED BY <1>2, <1>3, <1>5, <2>1, <2>2 DEF Types
<1>8. Exclusive'
  <2>1. \A j \in 1..Slots : seqs'[j].step # COMPLETE =>
          seqs[j].step # COMPLETE /\ seqs'[j].descs = seqs[j].descs
    BY <1>5
  <2> QED BY <1>2, <2>1, FewerOwners
<1>9. ASSUME Turns PROVE Turns'
  <2>1. Len(stack) \in 1..Len(stack)
    BY <1>3
  <2>2. running = 0 /\ (InProgress(i) => CombatFlagged(i))
    BY <1>1, <1>2, <1>3, <1>9, <2>1 DEF Turns, FinishesWait
  <2>3. Counted = {}
    BY <1>9, <2>2, CountedFinite, FS_EmptySet DEF Turns
  <2>4. ~InProgress(i)
    BY <2>2, <2>3 DEF Counted
  <2>5. \A k \in 1..Len(stack') : k \in 1..Len(stack) /\ k < Len(stack) /\ stack'[k] = stack[k]
    BY <1>3
  <2>6. \A k \in 1..Len(stack) : k = Len(stack) \/ (k \in 1..Len(stack') /\ stack'[k] = stack[k])
    BY <1>3
  <2>7. FlagsKnown'
    <3> SUFFICES ASSUME NEW j \in 1..Slots, "combat" \in seqs'[j].flags
                 PROVE  inCombat' /\ (seqs'[j].step # COMPLETE \/ Finishing(j)')
      BY DEF FlagsKnown, CombatFlagged, InProgress
    <3>1. j # i
      BY <1>4, <1>5
    <3>2. inCombat /\ (seqs[j].step # COMPLETE \/ Finishing(j))
      BY <1>5, <1>9, <3>1 DEF Turns, FlagsKnown, CombatFlagged, InProgress
    <3>3. Finishing(j) => Finishing(j)'
      BY <1>1, <1>3, <2>6, <3>1 DEF Finishing
    <3> QED BY <1>2, <1>5, <3>1, <3>2, <3>3
  <2>8. FinishesWait'
    <3> SUFFICES ASSUME NEW k \in 1..Len(stack'), stack'[k].op = "finish"
                 PROVE  /\ inCombat'
                        /\ seqs'[stack'[k].slot].step # COMPLETE =>
                             "combat" \in seqs'[stack'[k].slot].flags
                        /\ IF k = Len(stack') THEN running' = 0
                           ELSE stack'[k + 1].op \in {"standup", "turnrun"}
      BY DEF FinishesWait, InProgress, CombatFlagged
    <3>1. k \in 1..Len(stack) /\ k < Len(stack) /\ stack'[k] = stack[k]
      BY <2>5
    <3>2. /\ stack[k].slot \in 1..Slots /\ inCombat /\ stack[k + 1].op \in {"standup", "turnrun"}
          /\ seqs[stack[k].slot].step # COMPLETE => "combat" \in seqs[stack[k].slot].flags
      BY <1>3, <1>9, <3>1, FrameParts
        DEF Turns, FinishesWait, InProgress, CombatFlagged, Working
    <3>3. k + 1 # Len(stack)
      BY <1>2, <1>3, <3>2
    <3>4. k # Len(stack') /\ k + 1 \in 1..(Len(stack) - 1)
      BY <1>3, <3>1, <3>3
    <3>5. seqs'[stack[k].slot].step # COMPLETE => "combat" \in seqs'[stack[k].slot].flags
      BY <1>5, <2>4, <3>2 DEF InProgress
    <3> QED BY <1>2, <1>3, <3>1, <3>2, <3>4, <3>5
  <2>9. EndsKnown'
    <3> SUFFICES ASSUME NEW k \in 1..Len(stack'), stack'[k].op = "end",
                        seqs'[stack'[k].slot].step = COMPLETE,
                        "combat" \in seqs'[stack'[k].slot].flags
                 PROVE  \E m \in (k + 1)..Len(stack') :
                          stack'[m].op = "finish" /\ stack'[m].slot = stack'[k].slot
      BY DEF EndsKnown, InProgress, CombatFlagged
    <3>1. k \in 1..Len(stack) /\ stack'[k] = stack[k]
      BY <2>5
    <3>2. stack[k].slot \in 1..Slots /\ stack[k].slot # i
      BY <1>3, <1>4, <1>5, <3>1, FrameParts DEF Working
    <3>3. seqs[stack[k].slot].step = COMPLETE /\ "combat" \in seqs[stack[k].slot].flags
      BY <1>5, <3>1, <3>2
    <3>4. PICK m \in (k + 1)..Len(stack) : stack[m].op = "finish" /\ stack[m].slot = stack[k].slot
      BY <1>9, <3>1, <3>3 DEF Turns, EndsKnown, InProgress, CombatFlagged
    <3>5. m # Len(stack) /\ m \in 1..Len(stack)
      BY <1>1, <1>3, <3>1, <3>2, <3>4
    <3>6. m \in 1..Len(stack') /\ stack'[m] = stack[m]
      BY <2>6, <3>5
    <3>7. m \in (k + 1)..Len(stack')
      BY <1>3, <3>4, <3>6
    <3> QED BY <3>1, <3>4, <3>6, <3>7
  <2>10. HeldFree'
    BY <1>5, <1>9, <2>4 DEF Turns, HeldFree, InProgress
  <2>11. SomeoneBuilds'
    <3> SUFFICES ASSUME cur # 0
                 PROVE  "held" \notin seqs'[cur].flags /\ \E k \in 1..Len(stack') : BuiltBy(k)'
      BY <1>2 DEF SomeoneBuilds
    <3>1. i # cur
      BY <1>1, <1>2, <1>9, NotBuilt DEF Turns
    <3>2. "held" \notin seqs'[cur].flags
      <4>1. "held" \notin seqs[cur].flags
        BY <1>9 DEF Turns, SomeoneBuilds
      <4>2. cur \in 1..Slots
        BY DEF Types
      <4>3. seqs'[cur] = seqs[cur]
        BY <1>5, <3>1, <4>2
      <4> QED BY <4>1, <4>3
    <3>3. PICK k \in 1..Len(stack) : BuiltBy(k)
      BY <1>9 DEF Turns, SomeoneBuilds
    <3>4. k # Len(stack)
      BY <1>2, <1>3, <3>3 DEF BuiltBy, Callers
    <3>5. k \in 1..Len(stack') /\ stack'[k] = stack[k]
      BY <2>6, <3>4
    <3>6. ASSUME NEW m \in (k + 1)..Len(stack'), stack'[m].op \in {"end", "finish"}
          PROVE  stack'[m].slot # cur
      <4>1. m \in 1..Len(stack')
        BY <3>5, <3>6
      <4>2. m \in (k + 1)..Len(stack) /\ stack'[m] = stack[m]
        BY <1>3, <2>5, <3>6, <4>1
      <4> QED BY <3>3, <3>6, <4>2 DEF BuiltBy
    <3>7. BuiltBy(k)'
      BY <1>2, <3>3, <3>5, <3>6 DEF BuiltBy
    <3> QED BY <3>2, <3>5, <3>7
  <2>12. CombatBalanced'
    <3>1. \A j \in 1..Slots :
            (seqs'[j].step # COMPLETE /\ "combat" \in seqs'[j].flags)
              <=> (InProgress(j) /\ CombatFlagged(j))
      BY <1>5, <2>4 DEF InProgress, CombatFlagged
    <3> QED BY <1>2, <1>9, <3>1, CountedSame DEF Turns
  <2> QED BY <2>7, <2>8, <2>9, <2>10, <2>11, <2>12 DEF Turns
<1> QED BY <1>7, <1>8, <1>9 DEF Keeps

-----------------------------------------------------------------------------
(* All steps, and the theorems                                               *)

LEMMA CallNextKeeps == ASSUME Types, Exclusive, PassInBounds, CallNext PROVE Keeps
<1>1. CASE BeginNext \/ PlanDone \/ RegisterNothing \/ RegisterEndsRival \/ Register
             \/ RegisterFails \/ RegisterEnd \/ CallbackReturns \/ ScriptReturns
  BY <1>1, BeginNextKeeps, PlanDoneKeeps, RegisterNothingKeeps, RegisterEndsRivalKeeps,
     RegisterKeeps, RegisterFailsKeeps, RegisterEndKeeps, CallbackReturnsKeeps,
     ScriptReturnsKeeps
<1>2. CASE RunReturns \/ RunInstant \/ RunTakesTime \/ RunArrived \/ RunFails
             \/ RunCallback \/ RunPing \/ PingReturns
  BY <1>2, RunReturnsKeeps, RunInstantKeeps, RunTakesTimeKeeps, RunArrivedKeeps, RunFailsKeeps,
     RunCallbackKeeps, RunPingKeeps, PingReturnsKeeps
<1>3. CASE EndBegins \/ EndCallsBack \/ EndReturns \/ FinishReturns
  BY <1>3, EndBeginsKeeps, EndCallsBackKeeps, EndReturnsKeeps, FinishReturnsKeeps
<1>4. CASE TurnRun \/ SkipSad \/ SadDue \/ SadEnded
             \/ StepOnWay \/ StepArrives \/ StartPlaying \/ CutsShort
  BY <1>4, TurnRunKeeps, SkipSadKeeps, SadDueKeeps, SadEndedKeeps, StepOnWayKeeps,
     StepArrivesKeeps, StartPlayingKeeps, CutsShortKeeps
<1>5. CASE PlayFrame \/ PlayLastFrame \/ PlayCompleted \/ PassReturns \/ StopNext \/ StopReturns
  BY <1>5, PlayFrameKeeps, PlayLastFrameKeeps, PlayCompletedKeeps, PassReturnsKeeps,
     StopNextKeeps, StopReturnsKeeps
<1> QED BY <1>1, <1>2, <1>3, <1>4, <1>5 DEF CallNext

LEMMA NextKeeps == ASSUME Types, Exclusive, PassInBounds, [Next]_vars PROVE Keeps
<1>1. CASE CallersNext
  BY <1>1, BeginKeeps, ClearKeeps, StopKeeps, CombatBeginKeeps, CombatOverKeeps DEF CallersNext
<1>2. CASE CallNext
  BY <1>2, CallNextKeeps
<1>3. CASE Update
  BY <1>3, UpdateKeeps
<1>4. CASE UNCHANGED vars
  <2>1. /\ UNCHANGED <<seqs, cur, building, sads, inBk, inCombat, running, stack>>
    BY <1>4 DEF vars
  <2>2. Types'
    BY <2>1 DEF Types, OneMain
  <2>3. Exclusive'
    BY <2>1, FewerOwners
  <2>4. Turns => Turns'
    <3>1. FlagsKnown' = FlagsKnown
      BY <2>1 DEF FlagsKnown, CombatFlagged, InProgress, Finishing
    <3>2. FinishesWait' = FinishesWait
      BY <2>1 DEF FinishesWait, CombatFlagged, InProgress
    <3>3. EndsKnown' = EndsKnown
      BY <2>1 DEF EndsKnown, CombatFlagged, InProgress
    <3>4. HeldFree' = HeldFree /\ SomeoneBuilds' = SomeoneBuilds
      BY <2>1 DEF HeldFree, SomeoneBuilds, BuiltBy, InProgress
    <3>5. CombatBalanced' = CombatBalanced
      BY <2>1 DEF CombatBalanced, CombatFlagged, InProgress
    <3> QED BY <3>1, <3>2, <3>3, <3>4, <3>5 DEF Turns
  <2> QED BY <2>2, <2>3, <2>4 DEF Keeps
<1> QED BY <1>1, <1>2, <1>3, <1>4 DEF Next

LEMMA InitKeeps == Init => Types /\ Exclusive /\ Turns
<1> SUFFICES ASSUME Init
             PROVE  Types /\ Exclusive /\ Turns
  OBVIOUS
<1>1. PICK q : q = [step |-> COMPLETE, idx |-> -1, descs |-> << >>, flags |-> {}]
  OBVIOUS
<1>2. q \in SequenceType /\ q.step = COMPLETE /\ q.flags = {}
  <2>1. << >> \in Seq(Description)
    BY EmptySeq
  <2> QED BY <1>1, <2>1 DEF SequenceType
<1>3. seqs \in [1..Slots -> SequenceType] /\ \A i \in 1..Slots : seqs[i] = q
  BY <1>1, <1>2 DEF Init
<1>4. \A i \in 1..Slots : ~InProgress(i) /\ seqs[i].flags = {}
  BY <1>2, <1>3 DEF InProgress
<1>5. PICK f : f = Frame("main", 0, 0)
  OBVIOUS
<1>6. f \in FrameType /\ f.op = "main"
  <2>1. << >> \in Seq(PartType)
    BY EmptySeq
  <2> QED BY <1>5, <2>1 DEF Frame, FrameType, Callers, Working, Walking, Ops
<1>7. stack \in Seq(FrameType) /\ Len(stack) = 1 /\ stack[1] = f /\ stack # << >>
  BY <1>5, <1>6 DEF Init
<1>8. \A k \in 1..Len(stack) : k = 1 /\ stack[k].op = "main"
  BY <1>6, <1>7
<1>9. Types
  <2>1. /\ cur \in 0..Slots /\ building \in Seq(Description) /\ sads \in Seq(SadType)
        /\ inBk \in BOOLEAN /\ inCombat \in BOOLEAN
    <3>1. /\ cur = 0 /\ building = << >> /\ sads = << >>
          /\ inBk = FALSE /\ inCombat = FALSE
      BY DEF Init
    <3>2. 0 \in 0..Slots /\ << >> \in Seq(Description) /\ << >> \in Seq(SadType)
      BY EmptySeq, AnimationConstants
    <3> QED BY <3>1, <3>2
  <2> QED BY <1>3, <1>7, <1>8, <2>1 DEF Types, OneMain
<1>10. Exclusive
  BY <1>4 DEF Exclusive, OwnersExclusive, OthersFree, Init
<1>11. Turns
  <2>1. FlagsKnown /\ FinishesWait /\ EndsKnown /\ HeldFree
    BY <1>4, <1>8 DEF FlagsKnown, FinishesWait, EndsKnown, HeldFree, CombatFlagged
  <2>2. SomeoneBuilds
    BY DEF SomeoneBuilds, Init
  <2>3. {i \in 1..Slots : InProgress(i) /\ CombatFlagged(i)} = {}
    BY <1>4
  <2>4. CombatBalanced
    BY <2>3, FS_EmptySet DEF CombatBalanced, Init
  <2> QED BY <2>1, <2>2, <2>4 DEF Turns
<1> QED BY <1>9, <1>10, <1>11

\* Two sequences in progress never animate the same object, whatever calls what within
\* what, as long as the background loop's pass is resumed on a sad that is there
\* (_check_registry, reg_anim_end; _object_animate).
THEOREM SequencesExclude == Spec /\ []PassInBounds => []OwnersExclusive
<1>1. Init => Types /\ Exclusive
  BY InitKeeps
<1>2. (Types /\ Exclusive) /\ PassInBounds /\ [Next]_vars => (Types /\ Exclusive)'
  BY NextKeeps DEF Keeps
<1>3. Exclusive => OwnersExclusive
  BY DEF Exclusive
<1> QED BY <1>1, <1>2, <1>3, PTL DEF Spec

\* The counter a turn waits on is the number of sequences in progress that count, through
\* the damage dealt and the standing up between a sequence's end and the freeing of its
\* slot, unless a damage script begins sequences (_combat_turn_running; _anim_set_end,
\* _combat_anim_finished).
THEOREM TurnsBalance ==
  ASSUME NoDamageScripts
  PROVE  Spec /\ []PassInBounds => []CombatBalanced
<1>1. Init => Types /\ Exclusive /\ Turns
  BY InitKeeps
<1>2. (Types /\ Exclusive /\ Turns) /\ PassInBounds /\ [Next]_vars
        => (Types /\ Exclusive /\ Turns)'
  BY NextKeeps DEF Keeps
<1>3. Turns => CombatBalanced
  BY DEF Turns
<1> QED BY <1>1, <1>2, <1>3, PTL DEF Spec

-----------------------------------------------------------------------------
(* The clock: the queue's events                                            *)

Event == [due : Nat, type : ClockEvents, level : 0..(MaxDose + 1)]
Sorted(q) == \A i, j \in 1..Len(q) : i < j => q[i].due <= q[j].due
AtMostOne(q, type) == \A i, j \in 1..Len(q) : q[i].type = type /\ q[j].type = type => i = j
Has(q, type) == \E e \in Members(q) : e.type = type

\* How one step of the recursions goes.
KeepStep(q, types, f, i) ==
  IF i = 0 THEN << >>
  ELSE IF q[i].type \in types THEN Append(f[i - 1], q[i]) ELSE f[i - 1]
SumStep(q, f, i) ==
  IF i = 0 THEN 0 ELSE f[i - 1] + IF q[i].type = "heal" THEN q[i].level ELSE 0

\* A function given by its first value and its steps: by the least number up to which
\* none follows them.
Iterated(f, n, first, step) == f[0] = first /\ \A i \in 1..n : f[i] = step[i][f[i - 1]]
LEMMA Iterates ==
  ASSUME NEW n \in Nat, NEW V, NEW first \in V, NEW step \in [1..n -> [V -> V]]
  PROVE  \E f \in [0..n -> V] : Iterated(f, n, first, step)
<1> DEFINE Follows(f, m) == f[0] = first /\ \A i \in 1..n : i <= m => f[i] = step[i][f[i - 1]]
           Bad == {k \in Nat : ~\E f \in [0..n -> V] : Follows(f, k)}
<1>1. ASSUME Bad # {}
      PROVE  FALSE
  <2>1. PICK m \in Bad : \A k \in Bad : m <= k
    BY <1>1, Least
  <2>2. CASE m = 0
    <3> DEFINE f == [i \in 0..n |-> first]
    <3>1. f \in [0..n -> V] /\ Follows(f, 0)
      OBVIOUS
    <3> QED BY <2>1, <2>2, <3>1
  <2>3. CASE m # 0
    <3>1. m - 1 \in Nat /\ m - 1 \notin Bad
      <4>1. Bad \subseteq Nat
        OBVIOUS
      <4> HIDE DEF Bad
      <4> QED BY <2>1, <2>3, <4>1
    <3>2. PICK f \in [0..n -> V] : Follows(f, m - 1)
      BY <3>1
    <3> DEFINE g == [i \in 0..n |-> IF i = 0 THEN first ELSE step[i][f[i - 1]]]
    <3>3. \A i \in 1..n : i - 1 \in 0..n /\ f[i - 1] \in V /\ step[i] \in [V -> V]
      OBVIOUS
    <3>4. g \in [0..n -> V] /\ g[0] = first
      BY <3>3
    <3>5. ASSUME NEW i \in 1..n, i <= m
          PROVE  g[i] = step[i][g[i - 1]]
      <4>1. g[i] = step[i][f[i - 1]]
        OBVIOUS
      <4>2. g[i - 1] = f[i - 1]
        <5>1. CASE i = 1
          BY <3>2, <5>1
        <5>2. CASE i # 1
          <6>1. i - 1 \in 1..n /\ i - 1 <= m - 1
            BY <2>1, <3>5, <5>2
          <6>2. f[i - 1] = step[i - 1][f[i - 1 - 1]]
            BY <3>2, <6>1
          <6> QED BY <6>1, <6>2
        <5> QED BY <5>1, <5>2
      <4> QED BY <4>1, <4>2
    <3> HIDE DEF g
    <3> QED BY <2>1, <3>4, <3>5
  <2> QED BY <2>2, <2>3
<1>2. PICK f \in [0..n -> V] : Follows(f, n)
  BY <1>1
<1>3. \A i \in 1..n : i <= n
  OBVIOUS
<1>4. Iterated(f, n, first, step)
  BY <1>2, <1>3 DEF Iterated
<1> QED BY <1>4

\* Which elements of q r consists of, in their order: the k-th is the h[k]-th of q.
Chosen(q, n, types, r, h) ==
  /\ h \in [1..Len(r) -> 1..n]
  /\ \A j, k \in 1..Len(r) : j < k => h[j] < h[k]
  /\ \A k \in 1..Len(r) : r[k] = q[h[k]] /\ q[h[k]].type \in types
  /\ \A i \in 1..n : q[i].type \in types => \E k \in 1..Len(r) : h[k] = i

LEMMA WithIs ==
  ASSUME NEW Elements, NEW q \in Seq(Elements), NEW types
  PROVE  With(q, types) \in Seq(Elements) /\ \E h : Chosen(q, Len(q), types, With(q, types), h)
<1> DEFINE n == Len(q)
           step == [i \in 1..n |-> [s \in Seq(Elements) |->
                      IF q[i].type \in types THEN Append(s, q[i]) ELSE s]]
           kept == CHOOSE f : f = [i \in 0..n |-> KeepStep(q, types, f, i)]
<1>0. n \in Nat /\ \A i \in 1..n : q[i] \in Elements
  BY LenProperties, ElementOfSeq
<1>1. \E f : f = [i \in 0..n |-> KeepStep(q, types, f, i)]
  <2>1. step \in [1..n -> [Seq(Elements) -> Seq(Elements)]]
    BY <1>0, AppendProperties
  <2>2. PICK f \in [0..n -> Seq(Elements)] :
               f[0] = << >> /\ \A i \in 1..n : f[i] = step[i][f[i - 1]]
    <3> HIDE DEF step, n
    <3>1. << >> \in Seq(Elements)
      BY EmptySeq
    <3>2. \E f \in [0..n -> Seq(Elements)] : Iterated(f, n, << >>, step)
      BY <1>0, <2>1, <3>1, Iterates
    <3> QED BY <3>2, Zenon DEF Iterated
  <2>3. ASSUME NEW i \in 0..n
        PROVE  f[i] = KeepStep(q, types, f, i)
    <3>1. CASE i = 0
      BY <2>2, <3>1 DEF KeepStep
    <3>2. CASE i # 0
      <4>1. i \in 1..n /\ i - 1 \in 0..n /\ f[i - 1] \in Seq(Elements)
        BY <1>0, <3>2
      <4>2. f[i] = IF q[i].type \in types THEN Append(f[i - 1], q[i]) ELSE f[i - 1]
        BY <2>2, <4>1
      <4> QED BY <3>2, <4>2 DEF KeepStep
    <3> QED BY <3>1, <3>2
  <2>4. f = [i \in 0..n |-> f[i]]
    OBVIOUS
  <2>5. f = [i \in 0..n |-> KeepStep(q, types, f, i)]
    BY <2>3, <2>4
  <2> QED BY <2>5
<1>2. kept = [i \in 0..n |-> KeepStep(q, types, kept, i)]
  BY <1>1
<1>3. With(q, types) = kept[n]
  BY Zenon DEF With, KeepStep
<1> HIDE DEF kept, step
<1> DEFINE Good(i) == kept[i] \in Seq(Elements) /\ \E h : Chosen(q, i, types, kept[i], h)
<1>4. Good(0)
  <2>1. kept[0] = << >>
    BY <1>0, <1>2 DEF KeepStep
  <2>2. << >> \in Seq(Elements) /\ Len(<< >>) = 0
    BY EmptySeq
  <2> DEFINE h == [k \in 1..0 |-> k]
  <2>3. Chosen(q, 0, types, << >>, h)
    BY <2>2 DEF Chosen
  <2> QED BY <2>1, <2>2, <2>3
<1>5. ASSUME NEW i \in 1..n, Good(i - 1)
      PROVE  Good(i)
  <2>0. i \in Nat /\ i - 1 \in Nat /\ i \in 0..n /\ i # 0 /\ q[i] \in Elements /\ i - 1 \in 0..n
    BY <1>0
  <2>1. PICK s : s = kept[i - 1]
    OBVIOUS
  <2>2. kept[i] = IF q[i].type \in types THEN Append(s, q[i]) ELSE s
    BY <1>2, <2>0, <2>1 DEF KeepStep
  <2>3. s \in Seq(Elements) /\ Len(s) \in Nat
    BY <1>5, <2>1, LenProperties
  <2>4. PICK h : Chosen(q, i - 1, types, s, h)
    BY <1>5, <2>1
  <2>5. CASE q[i].type \notin types
    <3>1. Chosen(q, i, types, s, h)
      BY <2>0, <2>3, <2>4, <2>5 DEF Chosen
    <3> QED BY <2>2, <2>3, <2>5, <3>1
  <2>6. CASE q[i].type \in types
    <3>1. PICK r : r = Append(s, q[i])
      OBVIOUS
    <3>2. /\ r \in Seq(Elements) /\ Len(r) = Len(s) + 1 /\ r[Len(s) + 1] = q[i]
          /\ \A k \in 1..Len(s) : r[k] = s[k]
      BY <2>0, <2>3, <3>1, AppendProperties
    <3> DEFINE g == [k \in 1..Len(r) |-> IF k <= Len(s) THEN h[k] ELSE i]
    <3>3. \A k \in 1..Len(r) : (k <= Len(s) => k \in 1..Len(s) /\ h[k] \in 1..(i - 1))
                               /\ (~(k <= Len(s)) => k = Len(s) + 1)
      BY <2>0, <2>3, <2>4, <3>2 DEF Chosen
    <3>4. g \in [1..Len(r) -> 1..i] /\ \A j, k \in 1..Len(r) : j < k => g[j] < g[k]
      BY <2>0, <2>3, <2>4, <3>2, <3>3 DEF Chosen
    <3>5. \A k \in 1..Len(r) : r[k] = q[g[k]] /\ q[g[k]].type \in types
      BY <2>0, <2>3, <2>4, <2>6, <3>2, <3>3 DEF Chosen
    <3>6. \A m \in 1..i : q[m].type \in types => \E k \in 1..Len(r) : g[k] = m
      <4>1. Len(s) + 1 \in 1..Len(r) /\ g[Len(s) + 1] = i
        BY <2>3, <3>2
      <4>2. ASSUME NEW m \in 1..(i - 1), q[m].type \in types
            PROVE  \E k \in 1..Len(r) : g[k] = m
        <5>1. PICK k \in 1..Len(s) : h[k] = m
          BY <2>4, <4>2 DEF Chosen
        <5>2. k \in 1..Len(r) /\ g[k] = m
          BY <2>3, <3>2, <5>1
        <5> QED BY <5>2
      <4>3. \A m \in 1..i : m = i \/ m \in 1..(i - 1)
        BY <2>0
      <4> HIDE DEF g
      <4> QED BY <4>1, <4>2, <4>3
    <3> HIDE DEF g
    <3>7. Chosen(q, i, types, r, g)
      BY <3>4, <3>5, <3>6 DEF Chosen
    <3> QED BY <2>2, <2>6, <3>1, <3>2, <3>7
  <2> QED BY <2>5, <2>6
<1> HIDE DEF Good
<1>6. \A i \in 0..n : Good(i)
  <2> DEFINE Bad == {i \in 0..n : ~Good(i)}
  <2>1. ASSUME Bad # {}
        PROVE  FALSE
    <3>1. Bad \in SUBSET Nat
      OBVIOUS
    <3>2. PICK m \in Bad : \A k \in Bad : m <= k
      BY <2>1, <3>1, Least
    <3>3. m # 0 /\ m \in 1..n /\ m - 1 \in 0..n /\ m - 1 \notin Bad
      BY <1>0, <1>4, <3>2
    <3>4. Good(m - 1)
      BY <3>3
    <3> QED BY <1>5, <3>2, <3>3, <3>4
  <2> QED BY <2>1
<1>7. Good(n)
  BY <1>0, <1>6
<1> QED BY <1>3, <1>7 DEF Good

LEMMA EventParts ==
  ASSUME NEW q \in Seq(Event)
  PROVE  /\ Len(q) \in Nat /\ DOMAIN q = 1..Len(q)
         /\ \A i \in 1..Len(q) : /\ q[i] \in Event /\ q[i] \in Members(q) /\ q[i].due \in Int
                                 /\ q[i].type \in ClockEvents /\ q[i].level \in Nat
         /\ \A e \in Members(q) : e \in Event /\ \E i \in 1..Len(q) : e = q[i]
<1>1. Len(q) \in Nat /\ DOMAIN q = 1..Len(q) /\ \A i \in 1..Len(q) : q[i] \in Event
  BY LenProperties, ElementOfSeq
<1>2. \A e \in Event : e.due \in Int /\ e.type \in ClockEvents /\ e.level \in Nat
  BY ClockConstants DEF Event
<1> QED BY <1>1, <1>2 DEF Members

\* What pending events will give back, when one of them is of healing at most.
LEMMA LevelsIs ==
  ASSUME NEW q \in Seq(Event), AtMostOne(q, "heal")
  PROVE  /\ Levels(q) \in Nat
         /\ ~Has(q, "heal") => Levels(q) = 0
         /\ \A e \in Members(q) : e.type = "heal" => Levels(q) = e.level
<1> DEFINE n == Len(q)
           Level1(i) == IF q[i].type = "heal" THEN q[i].level ELSE 0
           step == [i \in 1..n |-> [s \in Nat |-> s + Level1(i)]]
           sum == CHOOSE f : f = [i \in 0..n |-> SumStep(q, f, i)]
<1>0. /\ n \in Nat /\ \A i \in 1..n : q[i].level \in Nat /\ q[i] \in Members(q)
      /\ \A e \in Members(q) : \E i \in 1..n : e = q[i]
  BY EventParts
<1>1. \E f : f = [i \in 0..n |-> SumStep(q, f, i)]
  <2>1. step \in [1..n -> [Nat -> Nat]]
    BY <1>0
  <2>2. PICK f \in [0..n -> Nat] : f[0] = 0 /\ \A i \in 1..n : f[i] = step[i][f[i - 1]]
    <3> HIDE DEF step, n
    <3>1. n \in Nat
      BY <1>0
    <3>2. \E f \in [0..n -> Nat] : Iterated(f, n, 0, step)
      BY <2>1, <3>1, Iterates
    <3> QED BY <3>2 DEF Iterated
  <2>3. ASSUME NEW i \in 0..n
        PROVE  f[i] = SumStep(q, f, i)
    <3>1. CASE i = 0
      BY <2>2, <3>1 DEF SumStep
    <3>2. CASE i # 0
      <4>1. i \in 1..n /\ i - 1 \in 0..n
        BY <1>0, <3>2
      <4>2. f[i - 1] \in Nat
        BY <2>2, <4>1
      <4>3. f[i] = f[i - 1] + Level1(i)
        BY <2>2, <4>1, <4>2
      <4> QED BY <3>2, <4>3 DEF SumStep
    <3> QED BY <3>1, <3>2
  <2>4. f = [i \in 0..n |-> f[i]]
    OBVIOUS
  <2>5. f = [i \in 0..n |-> SumStep(q, f, i)]
    BY <2>3, <2>4
  <2> QED BY <2>5
<1>2. sum = [i \in 0..n |-> SumStep(q, sum, i)]
  BY <1>1
<1>3. Levels(q) = sum[n]
  BY Zenon DEF Levels, SumStep
<1> HIDE DEF sum, step
<1> DEFINE Good(i) == /\ sum[i] \in Nat
                      /\ (\A k \in 1..i : q[k].type # "heal") => sum[i] = 0
                      /\ \A k \in 1..i : q[k].type = "heal" => sum[i] = q[k].level
<1>4. Good(0)
  BY <1>0, <1>2 DEF SumStep
<1>5. ASSUME NEW i \in 1..n, Good(i - 1)
      PROVE  Good(i)
  <2>0. i \in Nat /\ i - 1 \in Nat /\ i \in 0..n /\ i # 0 /\ i - 1 \in 0..n /\ q[i].level \in Nat
    BY <1>0
  <2>1. sum[i] = sum[i - 1] + Level1(i)
    BY <1>2, <2>0 DEF SumStep
  <2>2. \A k \in 1..i : k = i \/ k \in 1..(i - 1)
    BY <2>0
  <2>3. CASE q[i].type # "heal"
    <3>1. sum[i] = sum[i - 1]
      BY <1>5, <2>1, <2>3
    <3>2. \A k \in 1..(i - 1) : k \in 1..i
      BY <2>0
    <3> QED BY <1>5, <2>2, <2>3, <3>1, <3>2
  <2>4. CASE q[i].type = "heal"
    <3>1. \A k \in 1..(i - 1) : q[k].type # "heal"
      BY <2>0, <2>4 DEF AtMostOne
    <3>2. sum[i] = q[i].level
      BY <1>5, <2>0, <2>1, <2>4, <3>1
    <3>3. i \in 1..i
      BY <2>0
    <3> QED BY <2>0, <2>2, <2>4, <3>1, <3>2, <3>3
  <2> QED BY <2>3, <2>4
<1> HIDE DEF Good
<1>6. \A i \in 0..n : Good(i)
  <2> DEFINE Bad == {i \in 0..n : ~Good(i)}
  <2>1. ASSUME Bad # {}
        PROVE  FALSE
    <3>1. Bad \in SUBSET Nat
      OBVIOUS
    <3>2. PICK m \in Bad : \A k \in Bad : m <= k
      BY <2>1, <3>1, Least
    <3>3. m # 0 /\ m \in 1..n /\ m - 1 \in 0..n /\ m - 1 \notin Bad
      BY <1>0, <1>4, <3>2
    <3>4. Good(m - 1)
      BY <3>3
    <3> QED BY <1>5, <3>2, <3>3, <3>4
  <2> QED BY <2>1
<1>7. Good(n)
  BY <1>0, <1>6
<1> QED BY <1>0, <1>3, <1>7 DEF Good, Has

-----------------------------------------------------------------------------
(* The clock: adding, taking and clearing events                            *)

LEMMA AddedIs ==
  ASSUME NEW q \in Seq(Event), Sorted(q), NEW e \in Event
  PROVE  /\ Added(q, e) \in Seq(Event) /\ Len(Added(q, e)) = Len(q) + 1 /\ Sorted(Added(q, e))
         /\ Members(Added(q, e)) = Members(q) \cup {e}
         /\ \A type : (type = e.type => ~Has(q, type)) /\ AtMostOne(q, type)
                        => AtMostOne(Added(q, e), type)
<1> DEFINE later == {i \in DOMAIN q : q[i].due > e.due}
<1>0. /\ Len(q) \in Nat /\ DOMAIN q = 1..Len(q) /\ e.due \in Int
      /\ \A i \in 1..Len(q) : q[i].due \in Int /\ q[i] \in Members(q)
  <2>1. e.due \in Nat
    BY DEF Event
  <2>2. /\ Len(q) \in Nat /\ DOMAIN q = 1..Len(q)
        /\ \A i \in 1..Len(q) : q[i].due \in Int /\ q[i] \in Members(q)
    BY EventParts
  <2> QED BY <2>1, <2>2
<1>1. PICK p \in 0..Len(q) :
        /\ Added(q, e) = InsertAt(q, p + 1, e)
        /\ \A i \in 1..Len(q) : i <= p => q[i].due <= e.due
        /\ \A i \in 1..Len(q) : i > p => e.due <= q[i].due
  <2>1. CASE later = {}
    <3>1. Added(q, e) = InsertAt(q, Len(q) + 1, e)
      BY <2>1, Zenon DEF Added
    <3>2. \A i \in 1..Len(q) : i <= Len(q) /\ q[i].due <= e.due
      BY <1>0, <2>1
    <3> QED BY <1>0, <3>1, <3>2
  <2>2. CASE later # {}
    <3>1. Added(q, e) = InsertAt(q, Min(later), e)
      BY <2>2, Zenon DEF Added
    <3>2. later \in SUBSET Nat
      BY <1>0
    <3>3. PICK m : m = Min(later)
      OBVIOUS
    <3>4. m \in later /\ \A k \in later : m <= k
      BY <2>2, <3>2, <3>3, MinIs
    <3>5. m \in 1..Len(q) /\ q[m].due > e.due /\ m - 1 \in 0..Len(q) /\ (m - 1) + 1 = m
      BY <1>0, <3>4
    <3>6. \A i \in 1..Len(q) : i <= m - 1 => q[i].due <= e.due
      BY <1>0, <3>4, <3>5
    <3>7. \A i \in 1..Len(q) : i > m - 1 => q[m].due <= q[i].due
      BY <1>0, <3>5 DEF Sorted
    <3>8. \A i \in 1..Len(q) : i > m - 1 => e.due <= q[i].due
      BY <1>0, <3>5, <3>7
    <3> QED BY <3>1, <3>3, <3>5, <3>6, <3>8
  <2> QED BY <2>1, <2>2
<1>2. PICK r : r = InsertAt(q, p + 1, e)
  OBVIOUS
<1>3. r \in Seq(Event) /\ Lengthened(q, p, e, r) /\ Members(r) = Members(q) \cup {e}
  <2>1. InsertAt(q, p + 1, e) \in Seq(Event) /\ Lengthened(q, p, e, InsertAt(q, p + 1, e))
    BY InsertIs, Zenon
  <2>2. Members(InsertAt(q, p + 1, e)) = Members(q) \cup {e}
    BY InsertAtMembers
  <2> QED BY <1>2, <2>1, <2>2, Zenon
<1>4. /\ Len(r) = Len(q) + 1
      /\ \A i \in 1..(Len(q) + 1) : r[i] = IF i <= p THEN q[i] ELSE IF i = p + 1 THEN e ELSE q[i - 1]
  BY <1>3, Zenon DEF Lengthened
<1>5. \A i \in 1..(Len(q) + 1) :
        \/ i <= p /\ i \in 1..Len(q) /\ r[i] = q[i]
        \/ i = p + 1 /\ r[i] = e
        \/ i > p + 1 /\ i - 1 \in 1..Len(q) /\ i - 1 > p /\ r[i] = q[i - 1]
  BY <1>0, <1>4
<1>6. Sorted(r)
  <2> SUFFICES ASSUME NEW i \in 1..(Len(q) + 1), NEW j \in 1..(Len(q) + 1), i < j
               PROVE  r[i].due <= r[j].due
    BY <1>4 DEF Sorted
  <2>1. \A k, m \in 1..Len(q) : k < m => q[k].due <= q[m].due
    BY DEF Sorted
  <2>2. CASE i <= p /\ r[i] = q[i] /\ i \in 1..Len(q)
    <3>1. CASE j <= p /\ j \in 1..Len(q) /\ r[j] = q[j]
      BY <2>1, <2>2, <3>1
    <3>2. CASE j = p + 1 /\ r[j] = e
      BY <1>1, <2>2, <3>2
    <3>3. CASE j > p + 1 /\ j - 1 \in 1..Len(q) /\ j - 1 > p /\ r[j] = q[j - 1]
      <4>1. i < j - 1
        BY <1>0, <2>2, <3>3
      <4> QED BY <2>1, <2>2, <3>3, <4>1
    <3> QED BY <1>5, <3>1, <3>2, <3>3
  <2>3. CASE i = p + 1 /\ r[i] = e
    <3>1. j > p + 1 /\ j - 1 \in 1..Len(q) /\ j - 1 > p /\ r[j] = q[j - 1]
      BY <1>0, <1>5, <2>3
    <3> QED BY <1>1, <2>3, <3>1
  <2>4. CASE i > p + 1 /\ i - 1 \in 1..Len(q) /\ i - 1 > p /\ r[i] = q[i - 1]
    <3>1. j > p + 1 /\ j - 1 \in 1..Len(q) /\ r[j] = q[j - 1]
      BY <1>0, <1>5, <2>4
    <3> QED BY <2>1, <2>4, <3>1
  <2> QED BY <1>5, <2>2, <2>3, <2>4
<1>7. ASSUME NEW type, (type = e.type => ~Has(q, type)) /\ AtMostOne(q, type)
      PROVE  AtMostOne(r, type)
  <2> SUFFICES ASSUME NEW i \in 1..(Len(q) + 1), NEW j \in 1..(Len(q) + 1),
                      r[i].type = type, r[j].type = type
               PROVE  i = j
    BY <1>4 DEF AtMostOne
  <2>1. \A k \in 1..Len(q) : q[k].type = type => type # e.type
    BY <1>0, <1>7 DEF Has
  <2>2. \A k, m \in 1..Len(q) : q[k].type = type /\ q[m].type = type => k = m
    BY <1>7 DEF AtMostOne
  <2> QED BY <1>0, <1>5, <2>1, <2>2
<1> QED BY <1>1, <1>2, <1>3, <1>4, <1>6, <1>7

LEMMA TailIs ==
  ASSUME NEW q \in Seq(Event), q # << >>, Sorted(q)
  PROVE  /\ q[1] \in Members(q) /\ q[1] \in Event
         /\ Tail(q) \in Seq(Event) /\ Sorted(Tail(q))
         /\ Members(Tail(q)) \subseteq Members(q)
         /\ \A e \in Members(q) : e = q[1] \/ e \in Members(Tail(q))
         /\ \A type : AtMostOne(q, type) => AtMostOne(Tail(q), type)
         /\ AtMostOne(q, q[1].type) => ~Has(Tail(q), q[1].type)
<1>0. /\ Len(q) \in Nat /\ \A i \in 1..Len(q) : q[i] \in Members(q) /\ q[i] \in Event
      /\ \A e \in Members(q) : \E i \in 1..Len(q) : e = q[i]
  BY EventParts
<1>1. 1 \in 1..Len(q) /\ Tail(q) = RemoveAt(q, 1)
  BY TailIsRemoveAt
<1>2. PICK r : r = Tail(q)
  OBVIOUS
<1>3. r \in Seq(Event) /\ Len(r) = Len(q) - 1 /\ \A i \in 1..(Len(q) - 1) : r[i] = q[i + 1]
  <2>1. \A i \in 1..(Len(q) - 1) : ~(i < 1)
    OBVIOUS
  <2> QED BY <1>1, <1>2, <2>1, RemoveAtProperties
<1>4. \A i \in 1..Len(r) : i + 1 \in 1..Len(q) /\ i + 1 # 1 /\ r[i] = q[i + 1]
  BY <1>0, <1>3
<1>5. /\ Len(r) \in Nat /\ \A i \in 1..Len(r) : r[i] \in Members(r)
      /\ \A e \in Members(r) : \E i \in 1..Len(r) : e = r[i]
  BY <1>3, EventParts
<1>6. Sorted(r)
  <2> SUFFICES ASSUME NEW i \in 1..Len(r), NEW j \in 1..Len(r), i < j
               PROVE  r[i].due <= r[j].due
    BY DEF Sorted
  <2>1. i + 1 < j + 1
    OBVIOUS
  <2> QED BY <1>4, <2>1 DEF Sorted
<1>7. Members(r) \subseteq Members(q)
  BY <1>0, <1>4, <1>5
<1>8. \A e \in Members(q) : e = q[1] \/ e \in Members(r)
  <2> SUFFICES ASSUME NEW i \in 1..Len(q), i # 1
               PROVE  q[i] \in Members(r)
    BY <1>0
  <2>1. i - 1 \in 1..Len(r) /\ r[i - 1] = q[i]
    BY <1>0, <1>3
  <2> QED BY <1>5, <2>1
<1>9. ASSUME NEW type, AtMostOne(q, type)
      PROVE  AtMostOne(r, type)
  <2> SUFFICES ASSUME NEW i \in 1..Len(r), NEW j \in 1..Len(r), r[i].type = type, r[j].type = type
               PROVE  i = j
    BY DEF AtMostOne
  <2>1. i + 1 = j + 1
    BY <1>4, <1>9 DEF AtMostOne
  <2> QED BY <2>1
<1>10. ASSUME AtMostOne(q, q[1].type), Has(r, q[1].type)
       PROVE  FALSE
  <2>1. PICK i \in 1..Len(r) : r[i].type = q[1].type
    BY <1>5, <1>10 DEF Has
  <2>2. i + 1 = 1
    BY <1>1, <1>4, <1>10, <2>1 DEF AtMostOne
  <2> QED BY <1>4, <2>2
<1> QED BY <1>0, <1>1, <1>2, <1>3, <1>6, <1>7, <1>8, <1>9, <1>10

\* What is left of q are its events of these types.
Subqueue(r, q, types) ==
  /\ r \in Seq(Event) /\ (Sorted(q) => Sorted(r))
  /\ Members(r) = {e \in Members(q) : e.type \in types}
  /\ \A type : AtMostOne(q, type) => AtMostOne(r, type)

LEMMA WithKeeps ==
  ASSUME NEW q \in Seq(Event), NEW types
  PROVE  Subqueue(With(q, types), q, types)
<1>1. PICK r : r = With(q, types)
  OBVIOUS
<1>2. r \in Seq(Event)
  BY <1>1, WithIs
<1>3. PICK h : Chosen(q, Len(q), types, r, h)
  BY <1>1, WithIs
<1>4. /\ Len(q) \in Nat /\ \A i \in 1..Len(q) : q[i] \in Members(q)
      /\ \A e \in Members(q) : \E i \in 1..Len(q) : e = q[i]
  BY EventParts
<1>5. /\ Len(r) \in Nat /\ \A i \in 1..Len(r) : r[i] \in Members(r)
      /\ \A e \in Members(r) : \E i \in 1..Len(r) : e = r[i]
  BY <1>2, EventParts
<1>6. /\ \A k \in 1..Len(r) : h[k] \in 1..Len(q) /\ r[k] = q[h[k]] /\ q[h[k]].type \in types
      /\ \A j, k \in 1..Len(r) : j < k => h[j] < h[k]
      /\ \A i \in 1..Len(q) : q[i].type \in types => \E k \in 1..Len(r) : h[k] = i
  BY <1>3 DEF Chosen
<1>7. Sorted(q) => Sorted(r)
  BY <1>6 DEF Sorted
<1>8. Members(r) = {e \in Members(q) : e.type \in types}
  <2>1. \A e \in Members(r) : e \in Members(q) /\ e.type \in types
    BY <1>4, <1>5, <1>6
  <2>2. ASSUME NEW i \in 1..Len(q), q[i].type \in types
        PROVE  q[i] \in Members(r)
    <3>1. PICK k \in 1..Len(r) : h[k] = i
      BY <1>6, <2>2
    <3>2. r[k] = q[i]
      BY <1>6, <3>1
    <3> QED BY <1>5, <3>2
  <2>3. \A e \in Members(q) : e.type \in types => e \in Members(r)
    BY <1>4, <2>2
  <2> QED BY <2>1, <2>3
<1>9. ASSUME NEW type, AtMostOne(q, type)
      PROVE  AtMostOne(r, type)
  <2> SUFFICES ASSUME NEW i \in 1..Len(r), NEW j \in 1..Len(r), r[i].type = type, r[j].type = type
               PROVE  i = j
    BY DEF AtMostOne
  <2>1. h[i] = h[j]
    BY <1>6, <1>9 DEF AtMostOne
  <2>2. ~(i < j) /\ ~(j < i)
    BY <1>6, <2>1
  <2> QED BY <1>5, <2>2
<1> QED BY <1>1, <1>2, <1>7, <1>8, <1>9 DEF Subqueue

LEMMA WithoutKeeps ==
  ASSUME NEW q \in Seq(Event), NEW types
  PROVE  Subqueue(Without(q, types), q, ClockEvents \ types)
BY WithKeeps DEF Without

LEMMA WithCounts ==
  ASSUME NEW q \in Seq(Event), NEW type, AtMostOne(q, type)
  PROVE  /\ Len(With(q, {type})) <= 1
         /\ Has(q, type) => Len(With(q, {type})) = 1
<1>1. PICK r : r = With(q, {type})
  OBVIOUS
<1>2. r \in Seq(Event) /\ Subqueue(r, q, {type})
  BY <1>1, WithKeeps DEF Subqueue
<1>3. PICK h : Chosen(q, Len(q), {type}, r, h)
  BY <1>1, WithIs
<1>4. Len(r) \in Nat
  BY <1>2, LenProperties
<1>5. ~(Len(r) > 1)
  <2> SUFFICES ASSUME Len(r) > 1
               PROVE  FALSE
    OBVIOUS
  <2>1. 1 \in 1..Len(r) /\ 2 \in 1..Len(r)
    BY <1>4
  <2>2. r[1].type = type /\ r[2].type = type
    BY <1>3, <2>1 DEF Chosen
  <2>3. AtMostOne(r, type)
    BY <1>2 DEF Subqueue
  <2> QED BY <2>1, <2>2, <2>3 DEF AtMostOne
<1>6. ASSUME Has(q, type)
      PROVE  Len(r) # 0
  <2>1. PICK e \in Members(q) : e.type = type
    BY <1>6 DEF Has
  <2>2. e \in Members(r)
    BY <1>2, <2>1 DEF Subqueue
  <2> QED BY <1>4, <2>2 DEF Members
<1>7. Len(r) <= 1 /\ (Has(q, type) => Len(r) = 1)
  <2>1. PICK n : n = Len(r)
    OBVIOUS
  <2>2. n \in Nat /\ ~(n > 1) /\ (Has(q, type) => n # 0)
    BY <1>4, <1>5, <1>6, <2>1
  <2>3. n <= 1 /\ (Has(q, type) => n = 1)
    BY <2>2
  <2> QED BY <2>1, <2>3
<1> QED BY <1>1, <1>7

LEMMA WithToSet ==
  ASSUME NEW q \in Seq(Event), NEW type, NEW e \in Members(q), e.type = type
  PROVE  e \in ToSet(With(q, {type}))
<1>1. PICK r : r = With(q, {type})
  OBVIOUS
<1>2. Subqueue(r, q, {type})
  BY <1>1, WithKeeps
<1>3. e \in Members(r) /\ r \in Seq(Event)
  BY <1>2 DEF Subqueue
<1>4. DOMAIN r = 1..Len(r)
  BY <1>3, EventParts
<1> QED BY <1>1, <1>3, <1>4 DEF Members, ToSet

-----------------------------------------------------------------------------
(* The clock: days                                                          *)

LEMMA DaysInOrder ==
  ASSUME NEW s \in Int, NEW t \in Int
  PROVE  /\ DayOf(s) \in Int /\ (s >= 0 => DayOf(s) \in Nat)
         /\ s <= t => DayOf(s) <= DayOf(t)
<1>1. Day \in Nat /\ Day > 0
  BY ClockConstants
<1> QED BY <1>1 DEF DayOf

\* No later than this is the midnight before the day after t's over.
Latest(t) == Day * (DayOf(t) + 1) + Minute
LEMMA MidnightIs ==
  ASSUME NEW t \in Int
  PROVE  /\ NextMidnight(t) \in Int /\ NextMidnight(t) > t /\ DayOf(NextMidnight(t)) = DayOf(t) + 1
         /\ Latest(t) \in Int /\ NextMidnight(t) < Latest(t)
<1>1. Day \in Nat /\ Day > 0 /\ Minute \in Nat /\ Minute > 0 /\ Minute <= Day
  BY ClockConstants
<1> QED BY <1>1 DEF DayOf, NextMidnight, Latest

LEMMA LatestInOrder ==
  ASSUME NEW s \in Int, NEW t \in Int, s <= t
  PROVE  Latest(s) <= Latest(t)
<1>1. PICK a, b \in Int : a = DayOf(s) /\ b = DayOf(t) /\ a + 1 <= b + 1
  BY DaysInOrder
<1>2. Day \in Nat
  BY ClockConstants
<1>3. Day * (a + 1) <= Day * (b + 1)
  BY <1>1, <1>2
<1> QED BY <1>1, <1>3, ClockConstants DEF Latest

-----------------------------------------------------------------------------
(* The clock: the invariant                                                 *)

\* Every midnight and every update was added by the time t, for the next day, in a minute.
Times(q, t) ==
  \A e \in Members(q) : /\ e.type = "midnight" => e.due < Latest(t)
                        /\ e.type = "map" => e.due <= t + Minute
QueueOK(q, t, p, il) ==
  /\ q \in Seq(Event) /\ Sorted(q) /\ Times(q, t)
  /\ AtMostOne(q, "poison") /\ (p > 0 => Has(q, "poison"))
  /\ AtMostOne(q, "heal") /\ il = Levels(q)
\* No midnight that is pending is of the day d, or one before it.
Tomorrow(q, d) == \A e \in Members(q) : e.type = "midnight" => DayOf(e.due) > d

NowTyped ==
  /\ now \in Nat /\ now > 0 /\ peak \in Nat /\ now <= peak
  /\ limit \in {0, now} /\ goal \in Nat
BodyTyped ==
  /\ poison \in 0..MaxPoison /\ dose \in 0..MaxDose /\ ill \in Nat /\ irradiated \in BOOLEAN
  /\ lastDay \in Nat /\ adjusted \in Nat
  /\ named \in BOOLEAN /\ resting \in Nat /\ lost \in BOOLEAN /\ twice \in BOOLEAN /\ setBack \in BOOLEAN
  /\ movie \in {"none", "script", "midnight"}
SavedOK(s) ==
  /\ s.now \in Nat /\ s.now > 0 /\ s.peak \in Nat /\ s.now <= s.peak
  /\ s.poison \in 0..MaxPoison /\ s.dose \in 0..MaxDose /\ s.ill \in Nat
  /\ s.irradiated \in BOOLEAN /\ s.lastDay \in Nat
  /\ QueueOK(s.queue, s.peak, s.poison, s.ill)
SlotOK == slot # << >> => slot = <<slot[1]>> /\ SavedOK(slot[1])

\* Both events are there, whoever handles or suspends what.
EventsPending ==
  /\ ~lost /\ movie # "midnight" => Has(queue, "midnight")
  /\ named => Has(queue, "map")
\* The day's midnight has come, and no other of that day is pending; nor in the file.
Once ==
  ~setBack =>
    /\ ~twice /\ Tomorrow(queue, lastDay) /\ lastDay <= DayOf(now)
    /\ movie = "midnight" => lastDay < DayOf(now)
    /\ slot # << >> => Tomorrow(slot[1].queue, slot[1].lastDay) /\ slot[1].lastDay <= DayOf(slot[1].now)

ClockInv ==
  /\ NowTyped /\ BodyTyped /\ QueueOK(queue, peak, poison, ill) /\ SlotOK
  /\ EventsPending /\ Once

-----------------------------------------------------------------------------
(* The clock: what becomes of the queue                                     *)

LEMMA SameLevels ==
  ASSUME NEW q \in Seq(Event), NEW r \in Seq(Event), AtMostOne(q, "heal"), AtMostOne(r, "heal"),
         \A e \in Event : e.type = "heal" => (e \in Members(q) <=> e \in Members(r))
  PROVE  Levels(q) = Levels(r)
<1>1. CASE Has(q, "heal")
  <2>1. PICK e \in Members(q) : e.type = "heal"
    BY <1>1 DEF Has
  <2>2. e \in Event /\ e \in Members(r)
    BY <2>1, EventParts
  <2> QED BY <2>1, <2>2, LevelsIs
<1>2. CASE ~Has(q, "heal")
  <2>1. ~Has(r, "heal")
    BY <1>2, EventParts DEF Has
  <2> QED BY <1>2, <2>1, LevelsIs
<1> QED BY <1>1, <1>2

LEMMA LaterKeeps ==
  ASSUME NEW q, NEW s \in Nat, NEW t \in Nat, s <= t, NEW p, NEW il, QueueOK(q, s, p, il)
  PROVE  QueueOK(q, t, p, il)
<1>0. s \in Int /\ t \in Int /\ Minute \in Nat
  BY ClockConstants
<1>1. Latest(s) <= Latest(t) /\ Latest(s) \in Int /\ Latest(t) \in Int
  BY <1>0, LatestInOrder, MidnightIs
<1>2. \A e \in Members(q) : e.due \in Int
  BY EventParts DEF QueueOK
<1>3. Times(q, t)
  BY <1>0, <1>1, <1>2 DEF QueueOK, Times
<1> QED BY <1>3 DEF QueueOK

\* What is asked of an event to be added at the time t, by whom the day d is over.
Addable(e, t) ==
  /\ e \in Event /\ e.type \in {"midnight", "map", "sick"}
  /\ e.type = "midnight" => e.due < Latest(t)
  /\ e.type = "map" => e.due <= t + Minute
After(e, d) == e.type = "midnight" => DayOf(e.due) > d

LEMMA AddKeeps ==
  ASSUME NEW q, NEW t, NEW p, NEW il, QueueOK(q, t, p, il), NEW e, Addable(e, t)
  PROVE  /\ QueueOK(Added(q, e), t, p, il)
         /\ Has(Added(q, e), e.type) /\ \A type : Has(q, type) => Has(Added(q, e), type)
         /\ \A d : Tomorrow(q, d) /\ After(e, d) => Tomorrow(Added(q, e), d)
<1>1. q \in Seq(Event) /\ Sorted(q) /\ e \in Event
  BY DEF QueueOK, Addable
<1>2. PICK r : r = Added(q, e)
  OBVIOUS
<1>3. /\ r \in Seq(Event) /\ Sorted(r) /\ Members(r) = Members(q) \cup {e}
      /\ \A type : (type = e.type => ~Has(q, type)) /\ AtMostOne(q, type) => AtMostOne(r, type)
  BY <1>1, <1>2, AddedIs
<1>4. AtMostOne(r, "poison") /\ AtMostOne(r, "heal")
  BY <1>3 DEF QueueOK, Addable
<1>5. Levels(r) = Levels(q)
  BY <1>1, <1>3, <1>4, SameLevels DEF QueueOK, Addable
<1>6. Times(r, t)
  BY <1>3 DEF QueueOK, Times, Addable
<1>7. Has(r, e.type) /\ \A type : Has(q, type) => Has(r, type)
  BY <1>3 DEF Has
<1>8. \A d : Tomorrow(q, d) /\ After(e, d) => Tomorrow(r, d)
  BY <1>3 DEF Tomorrow, After
<1>9. QueueOK(r, t, p, il)
  BY <1>3, <1>4, <1>5, <1>6, <1>7 DEF QueueOK
<1> QED BY <1>2, <1>7, <1>8, <1>9

LEMMA ClearedKeeps ==
  ASSUME NEW q, NEW t, NEW p, NEW il, QueueOK(q, t, p, il), NEW types \in SUBSET {"midnight", "map"}
  PROVE  /\ QueueOK(Without(q, types), t, p, il)
         /\ \A type \in ClockEvents \ types : Has(q, type) => Has(Without(q, types), type)
         /\ \A d : Tomorrow(q, d) \/ "midnight" \in types => Tomorrow(Without(q, types), d)
<1>1. q \in Seq(Event) /\ Sorted(q)
  BY DEF QueueOK
<1>2. PICK r : r = Without(q, types)
  OBVIOUS
<1>3. Subqueue(r, q, ClockEvents \ types)
  BY <1>1, <1>2, WithoutKeeps
<1>4. /\ r \in Seq(Event) /\ Sorted(r) /\ AtMostOne(r, "poison") /\ AtMostOne(r, "heal")
      /\ Members(r) = {e \in Members(q) : e.type \in ClockEvents \ types}
  BY <1>1, <1>3 DEF Subqueue, QueueOK
<1>5. Levels(r) = Levels(q)
  <2>1. \A e \in Event : e.type = "heal" => (e \in Members(q) <=> e \in Members(r))
    BY <1>4 DEF ClockEvents
  <2> QED BY <1>1, <1>4, <2>1, SameLevels DEF QueueOK
<1>6. Times(r, t)
  BY <1>4 DEF QueueOK, Times
<1>7. \A type \in ClockEvents \ types : Has(q, type) => Has(r, type)
  BY <1>4 DEF Has
<1>8. \A d : Tomorrow(q, d) \/ "midnight" \in types => Tomorrow(r, d)
  BY <1>4 DEF Tomorrow
<1>9. "poison" \in ClockEvents \ types
  BY DEF ClockEvents
<1>10. QueueOK(r, t, p, il)
  BY <1>4, <1>5, <1>6, <1>7, <1>9 DEF QueueOK
<1> QED BY <1>2, <1>7, <1>8, <1>10

LEMMA ScheduledKeeps ==
  ASSUME NEW q, NEW t \in Nat, NEW p, NEW il, QueueOK(q, t, p, il), NEW u \in Nat, u <= t, NEW hasName
  PROVE  LET r == Scheduled(q, u, hasName)
         IN /\ QueueOK(r, t, p, il) /\ Has(r, "midnight") /\ (hasName => Has(r, "map"))
            /\ \A type : Has(q, type) => Has(r, type)
            /\ \A d \in Int : Tomorrow(q, d) /\ d <= DayOf(u) => Tomorrow(r, d)
<1> DEFINE m == At(NextMidnight(u), "midnight", 0)
           c == At(u + Minute, "map", 0)
<1>1. /\ NextMidnight(u) \in Nat /\ NextMidnight(u) < Latest(t) /\ DayOf(NextMidnight(u)) = DayOf(u) + 1
      /\ DayOf(u) \in Int /\ Minute \in Nat /\ MaxDose \in Nat
  <2>1. u \in Int /\ t \in Int /\ Minute \in Nat /\ MaxDose \in Nat
    BY ClockConstants
  <2>2. /\ NextMidnight(u) \in Int /\ NextMidnight(u) > u /\ DayOf(NextMidnight(u)) = DayOf(u) + 1
        /\ Latest(u) \in Int /\ NextMidnight(u) < Latest(u)
    BY <2>1, MidnightIs
  <2>3. Latest(t) \in Int
    BY <2>1, MidnightIs
  <2>4. Latest(u) <= Latest(t)
    BY <2>1, LatestInOrder
  <2>5. DayOf(u) \in Int
    BY <2>1, DaysInOrder
  <2> QED BY <2>1, <2>2, <2>3, <2>4, <2>5
<1>2. Addable(m, t) /\ Addable(c, t) /\ m.type = "midnight" /\ c.type = "map"
  BY <1>1 DEF Addable, At, Event, ClockEvents
<1>3. \A d \in Int : d <= DayOf(u) => After(m, d) /\ After(c, d)
  BY <1>1 DEF After, At
<1>4. PICK daily : daily = Added(q, m)
  OBVIOUS
<1> HIDE DEF m, c
<1>5. /\ QueueOK(daily, t, p, il) /\ Has(daily, "midnight") /\ \A type : Has(q, type) => Has(daily, type)
      /\ \A d : Tomorrow(q, d) /\ After(m, d) => Tomorrow(daily, d)
  BY <1>2, <1>4, AddKeeps
<1>6. CASE hasName
  <2>1. PICK r : r = Added(daily, c)
    OBVIOUS
  <2>2. Scheduled(q, u, hasName) = r
    BY <1>4, <1>6, <2>1 DEF Scheduled, m, c
  <2>3. /\ QueueOK(r, t, p, il) /\ Has(r, "map") /\ \A type : Has(daily, type) => Has(r, type)
        /\ \A d : Tomorrow(daily, d) /\ After(c, d) => Tomorrow(r, d)
    BY <1>2, <1>5, <2>1, AddKeeps
  <2>4. \A d \in Int : Tomorrow(q, d) /\ d <= DayOf(u) => Tomorrow(r, d)
    BY <1>3, <1>5, <2>3
  <2> QED BY <1>5, <2>2, <2>3, <2>4
<1>7. CASE ~hasName
  <2>1. Scheduled(q, u, hasName) = daily
    BY <1>4, <1>7 DEF Scheduled, m
  <2> QED BY <1>3, <1>5, <1>7, <2>1
<1> QED BY <1>6, <1>7

-----------------------------------------------------------------------------
(* The clock: every step keeps it                                           *)

\* The latest time that is shown.
LEMMA MovesKeeps ==
  ASSUME ClockInv, NEW t \in Nat, t > 0, Moves(t), limit' \in {0, t}, goal' \in Nat,
         Moved, resting' \in Nat
  PROVE  ClockInv'
<1>1. NowTyped /\ BodyTyped /\ QueueOK(queue, peak, poison, ill) /\ SlotOK /\ EventsPending /\ Once
  BY DEF ClockInv
<1>2. /\ UNCHANGED <<queue, named, movie, poison, dose, irradiated, ill, slot, lost, lastDay, twice, adjusted>>
      /\ resting' \in Nat
  BY DEF Moved, body
<1>3. now' = t /\ peak' = (IF t > peak THEN t ELSE peak) /\ setBack' = (setBack \/ DayOf(t) < DayOf(now))
  BY DEF Moves
<1>4. NowTyped' /\ peak <= peak'
  BY <1>1, <1>3 DEF NowTyped
<1>5. BodyTyped'
  BY <1>1, <1>2, <1>3 DEF BodyTyped
<1>6. QueueOK(queue, peak, poison, ill)'
  <2>1. QueueOK(queue, peak', poison, ill)
    BY <1>1, <1>4, LaterKeeps DEF NowTyped
  <2> QED BY <1>2, <2>1
<1>7. SlotOK' /\ EventsPending'
  BY <1>1, <1>2 DEF SlotOK, EventsPending
<1>8. Once'
  <2>1. ASSUME ~setBack'
        PROVE  ~setBack /\ DayOf(now) <= DayOf(now') /\ DayOf(now) \in Int /\ DayOf(now') \in Int
    <3>1. DayOf(now) \in Int /\ DayOf(t) \in Int
      BY <1>1, DaysInOrder DEF NowTyped
    <3>2. ~setBack /\ ~(DayOf(t) < DayOf(now))
      BY <1>3, <2>1, Zenon
    <3> QED BY <1>3, <3>1, <3>2
  <2> SUFFICES ASSUME ~setBack'
               PROVE  /\ ~twice' /\ Tomorrow(queue', lastDay') /\ lastDay' <= DayOf(now')
                      /\ movie' = "midnight" => lastDay' < DayOf(now')
                      /\ slot' # << >> => /\ Tomorrow(slot'[1].queue, slot'[1].lastDay)
                                          /\ slot'[1].lastDay <= DayOf(slot'[1].now)
    BY DEF Once
  <2>2. ~setBack /\ DayOf(now) <= DayOf(now') /\ DayOf(now) \in Int /\ DayOf(now') \in Int /\ lastDay \in Int
    BY <1>1, <2>1 DEF BodyTyped
  <2>3. /\ ~twice /\ Tomorrow(queue, lastDay) /\ lastDay <= DayOf(now)
        /\ movie = "midnight" => lastDay < DayOf(now)
        /\ slot # << >> => Tomorrow(slot[1].queue, slot[1].lastDay) /\ slot[1].lastDay <= DayOf(slot[1].now)
    BY <1>1, <2>2 DEF Once
  <2>4. lastDay <= DayOf(now') /\ (movie = "midnight" => lastDay < DayOf(now'))
    BY <2>2, <2>3
  <2> QED BY <1>2, <2>3, <2>4
<1> QED BY <1>4, <1>5, <1>6, <1>7, <1>8 DEF ClockInv

LEMMA TimePasses ==
  ASSUME ClockInv,
         Tick \/ AllHandled \/ EndRest \/ \E d \in Leaps : Advance(d) \/ Travel(d) \/ Rest(d)
  PROVE  ClockInv'
<1>1. NowTyped /\ BodyTyped /\ QueueOK(queue, peak, poison, ill)
  BY DEF ClockInv
<1>2. now \in Nat /\ now > 0 /\ limit \in {0, now} /\ goal \in Nat /\ resting \in Nat
  BY <1>1 DEF NowTyped, BodyTyped
<1>3. queue # << >> => queue[1].due \in Nat
  <2>1. queue \in Seq(Event) /\ Sorted(queue)
    BY <1>1 DEF QueueOK
  <2> QED BY <2>1, TailIs DEF Event
<1>4. CASE Tick
  <2>1. PICK t \in {now, now + 1} : Moves(t)
    BY <1>4 DEF Tick
  <2>2. t \in Nat /\ t > 0 /\ now' = t
    BY <1>2, <2>1 DEF Moves
  <2>3. limit' = t /\ goal' = goal /\ Moved /\ UNCHANGED resting
    BY <1>4, <2>2 DEF Tick, Process
  <2> QED BY <1>2, <2>1, <2>2, <2>3, MovesKeeps
<1>5. CASE AllHandled
  <2>1. PICK t : t = (IF goal > 0 THEN goal ELSE now)
    OBVIOUS
  <2>2. t \in Nat /\ t > 0 /\ Moves(t) /\ limit' = 0 /\ goal' = 0 /\ Moved /\ UNCHANGED resting
    BY <1>2, <1>5, <2>1 DEF AllHandled
  <2> QED BY <1>2, <2>2, MovesKeeps
<1>6. CASE EndRest
  <2>1. UNCHANGED <<now, peak, setBack, goal>> /\ Moved /\ resting' = 0 /\ limit' \in {0, now}
    BY <1>2, <1>6 DEF EndRest
  <2>2. DayOf(now) \in Int
    BY <1>2, DaysInOrder
  <2>3. Moves(now)
    BY <1>1, <2>1, <2>2 DEF Moves, NowTyped, BodyTyped
  <2> QED BY <1>2, <2>1, <2>3, MovesKeeps
<1>7. ASSUME NEW d \in Leaps, Advance(d) \/ Travel(d) \/ Rest(d)
      PROVE  ClockInv'
  <2>0. d \in Nat
    BY ClockConstants
  <2>1. CASE Advance(d)
    <3>1. now + d \in Nat /\ now + d > 0 /\ Moves(now + d) /\ now' = now + d
      BY <1>2, <2>0, <2>1 DEF Advance, Moves
    <3>2. limit' = now + d /\ goal' = goal /\ Moved /\ UNCHANGED resting
      BY <2>1, <3>1 DEF Advance, Process
    <3> QED BY <1>2, <3>1, <3>2, MovesKeeps
  <2>2. CASE Travel(d)
    <3>1. PICK t : t = (IF now <= queue[1].due /\ queue[1].due < now + d THEN queue[1].due ELSE now + d)
      OBVIOUS
    <3>2. t \in Nat /\ t > 0
      BY <1>2, <1>3, <2>0, <2>2, <3>1 DEF Travel
    <3>3. Moves(t) /\ now' = t
      BY <2>2, <3>1 DEF Travel, Moves
    <3>4. limit' = t /\ goal' = goal /\ Moved /\ UNCHANGED resting
      BY <2>2, <3>3 DEF Travel, Process
    <3> QED BY <1>2, <3>2, <3>3, <3>4, MovesKeeps
  <2>3. CASE Rest(d)
    <3>0. Moved /\ limit = 0 /\ goal = 0
      BY <2>3 DEF Rest, Idle
    <3>1. PICK p \in Nat :
            /\ p > 0 /\ resting' = p
            /\ IF queue # << >> /\ queue[1].due <= p
               THEN Moves(queue[1].due + 1) /\ goal' = p /\ Process
               ELSE Moves(p) /\ UNCHANGED <<limit, goal>>
      <4>1. PICK from \in {now} \cup ({resting} \ {0}) :
              /\ resting' = from + d
              /\ IF queue # << >> /\ queue[1].due <= from + d
                 THEN Moves(queue[1].due + 1) /\ goal' = from + d /\ Process
                 ELSE Moves(from + d) /\ UNCHANGED <<limit, goal>>
        BY <2>3 DEF Rest
      <4>2. from + d \in Nat /\ from + d > 0
        BY <1>2, <2>0
      <4> QED BY <4>1, <4>2
    <3>2. CASE queue # << >> /\ queue[1].due <= p
      <4>1. queue[1].due + 1 \in Nat /\ queue[1].due + 1 > 0
        BY <1>3, <3>2
      <4>2. Moves(queue[1].due + 1) /\ now' = queue[1].due + 1 /\ goal' = p
        BY <3>1, <3>2 DEF Moves
      <4>3. limit' = queue[1].due + 1
        BY <3>1, <3>2, <4>2 DEF Process
      <4> QED BY <3>0, <3>1, <4>1, <4>2, <4>3, MovesKeeps
    <3>3. CASE ~(queue # << >> /\ queue[1].due <= p)
      <4>1. Moves(p) /\ limit' = 0 /\ goal' = 0
        BY <3>0, <3>1, <3>3
      <4> QED BY <3>0, <3>1, <4>1, MovesKeeps
    <3> QED BY <3>2, <3>3
  <2> QED BY <1>7, <2>1, <2>2, <2>3
<1> QED BY <1>4, <1>5, <1>6, <1>7

\* The steps that leave the time alone, by what they make of the queue.
LEMMA QueueKeeps ==
  ASSUME ClockInv, UNCHANGED <<now, peak, setBack>>, limit' \in {0, limit}, goal' \in {0, goal},
         BodyTyped', SlotOK', QueueOK(queue', peak, poison', ill'), EventsPending',
         Once \/ setBack => Once'
  PROVE  ClockInv'
BY DEF ClockInv, NowTyped

-----------------------------------------------------------------------------
(* The clock: what becomes of poison and radiation                          *)

LEMMA TailKeeps ==
  ASSUME NEW q, NEW t, NEW p, NEW il, QueueOK(q, t, p, il), q # << >>
  PROVE  /\ q[1] \in Event /\ q[1] \in Members(q)
         /\ q[1].type # "poison" /\ q[1].type # "heal" => QueueOK(Tail(q), t, p, il)
         /\ q[1].type = "poison" => QueueOK(Tail(q), t, 0, il)
         /\ q[1].type = "heal" => QueueOK(Tail(q), t, p, 0) /\ il = q[1].level
         /\ \A type : Has(q, type) /\ type # q[1].type => Has(Tail(q), type)
         /\ \A d : Tomorrow(q, d) => Tomorrow(Tail(q), d)
<1>1. q \in Seq(Event) /\ Sorted(q)
  BY DEF QueueOK
<1>2. PICK r : r = Tail(q)
  OBVIOUS
<1>3. /\ q[1] \in Members(q) /\ q[1] \in Event
      /\ r \in Seq(Event) /\ Sorted(r) /\ Members(r) \subseteq Members(q)
      /\ \A e \in Members(q) : e = q[1] \/ e \in Members(r)
      /\ \A type : AtMostOne(q, type) => AtMostOne(r, type)
      /\ AtMostOne(q, q[1].type) => ~Has(r, q[1].type)
  BY <1>1, <1>2, TailIs
<1>4. \A type : Has(q, type) /\ type # q[1].type => Has(r, type)
  BY <1>3 DEF Has
<1>5. \A d : Tomorrow(q, d) => Tomorrow(r, d)
  BY <1>3 DEF Tomorrow
<1>6. Times(r, t) /\ AtMostOne(r, "poison") /\ AtMostOne(r, "heal") /\ AtMostOne(q, "heal")
  BY <1>3 DEF QueueOK, Times
<1>7. ASSUME q[1].type # "heal"
      PROVE  il = Levels(r)
  <2>1. \A e \in Event : e.type = "heal" => (e \in Members(q) <=> e \in Members(r))
    BY <1>3, <1>7
  <2>2. Levels(q) = Levels(r)
    BY <1>1, <1>3, <1>6, <2>1, SameLevels
  <2> QED BY <2>2 DEF QueueOK
<1>8. ASSUME q[1].type = "heal"
      PROVE  Levels(r) = 0 /\ il = q[1].level
  <2>1. ~Has(r, "heal")
    BY <1>3, <1>6, <1>8
  <2>2. Levels(r) = 0
    BY <1>3, <1>6, <2>1, LevelsIs
  <2>3. Levels(q) = q[1].level
    BY <1>1, <1>3, <1>6, <1>8, LevelsIs
  <2> QED BY <2>2, <2>3 DEF QueueOK
<1>9. p > 0 => Has(q, "poison")
  BY DEF QueueOK
<1>10. ASSUME q[1].type # "poison", q[1].type # "heal"
       PROVE  QueueOK(r, t, p, il)
  BY <1>3, <1>4, <1>6, <1>7, <1>9, <1>10 DEF QueueOK
<1>11. ASSUME q[1].type = "poison"
       PROVE  QueueOK(r, t, 0, il)
  BY <1>3, <1>6, <1>7, <1>11 DEF QueueOK
<1>12. ASSUME q[1].type = "heal"
       PROVE  QueueOK(r, t, p, 0)
  BY <1>3, <1>4, <1>6, <1>8, <1>9, <1>12 DEF QueueOK
<1> QED BY <1>2, <1>3, <1>4, <1>5, <1>8, <1>10, <1>11, <1>12

LEMMA RenewedKeeps ==
  ASSUME NEW q, NEW t, NEW il, QueueOK(q, t, 0, il), NEW p \in 1..MaxPoison, now \in Nat, Unwrapped(p)
  PROVE  /\ QueueOK(Renewed(q, p), t, p, il)
         /\ \A type \in ClockEvents : Has(q, type) => Has(Renewed(q, p), type)
         /\ \A d : Tomorrow(q, d) => Tomorrow(Renewed(q, p), d)
<1> DEFINE e == At(now + PoisonDelay[p], "poison", 0)
<1>1. q \in Seq(Event)
  BY DEF QueueOK
<1>2. e \in Event /\ e.type = "poison"
  <2>1. PoisonDelay \in Seq(Int) /\ MaxDose \in Nat
    BY ClockConstants
  <2>2. PoisonDelay[p] \in Int
    BY <2>1, ElementOfSeq DEF MaxPoison
  <2>3. now + PoisonDelay[p] \in Nat
    BY <2>2 DEF Unwrapped
  <2> QED BY <2>1, <2>3 DEF At, Event, ClockEvents
<1> HIDE DEF e
<1>3. PICK s : s = Without(q, {"poison"})
  OBVIOUS
<1>4. Subqueue(s, q, ClockEvents \ {"poison"})
  BY <1>1, <1>3, WithoutKeeps
<1>5. /\ s \in Seq(Event) /\ Sorted(s) /\ AtMostOne(s, "poison") /\ AtMostOne(s, "heal")
      /\ Members(s) = {x \in Members(q) : x.type \in ClockEvents \ {"poison"}}
      /\ AtMostOne(q, "heal") /\ Times(q, t) /\ il = Levels(q)
  BY <1>4 DEF QueueOK, Subqueue
<1>6. PICK r : r = Added(s, e)
  OBVIOUS
<1>7. /\ r \in Seq(Event) /\ Sorted(r) /\ Members(r) = Members(s) \cup {e}
      /\ \A type : (type = e.type => ~Has(s, type)) /\ AtMostOne(s, type) => AtMostOne(r, type)
  BY <1>2, <1>5, <1>6, AddedIs
<1>8. ~Has(s, "poison")
  BY <1>5 DEF Has
<1>9. AtMostOne(r, "poison") /\ AtMostOne(r, "heal") /\ Has(r, "poison")
  BY <1>2, <1>5, <1>7, <1>8 DEF Has
<1>10. il = Levels(r)
  <2>1. \A x \in Event : x.type = "heal" => (x \in Members(q) <=> x \in Members(r))
    BY <1>2, <1>5, <1>7 DEF ClockEvents
  <2> QED BY <1>1, <1>5, <1>7, <1>9, <2>1, SameLevels
<1>11. Times(r, t)
  BY <1>2, <1>5, <1>7 DEF Times
<1>12. \A type \in ClockEvents : Has(q, type) => Has(r, type)
  BY <1>5, <1>7, <1>9 DEF Has
<1>13. \A d : Tomorrow(q, d) => Tomorrow(r, d)
  BY <1>2, <1>5, <1>7 DEF Tomorrow
<1>14. QueueOK(r, t, p, il)
  BY <1>7, <1>9, <1>10, <1>11 DEF QueueOK
<1>15. Renewed(q, p) = r
  BY <1>3, <1>6 DEF Renewed, e
<1> QED BY <1>12, <1>13, <1>14, <1>15

LEMMA SickenedKeeps ==
  ASSUME NEW q, NEW t, NEW p, NEW il, QueueOK(q, t, p, il), NEW e \in Event, e.type = "heal"
  PROVE  LET r == Added(Without(q, {"sick", "heal"}), e)
         IN /\ QueueOK(r, t, p, e.level)
            /\ \A type \in ClockEvents \ {"sick", "heal"} : Has(q, type) => Has(r, type)
            /\ \A d : Tomorrow(q, d) => Tomorrow(r, d)
<1>1. q \in Seq(Event)
  BY DEF QueueOK
<1>2. PICK s : s = Without(q, {"sick", "heal"})
  OBVIOUS
<1>3. Subqueue(s, q, ClockEvents \ {"sick", "heal"})
  BY <1>1, <1>2, WithoutKeeps
<1>4. /\ s \in Seq(Event) /\ Sorted(s) /\ AtMostOne(s, "poison") /\ AtMostOne(s, "heal")
      /\ Members(s) = {x \in Members(q) : x.type \in ClockEvents \ {"sick", "heal"}}
      /\ Times(q, t) /\ (p > 0 => Has(q, "poison"))
  BY <1>3 DEF QueueOK, Subqueue
<1>5. PICK r : r = Added(s, e)
  OBVIOUS
<1>6. /\ r \in Seq(Event) /\ Sorted(r) /\ Members(r) = Members(s) \cup {e}
      /\ \A type : (type = e.type => ~Has(s, type)) /\ AtMostOne(s, type) => AtMostOne(r, type)
  BY <1>4, <1>5, AddedIs
<1>7. ~Has(s, "heal")
  BY <1>4 DEF Has
<1>8. AtMostOne(r, "poison") /\ AtMostOne(r, "heal")
  BY <1>4, <1>6, <1>7
<1>9. Levels(r) = e.level
  BY <1>6, <1>8, LevelsIs
<1>10. Times(r, t)
  BY <1>4, <1>6 DEF Times
<1>11. \A type \in ClockEvents \ {"sick", "heal"} : Has(q, type) => Has(r, type)
  BY <1>4, <1>6 DEF Has
<1>12. \A d : Tomorrow(q, d) => Tomorrow(r, d)
  BY <1>4, <1>6 DEF Tomorrow
<1>13. p > 0 => Has(r, "poison")
  BY <1>4, <1>11 DEF ClockEvents
<1>14. QueueOK(r, t, p, e.level)
  BY <1>6, <1>8, <1>9, <1>10, <1>13 DEF QueueOK
<1> QED BY <1>2, <1>5, <1>11, <1>12, <1>14

LEMMA DueIs ==
  ASSUME ClockInv, NEW type, Due(type)
  PROVE  /\ limit = now /\ now \in Nat /\ queue # << >> /\ QueueOK(queue, peak, poison, ill)
         /\ queue[1] \in Event /\ queue[1] \in Members(queue) /\ queue[1].type = type
         /\ queue[1].due \in Int /\ queue[1].due <= now
<1>1. limit = now /\ now \in Nat /\ queue # << >> /\ queue[1].due <= limit /\ queue[1].type = type
  BY DEF ClockInv, NowTyped, Due
<1>2. QueueOK(queue, peak, poison, ill)
  BY DEF ClockInv
<1>3. queue[1] \in Event /\ queue[1] \in Members(queue)
  BY <1>1, <1>2, TailKeeps
<1>4. queue[1].due \in Int
  BY <1>3 DEF Event
<1> QED BY <1>1, <1>2, <1>3, <1>4

LEMMA PoisonedKeeps ==
  ASSUME ClockInv, (\E p \in 0..MaxPoison : AdjustPoison(p)) \/ (\E stop \in BOOLEAN : PoisonBites(stop))
  PROVE  ClockInv'
<1>1. NowTyped /\ BodyTyped /\ QueueOK(queue, peak, poison, ill) /\ SlotOK /\ EventsPending /\ Once
  BY DEF ClockInv
<1>2. now \in Nat /\ poison \in 0..MaxPoison /\ lastDay \in Nat /\ adjusted \in Nat /\ MaxPoison \in Nat
  <2>1. PoisonDelay \in Seq(Int)
    BY ClockConstants
  <2> QED BY <1>1, <2>1, LenProperties DEF NowTyped, BodyTyped, MaxPoison
\* What of the invariant follows once the queue is right.
<1>3. ASSUME NEW p \in 0..MaxPoison, poison' = p, QueueOK(queue', peak, p, ill),
             \A type \in {"midnight", "map"} : Has(queue, type) => Has(queue', type),
             \A d : Tomorrow(queue, d) => Tomorrow(queue', d),
             UNCHANGED <<now, peak, resting, named, movie, dose, irradiated, ill, slot, lost, history>>,
             adjusted' \in Nat, limit' \in {0, limit}, goal' \in {0, goal}
      PROVE  ClockInv'
  <2>1. UNCHANGED <<lastDay, twice, setBack>>
    BY <1>3 DEF history
  <2>2. BodyTyped' /\ SlotOK'
    BY <1>1, <1>3, <2>1 DEF BodyTyped, SlotOK
  <2>3. EventsPending'
    BY <1>1, <1>3 DEF EventsPending
  <2>4. Once'
    BY <1>1, <1>3, <2>1 DEF Once
  <2> QED BY <1>3, <2>1, <2>2, <2>3, <2>4, QueueKeeps
<1>4. ASSUME NEW p \in 0..MaxPoison, AdjustPoison(p)
      PROVE  ClockInv'
  <2>1. /\ poison' = p /\ queue' = Poisoned(queue, p) /\ adjusted' \in Nat
        /\ UNCHANGED <<now, peak, limit, resting, goal, named, movie, dose, irradiated, ill, slot, lost, history>>
        /\ Unwrapped(p)
    BY <1>2, <1>4 DEF AdjustPoison, clock
  <2>2. QueueOK(queue, peak, 0, ill)
    BY <1>1 DEF QueueOK
  <2>3. CASE p > 0
    <3>1. queue' = Renewed(queue, p) /\ p \in 1..MaxPoison
      BY <1>2, <2>1, <2>3 DEF Poisoned
    <3>2. /\ QueueOK(queue', peak, p, ill) /\ \A type \in ClockEvents : Has(queue, type) => Has(queue', type)
          /\ \A d : Tomorrow(queue, d) => Tomorrow(queue', d)
      BY <1>2, <2>1, <2>2, <3>1, RenewedKeeps
    <3> QED BY <1>3, <2>1, <3>2 DEF ClockEvents
  <2>4. CASE ~(p > 0)
    <3>1. queue' = queue /\ p = 0
      BY <1>2, <2>1, <2>4 DEF Poisoned
    <3> QED BY <1>3, <2>1, <2>2, <3>1
  <2> QED BY <2>3, <2>4
<1>5. ASSUME NEW stop \in BOOLEAN, PoisonBites(stop)
      PROVE  ClockInv'
  <2>1. /\ poison' = (IF poison > 0 THEN poison - 1 ELSE 0)
        /\ queue' = (IF poison > 0 THEN Poisoned(Tail(queue), poison - 1) ELSE Tail(queue))
        /\ limit' \in {0, limit} /\ goal' \in {0, goal} /\ adjusted' \in Nat /\ Unwrapped(poison')
        /\ UNCHANGED <<now, peak, resting, named, movie, dose, irradiated, ill, slot, lost, history>>
    BY <1>2, <1>5 DEF PoisonBites, Answers
  <2>2. queue # << >> /\ queue[1].type = "poison"
    BY <1>5 DEF PoisonBites, Due
  <2>3. /\ QueueOK(Tail(queue), peak, 0, ill)
        /\ \A type : Has(queue, type) /\ type # "poison" => Has(Tail(queue), type)
        /\ \A d : Tomorrow(queue, d) => Tomorrow(Tail(queue), d)
    BY <1>1, <2>2, TailKeeps
  <2>4. CASE poison > 1
    <3>1. queue' = Renewed(Tail(queue), poison - 1) /\ poison - 1 \in 1..MaxPoison /\ poison' = poison - 1
      BY <1>2, <2>1, <2>4 DEF Poisoned
    <3>2. /\ QueueOK(queue', peak, poison - 1, ill)
          /\ \A type \in ClockEvents : Has(Tail(queue), type) => Has(queue', type)
          /\ \A d : Tomorrow(Tail(queue), d) => Tomorrow(queue', d)
      BY <1>2, <2>1, <2>3, <3>1, RenewedKeeps
    <3>3. poison - 1 \in 0..MaxPoison
      BY <1>2, <3>1
    <3> QED BY <1>3, <2>1, <2>3, <3>1, <3>2, <3>3 DEF ClockEvents
  <2>5. CASE ~(poison > 1)
    <3>1. queue' = Tail(queue) /\ poison' = 0
      BY <1>2, <2>1, <2>5 DEF Poisoned
    <3>2. 0 \in 0..MaxPoison
      BY <1>2
    <3> QED BY <1>3, <2>1, <2>3, <3>1, <3>2
  <2> QED BY <2>4, <2>5
<1> QED BY <1>4, <1>5

LEMMA IrradiatedKeeps ==
  ASSUME ClockInv, Sickens \/ Heals \/ \E level \in 0..MaxDose : AdjustRadiation(level)
  PROVE  ClockInv'
<1>1. NowTyped /\ BodyTyped /\ QueueOK(queue, peak, poison, ill) /\ SlotOK /\ EventsPending /\ Once
  BY DEF ClockInv
<1>2. now \in Nat /\ MaxDose \in Nat /\ HealDelay \in Nat
  BY <1>1, ClockConstants DEF NowTyped
\* What of the invariant follows once the queue is right.
<1>3. ASSUME ill' \in Nat, QueueOK(queue', peak, poison, ill'),
             \A type \in {"midnight", "map"} : Has(queue, type) => Has(queue', type),
             \A d : Tomorrow(queue, d) => Tomorrow(queue', d),
             UNCHANGED <<now, peak, resting, named, movie, poison, slot, lost, history>>,
             adjusted' \in Nat, dose' \in 0..MaxDose, irradiated' \in BOOLEAN,
             limit' \in {0, limit}, goal' \in {0, goal}
      PROVE  ClockInv'
  <2>1. UNCHANGED <<lastDay, twice, setBack>>
    BY <1>3 DEF history
  <2>2. BodyTyped' /\ SlotOK'
    BY <1>1, <1>3, <2>1 DEF BodyTyped, SlotOK
  <2>3. EventsPending'
    BY <1>1, <1>3 DEF EventsPending
  <2>4. Once'
    BY <1>1, <1>3, <2>1 DEF Once
  <2>5. QueueOK(queue', peak, poison', ill')
    BY <1>3
  <2> QED BY <1>3, <2>1, <2>2, <2>3, <2>4, <2>5, QueueKeeps
<1>4. CASE Sickens
  <2>1. PICK e : e = At(now + HealDelay, "heal", queue[1].level)
    OBVIOUS
  <2>2. Due("sick")
    BY <1>4 DEF Sickens
  <2>3. /\ queue # << >> /\ queue[1].type = "sick" /\ queue[1] \in Event
    BY <2>2, DueIs
  <2>4. e \in Event /\ e.type = "heal" /\ e.level = queue[1].level /\ e.level \in Nat
    BY <1>2, <2>1, <2>3 DEF At, Event, ClockEvents
  <2>5. QueueOK(Tail(queue), peak, poison, ill)
    BY <1>1, <2>3, TailKeeps
  <2>6. Levels(Tail(queue)) = ill /\ ill \in Nat
    BY <1>1, <2>5 DEF QueueOK, BodyTyped
  <2>7. /\ ill' = ill - Levels(Tail(queue)) + queue[1].level
        /\ queue' = Added(Without(queue, {"sick", "heal"}), e)
        /\ limit' = 0 /\ goal' = 0
        /\ UNCHANGED <<now, peak, resting, named, movie, poison, dose, irradiated, slot, lost, history, adjusted>>
    BY <1>4, <2>1 DEF Sickens, Undone, Answers
  <2>8. ill' = e.level
    BY <2>4, <2>6, <2>7
  <2>9. /\ QueueOK(queue', peak, poison, e.level)
        /\ \A type \in ClockEvents \ {"sick", "heal"} : Has(queue, type) => Has(queue', type)
        /\ \A d : Tomorrow(queue, d) => Tomorrow(queue', d)
    BY <1>1, <2>4, <2>7, SickenedKeeps
  <2>10. \A type \in {"midnight", "map"} : Has(queue, type) => Has(queue', type)
    BY <2>9 DEF ClockEvents
  <2>11. adjusted' \in Nat /\ dose' \in 0..MaxDose /\ irradiated' \in BOOLEAN
    BY <1>1, <2>7 DEF BodyTyped
  <2> QED BY <1>3, <2>4, <2>7, <2>8, <2>9, <2>10, <2>11
<1>5. CASE Heals
  <2>1. Due("heal")
    BY <1>5 DEF Heals
  <2>2. queue # << >> /\ queue[1].type = "heal" /\ queue[1] \in Event
    BY <2>1, DueIs
  <2>3. /\ QueueOK(Tail(queue), peak, poison, 0) /\ ill = queue[1].level
        /\ \A type : Has(queue, type) /\ type # "heal" => Has(Tail(queue), type)
        /\ \A d : Tomorrow(queue, d) => Tomorrow(Tail(queue), d)
    BY <1>1, <2>2, TailKeeps
  <2>4. ill \in Nat
    BY <1>1 DEF BodyTyped
  <2>5. /\ ill' = ill - queue[1].level /\ queue' = Tail(queue) /\ limit' = 0 /\ goal' = 0
        /\ UNCHANGED <<now, peak, resting, named, movie, poison, dose, irradiated, slot, lost, history, adjusted>>
    BY <1>5 DEF Heals, Answers
  <2>6. ill' = 0
    BY <2>3, <2>4, <2>5
  <2>7. \A type \in {"midnight", "map"} : Has(queue, type) => Has(queue', type)
    BY <2>3, <2>5
  <2>8. adjusted' \in Nat /\ dose' \in 0..MaxDose /\ irradiated' \in BOOLEAN
    BY <1>1, <2>5 DEF BodyTyped
  <2> QED BY <1>3, <2>3, <2>5, <2>6, <2>7, <2>8
<1>6. ASSUME NEW level \in 0..MaxDose, AdjustRadiation(level)
      PROVE  ClockInv'
  <2>1. /\ dose' = level /\ irradiated' = (irradiated \/ level >= dose) /\ adjusted' = adjusted + 1
        /\ UNCHANGED <<now, peak, limit, resting, goal, queue, named, movie, poison, ill, slot, lost, history>>
    BY <1>6 DEF AdjustRadiation, clock
  <2>2. irradiated' \in BOOLEAN
    BY <2>1, Zenon
  <2>3. adjusted' \in Nat /\ ill' \in Nat
    BY <1>1, <2>1 DEF BodyTyped
  <2>4. QueueOK(queue', peak, poison, ill')
    BY <1>1, <2>1
  <2> QED BY <1>3, <2>1, <2>2, <2>3, <2>4
<1> QED BY <1>4, <1>5, <1>6

-----------------------------------------------------------------------------
(* The clock: midnight                                                      *)

\* A queue from which only midnights have been taken.
ButMidnights(q) ==
  /\ QueueOK(q, peak, poison, ill) /\ \A d : Tomorrow(queue, d) => Tomorrow(q, d)
  /\ \A type \in ClockEvents \ {"midnight"} : Has(queue, type) => Has(q, type)

LEMMA MidnightPassesKeeps ==
  ASSUME ClockInv, NEW q, ButMidnights(q), MidnightPasses(q), movie' = "none",
         ~setBack => lastDay < DayOf(now),
         UNCHANGED <<clock, named, poison, dose, ill, slot, adjusted>>
  PROVE  ClockInv'
<1>1. NowTyped /\ BodyTyped /\ SlotOK /\ EventsPending /\ Once
  BY DEF ClockInv
<1>2. /\ now \in Nat /\ now \in Int /\ now >= 0 /\ peak \in Nat /\ now <= peak /\ MaxDose \in Nat
      /\ \A delay \in SickDelay : delay \in Nat
  BY <1>1, ClockConstants DEF NowTyped
<1>3. DayOf(now) \in Nat
  BY <1>2, DaysInOrder
<1>4. PICK roll \in {0, 1}, delay \in SickDelay :
        queue' = Scheduled(Without(Checked(q, roll, delay), {"midnight"}), now, named)
  BY DEF MidnightPasses, MidnightClears
<1>5. /\ UNCHANGED <<now, peak, limit, goal, resting, named, poison, dose, ill, slot, adjusted, setBack>>
      /\ irradiated' = FALSE /\ lastDay' = DayOf(now) /\ lost' = FALSE
      /\ twice' = (twice \/ lastDay = DayOf(now))
  BY DEF MidnightPasses, clock
<1>6. PICK c : c = Checked(q, roll, delay)
  OBVIOUS
<1>7. QueueOK(c, peak, poison, ill) /\ (Has(q, "map") => Has(c, "map"))
  <2>1. QueueOK(q, peak, poison, ill)
    BY DEF ButMidnights
  <2>2. PICK e : e = At(now + delay, "sick", dose + roll)
    OBVIOUS
  <2>3. Addable(e, peak)
    BY <1>1, <1>2, <2>2 DEF Addable, At, Event, ClockEvents, BodyTyped
  <2>4. c = Added(q, e) \/ c = q
    BY <1>6, <2>2 DEF Checked
  <2>5. CASE c = Added(q, e)
    BY <2>1, <2>3, <2>5, AddKeeps
  <2>6. CASE c = q
    BY <2>1, <2>6
  <2> QED BY <2>4, <2>5, <2>6
<1>8. PICK w : w = Without(c, {"midnight"})
  OBVIOUS
<1>9. /\ QueueOK(w, peak, poison, ill) /\ (Has(c, "map") => Has(w, "map"))
      /\ \A d : Tomorrow(w, d)
  BY <1>7, <1>8, ClearedKeeps DEF ClockEvents
<1>10. queue' = Scheduled(w, now, named)
  BY <1>4, <1>6, <1>8
<1>11. /\ QueueOK(queue', peak, poison, ill) /\ Has(queue', "midnight") /\ (named => Has(queue', "map"))
       /\ Tomorrow(queue', DayOf(now))
  <2>1. DayOf(now) \in Int /\ DayOf(now) <= DayOf(now)
    BY <1>3
  <2> QED BY <1>2, <1>9, <1>10, <2>1, ScheduledKeeps
<1>12. BodyTyped' /\ SlotOK' /\ EventsPending'
  <2>1. lastDay' \in Nat
    BY <1>3, <1>5
  <2>2. twice' \in BOOLEAN
    BY <1>5, Zenon
  <2>3. BodyTyped'
    BY <1>1, <1>5, <2>1, <2>2 DEF BodyTyped
  <2> QED BY <1>1, <1>5, <1>11, <2>3 DEF SlotOK, EventsPending
<1>13. Once'
  <2> SUFFICES ASSUME ~setBack
               PROVE  Once'
    BY <1>5 DEF Once
  <2>1. lastDay \in Nat /\ lastDay < DayOf(now)
    BY <1>1 DEF BodyTyped
  <2>2. ~twice /\ lastDay # DayOf(now)
    BY <1>1, <1>3, <2>1 DEF Once
  <2>3. ~twice'
    BY <1>5, <2>2, Zenon
  <2>4. lastDay' <= DayOf(now')
    BY <1>3, <1>5
  <2> QED BY <1>1, <1>5, <1>11, <2>3, <2>4 DEF Once
<1> QED BY <1>5, <1>11, <1>12, <1>13, QueueKeeps

LEMMA MidnightKeeps ==
  ASSUME ClockInv, Midnight \/ MidnightShows \/ MidnightShown \/ MidnightSwallowed \/ Show \/ Shown
  PROVE  ClockInv'
<1>1. NowTyped /\ BodyTyped /\ QueueOK(queue, peak, poison, ill) /\ SlotOK /\ EventsPending /\ Once
  BY DEF ClockInv
<1>2. lastDay \in Nat
  BY <1>1 DEF BodyTyped
<1>3. ASSUME Due("midnight")
      PROVE  ButMidnights(Tail(queue)) /\ (~setBack => lastDay < DayOf(now))
  <2>1. /\ now \in Nat /\ queue # << >> /\ queue[1] \in Members(queue) /\ queue[1].type = "midnight"
        /\ queue[1].due \in Int /\ queue[1].due <= now
    BY <1>3, DueIs
  <2>2. ButMidnights(Tail(queue))
    BY <1>1, <2>1, TailKeeps DEF ButMidnights
  <2>3. DayOf(queue[1].due) <= DayOf(now) /\ DayOf(now) \in Int /\ DayOf(queue[1].due) \in Int
    <3>1. PICK d : d = queue[1].due
      OBVIOUS
    <3>2. d \in Int /\ now \in Int /\ d <= now
      BY <2>1, <3>1
    <3>3. DayOf(d) <= DayOf(now) /\ DayOf(d) \in Int
      BY <3>2, DaysInOrder
    <3>4. DayOf(now) \in Int
      BY <3>2, DaysInOrder
    <3> QED BY <3>1, <3>3, <3>4
  <2>4. ASSUME ~setBack
        PROVE  DayOf(queue[1].due) > lastDay
    BY <1>1, <2>1, <2>4 DEF Once, Tomorrow
  <2> QED BY <1>2, <2>2, <2>3, <2>4
<1>4. CASE Midnight
  <2>1. /\ Due("midnight") /\ MidnightPasses(Tail(queue)) /\ movie' = "none"
        /\ UNCHANGED <<clock, named, poison, dose, ill, slot, adjusted>>
    BY <1>4 DEF Midnight
  <2> QED BY <1>3, <2>1, MidnightPassesKeeps
<1>5. CASE MidnightShown
  <2>1. /\ MidnightPasses(queue) /\ movie' = "none" /\ movie = "midnight"
        /\ UNCHANGED <<clock, named, poison, dose, ill, slot, adjusted>>
    BY <1>5 DEF MidnightShown
  <2>2. ButMidnights(queue)
    BY <1>1 DEF ButMidnights
  <2>3. ~setBack => lastDay < DayOf(now)
    BY <1>1, <2>1 DEF Once
  <2> QED BY <2>1, <2>2, <2>3, MidnightPassesKeeps
<1>6. CASE MidnightShows
  <2>1. Due("midnight")
    BY <1>6 DEF MidnightShows
  <2>2. /\ queue' = Tail(queue) /\ movie' = "midnight" /\ limit' = 0 /\ goal' = 0
        /\ UNCHANGED <<now, peak, resting, named, poison, dose, irradiated, ill, slot, lost, lastDay, twice,
                       setBack, adjusted>>
    BY <1>6 DEF MidnightShows, body, history
  <2>3. ButMidnights(Tail(queue)) /\ (~setBack => lastDay < DayOf(now))
    BY <1>3, <2>1
  <2>4. BodyTyped' /\ SlotOK'
    BY <1>1, <2>2 DEF BodyTyped, SlotOK
  <2>5. EventsPending' /\ QueueOK(queue', peak, poison', ill')
    BY <1>1, <2>2, <2>3 DEF EventsPending, ButMidnights, ClockEvents
  <2>6. Once'
    BY <1>1, <2>2, <2>3 DEF Once, ButMidnights
  <2> QED BY <2>2, <2>4, <2>5, <2>6, QueueKeeps
<1>7. CASE MidnightSwallowed
  <2>1. Due("midnight") /\ movie # "none"
    BY <1>7 DEF MidnightSwallowed
  <2>2. /\ queue' = Tail(queue)
        /\ lost' = (lost \/ (movie = "script" /\ With(Tail(queue), {"midnight"}) = << >>))
        /\ UNCHANGED <<now, peak, limit, goal, movie, resting, named, poison, dose, irradiated, ill, slot,
                       lastDay, twice, setBack, adjusted>>
    BY <1>7 DEF MidnightSwallowed, body, history, clock
  <2>3. ButMidnights(Tail(queue))
    BY <1>3, <2>1
  <2>4. lost' \in BOOLEAN
    BY <2>2, Zenon
  <2>5. BodyTyped' /\ SlotOK'
    BY <1>1, <2>2, <2>4 DEF BodyTyped, SlotOK
  <2>6. ASSUME ~lost', movie' # "midnight"
        PROVE  Has(queue', "midnight")
    <3>1. movie = "script"
      BY <1>1, <2>1, <2>2, <2>6 DEF BodyTyped
    <3>2. With(Tail(queue), {"midnight"}) # << >>
      BY <2>2, <2>6, <3>1, Zenon
    <3>3. PICK r : r = With(Tail(queue), {"midnight"})
      OBVIOUS
    <3>4. Tail(queue) \in Seq(Event)
      BY <2>3 DEF ButMidnights, QueueOK
    <3>5. r \in Seq(Event) /\ Members(r) = {e \in Members(Tail(queue)) : e.type \in {"midnight"}}
      BY <3>3, <3>4, WithKeeps DEF Subqueue
    <3>6. Len(r) \in Nat /\ Len(r) # 0
      BY <3>2, <3>3, <3>5, EmptySeq, LenProperties
    <3>7. r[1] \in Members(r)
      BY <3>5, <3>6, EventParts
    <3> QED BY <2>2, <3>5, <3>7 DEF Has
  <2>7. EventsPending' /\ QueueOK(queue', peak, poison', ill')
    BY <1>1, <2>2, <2>3, <2>6 DEF EventsPending, ButMidnights, ClockEvents
  <2>8. Once'
    BY <1>1, <2>2, <2>3 DEF Once, ButMidnights
  <2> QED BY <2>2, <2>5, <2>7, <2>8, QueueKeeps
<1>8. CASE Show \/ Shown
  <2>1. /\ UNCHANGED <<now, peak, limit, goal, resting, queue, named, poison, dose, irradiated, ill, slot, lost,
                       lastDay, twice, setBack, adjusted>>
        /\ movie' \in {"none", "script"} /\ movie # "midnight"
    BY <1>8 DEF Show, Shown, AtPlay, body, history, clock
  <2>2. BodyTyped' /\ SlotOK' /\ EventsPending' /\ Once' /\ QueueOK(queue', peak, poison', ill')
    BY <1>1, <2>1 DEF BodyTyped, SlotOK, EventsPending, Once
  <2> QED BY <2>1, <2>2, QueueKeeps
<1> QED BY <1>4, <1>5, <1>6, <1>7, <1>8

-----------------------------------------------------------------------------
(* The clock: maps and saved games                                          *)

LEMMA MapsKeep ==
  ASSUME ClockInv, MapUpdate \/ EnterMap \/ LeaveMap
  PROVE  ClockInv'
<1>1. NowTyped /\ BodyTyped /\ QueueOK(queue, peak, poison, ill) /\ SlotOK /\ EventsPending /\ Once
  BY DEF ClockInv
<1>2. /\ now \in Nat /\ now \in Int /\ now >= 0 /\ peak \in Nat /\ now <= peak /\ MaxDose \in Nat /\ Minute \in Nat
  BY <1>1, ClockConstants DEF NowTyped
<1>3. DayOf(now) \in Nat /\ DayOf(now) \in Int
  BY <1>2, DaysInOrder
\* What of the invariant follows once the queue is right.
<1>4. ASSUME QueueOK(queue', peak, poison, ill), named' \in BOOLEAN, lost' \in BOOLEAN,
             ~lost' /\ movie # "midnight" => Has(queue', "midnight"), named' => Has(queue', "map"),
             ~setBack => Tomorrow(queue', lastDay), movie' = movie,
             UNCHANGED <<clock, body, slot, history, adjusted>>
      PROVE  ClockInv'
  <2>1. /\ limit' = limit /\ goal' = goal
        /\ UNCHANGED <<now, peak, resting, movie, poison, dose, irradiated, ill, slot, lastDay, twice,
                       setBack, adjusted>>
    BY <1>4 DEF clock, body, history
  <2>2. BodyTyped' /\ SlotOK'
    BY <1>1, <1>4, <2>1 DEF BodyTyped, SlotOK
  <2>3. EventsPending'
    BY <1>4, <2>1 DEF EventsPending
  <2>4. Once'
    BY <1>1, <1>4, <2>1 DEF Once
  <2>5. QueueOK(queue', peak, poison', ill')
    BY <1>4, <2>1
  <2> QED BY <2>1, <2>2, <2>3, <2>4, <2>5, QueueKeeps
<1>5. CASE MapUpdate
  <2>1. PICK r : r = Without(queue, {"map"})
    OBVIOUS
  <2>2. PICK e : e = At(now + Minute, "map", 0)
    OBVIOUS
  <2>3. /\ queue' = IF named THEN Added(r, e) ELSE r
        /\ UNCHANGED <<clock, named, movie, body, slot, lost, history, adjusted>>
    BY <1>5, <2>1, <2>2 DEF MapUpdate
  <2>4. /\ QueueOK(r, peak, poison, ill) /\ (Has(queue, "midnight") => Has(r, "midnight"))
        /\ \A d : Tomorrow(queue, d) => Tomorrow(r, d)
    BY <1>1, <2>1, ClearedKeeps DEF ClockEvents
  <2>5. Addable(e, peak) /\ (\A d : After(e, d)) /\ e.type = "map"
    BY <1>2, <2>2 DEF Addable, After, At, Event, ClockEvents
  <2>6. CASE named
    <3>1. queue' = Added(r, e)
      BY <2>3, <2>6
    <3>2. /\ QueueOK(queue', peak, poison, ill) /\ Has(queue', "map")
          /\ Has(r, "midnight") => Has(queue', "midnight")
          /\ \A d : Tomorrow(r, d) => Tomorrow(queue', d)
      BY <2>4, <2>5, <3>1, AddKeeps
    <3> QED BY <1>1, <1>4, <2>3, <2>4, <3>2 DEF BodyTyped, EventsPending, Once
  <2>7. CASE ~named
    <3>1. queue' = r
      BY <2>3, <2>7
    <3> QED BY <1>1, <1>4, <2>3, <2>4, <2>7, <3>1 DEF BodyTyped, EventsPending, Once
  <2> QED BY <2>6, <2>7
<1>6. CASE EnterMap
  <2>1. /\ queue' = Scheduled(queue, now, TRUE) /\ named' = TRUE /\ lost' = FALSE
        /\ UNCHANGED <<clock, movie, body, slot, history, adjusted>>
    BY <1>6 DEF EnterMap
  <2>2. /\ QueueOK(queue', peak, poison, ill) /\ Has(queue', "midnight") /\ Has(queue', "map")
        /\ \A d \in Int : Tomorrow(queue, d) /\ d <= DayOf(now) => Tomorrow(queue', d)
    BY <1>1, <1>2, <2>1, ScheduledKeeps
  <2>3. ~setBack => Tomorrow(queue', lastDay)
    <3>1. lastDay \in Int
      BY <1>1 DEF BodyTyped
    <3> QED BY <1>1, <2>2, <3>1 DEF Once
  <2> QED BY <1>4, <2>1, <2>2, <2>3
<1>7. CASE LeaveMap
  <2>1. PICK r : r = Without(queue, {"midnight", "map"})
    OBVIOUS
  <2>2. PICK s : s = Scheduled(r, now, TRUE)
    OBVIOUS
  <2>3. /\ queue' = Scheduled(s, now, FALSE) /\ named' = FALSE /\ lost' = FALSE
        /\ UNCHANGED <<clock, movie, body, slot, history, adjusted>>
    BY <1>7, <2>1, <2>2 DEF LeaveMap
  <2>4. QueueOK(r, peak, poison, ill) /\ \A d : Tomorrow(r, d)
    BY <1>1, <2>1, ClearedKeeps
  <2>5. /\ QueueOK(s, peak, poison, ill)
        /\ \A d \in Int : Tomorrow(r, d) /\ d <= DayOf(now) => Tomorrow(s, d)
    BY <1>2, <2>2, <2>4, ScheduledKeeps
  <2>6. /\ QueueOK(queue', peak, poison, ill) /\ Has(queue', "midnight")
        /\ \A d \in Int : Tomorrow(s, d) /\ d <= DayOf(now) => Tomorrow(queue', d)
    BY <1>2, <2>3, <2>5, ScheduledKeeps
  <2>7. ~setBack => Tomorrow(queue', lastDay)
    <3>1. lastDay \in Int
      BY <1>1 DEF BodyTyped
    <3> QED BY <1>1, <2>4, <2>5, <2>6, <3>1 DEF Once
  <2> QED BY <1>4, <2>3, <2>6, <2>7
<1> QED BY <1>5, <1>6, <1>7

\* What a loaded map adds to the file's queue: a midnight and an update, in their order.
LEMMA FreshIs ==
  ASSUME NEW u \in Nat, NEW t \in Nat, u <= t
  PROVE  LET fresh == Scheduled(<< >>, u, TRUE)
         IN /\ Addable(fresh[1], t) /\ Addable(fresh[2], t)
            /\ \A d \in Int : d <= DayOf(u) => After(fresh[1], d) /\ After(fresh[2], d)
            /\ {fresh[1].type, fresh[2].type} = {"midnight", "map"}
<1>1. PICK m : m = At(NextMidnight(u), "midnight", 0)
  OBVIOUS
<1>2. PICK c : c = At(u + Minute, "map", 0)
  OBVIOUS
<1>3. /\ u \in Int /\ t \in Int /\ Minute \in Nat /\ MaxDose \in Nat
  BY ClockConstants
<1>4. /\ NextMidnight(u) \in Nat /\ NextMidnight(u) < Latest(t) /\ DayOf(NextMidnight(u)) = DayOf(u) + 1
      /\ DayOf(u) \in Int
  <2>1. /\ NextMidnight(u) \in Int /\ NextMidnight(u) > u /\ DayOf(NextMidnight(u)) = DayOf(u) + 1
        /\ Latest(u) \in Int /\ NextMidnight(u) < Latest(u)
    BY <1>3, MidnightIs
  <2>2. Latest(t) \in Int
    BY <1>3, MidnightIs
  <2>3. Latest(u) <= Latest(t)
    BY <1>3, LatestInOrder
  <2>4. DayOf(u) \in Int
    BY <1>3, DaysInOrder
  <2> QED BY <2>1, <2>2, <2>3, <2>4
<1>5. /\ Addable(m, t) /\ Addable(c, t) /\ m.type = "midnight" /\ c.type = "map"
      /\ \A d \in Int : d <= DayOf(u) => After(m, d) /\ After(c, d)
  BY <1>1, <1>2, <1>3, <1>4 DEF Addable, After, At, Event, ClockEvents
<1>6. m \in Event /\ c \in Event
  BY <1>5 DEF Addable
<1>7. << >> \in Seq(Event) /\ Len(<< >>) = 0 /\ Sorted(<< >>) /\ Members(<< >>) = {}
  BY EmptySeq DEF Sorted, Members
<1>8. PICK a : a = Added(<< >>, m)
  OBVIOUS
<1>9. a \in Seq(Event) /\ Len(a) = 1 /\ Sorted(a) /\ Members(a) = {m}
  <2>1. a \in Seq(Event) /\ Len(a) = Len(<< >>) + 1 /\ Sorted(a) /\ Members(a) = Members(<< >>) \cup {m}
    BY <1>6, <1>7, <1>8, AddedIs
  <2> QED BY <1>7, <2>1
<1>10. PICK b : b = Added(a, c)
  OBVIOUS
<1>11. b \in Seq(Event) /\ Len(b) = 2 /\ Members(b) = {m, c}
  <2>1. b \in Seq(Event) /\ Len(b) = Len(a) + 1 /\ Members(b) = Members(a) \cup {c}
    BY <1>6, <1>9, <1>10, AddedIs
  <2> QED BY <1>9, <2>1
<1>12. \A x \in Members(b) : \E i \in 1..2 : x = b[i]
  BY <1>11, EventParts
<1>13. b[1] \in Members(b) /\ b[2] \in Members(b)
  BY <1>11, EventParts
<1>14. (b[1] = m /\ b[2] = c) \/ (b[1] = c /\ b[2] = m)
  <2>1. \A i \in 1..2 : i = 1 \/ i = 2
    OBVIOUS
  <2>2. m # c
    BY <1>5
  <2> QED BY <1>11, <1>12, <1>13, <2>1, <2>2
<1>15. Scheduled(<< >>, u, TRUE) = b
  BY <1>1, <1>2, <1>8, <1>10, Zenon DEF Scheduled
<1>16. /\ Addable(b[1], t) /\ Addable(b[2], t)
       /\ \A d \in Int : d <= DayOf(u) => After(b[1], d) /\ After(b[2], d)
       /\ {b[1].type, b[2].type} = {"midnight", "map"}
  BY <1>5, <1>14
<1> QED BY <1>15, <1>16

LEMMA SavedKeeps ==
  ASSUME ClockInv, Save
  PROVE  ClockInv'
<1>1. NowTyped /\ BodyTyped /\ QueueOK(queue, peak, poison, ill) /\ SlotOK /\ EventsPending /\ Once
  BY DEF ClockInv
<1>2. PICK s : s = [now |-> now, queue |-> queue, poison |-> poison, dose |-> dose,
                    irradiated |-> irradiated, ill |-> ill, lastDay |-> lastDay, peak |-> peak]
  OBVIOUS
<1>3. /\ slot' = <<s>> /\ adjusted' = adjusted + 1
      /\ UNCHANGED <<now, peak, limit, resting, goal, queue, named, movie, poison, dose, irradiated, ill,
                     lost, lastDay, twice, setBack>>
  BY <1>2 DEF Save, clock, body, history
<1>4. /\ s.now = now /\ s.queue = queue /\ s.poison = poison /\ s.dose = dose /\ s.irradiated = irradiated
      /\ s.ill = ill /\ s.lastDay = lastDay /\ s.peak = peak
  BY <1>2
<1>5. slot'[1] = s
  BY <1>3
<1>6. SlotOK'
  <2>1. SavedOK(s)
    BY <1>1, <1>4 DEF SavedOK, NowTyped, BodyTyped
  <2>2. slot' = <<slot'[1]>> /\ SavedOK(slot'[1])
    BY <1>3, <1>5, <2>1
  <2> QED BY <2>2 DEF SlotOK
<1>7. BodyTyped' /\ EventsPending' /\ QueueOK(queue', peak, poison', ill')
  BY <1>1, <1>3 DEF BodyTyped, EventsPending
<1>8. Once'
  BY <1>1, <1>3, <1>4, <1>5 DEF Once
<1> QED BY <1>3, <1>6, <1>7, <1>8, QueueKeeps

LEMMA LoadedKeeps ==
  ASSUME ClockInv, Load
  PROVE  ClockInv'
<1>1. NowTyped /\ BodyTyped /\ SlotOK /\ Once
  BY DEF ClockInv
<1>2. PICK s : s = slot[1]
  OBVIOUS
<1>3. slot # << >> /\ slot = <<s>> /\ SavedOK(s) /\ limit = 0 /\ goal = 0 /\ movie = "none" /\ resting = 0
  BY <1>1, <1>2 DEF SlotOK, Load, AtPlay, Idle, BodyTyped
<1>4. PICK fresh : fresh = Scheduled(<< >>, s.now, TRUE)
  OBVIOUS
<1>5. PICK a : a = Added(s.queue, fresh[1])
  OBVIOUS
<1>6. /\ now' = s.now /\ peak' = s.peak /\ queue' = Added(a, fresh[2])
      /\ poison' = s.poison /\ dose' = s.dose /\ irradiated' = s.irradiated /\ ill' = s.ill
      /\ lastDay' = s.lastDay /\ named' = TRUE /\ lost' = FALSE
      /\ UNCHANGED <<movie, limit, resting, goal, slot, twice, setBack, adjusted>>
  BY <1>2, <1>4, <1>5 DEF Load
<1>7. /\ s.now \in Nat /\ s.now > 0 /\ s.peak \in Nat /\ s.now <= s.peak /\ s.lastDay \in Nat
      /\ QueueOK(s.queue, s.peak, s.poison, s.ill)
  BY <1>3 DEF SavedOK
<1>8. /\ Addable(fresh[1], s.peak) /\ Addable(fresh[2], s.peak)
      /\ \A d \in Int : d <= DayOf(s.now) => After(fresh[1], d) /\ After(fresh[2], d)
      /\ {fresh[1].type, fresh[2].type} = {"midnight", "map"}
  BY <1>4, <1>7, FreshIs
<1>9. /\ QueueOK(a, s.peak, s.poison, s.ill) /\ Has(a, fresh[1].type)
      /\ \A d : Tomorrow(s.queue, d) /\ After(fresh[1], d) => Tomorrow(a, d)
  BY <1>5, <1>7, <1>8, AddKeeps
<1>10. /\ QueueOK(queue', s.peak, s.poison, s.ill) /\ Has(queue', fresh[2].type)
       /\ \A type : Has(a, type) => Has(queue', type)
       /\ \A d : Tomorrow(a, d) /\ After(fresh[2], d) => Tomorrow(queue', d)
  BY <1>6, <1>8, <1>9, AddKeeps
<1>11. Has(queue', "midnight") /\ Has(queue', "map")
  BY <1>8, <1>9, <1>10
<1>12. NowTyped' /\ BodyTyped' /\ EventsPending' /\ QueueOK(queue', peak', poison', ill')
  <2>1. NowTyped'
    BY <1>3, <1>6, <1>7 DEF NowTyped
  <2>2. BodyTyped'
    BY <1>1, <1>3, <1>6 DEF BodyTyped, SavedOK
  <2>3. EventsPending'
    BY <1>3, <1>6, <1>11 DEF EventsPending
  <2> QED BY <1>6, <1>10, <2>1, <2>2, <2>3
<1>13. SlotOK'
  BY <1>1, <1>6 DEF SlotOK
<1>14. Once'
  <2> SUFFICES ASSUME ~setBack
               PROVE  Once'
    BY <1>6 DEF Once
  <2>1. ~twice /\ Tomorrow(s.queue, s.lastDay) /\ s.lastDay <= DayOf(s.now)
    BY <1>1, <1>2, <1>3 DEF Once
  <2>2. s.lastDay \in Int
    BY <1>7
  <2>3. Tomorrow(queue', s.lastDay)
    BY <1>8, <1>9, <1>10, <2>1, <2>2
  <2> QED BY <1>2, <1>3, <1>6, <2>1, <2>3 DEF Once
<1> QED BY <1>12, <1>13, <1>14 DEF ClockInv

-----------------------------------------------------------------------------
(* The clock: the theorems                                                  *)

LEMMA ClockStarts ==
  ASSUME ClockInit
  PROVE  ClockInv
<1>1. /\ now = 1 /\ queue = << >> /\ named = FALSE /\ movie = "none"
      /\ limit = 0 /\ resting = 0 /\ goal = 0 /\ poison = 0 /\ dose = 0 /\ irradiated = FALSE /\ ill = 0
      /\ slot = << >> /\ lost = TRUE /\ lastDay = 0 /\ twice = FALSE
      /\ peak = 1 /\ setBack = FALSE /\ adjusted = 0
  BY DEF ClockInit
<1>2. MaxPoison \in Nat /\ MaxDose \in Nat
  <2>1. PoisonDelay \in Seq(Int) /\ MaxDose \in Nat
    BY ClockConstants
  <2> QED BY <2>1, LenProperties DEF MaxPoison
<1>3. /\ queue \in Seq(Event) /\ Len(queue) = 0 /\ Members(queue) = {}
  BY <1>1, EmptySeq DEF Members
<1>4. /\ Sorted(queue) /\ Times(queue, peak) /\ AtMostOne(queue, "poison") /\ AtMostOne(queue, "heal")
      /\ ~Has(queue, "heal")
  BY <1>3 DEF Sorted, Times, AtMostOne, Has
<1>5. ill = Levels(queue)
  BY <1>1, <1>3, <1>4, LevelsIs
<1>6. QueueOK(queue, peak, poison, ill)
  BY <1>1, <1>3, <1>4, <1>5 DEF QueueOK
<1>7. 0 <= DayOf(now)
  <2>1. 1 \in Int /\ 1 >= 0
    OBVIOUS
  <2>2. DayOf(1) \in Nat
    BY <2>1, DaysInOrder
  <2> QED BY <1>1, <2>2
<1>8. Once
  BY <1>1, <1>3, <1>7 DEF Once, Tomorrow
<1>9. NowTyped /\ BodyTyped /\ SlotOK /\ EventsPending
  <2>1. NowTyped
    BY <1>1 DEF NowTyped
  <2>2. BodyTyped
    <3>1. /\ poison \in 0..MaxPoison /\ dose \in 0..MaxDose /\ ill \in Nat
          /\ lastDay \in Nat /\ adjusted \in Nat
      BY <1>1, <1>2
    <3>2. /\ irradiated \in BOOLEAN /\ named \in BOOLEAN /\ resting \in Nat /\ lost \in BOOLEAN
          /\ twice \in BOOLEAN /\ setBack \in BOOLEAN /\ movie \in {"none", "script", "midnight"}
      BY <1>1, Zenon
    <3> QED BY <3>1, <3>2 DEF BodyTyped
  <2> QED BY <1>1, <2>1, <2>2 DEF SlotOK, EventsPending
<1> QED BY <1>6, <1>8, <1>9 DEF ClockInv

LEMMA ClockKeeps ==
  ASSUME ClockInv, [ClockNext]_tvars
  PROVE  ClockInv'
<1>1. CASE UNCHANGED tvars
  <2>1. UNCHANGED <<now, queue, named, movie, limit, resting, goal, poison, dose, irradiated, ill,
                    slot, lost, lastDay, twice, peak, setBack, adjusted>>
    BY <1>1 DEF tvars
  <2> QED BY <2>1 DEF ClockInv, NowTyped, BodyTyped, SlotOK, EventsPending, Once
<1>2. CASE ClockNext
  <2>1. \/ Tick \/ AllHandled \/ EndRest \/ \E d \in Leaps : Advance(d) \/ Travel(d) \/ Rest(d)
        \/ Midnight \/ MidnightShows \/ MidnightShown \/ MidnightSwallowed \/ Show \/ Shown
        \/ MapUpdate \/ EnterMap \/ LeaveMap \/ Save \/ Load
        \/ (\E p \in 0..MaxPoison : AdjustPoison(p)) \/ (\E stop \in BOOLEAN : PoisonBites(stop))
        \/ Sickens \/ Heals \/ \E level \in 0..MaxDose : AdjustRadiation(level)
    BY <1>2, Zenon DEF ClockNext
  <2> QED BY <2>1, TimePasses, MidnightKeeps, MapsKeep, SavedKeeps, LoadedKeeps, PoisonedKeeps, IrradiatedKeeps
<1> QED BY <1>1, <1>2

LEMMA ClockSafe == ClockSpec => []ClockInv
<1> QED BY ClockStarts, ClockKeeps, PTL DEF ClockSpec

LEMMA DaysFollow ==
  ASSUME ClockInv
  PROVE  DaysPass
<1>1. NowTyped /\ BodyTyped /\ QueueOK(queue, peak, poison, ill) /\ SlotOK /\ EventsPending /\ Once
  BY DEF ClockInv
<1>2. queue \in Seq(Event) /\ Sorted(queue) /\ Times(queue, peak)
  BY <1>1 DEF QueueOK
<1>3. ClockTypes
  <2>1. {now, peak, limit, goal, resting, poison, dose, ill, lastDay, adjusted} \subseteq Nat
    BY <1>1 DEF NowTyped, BodyTyped
  <2>2. DOMAIN queue = 1..Len(queue) /\ \A i \in 1..Len(queue) : queue[i] \in Event
    BY <1>2, EventParts
  <2>3. {named, irradiated, lost, twice, setBack} \subseteq BOOLEAN
    BY <1>1, Zenon DEF BodyTyped
  <2>4. Len(slot) <= 1
    <3>1. CASE slot = << >>
      BY <3>1
    <3>2. CASE slot # << >>
      <4>1. PICK s : slot = <<s>>
        BY <1>1, <3>2 DEF SlotOK
      <4> QED BY <4>1
    <3> QED BY <3>1, <3>2
  <2> QED BY <1>1, <1>2, <2>1, <2>2, <2>3, <2>4 DEF ClockTypes, Event, Sorted, BodyTyped
<1>4. ClockRuns
  <2> SUFFICES ASSUME movie = "none", ~lost
               PROVE  /\ \E e \in ToSet(With(queue, {"midnight"})) : e.due < Day * (DayOf(peak) + 1) + Minute
                      /\ named => \E e \in ToSet(With(queue, {"map"})) : e.due <= peak + Minute
    BY DEF ClockRuns
  <2>1. PICK e \in Members(queue) : e.type = "midnight"
    BY <1>1 DEF EventsPending, Has
  <2>2. e \in ToSet(With(queue, {"midnight"})) /\ e.due < Latest(peak)
    BY <1>2, <2>1, WithToSet DEF Times
  <2>3. ASSUME named
        PROVE  \E u \in ToSet(With(queue, {"map"})) : u.due <= peak + Minute
    <3>1. PICK u \in Members(queue) : u.type = "map"
      BY <1>1, <2>3 DEF EventsPending, Has
    <3>2. u \in ToSet(With(queue, {"map"})) /\ u.due <= peak + Minute
      BY <1>2, <3>1, WithToSet DEF Times
    <3> QED BY <3>2
  <2> QED BY <2>2, <2>3 DEF Latest
<1>5. OncePerDay
  BY <1>1 DEF Once, OncePerDay
<1> QED BY <1>3, <1>4, <1>5 DEF DaysPass

LEMMA AilmentsFollow ==
  ASSUME ClockInv
  PROVE  AilmentsEnd
<1>1. QueueOK(queue, peak, poison, ill)
  BY DEF ClockInv
<1>2. /\ queue \in Seq(Event) /\ AtMostOne(queue, "poison") /\ AtMostOne(queue, "heal") /\ ill = Levels(queue)
      /\ poison > 0 => Has(queue, "poison")
  BY <1>1 DEF QueueOK
<1>3. Len(With(queue, {"poison"})) <= 1 /\ (Has(queue, "poison") => Len(With(queue, {"poison"})) = 1)
  BY <1>2, WithCounts
<1>4. Len(With(queue, {"heal"})) <= 1
  BY <1>2, WithCounts
<1> QED BY <1>2, <1>3, <1>4 DEF AilmentsEnd, OneBite, IllnessEnds

\* The next midnight is always pending, and comes once a day, whatever is entered, left,
\* saved, loaded or skipped: but for a midnight that a script's movie swallowed, and a
\* rest that set the clock back over one (gameTimeScheduleUpdateEvent, pipboyRest).
THEOREM DaysAlwaysPass == ClockSpec => []DaysPass
<1> QED BY ClockSafe, DaysFollow, PTL

\* A poisoned player has one bite pending, however strong the poison, and what radiation
\* took is what will be given back (critterAdjustPoison, radiationEventProcess).
THEOREM AilmentsAlwaysEnd == ClockSpec => []AilmentsEnd
<1> QED BY ClockSafe, AilmentsFollow, PTL
=============================================================================
