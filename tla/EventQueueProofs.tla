-------------------------- MODULE EventQueueProofs --------------------------
(***************************************************************************)
(* Proofs about EventQueue for every set of cells, objects and event types.*)
(***************************************************************************)
EXTENDS EventQueue, SequenceEdits

LEMMA TypesNonEmpty == Len(EventTypes_) \in Nat /\ \A i \in 1..Len(EventTypes_) : EventTypes_[i] \in Types
<1>1. Len(EventTypes_) \in Nat
  BY QueueConstants, LenProperties
<1> QED BY <1>1 DEF Types

\* What the stack operations keep: a frame pushed, popped or replaced on top of
\* a stack of frames leaves a stack of frames.
LEMMA StackOps ==
  ASSUME stack \in Seq(Frame)
  PROVE  /\ Len(stack) \in Nat
         /\ \A f \in Frame : Push(stack, f) \in Seq(Frame)
         /\ stack # << >> => /\ Top \in Frame
                             /\ Pop \in Seq(Frame)
                             /\ \A f \in Frame : WithTop(f) \in Seq(Frame)
<1>1. Len(stack) \in Nat
  BY LenProperties
<1>2. \A f \in Frame : Push(stack, f) \in Seq(Frame)
  BY AppendProperties DEF Push
<1>3. ASSUME stack # << >>
      PROVE  /\ Top \in Frame
             /\ Pop \in Seq(Frame)
             /\ \A f \in Frame : WithTop(f) \in Seq(Frame)
  <2>1. Len(stack) \in 1..Len(stack)
    BY <1>1, <1>3, EmptySeq
  <2>2. Top \in Frame
    BY <2>1, ElementOfSeq DEF Top
  <2>3. \A i \in 1..(Len(stack) - 1) : stack[i] \in Frame
    BY <1>1, ElementOfSeq
  <2>4. Pop \in Seq(Frame)
    BY <1>1, <2>3, SubSeqProperties DEF Pop
  <2>5. \A f \in Frame : WithTop(f) \in Seq(Frame)
    BY <2>1, ExceptSeq DEF WithTop
  <2> QED BY <2>2, <2>4, <2>5
<1> QED BY <1>1, <1>2, <1>3

LEMMA NewFrameType ==
  ASSUME NEW kind \in {"process", "clear", "purge", "leave"}, NEW limit \in Nat,
         NEW t \in Types \cup {ANY}, NEW o \in Owner \cup {NIL, ANY}
  PROVE  NewFrame(kind, limit, t, o) \in Frame
BY QueueConstants DEF NewFrame, Frame

LEMMA HandlerFrame ==
  ASSUME NEW f \in Frame, NEW n \in Node \cup {NIL}, NEW k \in 0..MaxOps
  PROVE  [f EXCEPT !.node = n, !.ops = k] \in Frame
BY DEF Frame

LEMMA OpsBounds == 0 \in 0..MaxOps /\ MaxOps \in 0..MaxOps
BY QueueConstants

LEMMA ChargedType ==
  ASSUME stack \in Seq(Frame), MayCall
  PROVE  Charged \in Seq(Frame)
<1>1. CASE stack = << >>
  BY <1>1 DEF Charged
<1>2. CASE stack # << >>
  <2>1. Top \in Frame /\ Top.ops > 0
    BY <1>2, StackOps DEF MayCall
  <2>2. Top.ops - 1 \in 0..MaxOps
    BY <2>1, QueueConstants DEF Frame
  <2>3. [Top EXCEPT !.ops = @ - 1] \in Frame
    BY <2>1, <2>2 DEF Frame
  <2> QED BY <1>2, <2>3, StackOps DEF Charged
<1> QED BY <1>1, <1>2

LEMMA PushCharged ==
  ASSUME stack \in Seq(Frame), MayCall, NEW f \in Frame
  PROVE  Push(Charged, f) \in Seq(Frame)
BY ChargedType, AppendProperties DEF Push

LEMMA QueueEdits ==
  ASSUME queue \in Seq(Node)
  PROVE  /\ Len(queue) \in Nat
         /\ \A i \in 1..Len(queue) : queue[i] \in Node /\ RemoveAt(queue, i) \in Seq(Node)
         /\ \A n \in Node : \A p \in 0..Len(queue) : InsertAt(queue, p + 1, n) \in Seq(Node)
         /\ queue # << >> => Head(queue) \in Node /\ Tail(queue) \in Seq(Node)
<1>1. Len(queue) \in Nat
  BY LenProperties
<1>2. \A i \in 1..Len(queue) : queue[i] \in Node /\ RemoveAt(queue, i) \in Seq(Node)
  BY ElementOfSeq, RemoveAtProperties
<1>3. \A n \in Node : \A p \in 0..Len(queue) : InsertAt(queue, p + 1, n) \in Seq(Node)
  BY InsertAtProperties
<1>4. queue # << >> => Head(queue) \in Node /\ Tail(queue) \in Seq(Node)
  BY HeadTailProperties
<1> QED BY <1>1, <1>2, <1>3, <1>4

-----------------------------------------------------------------------------
LEMMA TypeInit == Init => TypeOK
<1> SUFFICES ASSUME Init PROVE TypeOK
  OBVIOUS
<1>1. now \in Nat
  BY QueueConstants DEF Init
<1>2. EventTypes_[1] \in Types
  <2>1. 1 \in 1..Len(EventTypes_)
    BY QueueConstants, EmptySeq, TypesNonEmpty
  <2> QED BY <2>1, TypesNonEmpty
<1>3. info \in [Node -> Info]
  BY <1>2, QueueConstants DEF Init, Info
<1> QED BY <1>1, <1>3, EmptySeq DEF Init, TypeOK

LEMMA TypeStep == TypeOK /\ [Next]_vars => TypeOK'
<1> SUFFICES ASSUME TypeOK, [Next]_vars PROVE TypeOK'
  OBVIOUS
<1>q. queue \in Seq(Node)
  BY DEF TypeOK
<1>s. stack \in Seq(Frame)
  BY DEF TypeOK
<1>1. ASSUME NEW n \in Node, NEW d \in Delays, NEW o \in Owner \cup {NIL}, NEW t \in Types,
             AddEvent(n, d, o, t)
      PROVE  TypeOK'
  <2>1. (now + d) % Word \in 0..(Word - 1)
    BY QueueConstants DEF TypeOK
  <2>2. info' \in [Node -> Info]
    BY <1>1, <2>1 DEF AddEvent, Due, Info, TypeOK
  <2>3. queue' \in Seq(Node)
    BY <1>q, <1>1, QueueEdits DEF AddEvent
  <2>4. stack' \in Seq(Frame)
    BY <1>s, <1>1, ChargedType DEF AddEvent
  <2> QED BY <1>1, <2>2, <2>3, <2>4 DEF AddEvent, TypeOK
<1>2. ASSUME NEW o \in Owner \cup {ANY}, NEW t \in Types \cup {ANY}, NEW destroy \in BOOLEAN,
             StartPurge(o, t, destroy)
      PROVE  TypeOK'
  <2>1. stack' \in Seq(Frame)
    BY <1>s, <1>2, NewFrameType, PushCharged DEF StartPurge
  <2>2. gone' \subseteq Owner
    BY <1>2 DEF StartPurge, TypeOK
  <2> QED BY <1>2, <2>1, <2>2 DEF StartPurge, TypeOK
<1>3. CASE StartProcess
  <2>1. stack' \in Seq(Frame)
    BY <1>s, <1>3, NewFrameType, PushCharged DEF StartProcess, TypeOK
  <2> QED BY <1>3, <2>1 DEF StartProcess, TypeOK
<1>4. CASE StartLeave
  <2>1. stack' \in Seq(Frame)
    BY <1>s, <1>4, NewFrameType, StackOps DEF StartLeave
  <2> QED BY <1>4, <2>1 DEF StartLeave, TypeOK
<1>5. CASE AdvanceTime
  BY <1>s, <1>5, ChargedType DEF AdvanceTime, TypeOK
<1>6. CASE PurgeStep
  BY <1>q, <1>6, QueueEdits DEF PurgeStep, TypeOK
<1>7. CASE PurgeReturn
  BY <1>s, <1>7, StackOps DEF PurgeReturn, TopIs, TypeOK
<1>8. CASE Dispatch
  <2>1. Top \in Frame /\ stack # << >>
    BY <1>s, <1>8, StackOps DEF Dispatch, TopIs
  <2>2. Head(queue) \in Node /\ queue' \in Seq(Node)
    BY <1>q, <1>8, QueueEdits DEF Dispatch, HeadDue
  <2>3. [Top EXCEPT !.node = Head(queue), !.ops = MaxOps] \in Frame
    BY <2>1, <2>2, HandlerFrame, OpsBounds
  <2>4. stack' \in Seq(Frame)
    BY <1>s, <1>8, <2>1, <2>3, StackOps DEF Dispatch
  <2> QED BY <1>8, <2>2, <2>4 DEF Dispatch, TypeOK
<1>9. ASSUME NEW stop \in BOOLEAN, HandlerReturn(stop)
      PROVE  TypeOK'
  <2>1. Top \in Frame /\ stack # << >>
    BY <1>s, <1>9, StackOps DEF HandlerReturn, TopIs
  <2>2. [Top EXCEPT !.node = NIL, !.ops = 0] \in Frame
    BY <2>1, HandlerFrame, OpsBounds
  <2>3. stack' \in Seq(Frame)
    BY <1>s, <1>9, <2>1, <2>2, StackOps DEF HandlerReturn
  <2> QED BY <1>9, <2>3 DEF HandlerReturn, TypeOK
<1>10. CASE ProcessReturn
  BY <1>s, <1>10, StackOps DEF ProcessReturn, TopIs, TypeOK
<1>11. CASE LeaveStep
  <2> DEFINE t    == EventTypes_[Top.limit]
             next == [Top EXCEPT !.limit = @ + 1]
             f    == NewFrame(IF t \in NoExitHandler THEN "purge" ELSE "clear", 0, t, ANY)
  <2>1. Top \in Frame /\ stack # << >>
    BY <1>s, <1>11, StackOps DEF LeaveStep, TopIs
  <2>2. Top.limit + 1 \in Nat
    BY <2>1 DEF Frame
  <2>3. next \in Frame
    BY <2>1, <2>2 DEF Frame
  <2>4. WithTop(next) \in Seq(Frame)
    BY <1>s, <2>1, <2>3, StackOps
  <2>5. t \in Types
    BY <1>11, TypesNonEmpty DEF LeaveStep
  <2>6. f \in Frame
    BY <2>5, NewFrameType
  <2>7. Push(WithTop(next), f) \in Seq(Frame)
    BY <2>4, <2>6, AppendProperties DEF Push
  <2> QED BY <1>11, <2>4, <2>7 DEF LeaveStep, TypeOK
<1>12. CASE LeaveReturn
  BY <1>s, <1>12, StackOps DEF LeaveReturn, TopIs, TypeOK
<1>13. CASE ClearScan
  <2>1. Top \in Frame /\ stack # << >>
    BY <1>s, <1>13, StackOps DEF ClearScan, TopIs
  <2>2. PICK i \in 1..Len(queue) : ClearMoot(i) \/ ClearKept(i) \/ ClearHandled(i)
    BY <1>13 DEF ClearScan
  <2>3. queue[i] \in Node /\ Unlinked(i) \in Seq(Node)
    BY <1>q, QueueEdits DEF Unlinked
  <2>4. CursorBefore(i) \in Node \cup {HEAD}
    <3>1. i # 1 => i - 1 \in 1..Len(queue)
      BY <1>q, QueueEdits
    <3> QED BY <1>q, <3>1, QueueEdits DEF CursorBefore
  <2>5. Advanced(i) \in Frame
    BY <2>1, <2>4 DEF Advanced, Frame
  <2>6. [Top EXCEPT !.prev = queue[i]] \in Frame
    BY <2>1, <2>3 DEF Frame
  <2>7. [Advanced(i) EXCEPT !.node = queue[i], !.ops = MaxOps] \in Frame
    BY <2>3, <2>5, HandlerFrame, OpsBounds
  <2>8. stack' \in Seq(Frame)
    BY <1>s, <2>1, <2>2, <2>5, <2>6, <2>7, StackOps DEF ClearMoot, ClearKept, ClearHandled
  <2>9. queue' \in Seq(Node) /\ alloc' \subseteq Node
    BY <2>2, <2>3 DEF ClearMoot, ClearKept, ClearHandled, TypeOK
  <2> QED BY <1>13, <2>8, <2>9 DEF ClearScan, TypeOK
<1>14. CASE ClearDrop
  <2>1. Top \in Frame /\ stack # << >>
    BY <1>s, <1>14, StackOps DEF ClearDrop, TopIs
  <2>2. [Top EXCEPT !.node = NIL, !.ops = 0] \in Frame
    BY <2>1, HandlerFrame, OpsBounds
  <2>3. stack' \in Seq(Frame)
    BY <1>s, <1>14, <2>1, <2>2, StackOps DEF ClearDrop
  <2> QED BY <1>14, <2>3 DEF ClearDrop, TypeOK
<1>15. CASE ClearReturn
  BY <1>s, <1>15, StackOps DEF ClearReturn, TopIs, TypeOK
<1>16. CASE UNCHANGED vars
  BY <1>16 DEF vars, TypeOK
<1> QED
  BY <1>1, <1>2, <1>3, <1>4, <1>5, <1>6, <1>7, <1>8, <1>9, <1>10, <1>11, <1>12, <1>13,
     <1>14, <1>15, <1>16 DEF Next, Loop
\* Every variable keeps its type, whatever the cells, objects, types, delays and
\* bounds are.
THEOREM TypeCorrect == Spec => []TypeOK
<1>1. Init => TypeOK
  BY TypeInit
<1>2. TypeOK /\ [Next]_vars => TypeOK'
  BY TypeStep
<1> QED BY <1>1, <1>2, PTL DEF Spec

-----------------------------------------------------------------------------
(* The cells held by suspended loops.                                       *)

HeldBy(s) == {s[i].node : i \in 1..Len(s)} \ {NIL}
HeldOnce(s) == \A i, j \in 1..Len(s) : s[i].node = s[j].node /\ s[i].node # NIL => i = j

LEMMA HeldAfterPush ==
  ASSUME NEW s \in Seq(Frame), NEW f \in Frame, f.node = NIL, HeldOnce(s)
  PROVE  HeldBy(Push(s, f)) = HeldBy(s) /\ HeldOnce(Push(s, f))
<1> DEFINE r == Append(s, f)
<1>1. /\ Len(s) \in Nat /\ Len(r) = Len(s) + 1
      /\ \A i \in 1..Len(s) : r[i] = s[i]
      /\ r[Len(s) + 1] = f
  BY AppendProperties, LenProperties
<1> HIDE DEF r
<1>2. \A i \in 1..Len(r) : (i \in 1..Len(s) /\ r[i] = s[i]) \/ (i = Len(s) + 1 /\ r[i].node = NIL)
  BY <1>1
<1>3. \A i \in 1..Len(s) : i \in 1..Len(r) /\ r[i] = s[i]
  BY <1>1
<1>4. HeldBy(r) = HeldBy(s)
  BY <1>2, <1>3 DEF HeldBy
<1>5. HeldOnce(r)
  BY <1>2 DEF HeldOnce
<1> QED BY <1>4, <1>5 DEF r, Push

LEMMA HeldAfterPop ==
  ASSUME stack \in Seq(Frame), stack # << >>, HeldOnce(stack)
  PROVE  HeldBy(Pop) = HeldBy(stack) \ {Top.node} /\ HeldOnce(Pop)
<1> DEFINE r == SubSeq(stack, 1, Len(stack) - 1)
<1>1. Len(stack) \in Nat /\ Len(stack) \in 1..Len(stack)
  BY LenProperties, EmptySeq
<1>3. /\ Len(r) = Len(stack) - 1
      /\ \A i \in 1..(Len(stack) - 1) : r[i] = stack[i]
  BY FrontProperties
<1> HIDE DEF r
<1>4. \A i \in 1..Len(r) : i \in 1..Len(stack) /\ i # Len(stack) /\ r[i] = stack[i]
  BY <1>1, <1>3
<1>5. \A i \in 1..Len(stack) : i # Len(stack) => i \in 1..Len(r) /\ r[i] = stack[i]
  BY <1>1, <1>3
<1>6. HeldBy(r) = HeldBy(stack) \ {stack[Len(stack)].node}
  BY <1>1, <1>4, <1>5 DEF HeldBy, HeldOnce
<1>7. HeldOnce(r)
  BY <1>4 DEF HeldOnce
<1> QED BY <1>6, <1>7 DEF r, Pop, Top

\* Replacing the top frame lets go of what it held and takes what f holds.
LEMMA HeldAfterWithTop ==
  ASSUME stack \in Seq(Frame), stack # << >>, HeldOnce(stack),
         NEW f \in Frame, f.node \notin HeldBy(stack) \/ f.node = Top.node
  PROVE  /\ HeldBy(WithTop(f)) = (HeldBy(stack) \ {Top.node}) \cup ({f.node} \ {NIL})
         /\ HeldOnce(WithTop(f))
<1> DEFINE r == [stack EXCEPT ![Len(stack)] = f]
<1>1. Len(stack) \in Nat /\ Len(stack) \in 1..Len(stack)
  BY LenProperties, EmptySeq
<1>2. /\ Len(r) = Len(stack)
      /\ \A j \in 1..Len(stack) : r[j] = IF j = Len(stack) THEN f ELSE stack[j]
  BY <1>1, ExceptSeq
<1> HIDE DEF r
<1>3. \A i \in 1..Len(stack) : i # Len(stack) => r[i] = stack[i]
  BY <1>2
<1>4. r[Len(stack)] = f
  BY <1>1, <1>2
<1>5. HeldBy(r) = (HeldBy(stack) \ {stack[Len(stack)].node}) \cup ({f.node} \ {NIL})
  BY <1>1, <1>2, <1>3, <1>4 DEF HeldBy, HeldOnce
<1>6. HeldOnce(r)
  BY <1>1, <1>2, <1>3, <1>4 DEF HeldOnce, HeldBy, Top
<1> QED BY <1>5, <1>6 DEF r, WithTop, Top
-----------------------------------------------------------------------------
(* Memory and order, as long as no cursor dangles.                          *)

\* A suspended purge or map change runs no handler itself.
IdleFrame(f) == f.kind \in {"purge", "leave"} => f.node = NIL
Idle(s) == \A i \in 1..Len(s) : IdleFrame(s[i])

Sound == TypeOK /\ Idle(stack) /\ Memory /\ Sorted

LEMMA MemoryParts ==
  Memory <=> /\ Distinct(queue) /\ HeldOnce(stack)
             /\ Members(queue) \cap HeldBy(stack) = {}
             /\ alloc = Members(queue) \cup HeldBy(stack)
BY DEF Memory, Distinct, HeldOnce, Members, HeldBy, Linked, Held

LEMMA SoundInit == Init => Sound
<1> SUFFICES ASSUME Init PROVE Sound
  OBVIOUS
<1>1. Len(queue) = 0 /\ Len(stack) = 0
  BY EmptySeq DEF Init
<1>2. TypeOK
  BY TypeInit
<1> QED BY <1>1, <1>2 DEF Sound, Idle, Memory, Sorted, Linked, Held, Init

\* Removing a node keeps the list sorted.
LEMMA SortedAfterRemove ==
  ASSUME queue \in Seq(Node), Sorted, info \in [Node -> Info],
         NEW p \in 1..Len(queue), queue' = RemoveAt(queue, p), info' = info
  PROVE  Sorted'
<1> DEFINE r == RemoveAt(queue, p)
<1>0. Len(queue) \in Nat
  BY LenProperties
<1>1. /\ Len(r) = Len(queue) - 1
      /\ \A i \in 1..(Len(queue) - 1) : r[i] = IF i < p THEN queue[i] ELSE queue[i + 1]
  BY RemoveAtProperties
<1> HIDE DEF r
<1>2. ASSUME NEW i \in 1..Len(r), NEW j \in 1..Len(r), i < j
      PROVE  info[r[i]].time <= info[r[j]].time
  <2>1. \A k \in 1..Len(r) : \E m \in 1..Len(queue) :
          r[k] = queue[m] /\ m = (IF k < p THEN k ELSE k + 1)
    BY <1>0, <1>1
  <2>2. PICK a \in 1..Len(queue) : r[i] = queue[a] /\ a = (IF i < p THEN i ELSE i + 1)
    BY <2>1
  <2>3. PICK b \in 1..Len(queue) : r[j] = queue[b] /\ b = (IF j < p THEN j ELSE j + 1)
    BY <2>1
  <2>4. a < b
    BY <1>0, <1>1, <1>2, <2>2, <2>3
  <2> QED BY <2>2, <2>3, <2>4 DEF Sorted
<1> QED BY <1>2 DEF Sorted, r

\* So does inserting a new cell behind every node that is not later.
LEMMA SortedAfterInsert ==
  ASSUME queue \in Seq(Node), Sorted, info \in [Node -> Info],
         NEW p \in 0..Len(queue), NEW n \in Node, NEW new \in Info, n \notin Members(queue),
         IsInsertPos(p, new.time), queue' = InsertAt(queue, p + 1, n),
         info' = [info EXCEPT ![n] = new]
  PROVE  Sorted'
<1> DEFINE r == InsertAt(queue, p + 1, n)
<1>0. Len(queue) \in Nat /\ p \in Nat /\ p <= Len(queue)
  BY LenProperties
<1>1. /\ Len(r) = Len(queue) + 1
      /\ \A i \in 1..(Len(queue) + 1) :
           r[i] = IF i <= p THEN queue[i] ELSE IF i = p + 1 THEN n ELSE queue[i - 1]
  BY InsertAtProperties, SMTT(30)
<1> HIDE DEF r
<1>2. \A i \in 1..Len(queue) : queue[i] \in Node /\ queue[i] # n /\ info'[queue[i]] = info[queue[i]]
  BY QueueEdits DEF Members
<1>3. info'[n] = new
  OBVIOUS
<1>4. new.time \in Int /\ \A i \in 1..Len(queue) : info[queue[i]].time \in Int
  BY <1>2, QueueConstants DEF Info
<1>5. \A i \in 1..p : info[queue[i]].time <= new.time
  BY DEF IsInsertPos
<1>6. ASSUME NEW i \in (p + 1)..Len(queue)
      PROVE  new.time <= info[queue[i]].time
  <2>1. p + 1 \in 1..Len(queue) /\ p < Len(queue) /\ i \in 1..Len(queue)
    BY <1>0
  <2>2. new.time < info[queue[p + 1]].time
    BY <2>1 DEF IsInsertPos
  <2>3. i = p + 1 \/ info[queue[p + 1]].time <= info[queue[i]].time
    BY <1>0, <2>1 DEF Sorted
  <2> QED BY <1>4, <2>1, <2>2, <2>3
<1>7. ASSUME NEW i \in 1..Len(r), NEW j \in 1..Len(r), i < j
      PROVE  info'[r[i]].time <= info'[r[j]].time
  <2>1. CASE i = p + 1
    <3>1. r[i] = n /\ r[j] = queue[j - 1] /\ j - 1 \in (p + 1)..Len(queue) /\ j - 1 \in 1..Len(queue)
      BY <1>0, <1>1, <1>7, <2>1
    <3> QED BY <1>2, <1>3, <1>6, <3>1
  <2>2. CASE j = p + 1
    <3>1. r[j] = n /\ r[i] = queue[i] /\ i \in 1..p /\ i \in 1..Len(queue)
      BY <1>0, <1>1, <1>7, <2>2
    <3> QED BY <1>2, <1>3, <1>5, <3>1
  <2>3. CASE i # p + 1 /\ j # p + 1
    <3>1. \A k \in 1..Len(r) : k # p + 1 =>
            \E m \in 1..Len(queue) : r[k] = queue[m] /\ m = (IF k <= p THEN k ELSE k - 1)
      BY <1>0, <1>1
    <3>2. PICK a \in 1..Len(queue) : r[i] = queue[a] /\ a = (IF i <= p THEN i ELSE i - 1)
      BY <2>3, <3>1
    <3>3. PICK b \in 1..Len(queue) : r[j] = queue[b] /\ b = (IF j <= p THEN j ELSE j - 1)
      BY <2>3, <3>1
    <3>4. a < b
      BY <1>0, <1>1, <1>7, <2>3, <3>2, <3>3
    <3> QED BY <1>2, <3>2, <3>3, <3>4 DEF Sorted
  <2> QED BY <2>1, <2>2, <2>3
<1> QED BY <1>7 DEF Sorted, r

LEMMA IdleAfterPush ==
  ASSUME NEW s \in Seq(Frame), NEW f \in Frame, Idle(s), IdleFrame(f)
  PROVE  Idle(Push(s, f))
<1>1. /\ Len(s) \in Nat /\ Len(Append(s, f)) = Len(s) + 1
      /\ \A i \in 1..Len(s) : Append(s, f)[i] = s[i]
      /\ Append(s, f)[Len(s) + 1] = f
  BY AppendProperties, LenProperties
<1>2. \A i \in 1..(Len(s) + 1) : i \in 1..Len(s) \/ i = Len(s) + 1
  BY <1>1
<1> QED BY <1>1, <1>2 DEF Idle, Push

LEMMA IdleAfterPop ==
  ASSUME stack \in Seq(Frame), stack # << >>, Idle(stack)
  PROVE  Idle(Pop)
<1>1. \A i \in 1..(Len(stack) - 1) : i \in 1..Len(stack)
  BY LenProperties
<1> QED BY <1>1, FrontProperties DEF Idle, Pop

LEMMA IdleAfterWithTop ==
  ASSUME stack \in Seq(Frame), stack # << >>, Idle(stack), NEW f \in Frame, IdleFrame(f)
  PROVE  Idle(WithTop(f))
<1>1. Len(stack) \in 1..Len(stack)
  BY LenProperties, EmptySeq
<1> QED BY <1>1, ExceptSeq DEF Idle, WithTop

\* A suspended call is pushed with nothing in hand, or an operation is charged
\* to the running handler: neither changes what is held.
LEMMA HeldAfterCharge ==
  ASSUME TypeOK, HeldOnce(stack), MayCall
  PROVE  HeldBy(Charged) = HeldBy(stack) /\ HeldOnce(Charged)
<1>1. CASE stack = << >>
  BY <1>1 DEF Charged
<1>2. CASE stack # << >>
  <2> DEFINE f == [Top EXCEPT !.ops = @ - 1]
  <2>1. stack \in Seq(Frame) /\ Top \in Frame
    BY <1>2, StackOps DEF TypeOK
  <2>2. Top.ops - 1 \in 0..MaxOps
    BY <1>2, <2>1, QueueConstants DEF MayCall, Frame
  <2>3. f \in Frame /\ f.node = Top.node
    BY <2>1, <2>2 DEF Frame
  <2>4. Top.node = NIL \/ Top.node \in HeldBy(stack)
    BY <1>2, <2>1, EmptySeq DEF HeldBy, Top
  <2>5. NIL \notin HeldBy(stack)
    BY DEF HeldBy
  <2> HIDE DEF f
  <2>6. HeldBy(WithTop(f)) = (HeldBy(stack) \ {Top.node}) \cup ({Top.node} \ {NIL}) /\ HeldOnce(WithTop(f))
    BY <1>2, <2>1, <2>3, HeldAfterWithTop
  <2>7. HeldBy(WithTop(f)) = HeldBy(stack)
    BY <2>4, <2>5, <2>6
  <2> QED BY <1>2, <2>6, <2>7 DEF Charged, f
<1> QED BY <1>1, <1>2
LEMMA IdleAfterCharge ==
  ASSUME TypeOK, Idle(stack), MayCall
  PROVE  Idle(Charged)
<1>1. CASE stack = << >>
  BY <1>1 DEF Charged
<1>2. CASE stack # << >>
  <2>1. stack \in Seq(Frame) /\ Top \in Frame /\ IdleFrame(Top)
    BY <1>2, StackOps, EmptySeq DEF TypeOK, Idle, Top
  <2>2. Top.ops - 1 \in 0..MaxOps
    BY <1>2, <2>1, QueueConstants DEF MayCall, Frame
  <2>3. [Top EXCEPT !.ops = @ - 1] \in Frame /\ IdleFrame([Top EXCEPT !.ops = @ - 1])
    BY <2>1, <2>2 DEF Frame, IdleFrame
  <2> QED BY <1>2, <2>1, <2>3, IdleAfterWithTop DEF Charged
<1> QED BY <1>1, <1>2

\* What is left to show of a step: its effect on the list, on what is held and
\* on the allocated cells.
LEMMA SoundAfter ==
  ASSUME TypeOK', Idle(stack'), Sorted', Distinct(queue'), HeldOnce(stack'),
         Members(queue') \cap HeldBy(stack') = {},
         alloc' = Members(queue') \cup HeldBy(stack')
  PROVE  Sound'
<1>1. Memory'
  BY DEF Memory, Distinct, HeldOnce, Members, HeldBy, Linked, Held
<1>2. (Idle(stack))'
  BY DEF Idle, IdleFrame
<1> QED BY <1>1, <1>2 DEF Sound

\* Steps that leave the list and the cells alone and hold what was held.
LEMMA SoundQuiet ==
  ASSUME Sound, TypeOK', Idle(stack'), HeldOnce(stack'), HeldBy(stack') = HeldBy(stack),
         queue' = queue, alloc' = alloc, info' = info
  PROVE  Sound'
<1>1. Sorted'
  BY DEF Sound, Sorted
<1>2. Memory
  BY DEF Sound
<1> QED BY <1>1, <1>2, MemoryParts, SoundAfter

\* Steps that take the node at p out of the list and free it.
LEMMA SoundFreed ==
  ASSUME Sound, TypeOK', Idle(stack'), HeldOnce(stack'), HeldBy(stack') = HeldBy(stack),
         NEW p \in 1..Len(queue), queue' = RemoveAt(queue, p),
         alloc' = alloc \ {queue[p]}, info' = info
  PROVE  Sound'
<1>1. queue \in Seq(Node) /\ info \in [Node -> Info] /\ Sorted /\ Memory
  BY DEF Sound, TypeOK
<1>2. Sorted'
  BY <1>1, SortedAfterRemove
<1>3. /\ Distinct(queue) /\ Members(queue) \cap HeldBy(stack) = {}
      /\ alloc = Members(queue) \cup HeldBy(stack)
  BY <1>1, MemoryParts
<1>4. Members(queue') = Members(queue) \ {queue[p]} /\ Distinct(queue') /\ queue[p] \in Members(queue)
  BY <1>1, <1>3, RemoveAtMembers DEF Members
<1> QED BY <1>2, <1>3, <1>4, SoundAfter

\* Steps that take the node at p out of the list and hold it for its handler.
LEMMA SoundTaken ==
  ASSUME Sound, TypeOK', Idle(stack'), HeldOnce(stack'),
         NEW p \in 1..Len(queue), queue' = RemoveAt(queue, p),
         HeldBy(stack') = HeldBy(stack) \cup {queue[p]},
         alloc' = alloc, info' = info
  PROVE  Sound'
<1>1. queue \in Seq(Node) /\ info \in [Node -> Info] /\ Sorted /\ Memory
  BY DEF Sound, TypeOK
<1>2. Sorted'
  BY <1>1, SortedAfterRemove
<1>3. /\ Distinct(queue) /\ Members(queue) \cap HeldBy(stack) = {}
      /\ alloc = Members(queue) \cup HeldBy(stack)
  BY <1>1, MemoryParts
<1>4. Members(queue') = Members(queue) \ {queue[p]} /\ Distinct(queue') /\ queue[p] \in Members(queue)
  BY <1>1, <1>3, RemoveAtMembers DEF Members
<1> QED BY <1>2, <1>3, <1>4, SoundAfter

\* Steps after which the running handler has returned and its node is freed.
LEMMA SoundReleased ==
  ASSUME Sound, TypeOK', Idle(stack'), HeldOnce(stack'), stack # << >>,
         Top.node # NIL, HeldBy(stack') = HeldBy(stack) \ {Top.node},
         queue' = queue, alloc' = alloc \ {Top.node}, info' = info
  PROVE  Sound'
<1>1. Sorted'
  BY DEF Sound, Sorted
<1>2. stack \in Seq(Frame) /\ Memory
  BY DEF Sound, TypeOK
<1>3. Top.node \in HeldBy(stack)
  BY <1>2, LenProperties, EmptySeq DEF HeldBy, Top
<1> QED BY <1>1, <1>2, <1>3, MemoryParts, SoundAfter
LEMMA HeldAfterSameNode ==
  ASSUME stack \in Seq(Frame), stack # << >>, HeldOnce(stack), NEW f \in Frame, f.node = Top.node
  PROVE  HeldBy(WithTop(f)) = HeldBy(stack) /\ HeldOnce(WithTop(f))
<1>1. Top.node = NIL \/ Top.node \in HeldBy(stack)
  BY EmptySeq DEF HeldBy, Top
<1>2. NIL \notin HeldBy(stack)
  BY DEF HeldBy
<1>3. HeldBy(WithTop(f)) = (HeldBy(stack) \ {f.node}) \cup ({f.node} \ {NIL}) /\ HeldOnce(WithTop(f))
  BY HeldAfterWithTop
<1> QED BY <1>1, <1>2, <1>3

\* One step of the program keeps memory and order, if no cursor dangles before.
LEMMA SoundStep == Sound /\ CursorsLive /\ [Next]_vars => Sound'
<1> SUFFICES ASSUME Sound, CursorsLive, [Next]_vars PROVE Sound'
  OBVIOUS
<1>t. TypeOK /\ TypeOK' /\ Idle(stack) /\ Memory /\ Sorted
  BY TypeStep DEF Sound
<1>q. queue \in Seq(Node) /\ stack \in Seq(Frame) /\ info \in [Node -> Info]
  BY <1>t DEF TypeOK
<1>m. /\ Distinct(queue) /\ HeldOnce(stack)
      /\ Members(queue) \cap HeldBy(stack) = {}
      /\ alloc = Members(queue) \cup HeldBy(stack)
  BY <1>t, MemoryParts
<1>top. ASSUME stack # << >>
        PROVE  Top \in Frame /\ IdleFrame(Top)
  BY <1>q, <1>t, <1>top, StackOps, EmptySeq DEF Idle, Top
<1>new. \A kind \in {"process", "clear", "purge", "leave"} : \A limit \in Nat :
          \A t \in Types \cup {ANY} : \A o \in Owner \cup {NIL, ANY} :
            /\ NewFrame(kind, limit, t, o) \in Frame
            /\ NewFrame(kind, limit, t, o).node = NIL
            /\ IdleFrame(NewFrame(kind, limit, t, o))
  BY NewFrameType DEF NewFrame, IdleFrame
<1>call. ASSUME MayCall
         PROVE  /\ Charged \in Seq(Frame) /\ Idle(Charged)
                /\ HeldOnce(Charged) /\ HeldBy(Charged) = HeldBy(stack)
  BY <1>q, <1>t, <1>m, <1>call, ChargedType, IdleAfterCharge, HeldAfterCharge
<1>push. ASSUME NEW s \in Seq(Frame), Idle(s), HeldOnce(s), HeldBy(s) = HeldBy(stack),
                NEW f \in Frame, f.node = NIL, IdleFrame(f)
         PROVE  Idle(Push(s, f)) /\ HeldOnce(Push(s, f)) /\ HeldBy(Push(s, f)) = HeldBy(stack)
  BY <1>push, IdleAfterPush, HeldAfterPush
<1>pop. ASSUME stack # << >>, Top.node = NIL
        PROVE  Idle(Pop) /\ HeldOnce(Pop) /\ HeldBy(Pop) = HeldBy(stack)
  BY <1>q, <1>t, <1>m, <1>pop, IdleAfterPop, HeldAfterPop DEF HeldBy
<1>nil. NIL \notin HeldBy(stack)
  BY DEF HeldBy
<1>1. ASSUME NEW n \in Node, NEW d \in Delays, NEW o \in Owner \cup {NIL}, NEW t \in Types,
             AddEvent(n, d, o, t)
      PROVE  Sound'
  <2> DEFINE new == [time |-> (now + d) % Word, type |-> t, owner |-> o]
  <2>1. (now + d) % Word \in 0..(Word - 1)
    BY <1>t, QueueConstants DEF TypeOK
  <2>2. new \in Info /\ info' = [info EXCEPT ![n] = new] /\ n \notin alloc /\ alloc' = alloc \cup {n}
    BY <1>1, <2>1 DEF AddEvent, Due, Info
  <2>3. PICK p \in 0..Len(queue) :
          IsInsertPos(p, new.time) /\ queue' = InsertAt(queue, p + 1, n)
    BY <1>1 DEF AddEvent, Due
  <2>4. n \notin Members(queue) /\ n \notin HeldBy(stack)
    BY <1>m, <2>2
  <2>5. Sorted'
    BY <1>q, <1>t, <2>2, <2>3, <2>4, SortedAfterInsert
  <2>6. Members(queue') = Members(queue) \cup {n} /\ Distinct(queue')
    BY <1>q, <1>m, <2>3, <2>4, InsertAtMembers
  <2>7. Idle(stack') /\ HeldOnce(stack') /\ HeldBy(stack') = HeldBy(stack)
    BY <1>1, <1>call DEF AddEvent
  <2> QED BY <1>t, <1>m, <2>2, <2>4, <2>5, <2>6, <2>7, SoundAfter
<1>2. ASSUME NEW o \in Owner \cup {ANY}, NEW t \in Types \cup {ANY}, NEW destroy \in BOOLEAN,
             StartPurge(o, t, destroy)
      PROVE  Sound'
  <2>1. MayCall /\ stack' = Push(Charged, NewFrame("purge", 0, t, o))
    BY <1>2 DEF StartPurge
  <2>2. Idle(stack') /\ HeldOnce(stack') /\ HeldBy(stack') = HeldBy(stack)
    BY <2>1, <1>call, <1>new, <1>push
  <2> QED BY <1>t, <1>2, <2>2, SoundQuiet DEF StartPurge
<1>3. CASE StartProcess
  <2>1. MayCall /\ stack' = Push(Charged, NewFrame("process", now, ANY, ANY))
    BY <1>3 DEF StartProcess
  <2>2. Idle(stack') /\ HeldOnce(stack') /\ HeldBy(stack') = HeldBy(stack)
    BY <2>1, <1>t, <1>call, <1>new, <1>push DEF TypeOK
  <2> QED BY <1>t, <1>3, <2>2, SoundQuiet DEF StartProcess
<1>4. CASE StartLeave
  <2>1. stack' = Push(stack, NewFrame("leave", 1, ANY, ANY))
    BY <1>4 DEF StartLeave
  <2>2. Idle(stack') /\ HeldOnce(stack') /\ HeldBy(stack') = HeldBy(stack)
    BY <2>1, <1>q, <1>t, <1>m, <1>new, <1>push
  <2> QED BY <1>t, <1>4, <2>2, SoundQuiet DEF StartLeave
<1>5. CASE AdvanceTime
  BY <1>t, <1>5, <1>call, SoundQuiet DEF AdvanceTime
<1>6. CASE PurgeStep
  <2>1. PICK p \in 1..Len(queue) : queue' = RemoveAt(queue, p) /\ alloc' = alloc \ {queue[p]}
    BY <1>6 DEF PurgeStep
  <2> QED BY <1>t, <1>m, <1>6, <2>1, SoundFreed DEF PurgeStep
<1>7. CASE PurgeReturn
  <2>1. stack # << >> /\ Top.node = NIL /\ stack' = Pop
    BY <1>7, <1>top DEF PurgeReturn, TopIs, IdleFrame
  <2> QED BY <1>t, <1>7, <1>pop, <2>1, SoundQuiet DEF PurgeReturn
<1>8. CASE Dispatch
  <2> DEFINE f == [Top EXCEPT !.node = Head(queue), !.ops = MaxOps]
  <2>1. stack # << >> /\ Top.kind = "process" /\ Top.node = NIL
    BY <1>8 DEF Dispatch, TopIs
  <2>2. /\ 1 \in 1..Len(queue) /\ Head(queue) = queue[1] /\ queue[1] \in Node
        /\ queue' = RemoveAt(queue, 1)
    BY <1>q, <1>8, TailIsRemoveAt, ElementOfSeq DEF Dispatch, HeadDue
  <2>3. CASE alloc' = alloc \ {Head(queue)} /\ stack' = stack
    BY <1>t, <1>m, <1>8, <2>2, <2>3, SoundFreed DEF Dispatch
  <2>4. CASE alloc' = alloc /\ stack' = WithTop(f)
    <3>1. f \in Frame /\ f.node = queue[1] /\ IdleFrame(f)
      BY <1>top, <2>1, <2>2, HandlerFrame, OpsBounds DEF Frame, IdleFrame
    <3>2. queue[1] \in Members(queue) /\ queue[1] # NIL
      BY <2>2, QueueConstants DEF Members
    <3>3. f.node \notin HeldBy(stack)
      BY <1>m, <3>1, <3>2
    <3>4. /\ HeldBy(WithTop(f)) = (HeldBy(stack) \ {Top.node}) \cup ({f.node} \ {NIL})
          /\ HeldOnce(WithTop(f))
      BY <1>q, <1>m, <2>1, <3>1, <3>3, HeldAfterWithTop
    <3>5. HeldBy(stack') = HeldBy(stack) \cup {queue[1]} /\ HeldOnce(stack')
      <4> HIDE DEF f
      <4> QED BY <1>nil, <2>1, <2>4, <3>1, <3>2, <3>4
    <3>6. Idle(stack')
      BY <1>q, <1>t, <2>1, <2>4, <3>1, IdleAfterWithTop
    <3> QED BY <1>t, <1>8, <2>2, <2>4, <3>5, <3>6, SoundTaken DEF Dispatch
  <2> QED BY <1>8, <2>3, <2>4 DEF Dispatch
<1>9. ASSUME NEW f \in Frame, f.node = NIL, IdleFrame(f), stack # << >>, Top.node # NIL,
             stack' = Pop \/ stack' = WithTop(f),
             queue' = queue, alloc' = alloc \ {Top.node}, info' = info
      PROVE  Sound'
  <2>1. CASE stack' = Pop
    BY <1>q, <1>t, <1>m, <1>9, <2>1, IdleAfterPop, HeldAfterPop, SoundReleased
  <2>2. CASE stack' = WithTop(f)
    <3>1. HeldBy(stack') = HeldBy(stack) \ {Top.node} /\ HeldOnce(stack')
      <4>1. f.node \notin HeldBy(stack)
        BY <1>9 DEF HeldBy
      <4> QED BY <1>q, <1>m, <1>9, <2>2, <4>1, HeldAfterWithTop
    <3>2. Idle(stack')
      BY <1>q, <1>t, <1>9, <2>2, IdleAfterWithTop
    <3> QED BY <1>t, <1>9, <3>1, <3>2, SoundReleased
  <2> QED BY <1>9, <2>1, <2>2
<1>10. ASSUME NEW stop \in BOOLEAN, HandlerReturn(stop)
       PROVE  Sound'
  <2> DEFINE f == [Top EXCEPT !.node = NIL, !.ops = 0]
  <2>1. stack # << >> /\ Top.node # NIL
    BY <1>10 DEF HandlerReturn, TopIs
  <2>2. f \in Frame /\ f.node = NIL /\ IdleFrame(f)
    BY <1>top, <2>1, HandlerFrame, OpsBounds DEF Frame, IdleFrame
  <2> QED BY <1>9, <1>10, <2>1, <2>2 DEF HandlerReturn
<1>11. CASE ProcessReturn
  BY <1>t, <1>11, <1>pop, SoundQuiet DEF ProcessReturn, TopIs
<1>12. CASE LeaveStep
  <2> DEFINE t    == EventTypes_[Top.limit]
             next == [Top EXCEPT !.limit = @ + 1]
             f    == NewFrame(IF t \in NoExitHandler THEN "purge" ELSE "clear", 0, t, ANY)
  <2>1. stack # << >> /\ Top \in Frame /\ Top.kind = "leave" /\ Top.node = NIL
    BY <1>12, <1>top DEF LeaveStep, TopIs, IdleFrame
  <2>2. Top.limit + 1 \in Nat
    BY <2>1 DEF Frame
  <2>3. next \in Frame /\ next.node = Top.node /\ IdleFrame(next)
    BY <2>1, <2>2 DEF Frame, IdleFrame
  <2>4. t \in Types
    BY <1>12, TypesNonEmpty DEF LeaveStep
  <2>5. f \in Frame /\ f.node = NIL /\ IdleFrame(f)
    BY <1>new, <2>4
  <2> HIDE DEF next, f
  <2>6. WithTop(next) \in Seq(Frame) /\ Idle(WithTop(next))
    BY <1>q, <1>t, <2>1, <2>3, StackOps, IdleAfterWithTop
  <2>7. HeldBy(WithTop(next)) = HeldBy(stack) /\ HeldOnce(WithTop(next))
    BY <1>q, <1>m, <2>1, <2>3, HeldAfterSameNode
  <2>8. stack' = WithTop(next) \/ stack' = Push(WithTop(next), f)
    BY <1>12 DEF LeaveStep, next, f
  <2>9. Idle(stack') /\ HeldOnce(stack') /\ HeldBy(stack') = HeldBy(stack)
    BY <1>push, <2>5, <2>6, <2>7, <2>8
  <2> QED BY <1>t, <1>12, <2>9, SoundQuiet DEF LeaveStep
<1>13. CASE LeaveReturn
  <2>1. stack # << >> /\ Top.node = NIL /\ stack' = Pop
    BY <1>13, <1>top DEF LeaveReturn, TopIs, IdleFrame
  <2> QED BY <1>t, <1>13, <1>pop, <2>1, SoundQuiet DEF LeaveReturn
<1>14. CASE ClearScan
  <2>1. stack # << >> /\ Top \in Frame /\ Top.kind = "clear" /\ Top.node = NIL
    BY <1>14, <1>top DEF ClearScan, TopIs
  <2>2. PICK i \in 1..Len(queue) : ClearMoot(i) \/ ClearKept(i) \/ ClearHandled(i)
    BY <1>14 DEF ClearScan
  <2>3. queue[i] \in Node /\ queue[i] \in Members(queue) /\ queue[i] # NIL
    BY <1>q, ElementOfSeq, QueueConstants DEF Members
  <2>4. CursorLive(Top)
    BY <1>q, <2>1, EmptySeq DEF CursorsLive, Top
  <2>5. Unlinked(i) = RemoveAt(queue, i) /\ Advanced(i) = [Top EXCEPT !.prev = CursorBefore(i)]
    BY <2>4 DEF Unlinked, Advanced
  <2>6. CursorBefore(i) \in Node \cup {HEAD}
    <3>1. i # 1 => i - 1 \in 1..Len(queue)
      BY <1>q, LenProperties
    <3> QED BY <1>q, <3>1, ElementOfSeq DEF CursorBefore
  <2>7. Advanced(i) \in Frame /\ Advanced(i).node = NIL /\ Advanced(i).kind = "clear"
    BY <2>1, <2>5, <2>6 DEF Frame
  <2>8. CASE ClearMoot(i)
    <3>1. Idle(stack') /\ HeldOnce(stack') /\ HeldBy(stack') = HeldBy(stack)
      BY <1>q, <1>t, <1>m, <2>1, <2>7, <2>8, IdleAfterWithTop, HeldAfterSameNode
         DEF ClearMoot, IdleFrame
    <3> QED BY <1>t, <1>14, <2>5, <2>8, <3>1, SoundFreed DEF ClearMoot, ClearScan
  <2>9. CASE ClearKept(i)
    <3>1. [Top EXCEPT !.prev = queue[i]] \in Frame
      BY <2>1, <2>3 DEF Frame
    <3>2. Idle(stack') /\ HeldOnce(stack') /\ HeldBy(stack') = HeldBy(stack)
      BY <1>q, <1>t, <1>m, <2>1, <2>9, <3>1, IdleAfterWithTop, HeldAfterSameNode
         DEF ClearKept, IdleFrame, Frame
    <3> QED BY <1>t, <1>14, <2>9, <3>2, SoundQuiet DEF ClearKept, ClearScan
  <2>10. CASE ClearHandled(i)
    <3> DEFINE f == [Advanced(i) EXCEPT !.node = queue[i], !.ops = MaxOps]
    <3>1. f \in Frame /\ f.node = queue[i] /\ IdleFrame(f)
      BY <2>3, <2>7, HandlerFrame, OpsBounds DEF Frame, IdleFrame
    <3>2. f.node \notin HeldBy(stack)
      BY <1>m, <2>3, <3>1
    <3>3. /\ HeldBy(WithTop(f)) = (HeldBy(stack) \ {Top.node}) \cup ({f.node} \ {NIL})
          /\ HeldOnce(WithTop(f))
      BY <1>q, <1>m, <2>1, <3>1, <3>2, HeldAfterWithTop
    <3>4. stack' = WithTop(f)
      BY <2>10 DEF ClearHandled
    <3>5. HeldBy(stack') = HeldBy(stack) \cup {queue[i]} /\ HeldOnce(stack')
      <4> HIDE DEF f
      <4> QED BY <1>nil, <2>1, <2>3, <3>1, <3>3, <3>4
    <3>6. Idle(stack')
      BY <1>q, <1>t, <2>1, <3>1, <3>4, IdleAfterWithTop
    <3> QED BY <1>t, <1>14, <2>5, <2>10, <3>5, <3>6, SoundTaken DEF ClearHandled, ClearScan
  <2> QED BY <2>2, <2>8, <2>9, <2>10
<1>15. CASE ClearDrop
  <2> DEFINE f == [Top EXCEPT !.node = NIL, !.ops = 0]
  <2>1. stack # << >> /\ Top.node # NIL
    BY <1>15 DEF ClearDrop, TopIs
  <2>2. f \in Frame /\ f.node = NIL /\ IdleFrame(f)
    BY <1>top, <2>1, HandlerFrame, OpsBounds DEF Frame, IdleFrame
  <2> QED BY <1>9, <1>15, <2>1, <2>2 DEF ClearDrop
<1>16. CASE ClearReturn
  BY <1>t, <1>16, <1>pop, SoundQuiet DEF ClearReturn, TopIs
<1>17. CASE UNCHANGED vars
  BY <1>t, <1>m, <1>17, SoundQuiet DEF vars
<1> QED
  BY <1>1, <1>2, <1>3, <1>4, <1>5, <1>6, <1>7, <1>8, <1>10, <1>11, <1>12, <1>13, <1>14,
     <1>15, <1>16, <1>17 DEF Next, Loop

\* Memory safety rests on the cursor alone: in every behaviour in which no
\* suspended queueClearByEventType is left with a dangling ptr, no node is freed
\* twice, used after it is freed or leaked, and the list stays sorted.
THEOREM MemorySafeIfCursorsLive == Spec /\ []CursorsLive => [](Memory /\ Sorted)
<1>1. Init => Sound
  BY SoundInit
<1>2. Sound /\ CursorsLive /\ [Next]_vars => Sound'
  BY SoundStep
<1>3. Sound => Memory /\ Sorted
  BY DEF Sound
<1> QED BY <1>1, <1>2, <1>3, PTL DEF Spec

-----------------------------------------------------------------------------
\* What the list and the stack are to TimedEvents.
DueOf(q, cells) == [n \in Members(q) |-> cells[n].time]
OrderOf(q, cells) ==
  {<<q[p[1]], q[p[2]]>> :
     p \in {r \in (1..Len(q)) \X (1..Len(q)) :
              r[1] < r[2] /\ cells[q[r[1]]].time = cells[q[r[2]]].time}}
RunningOf(s) == {s[i].node : i \in {j \in 1..Len(s) : s[j].kind = "process"}} \ {NIL}

Quiet ==
  /\ Members(queue') = Members(queue) /\ DueOf(queue', info') = DueOf(queue, info)
  /\ OrderOf(queue', info') = OrderOf(queue, info)
Leaves(e) ==
  /\ e \in Members(queue)
  /\ Members(queue') = Members(queue) \ {e}
  /\ DueOf(queue', info') = [f \in Members(queue') |-> DueOf(queue, info)[f]]
  /\ OrderOf(queue', info') = {pair \in OrderOf(queue, info) : e \notin {pair[1], pair[2]}}

Behind(q, cells, n, t) ==
  OrderOf(q, cells) =
    OrderOf(queue, info)
      \cup {<<f, n>> : f \in {g \in Members(queue) : DueOf(queue, info)[g] = t}}
Joins(q, cells, n, t) ==
  /\ Members(q) = Members(queue) \cup {n}
  /\ DueOf(q, cells) = [f \in Members(q) |-> IF f = n THEN t ELSE DueOf(queue, info)[f]]
  /\ Behind(q, cells, n, t)

LEMMA MapsStutter ==
  ASSUME Quiet, RunningOf(stack') = RunningOf(stack), now' = now
  PROVE  UNCHANGED Promise!tvars
BY Zenon DEF Quiet, Promise!tvars, Linked, Members, DueOf, OrderOf, RunningOf

LEMMA MapsDrop ==
  ASSUME NEW e \in Node, Leaves(e), RunningOf(stack') = RunningOf(stack), now' = now
  PROVE  Promise!Next
<1>1. Promise!Drop(e)
  BY Zenon DEF Leaves, Promise!Drop, Promise!Leave, Linked, Members, DueOf, OrderOf, RunningOf
<1> QED BY <1>1 DEF Promise!Next

LEMMA MapsDeliver ==
  ASSUME NEW e \in Node, Leaves(e), RunningOf(stack') = RunningOf(stack) \cup {e}, now' = now,
         info[e].time <= now, \A f \in Members(queue) : info[e].time <= info[f].time,
         \A f \in Members(queue) : <<f, e>> \notin OrderOf(queue, info)
  PROVE  Promise!Next
<1>1. Promise!Leave(e)
  BY Zenon DEF Leaves, Promise!Leave, Linked, Members, DueOf, OrderOf
<1>2. \A f \in Members(queue) : DueOf(queue, info)[f] = info[f].time
  BY DEF DueOf
<1>3. /\ DueOf(queue, info)[e] <= now
      /\ \A f \in Members(queue) :
           DueOf(queue, info)[e] <= DueOf(queue, info)[f] /\ <<f, e>> \notin OrderOf(queue, info)
  BY <1>2, Zenon DEF Leaves
<1>4. Promise!Deliver(e)
  BY <1>1, <1>3, Zenon DEF Promise!Deliver, Linked, Members, DueOf, OrderOf, RunningOf
<1> QED BY <1>4 DEF Promise!Next

LEMMA MapsDone ==
  ASSUME NEW e \in Node, Quiet, e \in RunningOf(stack),
         RunningOf(stack') = RunningOf(stack) \ {e}, now' = now
  PROVE  Promise!Next
<1>1. Promise!Done(e)
  BY Zenon DEF Quiet, Promise!Done, Linked, Members, DueOf, OrderOf, RunningOf
<1> QED BY <1>1 DEF Promise!Next

LEMMA MapsTick ==
  ASSUME Quiet, RunningOf(stack') = RunningOf(stack), now' \in 0..(Word - 1), now' > now
  PROVE  Promise!Next
<1>1. Promise!Tick
  BY Zenon DEF Quiet, Promise!Tick, Linked, Members, DueOf, OrderOf, RunningOf
<1> QED BY <1>1 DEF Promise!Next

LEMMA MapsAdd ==
  ASSUME NEW e \in Node, NEW t \in 0..(Word - 1), e \notin Members(queue) \cup RunningOf(stack),
         Joins(queue', info', e, t), RunningOf(stack') = RunningOf(stack), now' = now
  PROVE  Promise!Next
<1>1. Promise!Add(e, t)
  BY Zenon DEF Joins, Behind, Promise!Add, Linked, Members, DueOf, OrderOf, RunningOf
<1> QED BY <1>1 DEF Promise!Next

-----------------------------------------------------------------------------
LEMMA OrderIs ==
  ASSUME NEW q, NEW cells, NEW x
  PROVE  x \in OrderOf(q, cells) <=>
           \E i, j \in 1..Len(q) :
             x = <<q[i], q[j]>> /\ i < j /\ cells[q[i]].time = cells[q[j]].time
<1>1. ASSUME NEW i \in 1..Len(q), NEW j \in 1..Len(q), x = <<q[i], q[j]>>, i < j,
             cells[q[i]].time = cells[q[j]].time
      PROVE  x \in OrderOf(q, cells)
  <2>1. PICK p : p = <<i, j>>
    OBVIOUS
  <2>2. p \in (1..Len(q)) \X (1..Len(q)) /\ p[1] = i /\ p[2] = j
    BY <2>1
  <2> QED BY <1>1, <2>2 DEF OrderOf
<1>2. ASSUME x \in OrderOf(q, cells)
      PROVE  \E i, j \in 1..Len(q) :
               x = <<q[i], q[j]>> /\ i < j /\ cells[q[i]].time = cells[q[j]].time
  <2>1. PICK p \in (1..Len(q)) \X (1..Len(q)) :
          x = <<q[p[1]], q[p[2]]>> /\ p[1] < p[2] /\ cells[q[p[1]]].time = cells[q[p[2]]].time
    BY <1>2 DEF OrderOf
  <2>2. p[1] \in 1..Len(q) /\ p[2] \in 1..Len(q)
    BY <2>1
  <2> QED BY <2>1, <2>2
<1> QED BY <1>1, <1>2

LEMMA InOrder ==
  ASSUME NEW q, NEW cells, NEW i \in 1..Len(q), NEW j \in 1..Len(q), i < j,
         cells[q[i]].time = cells[q[j]].time
  PROVE  <<q[i], q[j]>> \in OrderOf(q, cells)
BY OrderIs

LEMMA RemovalLeaves ==
  ASSUME queue \in Seq(Node), Distinct(queue), NEW p \in 1..Len(queue),
         queue' = RemoveAt(queue, p), info' = info
  PROVE  Leaves(queue[p])
<1> DEFINE e == queue[p]
<1>0. Len(queue) \in Nat /\ p \in Nat
  BY LenProperties
<1>1. Members(queue') = Members(queue) \ {e} /\ e \in Members(queue)
  <2>1. Members(queue') = Members(queue) \ {e}
    BY RemoveAtMembers
  <2> QED BY <2>1 DEF Members
<1>2. DueOf(queue', info') = [f \in Members(queue') |-> DueOf(queue, info)[f]]
  BY <1>1 DEF DueOf
<1>3. /\ Len(queue') = Len(queue) - 1
      /\ \A i \in 1..(Len(queue) - 1) : queue'[i] = IF i < p THEN queue[i] ELSE queue[i + 1]
  BY RemoveAtProperties
<1>4. ASSUME NEW i \in 1..Len(queue')
      PROVE  \E a \in 1..Len(queue) : queue'[i] = queue[a] /\ a # p /\ a = IF i < p THEN i ELSE i + 1
  <2>1. PICK a \in Int : a = IF i < p THEN i ELSE i + 1
    BY <1>0, <1>3
  <2>2. a \in 1..Len(queue) /\ a # p
    BY <1>0, <1>3, <2>1
  <2>3. queue'[i] = queue[a]
    BY <1>0, <1>3, <2>1
  <2> QED BY <2>1, <2>2, <2>3
<1>5. ASSUME NEW a \in 1..Len(queue), a # p
      PROVE  \E i \in 1..Len(queue') : queue'[i] = queue[a] /\ i = IF a < p THEN a ELSE a - 1
  <2>1. CASE a < p
    <3>1. a \in 1..Len(queue') /\ queue'[a] = queue[a]
      BY <1>0, <1>3, <2>1
    <3> QED BY <2>1, <3>1
  <2>2. CASE p < a
    <3>1. a - 1 \in 1..Len(queue') /\ ~(a - 1 < p) /\ (a - 1) + 1 = a /\ ~(a < p)
      BY <1>0, <1>3, <2>2
    <3>2. queue'[a - 1] = queue[a]
      BY <1>3, <3>1
    <3> QED BY <3>1, <3>2
  <2> QED BY <1>0, <1>5, <2>1, <2>2
<1>6. ASSUME NEW x \in OrderOf(queue', info')
      PROVE  x \in OrderOf(queue, info) /\ e \notin {x[1], x[2]}
  <2>1. PICK i \in 1..Len(queue'), j \in 1..Len(queue') :
          x = <<queue'[i], queue'[j]>> /\ i < j /\ info[queue'[i]].time = info[queue'[j]].time
    BY OrderIs
  <2>2. PICK a \in 1..Len(queue) : queue'[i] = queue[a] /\ a # p /\ a = IF i < p THEN i ELSE i + 1
    BY <1>4
  <2>3. PICK b \in 1..Len(queue) : queue'[j] = queue[b] /\ b # p /\ b = IF j < p THEN j ELSE j + 1
    BY <1>4
  <2>4. a < b
    BY <1>0, <1>3, <2>1, <2>2, <2>3
  <2>5. x = <<queue[a], queue[b]>> /\ info[queue[a]].time = info[queue[b]].time
    BY <2>1, <2>2, <2>3
  <2>6. x \in OrderOf(queue, info)
    BY <2>4, <2>5, OrderIs
  <2>7. queue[a] # e /\ queue[b] # e
    BY <2>2, <2>3 DEF Distinct
  <2> QED BY <2>5, <2>6, <2>7
<1>7. ASSUME NEW x \in OrderOf(queue, info), e \notin {x[1], x[2]}
      PROVE  x \in OrderOf(queue', info')
  <2>1. PICK a \in 1..Len(queue), b \in 1..Len(queue) :
          x = <<queue[a], queue[b]>> /\ a < b /\ info[queue[a]].time = info[queue[b]].time
    BY OrderIs
  <2>2. a # p /\ b # p
    BY <1>7, <2>1
  <2>3. PICK i \in 1..Len(queue') : queue'[i] = queue[a] /\ i = IF a < p THEN a ELSE a - 1
    BY <1>5, <2>2
  <2>4. PICK j \in 1..Len(queue') : queue'[j] = queue[b] /\ j = IF b < p THEN b ELSE b - 1
    BY <1>5, <2>2
  <2>5. i < j
    BY <1>0, <2>1, <2>2, <2>3, <2>4
  <2>6. x = <<queue'[i], queue'[j]>> /\ info'[queue'[i]].time = info'[queue'[j]].time
    BY <2>1, <2>3, <2>4
  <2> QED BY <2>5, <2>6, OrderIs
<1>8. OrderOf(queue', info') = {pair \in OrderOf(queue, info) : e \notin {pair[1], pair[2]}}
  BY <1>6, <1>7
<1> QED BY <1>1, <1>2, <1>8 DEF Leaves

LEMMA NothingMoves ==
  ASSUME queue' = queue, info' = info
  PROVE  Quiet
BY DEF Quiet

HasInserted(q, p, n) ==
  /\ Len(q) = Len(queue) + 1
  /\ \A i \in 1..(Len(queue) + 1) :
       q[i] = IF i <= p THEN queue[i] ELSE IF i = p + 1 THEN n ELSE queue[i - 1]
Keeping(cells) ==
  \A i \in 1..Len(queue) : cells[queue[i]] = info[queue[i]] /\ info[queue[i]].time \in Int


\* The cells that come together with one inserted at p + 1 come before it.
LEMMA InsertionOrder ==
  ASSUME queue \in Seq(Node), Sorted, NEW p \in 0..Len(queue), NEW n, NEW t \in Int,
         IsInsertPos(p, t), NEW q, NEW cells, HasInserted(q, p, n), Keeping(cells),
         cells[n].time = t
  PROVE  Behind(q, cells, n, t)
<1>0. Len(queue) \in Nat /\ p \in Nat /\ p <= Len(queue)
  BY LenProperties
<1> USE DEF HasInserted, Keeping
<1>6. ASSUME NEW a \in 1..Len(queue)
      PROVE  \E i \in 1..Len(q) : q[i] = queue[a] /\ i = IF a <= p THEN a ELSE a + 1
  <2>1. CASE a <= p
    <3>1. a \in 1..Len(q) /\ q[a] = queue[a]
      BY <1>0, <2>1
    <3> QED BY <2>1, <3>1
  <2>2. CASE ~(a <= p)
    <3>1. a + 1 \in 1..(Len(queue) + 1) /\ ~(a + 1 <= p) /\ a + 1 # p + 1 /\ (a + 1) - 1 = a
      BY <1>0, <2>2
    <3>2. q[a + 1] = queue[a]
      BY <3>1
    <3> QED BY <2>2, <3>1, <3>2
  <2> QED BY <2>1, <2>2
<1>7. ASSUME NEW i \in 1..Len(q), i # p + 1
      PROVE  \E a \in 1..Len(queue) : q[i] = queue[a] /\ i = IF a <= p THEN a ELSE a + 1
  <2>1. CASE i <= p
    <3>1. i \in 1..Len(queue) /\ q[i] = queue[i]
      BY <1>0, <2>1
    <3> QED BY <2>1, <3>1
  <2>2. CASE ~(i <= p)
    <3>1. PICK a \in Int : a = i - 1
      BY <1>0
    <3>2. a \in 1..Len(queue) /\ ~(a <= p) /\ i = a + 1
      BY <1>0, <1>7, <2>2, <3>1
    <3>3. q[i] = queue[a]
      BY <1>7, <2>2, <3>1
    <3> QED BY <3>2, <3>3
  <2> QED BY <2>1, <2>2
<1>8. p + 1 \in 1..Len(q) /\ q[p + 1] = n
  BY <1>0
<1>9. \A i \in 1..p : info[queue[i]].time <= t
  BY DEF IsInsertPos
\* Who comes behind the new cell is later.
<1>10. ASSUME NEW a \in 1..Len(queue), ~(a <= p)
       PROVE  info[queue[a]].time # t
  <2>1. p + 1 \in 1..Len(queue) /\ p < Len(queue)
    BY <1>0, <1>10
  <2>2. t < info[queue[p + 1]].time
    BY <2>1 DEF IsInsertPos
  <2>3. a = p + 1 \/ info[queue[p + 1]].time <= info[queue[a]].time
    BY <1>0, <1>10, <2>1 DEF Sorted
  <2> QED BY <1>9, <2>1, <2>2, <2>3
<1> DEFINE New == {<<f, n>> : f \in {g \in Members(queue) : DueOf(queue, info)[g] = t}}
<1>11. ASSUME NEW x \in OrderOf(q, cells)
       PROVE  x \in OrderOf(queue, info) \cup New
  <2>1. PICK i \in 1..Len(q), j \in 1..Len(q) :
          x = <<q[i], q[j]>> /\ i < j /\ cells[q[i]].time = cells[q[j]].time
    BY OrderIs
  <2>2. CASE i = p + 1
    <3>1. PICK b \in 1..Len(queue) : q[j] = queue[b] /\ j = IF b <= p THEN b ELSE b + 1
      BY <1>0, <1>7, <2>1, <2>2
    <3>2. ~(b <= p)
      BY <1>0, <2>1, <2>2, <3>1
    <3>3. info[queue[b]].time = t
      BY <1>8, <2>1, <2>2, <3>1
    <3> QED BY <1>10, <3>2, <3>3
  <2>3. CASE j = p + 1
    <3>1. PICK a \in 1..Len(queue) : q[i] = queue[a] /\ i = IF a <= p THEN a ELSE a + 1
      BY <1>0, <1>7, <2>1, <2>3
    <3>2. info[queue[a]].time = t /\ queue[a] \in Members(queue) /\ x = <<queue[a], n>>
      BY <1>8, <2>1, <2>3, <3>1 DEF Members
    <3>3. DueOf(queue, info)[queue[a]] = t
      BY <3>2 DEF DueOf
    <3> QED BY <3>2, <3>3
  <2>4. CASE i # p + 1 /\ j # p + 1
    <3>1. PICK a \in 1..Len(queue) : q[i] = queue[a] /\ i = IF a <= p THEN a ELSE a + 1
      BY <1>7, <2>4
    <3>2. PICK b \in 1..Len(queue) : q[j] = queue[b] /\ j = IF b <= p THEN b ELSE b + 1
      BY <1>7, <2>4
    <3>3. a < b
      BY <1>0, <2>1, <3>1, <3>2
    <3>4. x = <<queue[a], queue[b]>> /\ info[queue[a]].time = info[queue[b]].time
      BY <2>1, <3>1, <3>2
    <3> QED BY <3>3, <3>4, OrderIs
  <2> QED BY <2>2, <2>3, <2>4
<1>12. ASSUME NEW x \in OrderOf(queue, info)
       PROVE  x \in OrderOf(q, cells)
  <2>1. PICK a \in 1..Len(queue), b \in 1..Len(queue) :
          x = <<queue[a], queue[b]>> /\ a < b /\ info[queue[a]].time = info[queue[b]].time
    BY OrderIs
  <2>2. PICK i \in 1..Len(q) : q[i] = queue[a] /\ i = IF a <= p THEN a ELSE a + 1
    BY <1>6
  <2>3. PICK j \in 1..Len(q) : q[j] = queue[b] /\ j = IF b <= p THEN b ELSE b + 1
    BY <1>6
  <2>4. i < j
    BY <1>0, <2>1, <2>2, <2>3
  <2>5. x = <<q[i], q[j]>> /\ cells[q[i]].time = cells[q[j]].time
    BY <2>1, <2>2, <2>3
  <2>6. <<q[i], q[j]>> \in OrderOf(q, cells)
    BY <2>4, <2>5, InOrder
  <2> QED BY <2>5, <2>6
<1>13. ASSUME NEW x \in New
       PROVE  x \in OrderOf(q, cells)
  <2>1. PICK a \in 1..Len(queue) : DueOf(queue, info)[queue[a]] = t /\ x = <<queue[a], n>>
    BY DEF Members
  <2>2. info[queue[a]].time = t
    BY <2>1 DEF DueOf, Members
  <2>3. a <= p
    BY <1>10, <2>2
  <2>4. PICK i \in 1..Len(q) : q[i] = queue[a] /\ i = IF a <= p THEN a ELSE a + 1
    BY <1>6
  <2>5. i < p + 1
    BY <1>0, <2>3, <2>4
  <2>6. x = <<q[i], q[p + 1]>> /\ cells[q[i]].time = cells[q[p + 1]].time
    BY <1>8, <2>1, <2>2, <2>4
  <2>7. <<q[i], q[p + 1]>> \in OrderOf(q, cells)
    BY <1>8, <2>5, <2>6, InOrder
  <2> QED BY <2>6, <2>7
<1>14. OrderOf(q, cells) = OrderOf(queue, info) \cup New
  BY <1>11, <1>12, <1>13
<1> QED BY <1>14 DEF Behind

LEMMA InsertionIs ==
  ASSUME queue \in Seq(Node), NEW p \in 0..Len(queue), NEW n \in Node
  PROVE  HasInserted(InsertAt(queue, p + 1, n), p, n)
BY InsertAtProperties, SMTT(30) DEF HasInserted

LEMMA InsertionAdds ==
  ASSUME queue \in Seq(Node), info \in [Node -> Info], Sorted,
         NEW p \in 0..Len(queue), NEW n \in Node, NEW new \in Info, n \notin Members(queue),
         IsInsertPos(p, new.time), NEW q, q = InsertAt(queue, p + 1, n),
         NEW cells, cells = [info EXCEPT ![n] = new]
  PROVE  Joins(q, cells, n, new.time)
<1>1. Members(q) = Members(queue) \cup {n}
  BY InsertAtMembers
<1>2. /\ \A i \in 1..Len(queue) : queue[i] \in Node /\ queue[i] # n /\ cells[queue[i]] = info[queue[i]]
      /\ cells[n] = new
  BY QueueEdits DEF Members
<1>3. \A f \in Members(queue) : f # n /\ f \in Node /\ cells[f] = info[f]
  BY <1>2 DEF Members
<1>4. DueOf(q, cells) = [f \in Members(q) |-> IF f = n THEN new.time ELSE DueOf(queue, info)[f]]
  BY <1>1, <1>2, <1>3 DEF DueOf
<1>5. HasInserted(q, p, n)
  BY InsertionIs
<1>6. new.time \in Int /\ \A i \in 1..Len(queue) : info[queue[i]].time \in Int
  BY <1>2, QueueConstants DEF Info
<1>7. Keeping(cells)
  BY <1>2, <1>6 DEF Keeping
<1>8. cells[n].time = new.time
  BY <1>2
<1>9. Behind(q, cells, n, new.time)
  BY <1>5, <1>6, <1>7, <1>8, InsertionOrder, Zenon
<1> QED BY <1>1, <1>4, <1>9, Zenon DEF Joins

-----------------------------------------------------------------------------
(* The events a suspended dispatch has delivered, and its limit              *)

LEMMA RunningIs ==
  ASSUME NEW s, NEW e
  PROVE  e \in RunningOf(s) <=>
           e # NIL /\ \E i \in 1..Len(s) : s[i].kind = "process" /\ s[i].node = e
BY DEF RunningOf

LimitsPast(s) == \A i \in 1..Len(s) : s[i].kind = "process" => s[i].limit <= now'

LEMMA RunningAfterPush ==
  ASSUME NEW s \in Seq(Frame), NEW f \in Frame, f.node = NIL
  PROVE  /\ RunningOf(Push(s, f)) = RunningOf(s)
         /\ LimitsPast(s) /\ (f.kind = "process" => f.limit <= now') => LimitsPast(Push(s, f))
<1>1. PICK r : r = Append(s, f)
  OBVIOUS
<1>2. /\ Len(s) \in Nat /\ Len(r) = Len(s) + 1
      /\ \A i \in 1..Len(s) : r[i] = s[i]
      /\ r[Len(s) + 1] = f
  BY <1>1, AppendProperties, LenProperties
<1>3. \A i \in 1..Len(r) : (i \in 1..Len(s) /\ r[i] = s[i]) \/ r[i] = f
  BY <1>2
<1>4. \A i \in 1..Len(s) : i \in 1..Len(r) /\ r[i] = s[i]
  BY <1>2
<1>5. \A e : e \in RunningOf(r) <=> e \in RunningOf(s)
  BY <1>3, <1>4, RunningIs
<1>6. LimitsPast(s) /\ (f.kind = "process" => f.limit <= now') => LimitsPast(r)
  BY <1>3 DEF LimitsPast
<1> QED BY <1>1, <1>5, <1>6 DEF Push

\* The call that returns was the only one to hold its cell.
LEMMA RunningAfterPop ==
  ASSUME stack \in Seq(Frame), stack # << >>, HeldOnce(stack)
  PROVE  /\ RunningOf(Pop) = RunningOf(stack) \ (IF Top.kind = "process" THEN {Top.node} ELSE {})
         /\ LimitsPast(stack) => LimitsPast(Pop)
<1>1. PICK r : r = SubSeq(stack, 1, Len(stack) - 1)
  OBVIOUS
<1>2. Len(stack) \in Nat /\ Len(stack) \in 1..Len(stack)
  BY LenProperties, EmptySeq
<1>3. Len(r) = Len(stack) - 1 /\ \A i \in 1..(Len(stack) - 1) : r[i] = stack[i]
  BY <1>1, FrontProperties
<1>4. \A i \in 1..Len(r) : i \in 1..Len(stack) /\ i # Len(stack) /\ r[i] = stack[i]
  BY <1>2, <1>3
<1>5. \A i \in 1..Len(stack) : i # Len(stack) => i \in 1..Len(r) /\ r[i] = stack[i]
  BY <1>2, <1>3
<1>6. ASSUME NEW e
      PROVE  e \in RunningOf(r) <=>
               e \in RunningOf(stack) /\ ~(Top.kind = "process" /\ e = Top.node)
  <2>1. CASE e \in RunningOf(r)
    <3>1. PICK i \in 1..Len(r) : r[i].kind = "process" /\ r[i].node = e /\ e # NIL
      BY <2>1, RunningIs
    <3>2. i \in 1..Len(stack) /\ i # Len(stack) /\ stack[i] = r[i]
      BY <1>4
    <3>3. e \in RunningOf(stack)
      BY <3>1, <3>2, RunningIs
    <3>4. e # Top.node
      BY <1>2, <3>1, <3>2 DEF HeldOnce, Top
    <3> QED BY <2>1, <3>3, <3>4
  <2>2. CASE e \in RunningOf(stack) /\ ~(Top.kind = "process" /\ e = Top.node)
    <3>1. PICK i \in 1..Len(stack) : stack[i].kind = "process" /\ stack[i].node = e /\ e # NIL
      BY <2>2, RunningIs
    <3>2. i # Len(stack)
      BY <2>2, <3>1 DEF Top
    <3> QED BY <1>5, <2>2, <3>1, <3>2, RunningIs
  <2> QED BY <2>1, <2>2
<1>7. LimitsPast(stack) => LimitsPast(r)
  BY <1>4 DEF LimitsPast
<1> QED BY <1>1, <1>6, <1>7 DEF Pop

\* A call that goes on as f has let go of what it held.
LEMMA RunningAfterWithTop ==
  ASSUME stack \in Seq(Frame), stack # << >>, HeldOnce(stack), NEW f \in Frame,
         f.kind = Top.kind
  PROVE  /\ RunningOf(WithTop(f)) =
              IF f.kind = "process" THEN (RunningOf(stack) \ {Top.node}) \cup ({f.node} \ {NIL})
              ELSE RunningOf(stack)
         /\ LimitsPast(stack) /\ (f.kind = "process" => f.limit = Top.limit) => LimitsPast(WithTop(f))
<1>1. PICK r : r = [stack EXCEPT ![Len(stack)] = f]
  OBVIOUS
<1>2. Len(stack) \in Nat /\ Len(stack) \in 1..Len(stack)
  BY LenProperties, EmptySeq
<1>3. /\ Len(r) = Len(stack)
      /\ \A i \in 1..Len(stack) : r[i] = IF i = Len(stack) THEN f ELSE stack[i]
  BY <1>1, <1>2, ExceptSeq
<1>4. ASSUME NEW e
      PROVE  e \in RunningOf(r) <=>
               \/ e \in RunningOf(stack) /\ ~(f.kind = "process" /\ e = Top.node)
               \/ f.kind = "process" /\ e = f.node /\ e # NIL
  <2>1. CASE e \in RunningOf(r)
    <3>1. PICK i \in 1..Len(r) : r[i].kind = "process" /\ r[i].node = e /\ e # NIL
      BY <2>1, RunningIs
    <3>2. CASE i = Len(stack)
      BY <1>2, <1>3, <2>1, <3>1, <3>2
    <3>3. CASE i # Len(stack)
      <4>1. i \in 1..Len(stack) /\ stack[i] = r[i]
        BY <1>3, <3>3
      <4>2. e \in RunningOf(stack)
        BY <3>1, <4>1, RunningIs
      <4>3. e # Top.node
        BY <1>2, <3>1, <3>3, <4>1 DEF HeldOnce, Top
      <4> QED BY <2>1, <4>2, <4>3
    <3> QED BY <3>2, <3>3
  <2>2. CASE e \in RunningOf(stack) /\ ~(f.kind = "process" /\ e = Top.node)
    <3>1. PICK i \in 1..Len(stack) : stack[i].kind = "process" /\ stack[i].node = e /\ e # NIL
      BY <2>2, RunningIs
    <3>2. i # Len(stack)
      BY <2>2, <3>1 DEF Top
    <3>3. i \in 1..Len(r) /\ r[i] = stack[i]
      BY <1>3, <3>2
    <3> QED BY <2>2, <3>1, <3>3, RunningIs
  <2>3. CASE f.kind = "process" /\ e = f.node /\ e # NIL
    <3>1. Len(stack) \in 1..Len(r) /\ r[Len(stack)] = f
      BY <1>2, <1>3
    <3> QED BY <2>3, <3>1, RunningIs
  <2> QED BY <2>1, <2>2, <2>3
<1>5. LimitsPast(stack) /\ (f.kind = "process" => f.limit = Top.limit) => LimitsPast(r)
  <2> SUFFICES ASSUME LimitsPast(stack), f.kind = "process" => f.limit = Top.limit, NEW i \in 1..Len(r),
                      r[i].kind = "process"
               PROVE  r[i].limit <= now'
    BY DEF LimitsPast
  <2>1. CASE i = Len(stack)
    BY <1>2, <1>3, <2>1 DEF LimitsPast, Top
  <2>2. CASE i # Len(stack)
    BY <1>3, <2>2 DEF LimitsPast
  <2> QED BY <2>1, <2>2
<1>6. RunningOf(r) =
        IF f.kind = "process" THEN (RunningOf(stack) \ {Top.node}) \cup ({f.node} \ {NIL})
        ELSE RunningOf(stack)
  <2>1. CASE f.kind = "process"
    BY <1>4, <2>1
  <2>2. CASE f.kind # "process"
    BY <1>4, <2>2
  <2> QED BY <2>1, <2>2
<1> QED BY <1>1, <1>5, <1>6 DEF WithTop

-----------------------------------------------------------------------------
(* Every step of the queue is one of TimedEvents, or leaves it as it is      *)

LimitsKept == \A i \in 1..Len(stack) : stack[i].kind = "process" => stack[i].limit <= now

Follows ==
  /\ LimitsPast(stack') /\ now' \in 0..MaxTime
  /\ [Promise!Next]_(Promise!tvars)

LEMMA ChargedRuns ==
  ASSUME TypeOK, HeldOnce(stack), MayCall, LimitsPast(stack)
  PROVE  RunningOf(Charged) = RunningOf(stack) /\ LimitsPast(Charged)
<1>1. CASE stack = << >>
  BY <1>1 DEF Charged
<1>2. CASE stack # << >>
  <2>1. PICK f : f = [Top EXCEPT !.ops = @ - 1]
    OBVIOUS
  <2>2. stack \in Seq(Frame) /\ Top \in Frame /\ stack[Len(stack)] = Top /\ Len(stack) \in 1..Len(stack)
    BY <1>2, StackOps, EmptySeq DEF TypeOK, Top
  <2>3. Top.ops - 1 \in 0..MaxOps
    BY <1>2, <2>2, QueueConstants DEF MayCall, Frame
  <2>4. f \in Frame /\ f.node = Top.node /\ f.kind = Top.kind /\ f.limit = Top.limit
    BY <2>1, <2>2, <2>3 DEF Frame
  <2>5. LimitsPast(WithTop(f))
        /\ RunningOf(WithTop(f)) =
             IF f.kind = "process" THEN (RunningOf(stack) \ {Top.node}) \cup ({f.node} \ {NIL})
             ELSE RunningOf(stack)
    BY <1>2, <2>2, <2>4, RunningAfterWithTop
  <2>6. f.kind = "process" /\ f.node # NIL => f.node \in RunningOf(stack)
    BY <2>2, <2>4, RunningIs
  <2>7. NIL \notin RunningOf(stack)
    BY RunningIs
  <2>8. RunningOf(WithTop(f)) = RunningOf(stack)
    BY <2>4, <2>5, <2>6, <2>7
  <2> QED BY <1>2, <2>1, <2>5, <2>8 DEF Charged
<1> QED BY <1>1, <1>2

\* A step that changes neither the list, the cells nor the clock, and lets no delivered
\* event go.
LEMMA StandsStill ==
  ASSUME queue' = queue, info' = info, now' = now, now \in 0..MaxTime,
         RunningOf(stack') = RunningOf(stack), LimitsPast(stack')
  PROVE  Follows
BY NothingMoves, MapsStutter DEF Follows

LEMMA Dropped ==
  ASSUME queue \in Seq(Node), Distinct(queue), NEW p \in 1..Len(queue),
         queue' = RemoveAt(queue, p), info' = info, now' = now, now \in 0..MaxTime,
         RunningOf(stack') = RunningOf(stack), LimitsPast(stack')
  PROVE  Follows
<1>1. Leaves(queue[p]) /\ queue[p] \in Node
  BY RemovalLeaves, ElementOfSeq
<1> QED BY <1>1, MapsDrop DEF Follows

LEMMA DispatchFollows ==
  ASSUME Sound, now \in 0..MaxTime, LimitsKept, Dispatch
  PROVE  Follows
<1>1. /\ queue \in Seq(Node) /\ stack \in Seq(Frame) /\ info \in [Node -> Info]
      /\ Distinct(queue) /\ HeldOnce(stack) /\ Sorted
      /\ Members(queue) \cap HeldBy(stack) = {}
  BY MemoryParts DEF Sound, TypeOK
<1>2. /\ stack # << >> /\ Top.kind = "process" /\ Top.node = NIL
      /\ now' = now /\ info' = info
  BY DEF Dispatch, TopIs
<1>3. /\ 1 \in 1..Len(queue) /\ Head(queue) = queue[1] /\ queue' = RemoveAt(queue, 1)
      /\ info[queue[1]].time <= Top.limit
  BY <1>1, TailIsRemoveAt DEF Dispatch, HeadDue
<1>4. Top \in Frame /\ Len(stack) \in 1..Len(stack) /\ Top = stack[Len(stack)]
  BY <1>1, <1>2, StackOps, EmptySeq DEF Top
<1>5. LimitsPast(stack)
  BY <1>2 DEF LimitsKept, LimitsPast
<1>6. CASE stack' = stack
  BY <1>1, <1>2, <1>3, <1>5, <1>6, Dropped
<1>7. CASE stack' = WithTop([Top EXCEPT !.node = Head(queue), !.ops = MaxOps])
  <2>1. PICK e, f : e = queue[1] /\ f = [Top EXCEPT !.node = e, !.ops = MaxOps]
    OBVIOUS
  <2>2. e \in Node /\ e # NIL
    BY <1>1, <1>3, <2>1, ElementOfSeq, QueueConstants
  <2>3. f \in Frame
    BY <1>4, <2>1, <2>2, HandlerFrame, OpsBounds
  <2>4. f.kind = "process" /\ f.node = e /\ f.limit = Top.limit
    BY <1>2, <1>4, <2>1, <2>2 DEF Frame
  <2>5. stack' = WithTop(f)
    BY <1>3, <1>7, <2>1
  <2>6. /\ LimitsPast(stack')
        /\ RunningOf(stack') = (RunningOf(stack) \ {Top.node}) \cup ({f.node} \ {NIL})
    BY <1>1, <1>2, <1>5, <2>3, <2>4, <2>5, RunningAfterWithTop
  <2>7. NIL \notin RunningOf(stack)
    BY RunningIs
  <2>8. RunningOf(stack') = RunningOf(stack) \cup {e}
    BY <1>2, <2>2, <2>4, <2>6, <2>7
  <2>9. Leaves(e)
    BY <1>1, <1>2, <1>3, <2>1, RemovalLeaves
  <2>10. info[e].time <= now
    <3>1. info[e].time \in Int /\ Top.limit \in Int /\ now \in Int
      BY <1>1, <1>4, <2>2, QueueConstants DEF Info, Frame
    <3>2. Top.limit <= now
      BY <1>2, <1>4 DEF LimitsKept
    <3> QED BY <1>3, <2>1, <3>1, <3>2
  <2>11. ASSUME NEW f_ \in Members(queue)
         PROVE  info[e].time <= info[f_].time
    <3>1. PICK j \in 1..Len(queue) : f_ = queue[j]
      BY DEF Members
    <3>2. info[e].time \in Int
      BY <1>1, <2>2, QueueConstants DEF Info
    <3>3. j = 1 \/ 1 < j
      BY <1>1, LenProperties
    <3> QED BY <1>1, <1>3, <2>1, <3>1, <3>2, <3>3 DEF Sorted
  <2>12. ASSUME NEW f_ \in Members(queue), <<f_, e>> \in OrderOf(queue, info)
         PROVE  FALSE
    <3>1. PICK i \in 1..Len(queue), j \in 1..Len(queue) :
            <<f_, e>> = <<queue[i], queue[j]>> /\ i < j
      BY <2>12, OrderIs
    <3>2. queue[j] = queue[1]
      BY <2>1, <3>1
    <3>3. j = 1
      BY <1>1, <1>3, <3>2 DEF Distinct
    <3> QED BY <3>1, <3>3
  <2>13. Promise!Next
    BY <1>2, <2>2, <2>8, <2>9, <2>10, <2>11, <2>12, MapsDeliver
  <2> QED BY <1>2, <2>6, <2>13 DEF Follows
<1> QED BY <1>6, <1>7 DEF Dispatch

Tracks == Sound /\ LimitsKept /\ now \in 0..MaxTime

LEMMA TracksInit == Init => Tracks /\ Promise!Init
<1> SUFFICES ASSUME Init PROVE Tracks /\ Promise!Init
  OBVIOUS
<1>1. Len(queue) = 0 /\ Len(stack) = 0 /\ now \in 0..MaxTime
  BY EmptySeq DEF Init
<1>2. Tracks
  BY <1>1, SoundInit DEF Tracks, LimitsKept
<1>3. now \in 0..(Word - 1)
  BY <1>1, QueueConstants
<1>4. Members(queue) = {} /\ RunningOf(stack) = {}
  BY <1>1 DEF Members, RunningOf
<1>5. DueOf(queue, info) = [e \in {} |-> 0]
  BY <1>4 DEF DueOf
<1>6. OrderOf(queue, info) = {}
  BY <1>1, OrderIs
<1>7. Promise!Init
  BY <1>3, <1>4, <1>5, <1>6 DEF Promise!Init, Linked, Members, DueOf, OrderOf, RunningOf
<1> QED BY <1>2, <1>7

LEMMA AddEventFollows ==
  ASSUME Sound, LimitsKept, now \in 0..MaxTime,
         NEW n \in Node, NEW d \in Delays, NEW o \in Owner \cup {NIL}, NEW t \in Types,
         AddEvent(n, d, o, t)
  PROVE  Follows
<1>1. /\ TypeOK /\ queue \in Seq(Node) /\ stack \in Seq(Frame) /\ info \in [Node -> Info]
      /\ Distinct(queue) /\ HeldOnce(stack) /\ Sorted
      /\ alloc = Members(queue) \cup HeldBy(stack)
  BY MemoryParts DEF Sound, TypeOK
<1>2. /\ MayCall /\ n \notin alloc /\ now' = now /\ stack' = Charged
      /\ info' = [info EXCEPT ![n] = [time |-> Due(d), type |-> t, owner |-> o]]
  BY DEF AddEvent
<1>3. Due(d) \in 0..(Word - 1)
  BY <1>1, QueueConstants DEF TypeOK, Due
<1>4. PICK new : new = [time |-> Due(d), type |-> t, owner |-> o]
  OBVIOUS
<1>5. new \in Info /\ new.time = Due(d) /\ info' = [info EXCEPT ![n] = new]
  BY <1>2, <1>3, <1>4 DEF Info
<1>6. PICK p \in 0..Len(queue) :
        IsInsertPos(p, new.time) /\ queue' = InsertAt(queue, p + 1, n)
  BY <1>5 DEF AddEvent
<1>7. RunningOf(stack) \subseteq HeldBy(stack)
  BY RunningIs DEF HeldBy
<1>8. n \notin Members(queue) \cup RunningOf(stack)
  BY <1>1, <1>2, <1>7
<1>9. Joins(queue', info', n, new.time)
  BY <1>1, <1>5, <1>6, <1>8, InsertionAdds
<1>10. LimitsPast(stack)
  BY <1>2 DEF LimitsKept, LimitsPast
<1>11. RunningOf(stack') = RunningOf(stack) /\ LimitsPast(stack')
  BY <1>1, <1>2, <1>10, ChargedRuns
<1>12. Promise!Next
  BY <1>2, <1>3, <1>5, <1>8, <1>9, <1>11, MapsAdd
<1> QED BY <1>2, <1>11, <1>12 DEF Follows

LEMMA HandlerReturnFollows ==
  ASSUME Sound, LimitsKept, now \in 0..MaxTime, NEW stop \in BOOLEAN, HandlerReturn(stop)
  PROVE  Follows
<1>1. stack \in Seq(Frame) /\ HeldOnce(stack)
  BY MemoryParts DEF Sound, TypeOK
<1>2. /\ stack # << >> /\ Top.kind = "process" /\ Top.node # NIL
      /\ now' = now /\ queue' = queue /\ info' = info
  BY DEF HandlerReturn, TopIs
<1>3. Top \in Frame /\ Len(stack) \in 1..Len(stack) /\ Top = stack[Len(stack)]
  BY <1>1, <1>2, StackOps, EmptySeq DEF Top
<1>4. Top.node \in RunningOf(stack) /\ Top.node \in Node
  BY <1>2, <1>3, RunningIs DEF Frame
<1>5. LimitsPast(stack)
  BY <1>2 DEF LimitsKept, LimitsPast
<1>6. RunningOf(stack') = RunningOf(stack) \ {Top.node} /\ LimitsPast(stack')
  <2>1. CASE stack' = Pop
    BY <1>1, <1>2, <1>5, <2>1, RunningAfterPop
  <2>2. CASE stack' = WithTop([Top EXCEPT !.node = NIL, !.ops = 0])
    <3>1. PICK f : f = [Top EXCEPT !.node = NIL, !.ops = 0]
      OBVIOUS
    <3>2. f \in Frame /\ f.node = NIL /\ f.kind = "process" /\ f.limit = Top.limit
      BY <1>2, <1>3, <3>1, HandlerFrame, OpsBounds DEF Frame
    <3>3. LimitsPast(WithTop(f)) /\ RunningOf(WithTop(f)) = (RunningOf(stack) \ {Top.node}) \cup ({f.node} \ {NIL})
      BY <1>1, <1>2, <1>5, <3>2, RunningAfterWithTop
    <3>4. stack' = WithTop(f)
      BY <2>2, <3>1
    <3> QED BY <3>2, <3>3, <3>4
  <2> QED BY <2>1, <2>2 DEF HandlerReturn
<1>7. Promise!Next
  BY <1>2, <1>4, <1>6, NothingMoves, MapsDone
<1> QED BY <1>2, <1>6, <1>7 DEF Follows

LEMMA StepFollows ==
  ASSUME Tracks, CursorsLive, [Next]_vars
  PROVE  Follows
<1>1. /\ Sound /\ LimitsKept /\ now \in 0..MaxTime /\ TypeOK
      /\ queue \in Seq(Node) /\ stack \in Seq(Frame) /\ info \in [Node -> Info]
      /\ Distinct(queue) /\ HeldOnce(stack) /\ Idle(stack)
  BY MemoryParts DEF Tracks, Sound, TypeOK
<1>2. ASSUME now' = now
      PROVE  LimitsPast(stack)
  BY <1>1, <1>2 DEF LimitsKept, LimitsPast
<1>3. ASSUME MayCall, LimitsPast(stack), NEW f \in Frame, f.node = NIL,
             f.kind = "process" => f.limit <= now'
      PROVE  LimitsPast(Push(Charged, f)) /\ RunningOf(Push(Charged, f)) = RunningOf(stack)
  <2>1. /\ Charged \in Seq(Frame) /\ RunningOf(Charged) = RunningOf(stack)
        /\ LimitsPast(Charged)
    BY <1>1, <1>3, ChargedType, ChargedRuns
  <2> QED BY <1>3, <2>1, RunningAfterPush
<1>4. NIL \notin RunningOf(stack)
  BY RunningIs
\* A call that held nothing returns.
<1>5. ASSUME stack # << >>, Top.node = NIL, stack' = Pop,
             queue' = queue, info' = info, now' = now
      PROVE  Follows
  <2>1. RunningOf(Pop) = RunningOf(stack) /\ LimitsPast(Pop)
    BY <1>1, <1>2, <1>4, <1>5, RunningAfterPop
  <2> QED BY <1>1, <1>5, <2>1, StandsStill
\* The frame on top changes and is not one of queueProcessEvents.
<1>6. ASSUME stack # << >>, NEW f \in Frame, f.kind = Top.kind, f.kind # "process",
             now' = now
      PROVE  RunningOf(WithTop(f)) = RunningOf(stack) /\ LimitsPast(WithTop(f))
  BY <1>1, <1>2, <1>6, RunningAfterWithTop
<1>7. ASSUME stack # << >>
      PROVE  Top \in Frame /\ IdleFrame(Top)
  BY <1>1, <1>7, StackOps, EmptySeq DEF Idle, Top
<1>8. \A kind \in {"process", "clear", "purge", "leave"} : \A limit \in Nat :
        \A t \in Types \cup {ANY} : \A o \in Owner \cup {NIL, ANY} :
          LET f == NewFrame(kind, limit, t, o)
          IN f \in Frame /\ f.node = NIL /\ f.kind = kind /\ f.limit = limit
  BY NewFrameType DEF NewFrame
<1>11. ASSUME NEW n \in Node, NEW d \in Delays, NEW o \in Owner \cup {NIL}, NEW t \in Types,
              AddEvent(n, d, o, t)
       PROVE  Follows
  BY <1>1, <1>11, AddEventFollows
<1>12. ASSUME NEW o \in Owner \cup {ANY}, NEW t \in Types \cup {ANY}, NEW destroy \in BOOLEAN,
              StartPurge(o, t, destroy)
       PROVE  Follows
  <2>1. PICK f : f = NewFrame("purge", 0, t, o)
    OBVIOUS
  <2>2. f \in Frame /\ f.node = NIL /\ f.kind = "purge"
    BY <1>8, <2>1
  <2>3. /\ MayCall /\ stack' = Push(Charged, f)
        /\ queue' = queue /\ info' = info /\ now' = now
    BY <1>12, <2>1 DEF StartPurge
  <2>4. LimitsPast(stack') /\ RunningOf(stack') = RunningOf(stack)
    BY <1>2, <1>3, <2>2, <2>3
  <2> QED BY <1>1, <2>3, <2>4, StandsStill
<1>13. CASE StartProcess
  <2>1. PICK f : f = NewFrame("process", now, ANY, ANY)
    OBVIOUS
  <2>2. f \in Frame /\ f.node = NIL /\ f.limit = now
    <3>1. now \in Nat /\ ANY \in Types \cup {ANY} /\ ANY \in Owner \cup {NIL, ANY}
      BY <1>1 DEF TypeOK
    <3>2. NewFrame("process", now, ANY, ANY) \in Frame
      BY <3>1, NewFrameType
    <3> QED BY <2>1, <3>2 DEF NewFrame
  <2>3. /\ MayCall /\ stack' = Push(Charged, f)
        /\ queue' = queue /\ info' = info /\ now' = now
    BY <1>13, <2>1 DEF StartProcess
  <2>4. f.limit <= now'
    BY <1>1, <2>2, <2>3 DEF TypeOK
  <2>5. LimitsPast(stack') /\ RunningOf(stack') = RunningOf(stack)
    BY <1>2, <1>3, <2>2, <2>3, <2>4
  <2> QED BY <1>1, <2>3, <2>5, StandsStill
<1>14. CASE StartLeave
  <2>1. PICK f : f = NewFrame("leave", 1, ANY, ANY)
    OBVIOUS
  <2>2. f \in Frame /\ f.node = NIL /\ f.kind = "leave"
    BY <1>8, <2>1
  <2>3. stack' = Push(stack, f) /\ queue' = queue /\ info' = info /\ now' = now
    BY <1>14, <2>1 DEF StartLeave
  <2>4. LimitsPast(stack') /\ RunningOf(stack') = RunningOf(stack)
    BY <1>1, <1>2, <2>2, <2>3, RunningAfterPush
  <2> QED BY <1>1, <2>3, <2>4, StandsStill
<1>15. CASE AdvanceTime
  <2>1. /\ MayCall /\ now < MaxTime /\ now' = now + 1 /\ stack' = Charged
        /\ queue' = queue /\ info' = info
    BY <1>15 DEF AdvanceTime
  <2>2. now' \in 0..MaxTime /\ now' \in 0..(Word - 1) /\ now' > now
    BY <1>1, <2>1, QueueConstants
  <2>3. LimitsPast(stack)
    <3> SUFFICES ASSUME NEW i \in 1..Len(stack), stack[i].kind = "process"
                 PROVE  stack[i].limit <= now'
      BY DEF LimitsPast
    <3>1. stack[i] \in Frame
      BY <1>1, ElementOfSeq
    <3>2. stack[i].limit \in Nat
      BY <3>1 DEF Frame
    <3>3. stack[i].limit <= now
      BY <1>1 DEF LimitsKept
    <3> QED BY <1>1, <2>1, <3>2, <3>3 DEF TypeOK
  <2>4. RunningOf(stack') = RunningOf(stack) /\ LimitsPast(stack')
    BY <1>1, <2>1, <2>3, ChargedRuns
  <2>5. Promise!Next
    BY <2>1, <2>2, <2>4, NothingMoves, MapsTick
  <2> QED BY <2>2, <2>4, <2>5 DEF Follows
<1>16. CASE PurgeStep
  <2>1. PICK p \in 1..Len(queue) : queue' = RemoveAt(queue, p)
    BY <1>16 DEF PurgeStep
  <2>2. stack' = stack /\ info' = info /\ now' = now
    BY <1>16 DEF PurgeStep
  <2>3. LimitsPast(stack') /\ RunningOf(stack') = RunningOf(stack)
    BY <1>2, <2>2
  <2> QED BY <1>1, <2>1, <2>2, <2>3, Dropped
<1>17. CASE PurgeReturn
  <2>1. stack # << >> /\ Top.node = NIL /\ stack' = Pop
    BY <1>7, <1>17 DEF PurgeReturn, TopIs, IdleFrame
  <2> QED BY <1>5, <1>17, <2>1 DEF PurgeReturn
<1>18. CASE Dispatch
  BY <1>1, <1>18, DispatchFollows
<1>19. ASSUME NEW stop \in BOOLEAN, HandlerReturn(stop)
       PROVE  Follows
  BY <1>1, <1>19, HandlerReturnFollows
<1>20. CASE ProcessReturn
  BY <1>5, <1>20 DEF ProcessReturn, TopIs
<1>21. CASE LeaveStep
  <2>1. stack # << >> /\ Top \in Frame /\ Top.kind = "leave"
    BY <1>7, <1>21 DEF LeaveStep, TopIs
  <2>2. PICK next, f :
          /\ next = [Top EXCEPT !.limit = @ + 1]
          /\ f = NewFrame(IF EventTypes_[Top.limit] \in NoExitHandler THEN "purge" ELSE "clear",
                          0, EventTypes_[Top.limit], ANY)
    OBVIOUS
  <2>3. Top.limit + 1 \in Nat
    BY <2>1 DEF Frame
  <2>4. next \in Frame /\ next.kind = Top.kind
    BY <2>1, <2>2, <2>3 DEF Frame
  <2>5. EventTypes_[Top.limit] \in Types
    BY <1>21, TypesNonEmpty DEF LeaveStep
  <2>6. f \in Frame /\ f.node = NIL /\ f.kind # "process"
    BY <1>8, <2>2, <2>5
  <2>7. /\ queue' = queue /\ info' = info /\ now' = now
        /\ stack' = WithTop(next) \/ stack' = Push(WithTop(next), f)
    BY <1>21, <2>2 DEF LeaveStep
  <2>8. /\ WithTop(next) \in Seq(Frame)
        /\ RunningOf(WithTop(next)) = RunningOf(stack) /\ LimitsPast(WithTop(next))
    BY <1>1, <1>6, <2>1, <2>4, <2>7, StackOps
  <2>9. LimitsPast(stack') /\ RunningOf(stack') = RunningOf(stack)
    BY <2>6, <2>7, <2>8, RunningAfterPush
  <2> QED BY <1>1, <2>7, <2>9, StandsStill
<1>22. CASE LeaveReturn
  <2>1. stack # << >> /\ Top.node = NIL /\ stack' = Pop
    BY <1>7, <1>22 DEF LeaveReturn, TopIs, IdleFrame
  <2> QED BY <1>5, <1>22, <2>1 DEF LeaveReturn
<1>23. CASE ClearScan
  <2>1. /\ stack # << >> /\ Top \in Frame /\ Top.kind = "clear"
        /\ info' = info /\ now' = now
    BY <1>7, <1>23 DEF ClearScan, TopIs
  <2>2. PICK i \in 1..Len(queue) : ClearMoot(i) \/ ClearKept(i) \/ ClearHandled(i)
    BY <1>23 DEF ClearScan
  <2>3. queue[i] \in Node
    BY <1>1, ElementOfSeq
  <2>4. CursorLive(Top)
    BY <1>1, <2>1, EmptySeq DEF CursorsLive, Top
  <2>5. Unlinked(i) = RemoveAt(queue, i) /\ Advanced(i) = [Top EXCEPT !.prev = CursorBefore(i)]
    BY <2>4 DEF Unlinked, Advanced
  <2>6. CursorBefore(i) \in Node \cup {HEAD}
    <3>1. i # 1 => i - 1 \in 1..Len(queue)
      BY <1>1, LenProperties
    <3> QED BY <1>1, <3>1, ElementOfSeq DEF CursorBefore
  <2>7. Advanced(i) \in Frame /\ Advanced(i).kind = "clear"
    BY <2>1, <2>5, <2>6 DEF Frame
  <2>8. CASE ClearMoot(i)
    <3>1. stack' = WithTop(Advanced(i)) /\ queue' = RemoveAt(queue, i)
      BY <2>5, <2>8 DEF ClearMoot
    <3>2. LimitsPast(stack') /\ RunningOf(stack') = RunningOf(stack)
      BY <1>6, <2>1, <2>7, <3>1
    <3> QED BY <1>1, <2>1, <3>1, <3>2, Dropped
  <2>9. CASE ClearKept(i)
    <3>1. PICK f : f = [Top EXCEPT !.prev = queue[i]]
      OBVIOUS
    <3>2. f \in Frame /\ f.kind = "clear"
      BY <2>1, <2>3, <3>1 DEF Frame
    <3>3. stack' = WithTop(f) /\ queue' = queue
      BY <2>9, <3>1 DEF ClearKept
    <3>4. LimitsPast(stack') /\ RunningOf(stack') = RunningOf(stack)
      BY <1>6, <2>1, <3>2, <3>3
    <3> QED BY <1>1, <2>1, <3>3, <3>4, StandsStill
  <2>10. CASE ClearHandled(i)
    <3>1. PICK f : f = [Advanced(i) EXCEPT !.node = queue[i], !.ops = MaxOps]
      OBVIOUS
    <3>2. f \in Frame /\ f.kind = "clear"
      BY <2>3, <2>7, <3>1, HandlerFrame, OpsBounds DEF Frame
    <3>3. stack' = WithTop(f) /\ queue' = RemoveAt(queue, i)
      BY <2>5, <2>10, <3>1 DEF ClearHandled
    <3>4. LimitsPast(stack') /\ RunningOf(stack') = RunningOf(stack)
      BY <1>6, <2>1, <3>2, <3>3
    <3> QED BY <1>1, <2>1, <3>3, <3>4, Dropped
  <2> QED BY <2>2, <2>8, <2>9, <2>10
<1>24. CASE ClearDrop
  <2>1. /\ stack # << >> /\ Top \in Frame /\ Top.kind = "clear"
        /\ queue' = queue /\ info' = info /\ now' = now
    BY <1>7, <1>24 DEF ClearDrop, TopIs
  <2>2. PICK f : f = [Top EXCEPT !.node = NIL, !.ops = 0]
    OBVIOUS
  <2>3. f \in Frame /\ f.kind = "clear"
    BY <2>1, <2>2, HandlerFrame, OpsBounds DEF Frame
  <2>4. stack' = WithTop(f)
    BY <1>24, <2>2 DEF ClearDrop
  <2>5. LimitsPast(stack') /\ RunningOf(stack') = RunningOf(stack)
    BY <1>6, <2>1, <2>3, <2>4
  <2> QED BY <1>1, <2>1, <2>5, StandsStill
<1>25. CASE ClearReturn
  BY <1>5, <1>25 DEF ClearReturn, TopIs
<1>26. CASE UNCHANGED vars
  <2>1. stack' = stack /\ queue' = queue /\ info' = info /\ now' = now
    BY <1>26 DEF vars
  <2> QED BY <1>1, <1>2, <2>1, StandsStill
<1> QED
  BY <1>11, <1>12, <1>13, <1>14, <1>15, <1>16, <1>17, <1>18, <1>19, <1>20, <1>21, <1>22,
     <1>23, <1>24, <1>25, <1>26 DEF Next, Loop

\* The list keeps its promise to the rest of the game (TimedEvents): as long as no
\* suspended queueClearByEventType is left with a dangling ptr, every step of queue.cc adds
\* an event behind those of its time, delivers the first one that is due, drops one, ends
\* a delivery or leaves pending events and their order as they are.
THEOREM ImplementsIfCursorsLive == Spec /\ []CursorsLive => ImplementsTimedEvents
<1>1. Init => Tracks /\ Promise!Init
  BY TracksInit
<1>2. Tracks /\ CursorsLive /\ [Next]_vars => Tracks' /\ [Promise!Next]_(Promise!tvars)
  <2> SUFFICES ASSUME Tracks, CursorsLive, [Next]_vars
               PROVE  Tracks' /\ [Promise!Next]_(Promise!tvars)
    OBVIOUS
  <2>1. Follows
    BY StepFollows
  <2>2. Sound'
    BY SoundStep DEF Tracks
  <2>3. LimitsKept' /\ (now \in 0..MaxTime)'
    BY <2>1 DEF Follows, LimitsPast, LimitsKept
  <2> QED BY <2>1, <2>2, <2>3 DEF Tracks, Follows
<1> QED BY <1>1, <1>2, PTL DEF Spec, ImplementsTimedEvents

-----------------------------------------------------------------------------
(* The way through a map's end. When exit handlers do not kill, no cursor   *)
(* dangles: by the time the events of items are cleared no script's timer is *)
(* left, what the loop has passed was kept, and an item has events of one     *)
(* type only, so a handler never removes the node the cursor is on.           *)

\* Flares and explosives; they are destroyed when their map is left.
Disposable == {"FLARE", "EXPLOSION", "EXPLOSION_FAILURE"}

\* What an item's events say of it, scripts' timers apart, is one thing.
OneUse(m, n) ==
  info[m].owner = info[n].owner /\ info[n].owner \in Item
    /\ info[m].type # "SCRIPT" /\ info[n].type # "SCRIPT" => info[m].type = info[n].type
UsedOnce == \A m, n \in Linked : OneUse(m, n)
Fits(n) == info[n].owner \in OwnersOf(info[n].type, Owner \ Item, Item, Dude, NIL)
OwnersFit == \A n \in alloc : Fits(n)

\* Nobody is leaving a map.
NoLeave == \A i \in 1..Len(stack) : stack[i].kind \in {"process", "purge"}

\* The first k types have been cleared: what is left of them was kept.
Past(k) ==
  \A m \in 1..Len(EventTypes_) :
    m <= k /\ ClearedOnMapExit(EventTypes_[m]) =>
      \A n \in Linked : info[n].type = EventTypes_[m] => ExitKeeps(n)
OnType(f, k) == k \in 1..Len(EventTypes_) /\ f.type = EventTypes_[k] /\ Past(k - 1)

\* A map is being left: between two types, ...
AtLeave ==
  Len(stack) = 1 /\ stack[1].kind = "leave" /\ stack[1].limit >= 1 /\ Past(stack[1].limit - 1)

\* ... in the removal of a type that has no exit handler, ...
AtSweep ==
  /\ Len(stack) = 2 /\ stack[1].kind = "leave" /\ stack[2].kind = "purge" /\ stack[2].owner = ANY
  /\ OnType(stack[2], stack[1].limit - 1)

\* ... or in the loop over one that has. Up to the cursor all of the type was kept;
\* a handler that runs is for a node of the type, and the removal it has called is one of
\* its own.
Passed(f) ==
  \A i, j \in 1..Len(queue) :
    i <= j /\ queue[j] = f.prev /\ info[queue[i]].type = f.type => ExitKeeps(queue[i])
Handled(f) ==
  f.node # NIL =>
    /\ info[f.node].type = f.type
    /\ f.type \in Disposable => info[f.node].owner \in Item
    /\ \A m \in Linked : OneUse(m, f.node)
AtClear ==
  /\ Len(stack) \in {2, 3} /\ stack[1].kind = "leave" /\ stack[2].kind = "clear"
  /\ OnType(stack[2], stack[1].limit - 1)
  /\ CursorLive(stack[2]) /\ Passed(stack[2]) /\ Handled(stack[2])
  /\ Len(stack) = 3 =>
       /\ stack[2].node # NIL /\ stack[3].kind = "purge"
       /\ <<stack[3].owner, stack[3].type>> \in
            ClearEffects(stack[2].type, info[stack[2].node].owner)

Route == UsedOnce /\ OwnersFit /\ (NoLeave \/ AtLeave \/ AtSweep \/ AtClear)

-----------------------------------------------------------------------------
LEMMA PushIs ==
  ASSUME NEW s \in Seq(Frame), NEW f \in Frame
  PROVE  /\ Len(s) \in Nat /\ Len(Push(s, f)) = Len(s) + 1
         /\ \A i \in 1..Len(s) : Push(s, f)[i] = s[i]
         /\ Push(s, f)[Len(s) + 1] = f
BY AppendProperties, LenProperties DEF Push

LEMMA PopIs ==
  ASSUME stack \in Seq(Frame), stack # << >>
  PROVE  /\ Len(stack) \in Nat \ {0} /\ Len(Pop) = Len(stack) - 1
         /\ \A i \in 1..(Len(stack) - 1) : Pop[i] = stack[i]
<1>1. Len(stack) \in Nat /\ Len(stack) \in 1..Len(stack)
  BY LenProperties, EmptySeq
<1> QED BY <1>1, FrontProperties DEF Pop

LEMMA WithTopIs ==
  ASSUME stack \in Seq(Frame), stack # << >>, NEW f \in Frame
  PROVE  /\ Len(stack) \in Nat \ {0} /\ Len(WithTop(f)) = Len(stack)
         /\ \A i \in 1..Len(stack) : WithTop(f)[i] = IF i = Len(stack) THEN f ELSE stack[i]
<1>1. Len(stack) \in Nat /\ Len(stack) \in 1..Len(stack)
  BY LenProperties, EmptySeq
<1> QED BY <1>1, ExceptSeq DEF WithTop

LEMMA ChargedIs ==
  ASSUME stack \in Seq(Frame), MayCall
  PROVE  /\ Charged \in Seq(Frame) /\ Len(stack) \in Nat /\ Len(Charged) = Len(stack)
         /\ \A i \in 1..Len(stack) :
              /\ Charged[i].kind = stack[i].kind /\ Charged[i].type = stack[i].type
              /\ Charged[i].prev = stack[i].prev /\ Charged[i].node = stack[i].node
              /\ Charged[i].limit = stack[i].limit
<1>1. Charged \in Seq(Frame) /\ Len(stack) \in Nat
  BY ChargedType, LenProperties
<1>2. CASE stack = << >>
  BY <1>1, <1>2 DEF Charged
<1>3. CASE stack # << >>
  <2>1. PICK f : f = [Top EXCEPT !.ops = @ - 1]
    OBVIOUS
  <2>2. Top \in Frame /\ Top.ops > 0 /\ stack[Len(stack)] = Top
    BY <1>3, StackOps DEF MayCall, Top
  <2>3. Top.ops - 1 \in 0..MaxOps
    BY <2>2, QueueConstants DEF Frame
  <2>4. /\ f \in Frame /\ f.kind = Top.kind /\ f.type = Top.type /\ f.prev = Top.prev
        /\ f.node = Top.node /\ f.limit = Top.limit
    BY <2>1, <2>2, <2>3 DEF Frame
  <2>5. Charged = WithTop(f)
    BY <1>3, <2>1 DEF Charged
  <2> QED BY <1>1, <1>3, <2>2, <2>4, <2>5, WithTopIs
<1> QED BY <1>2, <1>3

\* What is in the list and in memory only gets less.
LEMMA LessLinked ==
  ASSUME UsedOnce, OwnersFit, Linked' \subseteq Linked, alloc' \subseteq alloc, info' = info
  PROVE  UsedOnce' /\ OwnersFit' /\ \A k : Past(k) => Past(k)'
<1>1. \A m, n : OneUse(m, n)' = OneUse(m, n)
  BY DEF OneUse
<1>2. UsedOnce'
  BY <1>1 DEF UsedOnce
<1>3. OwnersFit'
  BY DEF OwnersFit, Fits
<1>4. \A k : Past(k) => Past(k)'
  BY DEF Past, ExitKeeps
<1> QED BY <1>2, <1>3, <1>4

\* Scripts' timers go before the events of items do.
LEMMA NotBefore == \A t \in Disposable : ~Precedes(t, "SCRIPT")
BY DEF Disposable, Precedes, AllEventTypes

LEMMA NoScriptsLeft ==
  ASSUME TypeOK, NEW f, NEW k \in Int, OnType(f, k), f.type \in Disposable, NEW n \in Linked
  PROVE  info[n].type # "SCRIPT"
<1>1. info[n].type \in Types
  BY ElementOfSeq DEF TypeOK, Linked, Info
<1>2. PICK m \in 1..Len(EventTypes_) : EventTypes_[m] = info[n].type
  BY <1>1 DEF Types
<1>3. ASSUME info[n].type = "SCRIPT"
      PROVE  FALSE
  <2>1. k \in 1..Len(EventTypes_) /\ EventTypes_[k] \in Disposable
    BY DEF OnType
  <2>2. ~(k < m)
    BY <1>2, <1>3, <2>1, EnumOrder, NotBefore
  <2>3. m # k
    BY <1>2, <1>3, <2>1 DEF Disposable
  <2>4. m <= k - 1
    BY <2>1, <2>2, <2>3
  <2>5. ClearedOnMapExit("SCRIPT") /\ ~ExitKeeps(n)
    BY <1>3 DEF ClearedOnMapExit, ExitKeeps
  <2> QED BY <1>2, <1>3, <2>4, <2>5 DEF OnType, Past
<1> QED BY <1>3

Kinds(s) == \A i \in 1..Len(s) : s[i].kind \in {"process", "purge"}

\* What no handler of a map's end interferes with.
LEMMA CallsFromHandlers ==
  ASSUME Sound, Route, ~LethalClear, MayCall, stack # << >> => Top.kind # "clear"
  PROVE  NoLeave /\ Kinds(Charged)
<1>1. stack \in Seq(Frame) /\ Idle(stack)
  BY DEF Sound, TypeOK
<1>2. CASE stack = << >>
  BY <1>2, EmptySeq DEF NoLeave, Kinds, Charged
<1>3. CASE stack # << >>
  <2>1. Len(stack) \in 1..Len(stack) /\ Top = stack[Len(stack)] /\ Top.node # NIL
    BY <1>1, <1>3, EmptySeq DEF MayCall, HandlerRunning, Top
  <2>2. Top.kind \notin {"purge", "leave", "clear"}
    BY <1>1, <1>3, <2>1 DEF Idle, IdleFrame
  <2>3. NoLeave
    BY <2>1, <2>2 DEF Route, AtLeave, AtSweep, AtClear
  <2> QED BY <1>1, <2>3, ChargedIs DEF NoLeave, Kinds
<1> QED BY <1>2, <1>3

LEMMA NoLeaveAgain ==
  ASSUME UsedOnce', OwnersFit', Kinds(stack')
  PROVE  Route'
BY DEF Route, NoLeave, Kinds

LEMMA RouteInit == Init => Route
<1> SUFFICES ASSUME Init PROVE Route
  OBVIOUS
<1>1. Len(queue) = 0 /\ Len(stack) = 0
  BY EmptySeq DEF Init
<1> QED BY <1>1 DEF Init, Route, UsedOnce, OwnersFit, NoLeave, Linked

LEMMA RouteAdd ==
  ASSUME Sound, Route, ~LethalClear, NEW n \in Node, NEW d \in Delays,
         NEW o \in Owner \cup {NIL}, NEW t \in Types, AddEvent(n, d, o, t)
  PROVE  Route'
<1>1. /\ queue \in Seq(Node) /\ info \in [Node -> Info] /\ Linked \subseteq alloc
      /\ alloc \subseteq Node
  BY DEF Sound, TypeOK, Memory
<1>2. /\ MayCall /\ n \notin alloc /\ alloc' = alloc \cup {n} /\ stack' = Charged
      /\ info' = [info EXCEPT ![n] = [time |-> Due(d), type |-> t, owner |-> o]]
      /\ o \in OwnersOf(t, Owner \ Item, Item, Dude, NIL) /\ UsedFor(o, t)
      /\ stack # << >> => Top.kind # "clear"
  BY DEF AddEvent, HandlerRunning, MayCall
<1>3. /\ info'[n].type = t /\ info'[n].owner = o
      /\ \A m \in alloc : m # n /\ info'[m] = info[m]
  BY <1>1, <1>2
<1>4. Linked' = Linked \cup {n}
  <2>1. PICK p \in 0..Len(queue) : queue' = InsertAt(queue, p + 1, n)
    BY DEF AddEvent
  <2>2. Members(queue') = Members(queue) \cup {n}
    BY <1>1, <2>1, InsertAtMembers
  <2> QED BY <2>2 DEF Members, Linked
<1>5. OwnersFit'
  <2> SUFFICES ASSUME NEW m \in alloc' PROVE Fits(m)'
    BY DEF OwnersFit
  <2>1. CASE m = n
    BY <1>2, <1>3, <2>1 DEF Fits
  <2>2. CASE m \in alloc
    BY <1>3, <2>2 DEF Route, OwnersFit, Fits
  <2> QED BY <1>2, <2>1, <2>2
<1>6. UsedOnce'
  <2> SUFFICES ASSUME NEW k \in Linked', NEW m \in Linked' PROVE OneUse(k, m)'
    BY DEF UsedOnce
  <2>1. CASE k \in Linked /\ m \in Linked
    <3>1. OneUse(k, m)
      BY <2>1 DEF Route, UsedOnce
    <3> QED BY <1>1, <1>3, <2>1, <3>1 DEF OneUse
  <2>2. CASE k = n /\ m \in Linked
    BY <1>1, <1>2, <1>3, <2>2 DEF OneUse, UsedFor
  <2>3. CASE k \in Linked /\ m = n
    BY <1>1, <1>2, <1>3, <2>3 DEF OneUse, UsedFor
  <2>4. CASE k = n /\ m = n
    BY <2>4 DEF OneUse
  <2> QED BY <1>4, <2>1, <2>2, <2>3, <2>4
<1>7. Kinds(stack')
  BY <1>2, CallsFromHandlers
<1> QED BY <1>5, <1>6, <1>7, NoLeaveAgain

LEMMA RouteOfCalls ==
  ASSUME Sound, Route, ~LethalClear, queue' = queue, info' = info, alloc' = alloc, MayCall,
         stack # << >> => Top.kind # "clear",
         \/ stack' = Charged
         \/ \E f \in Frame : f.kind \in {"process", "purge"} /\ stack' = Push(Charged, f)
  PROVE  Route'
<1>1. UsedOnce' /\ OwnersFit'
  <2>1. Linked' = Linked
    BY DEF Linked
  <2> QED BY <2>1, LessLinked DEF Route
<1>2. Kinds(Charged)
  BY CallsFromHandlers
<1>3. ASSUME NEW f \in Frame, f.kind \in {"process", "purge"}, stack' = Push(Charged, f)
      PROVE  Kinds(stack')
  <2>1. Charged \in Seq(Frame)
    BY ChargedIs DEF Sound, TypeOK
  <2>2. /\ Len(Charged) \in Nat /\ Len(stack') = Len(Charged) + 1
        /\ \A i \in 1..Len(Charged) : stack'[i] = Charged[i]
        /\ stack'[Len(Charged) + 1] = f
    BY <1>3, <2>1, PushIs
  <2> QED BY <1>2, <1>3, <2>2 DEF Kinds
<1> QED BY <1>1, <1>2, <1>3, NoLeaveAgain

\* Returns, and steps of a frame that goes on, while nobody leaves the map.
LEMMA RouteOfProcess ==
  ASSUME Sound, Route, TopIs("process"), Linked' \subseteq Linked, info' = info,
         alloc' \subseteq alloc,
         \/ stack' = stack \/ stack' = Pop
         \/ \E f \in Frame : f.kind = "process" /\ stack' = WithTop(f)
  PROVE  Route'
<1>1. UsedOnce' /\ OwnersFit'
  BY LessLinked DEF Route
<1>2. stack \in Seq(Frame) /\ stack # << >> /\ Top.kind = "process" /\ Top = stack[Len(stack)]
  BY DEF Sound, TypeOK, TopIs, Top
<1>3. Kinds(stack)
  <2>1. ~AtLeave /\ ~AtSweep
    BY <1>2 DEF AtLeave, AtSweep
  <2>2. ~AtClear
    BY <1>2 DEF AtClear
  <2> QED BY <2>1, <2>2 DEF Route, NoLeave, Kinds
<1>4. ASSUME stack' = Pop
      PROVE  Kinds(stack')
  BY <1>2, <1>3, <1>4, PopIs DEF Kinds
<1>5. ASSUME NEW f \in Frame, f.kind = "process", stack' = WithTop(f)
      PROVE  Kinds(stack')
  <2>1. /\ Len(stack') = Len(stack)
        /\ \A i \in 1..Len(stack) : stack'[i] = f \/ stack'[i] = stack[i]
    BY <1>2, <1>5, WithTopIs
  <2> QED BY <1>3, <1>5, <2>1 DEF Kinds
<1>6. Kinds(stack')
  BY <1>3, <1>4, <1>5
<1> QED BY <1>1, <1>6, NoLeaveAgain

\* Where each node is after the one at p has been taken out.
LEMMA RemovalMaps ==
  ASSUME queue \in Seq(Node), NEW p \in 1..Len(queue), NEW q, q = RemoveAt(queue, p)
  PROVE  /\ Len(queue) \in Nat /\ Len(q) = Len(queue) - 1
         /\ \A i \in 1..Len(q) :
              \E a \in 1..Len(queue) : q[i] = queue[a] /\ a = IF i < p THEN i ELSE i + 1
<1>1. /\ Len(queue) \in Nat /\ Len(q) = Len(queue) - 1
      /\ \A i \in 1..(Len(queue) - 1) : q[i] = IF i < p THEN queue[i] ELSE queue[i + 1]
  BY RemoveAtProperties, LenProperties
<1>2. ASSUME NEW i \in 1..Len(q)
      PROVE  \E a \in 1..Len(queue) : q[i] = queue[a] /\ a = IF i < p THEN i ELSE i + 1
  <2>1. PICK a \in Int : a = IF i < p THEN i ELSE i + 1
    BY <1>1
  <2>2. a \in 1..Len(queue)
    BY <1>1, <2>1
  <2>3. q[i] = queue[a]
    BY <1>1, <2>1
  <2> QED BY <2>1, <2>2, <2>3
<1> QED BY <1>1, <1>2

\* What a map-exit handler takes away is never the node the cursor is on.
LEMMA CursorSpared ==
  ASSUME Sound, Route, ~LethalClear, AtClear, Len(stack) = 3, NEW p \in 1..Len(queue),
         Matches(queue[p], Top.owner, Top.type)
  PROVE  queue[p] # stack[2].prev
<1> SUFFICES ASSUME queue[p] = stack[2].prev PROVE FALSE
  OBVIOUS
<1>1. PICK f, n, c : f = stack[2] /\ n = stack[2].node /\ c = queue[p]
  OBVIOUS
<1>2. /\ TypeOK /\ stack \in Seq(Frame) /\ queue \in Seq(Node) /\ info \in [Node -> Info]
      /\ f \in Frame /\ Top = stack[3]
  <2>1. TypeOK
    BY DEF Sound
  <2>2. stack \in Seq(Frame) /\ queue \in Seq(Node) /\ info \in [Node -> Info]
    BY <2>1 DEF TypeOK
  <2>3. 2 \in 1..Len(stack)
    OBVIOUS
  <2>4. stack[2] \in Frame
    BY <2>2, <2>3, ElementOfSeq
  <2> QED BY <1>1, <2>1, <2>2, <2>4 DEF Top
<1>3. /\ n # NIL /\ n \in Node /\ c \in Node /\ c \in Linked
      /\ f.type \in Types
  BY <1>1, <1>2, ElementOfSeq DEF AtClear, OnType, Types, Frame, Linked
<1>4. /\ info[n].type = f.type /\ (f.type \in Disposable => info[n].owner \in Item)
      /\ OneUse(c, n)
  BY <1>1, <1>3 DEF AtClear, Handled
<1>5. <<Top.owner, Top.type>> \in ClearEffects(f.type, info[n].owner)
  BY <1>1, <1>2 DEF AtClear
<1>6. info[c].type = f.type => ExitKeeps(c)
  BY <1>1, LenProperties DEF AtClear, Passed
<1>7. CASE f.type \in {"ITEM_TRICKLE", "SNEAK"}
  <2>1. Top.type = f.type /\ f.type # ANY
    BY <1>3, <1>5, <1>7, QueueConstants DEF ClearEffects
  <2>2. info[c].type = f.type
    BY <1>1, <2>1 DEF Matches
  <2> QED BY <1>6, <1>7, <2>2 DEF ExitKeeps
<1>8. CASE f.type \in Disposable
  <2>1. Top.owner = info[n].owner /\ info[n].owner \in Item
    BY <1>4, <1>5, <1>8 DEF ClearEffects, Disposable
  <2>2. info[c].owner = info[n].owner
    BY <1>1, <2>1, QueueConstants DEF Matches
  <2>3. stack[1].limit \in Nat
    <3>1. 1 \in 1..Len(stack)
      OBVIOUS
    <3>2. stack[1] \in Frame
      BY <1>2, <3>1, ElementOfSeq
    <3> QED BY <3>2 DEF Frame
  <2>4. info[c].type # "SCRIPT"
    BY <1>1, <1>2, <1>3, <1>8, <2>3, NoScriptsLeft DEF AtClear
  <2>5. info[c].type = f.type
    BY <1>4, <1>8, <2>1, <2>2, <2>4 DEF OneUse, Disposable
  <2> QED BY <1>6, <1>8, <2>5 DEF ExitKeeps, Disposable
<1>9. CASE f.type \notin {"ITEM_TRICKLE", "SNEAK"} \cup Disposable
  BY <1>5, <1>9 DEF ClearEffects, Disposable
<1> QED BY <1>7, <1>8, <1>9

LEMMA RouteOfPurge ==
  ASSUME Sound, Route, ~LethalClear, PurgeStep
  PROVE  Route'
<1>1. PICK p \in 1..Len(queue) :
        Matches(queue[p], Top.owner, Top.type) /\ queue' = RemoveAt(queue, p)
        /\ alloc' = alloc \ {queue[p]}
  BY DEF PurgeStep
<1>2. /\ stack \in Seq(Frame) /\ queue \in Seq(Node) /\ Distinct(queue)
      /\ stack # << >> /\ Top.kind = "purge" /\ Top = stack[Len(stack)]
      /\ stack' = stack /\ info' = info
  BY MemoryParts DEF Sound, TypeOK, PurgeStep, TopIs, Top
<1>3. Linked' = Linked \ {queue[p]}
  <2>1. Members(queue') = Members(queue) \ {queue[p]}
    BY <1>1, <1>2, RemoveAtMembers
  <2> QED BY <2>1 DEF Members, Linked
<1>4. UsedOnce' /\ OwnersFit' /\ \A k : Past(k) => Past(k)'
  BY <1>1, <1>2, <1>3, LessLinked DEF Route
<1>5. CASE NoLeave
  BY <1>2, <1>4, <1>5 DEF Route, NoLeave
<1>6. CASE AtLeave
  BY <1>2, <1>6 DEF AtLeave
<1>7. CASE AtSweep
  <2>1. AtSweep'
    BY <1>2, <1>4, <1>7 DEF AtSweep, OnType
  <2> QED BY <1>4, <2>1 DEF Route
<1>8. CASE AtClear
  <2>1. Len(stack) = 3
    BY <1>2, <1>8 DEF AtClear
  <2>2. PICK f : f = stack[2]
    OBVIOUS
  <2>3. queue[p] # f.prev
    BY <1>1, <1>8, <2>1, <2>2, CursorSpared
  <2>4. CursorLive(f)'
    BY <1>3, <1>8, <2>2, <2>3 DEF AtClear, CursorLive
  <2>5. Passed(f)'
    <3> SUFFICES ASSUME NEW i \in 1..Len(queue'), NEW j \in 1..Len(queue'),
                        i <= j, queue'[j] = f.prev, info[queue'[i]].type = f.type
                 PROVE  ExitKeeps(queue'[i])
      BY <1>2 DEF Passed, ExitKeeps
    <3>1. PICK a \in 1..Len(queue) : queue'[i] = queue[a] /\ a = IF i < p THEN i ELSE i + 1
      BY <1>1, <1>2, RemovalMaps
    <3>2. PICK b \in 1..Len(queue) : queue'[j] = queue[b] /\ b = IF j < p THEN j ELSE j + 1
      BY <1>1, <1>2, RemovalMaps
    <3>3. Len(queue) \in Nat /\ Len(queue') = Len(queue) - 1
      BY <1>1, <1>2, RemovalMaps
    <3>4. a <= b
      BY <3>1, <3>2, <3>3
    <3> QED BY <1>8, <2>2, <3>1, <3>2, <3>4 DEF AtClear, Passed
  <2>6. Handled(f)'
    BY <1>2, <1>3, <1>8, <2>2 DEF AtClear, Handled, OneUse
  <2>7. OnType(f, stack[1].limit - 1)'
    BY <1>2, <1>4, <1>8, <2>2 DEF AtClear, OnType
  <2>8. AtClear'
    BY <1>2, <1>8, <2>1, <2>2, <2>4, <2>5, <2>6, <2>7 DEF AtClear
  <2> QED BY <1>4, <2>8 DEF Route
<1> QED BY <1>5, <1>6, <1>7, <1>8 DEF Route

\* How far the map's end has come when a loop over a type is suspended.
LEMMA LimitIs ==
  ASSUME TypeOK, Len(stack) >= 1
  PROVE  stack[1] \in Frame /\ stack[1].limit \in Nat
<1>1. stack \in Seq(Frame) /\ 1 \in 1..Len(stack)
  BY LenProperties DEF TypeOK
<1>2. stack[1] \in Frame
  BY <1>1, ElementOfSeq
<1> QED BY <1>2 DEF Frame

LEMMA SecondIs ==
  ASSUME TypeOK, Len(stack) >= 2
  PROVE  stack[2] \in Frame
<1>1. stack \in Seq(Frame) /\ 2 \in 1..Len(stack)
  BY LenProperties DEF TypeOK
<1> QED BY <1>1, ElementOfSeq

\* The purge or the clear of a type is over, and the next one is at turn.
LEMMA TypeDone ==
  ASSUME Sound, Route, Len(stack) = 2, AtSweep \/ AtClear, stack' = Pop,
         queue' = queue, info' = info, alloc' = alloc,
         \A n \in Linked : info[n].type = stack[2].type => ExitKeeps(n)
  PROVE  Route'
<1>1. TypeOK /\ stack \in Seq(Frame) /\ stack # << >>
  <2>1. stack # << >>
    BY EmptySeq
  <2>2. TypeOK
    BY DEF Sound
  <2> QED BY <2>1, <2>2 DEF TypeOK
<1>2. PICK k \in Nat : k = stack[1].limit
  BY <1>1, LimitIs
<1>3. Len(stack') = 1 /\ stack'[1] = stack[1]
  BY <1>1, PopIs
<1>4. Linked' = Linked
  BY DEF Linked
<1>5. UsedOnce' /\ OwnersFit' /\ \A m : Past(m) => Past(m)'
  BY <1>4, LessLinked DEF Route
<1>6. stack[1].kind = "leave" /\ OnType(stack[2], k - 1)
  BY <1>2 DEF AtSweep, AtClear
<1>7. Past(k - 1)
  <2> SUFFICES ASSUME NEW m \in 1..Len(EventTypes_), m <= k - 1,
                      ClearedOnMapExit(EventTypes_[m]), NEW n \in Linked,
                      info[n].type = EventTypes_[m]
               PROVE  ExitKeeps(n)
    BY DEF Past
  <2>1. CASE m = k - 1
    BY <1>6, <2>1 DEF OnType
  <2>2. CASE m <= (k - 1) - 1
    BY <1>6, <2>2 DEF OnType, Past
  <2> QED BY <1>2, <2>1, <2>2
<1>8. k >= 1
  BY <1>6 DEF OnType
<1>9. AtLeave'
  BY <1>2, <1>3, <1>5, <1>6, <1>7, <1>8 DEF AtLeave
<1> QED BY <1>5, <1>9 DEF Route

LEMMA RouteOfPurgeReturn ==
  ASSUME Sound, Route, PurgeReturn
  PROVE  Route'
<1>1. /\ TypeOK /\ stack \in Seq(Frame) /\ stack # << >> /\ Top.kind = "purge"
      /\ Top = stack[Len(stack)] /\ stack' = Pop
      /\ queue' = queue /\ info' = info /\ alloc' = alloc
      /\ \A i \in 1..Len(queue) : ~Matches(queue[i], Top.owner, Top.type)
  BY DEF Sound, TypeOK, PurgeReturn, TopIs, Top
<1>2. Linked' = Linked
  BY <1>1 DEF Linked
<1>3. UsedOnce' /\ OwnersFit' /\ \A k : Past(k) => Past(k)'
  BY <1>1, <1>2, LessLinked DEF Route
<1>4. CASE NoLeave
  <2>1. Kinds(stack')
    BY <1>1, <1>4, PopIs DEF NoLeave, Kinds
  <2> QED BY <1>3, <2>1, NoLeaveAgain
<1>5. CASE AtLeave
  BY <1>1, <1>5 DEF AtLeave
<1>6. CASE AtSweep
  <2>1. Len(stack) = 2 /\ Top = stack[2] /\ Top.owner = ANY
    BY <1>1, <1>6 DEF AtSweep
  <2>2. \A n \in Linked : info[n].type # stack[2].type
    BY <1>1, <2>1 DEF Linked, Matches
  <2> QED BY <1>1, <1>6, <2>1, <2>2, TypeDone
<1>7. CASE AtClear
  <2>1. Len(stack) = 3
    BY <1>1, <1>7 DEF AtClear
  <2>2. Len(stack') = 2 /\ stack'[1] = stack[1] /\ stack'[2] = stack[2]
    BY <1>1, <2>1, PopIs
  <2>3. PICK f : f = stack[2]
    OBVIOUS
  <2>4. CursorLive(f)' /\ Passed(f)' /\ Handled(f)'
    BY <1>1, <1>2, <1>7, <2>3 DEF AtClear, CursorLive, Passed, Handled, ExitKeeps, OneUse
  <2>5. OnType(f, stack[1].limit - 1)'
    BY <1>3, <1>7, <2>2, <2>3 DEF AtClear, OnType
  <2>6. AtClear'
    BY <1>7, <2>2, <2>3, <2>4, <2>5 DEF AtClear
  <2> QED BY <1>3, <2>6 DEF Route
<1> QED BY <1>4, <1>5, <1>6, <1>7 DEF Route

LEMMA RouteOfLeaveStep ==
  ASSUME Sound, Route, LeaveStep
  PROVE  Route'
<1>1. /\ TypeOK /\ stack \in Seq(Frame) /\ stack # << >> /\ Top.kind = "leave"
      /\ Top = stack[Len(stack)] /\ Top.limit \in 1..Len(EventTypes_)
      /\ queue \in Seq(Node)
      /\ queue' = queue /\ info' = info /\ alloc' = alloc
  BY DEF Sound, TypeOK, LeaveStep, TopIs, Top
<1>2. Linked' = Linked
  BY <1>1 DEF Linked
<1>3. UsedOnce' /\ OwnersFit' /\ \A k : Past(k) => Past(k)'
  BY <1>1, <1>2, LessLinked DEF Route
<1>4. AtLeave
  <2>1. ~NoLeave
    BY <1>1, LenProperties, EmptySeq DEF NoLeave
  <2>2. ~AtSweep
    BY <1>1 DEF AtSweep
  <2>3. ~AtClear
    BY <1>1 DEF AtClear
  <2> QED BY <2>1, <2>2, <2>3 DEF Route
<1>5. Len(stack) = 1 /\ Top = stack[1]
  BY <1>1, <1>4 DEF AtLeave
<1>6. PICK k, t, next, f :
        /\ k = Top.limit /\ t = EventTypes_[k] /\ next = [Top EXCEPT !.limit = @ + 1]
        /\ f = NewFrame(IF t \in NoExitHandler THEN "purge" ELSE "clear", 0, t, ANY)
  OBVIOUS
<1>7. /\ k \in 1..Len(EventTypes_) /\ k \in Nat /\ k + 1 \in Nat /\ t \in Types
  BY <1>1, <1>6, TypesNonEmpty
<1>8. next \in Frame /\ next.kind = "leave" /\ next.limit = k + 1
  <2>1. Top \in Frame
    BY <1>1, StackOps
  <2> QED BY <1>1, <1>6, <1>7, <2>1 DEF Frame
<1>9. /\ f \in Frame /\ f.type = t /\ f.owner = ANY /\ f.prev = HEAD /\ f.node = NIL
      /\ f.kind = IF t \in NoExitHandler THEN "purge" ELSE "clear"
  BY <1>6, <1>7, NewFrameType DEF NewFrame
<1>10. /\ WithTop(next) \in Seq(Frame) /\ Len(WithTop(next)) = 1 /\ WithTop(next)[1] = next
  BY <1>1, <1>5, <1>8, StackOps, WithTopIs
<1>11. stack' = IF ~ClearedOnMapExit(t) THEN WithTop(next) ELSE Push(WithTop(next), f)
  BY <1>6 DEF LeaveStep
<1>12. Past(k - 1)
  BY <1>4, <1>5, <1>6 DEF AtLeave
<1>13. CASE ~ClearedOnMapExit(t)
  <2>2. Past(k)
    BY <1>6, <1>7, <1>12, <1>13 DEF Past
  <2>3. Past(k)'
    BY <1>3, <2>2
  <2>4. (k + 1) - 1 = k /\ k + 1 >= 1
    BY <1>7
  <2>5. AtLeave'
    BY <1>8, <1>10, <1>11, <1>13, <2>3, <2>4 DEF AtLeave
  <2> QED BY <1>3, <2>5 DEF Route
<1>14. CASE ClearedOnMapExit(t)
  <2>1. Len(stack') = 2 /\ stack'[1] = next /\ stack'[2] = f
    <3>1. PICK s \in Seq(Frame) : s = WithTop(next)
      BY <1>10
    <3>2. Len(s) = 1 /\ s[1] = next /\ stack' = Push(s, f)
      BY <1>10, <1>11, <1>14, <3>1
    <3>3. PICK u : u = Push(s, f)
      OBVIOUS
    <3>4. Len(u) = Len(s) + 1 /\ u[1] = s[1] /\ u[Len(s) + 1] = f
      <4>1. 1 \in 1..Len(s)
        BY <3>2
      <4>2. f \in Frame
        BY <1>9
      <4> QED BY <3>3, <4>1, <4>2, PushIs
    <3>5. Len(s) + 1 = 2
      BY <3>2
    <3>6. Len(u) = 2 /\ u[1] = next /\ u[2] = f
      BY <3>2, <3>4, <3>5
    <3> QED BY <3>2, <3>3, <3>6
  <2>2. (k + 1) - 1 = k
    BY <1>7
  <2>3. OnType(f, next.limit - 1)'
    BY <1>3, <1>6, <1>7, <1>8, <1>9, <1>12, <2>2 DEF OnType
  <2>4. CASE t \in NoExitHandler
    <3>1. AtSweep'
      BY <1>8, <1>9, <2>1, <2>3, <2>4 DEF AtSweep
    <3> QED BY <1>3, <3>1 DEF Route
  <2>5. CASE t \notin NoExitHandler
    <3>2. CursorLive(f)' /\ Handled(f)'
      BY <1>9 DEF CursorLive, Handled
    <3>3. Passed(f)'
      BY <1>1, <1>9, ElementOfSeq, QueueConstants DEF Passed
    <3>4. AtClear'
      BY <1>8, <1>9, <2>1, <2>3, <2>5, <3>2, <3>3 DEF AtClear
    <3> QED BY <1>3, <3>4 DEF Route
  <2> QED BY <2>4, <2>5
<1> QED BY <1>13, <1>14

\* A clear whose frame goes on as f.
LEMMA ClearGoesOn ==
  ASSUME Sound, AtClear, Len(stack) = 2, NEW f \in Frame, f.kind = "clear",
         f.type = stack[2].type, stack' = WithTop(f), UsedOnce', OwnersFit',
         \A k : Past(k) => Past(k)',
         CursorLive(f)', Passed(f)', Handled(f)'
  PROVE  Route'
<1>1. TypeOK /\ stack \in Seq(Frame) /\ stack # << >>
  <2>1. TypeOK
    BY DEF Sound
  <2>2. stack \in Seq(Frame)
    BY <2>1 DEF TypeOK
  <2>3. Len(stack) # 0
    OBVIOUS
  <2>4. stack # << >>
    BY <2>3, EmptySeq
  <2> QED BY <2>1, <2>2, <2>4
<1>2. Len(stack') = 2 /\ stack'[1] = stack[1] /\ stack'[2] = f
  BY <1>1, WithTopIs
<1>3. OnType(f, stack[1].limit - 1)'
  <2>1. OnType(stack[2], stack[1].limit - 1)
    BY DEF AtClear
  <2>2. stack'[1].limit = stack[1].limit
    BY <1>2
  <2> QED BY <2>1, <2>2 DEF OnType
<1>4. stack'[1].kind = "leave"
  BY <1>2 DEF AtClear
<1>5. AtClear'
  BY <1>2, <1>3, <1>4 DEF AtClear
<1> QED BY <1>5 DEF Route

LEMMA RouteOfStartPurge ==
  ASSUME Sound, Route, ~LethalClear, NEW o \in Owner \cup {ANY}, NEW t \in Types \cup {ANY},
         NEW destroy \in BOOLEAN, StartPurge(o, t, destroy)
  PROVE  Route'
<1>1. PICK f : f = NewFrame("purge", 0, t, o)
  OBVIOUS
<1>2. f \in Frame /\ f.kind = "purge" /\ f.owner = o /\ f.type = t
  BY <1>1, NewFrameType DEF NewFrame
<1>3. /\ MayCall /\ stack' = Push(Charged, f)
      /\ queue' = queue /\ info' = info /\ alloc' = alloc
      /\ HandlerRunning /\ Top.kind = "clear" =>
           <<o, t>> \in ClearEffects(Top.type, info[Top.node].owner)
  BY <1>1 DEF StartPurge
<1>4. CASE stack # << >> => Top.kind # "clear"
  BY <1>2, <1>3, <1>4, RouteOfCalls
<1>5. CASE stack # << >> /\ Top.kind = "clear"
  <2>1. /\ stack \in Seq(Frame) /\ Top = stack[Len(stack)] /\ Top.node # NIL
        /\ Len(stack) \in 1..Len(stack)
    BY <1>3, <1>5, EmptySeq DEF Sound, TypeOK, Top, MayCall, HandlerRunning
  <2>2. AtClear /\ Len(stack) = 2
    <3>1. ~NoLeave
      BY <1>5, <2>1 DEF NoLeave
    <3>2. ~AtLeave /\ ~AtSweep
      BY <1>5, <2>1 DEF AtLeave, AtSweep
    <3>3. AtClear
      BY <3>1, <3>2 DEF Route
    <3> QED BY <1>5, <2>1, <3>3 DEF AtClear
  <2>3. PICK s \in Seq(Frame) : s = Charged
    BY <1>3, <2>1, ChargedIs
  <2>4. /\ Len(s) = 2
        /\ s[1].kind = stack[1].kind /\ s[1].limit = stack[1].limit
        /\ s[2].kind = stack[2].kind /\ s[2].type = stack[2].type
        /\ s[2].prev = stack[2].prev /\ s[2].node = stack[2].node
    BY <1>3, <2>1, <2>2, <2>3, ChargedIs
  <2>5. /\ Len(stack') = 3
        /\ stack'[1] = s[1] /\ stack'[2] = s[2] /\ stack'[3] = f
    <3>1. PICK u : u = Push(s, f)
      OBVIOUS
    <3>2. Len(u) = Len(s) + 1 /\ u[1] = s[1] /\ u[2] = s[2] /\ u[Len(s) + 1] = f
      <4>1. 1 \in 1..Len(s) /\ 2 \in 1..Len(s)
        BY <2>4
      <4>2. f \in Frame
        BY <1>2
      <4> QED BY <3>1, <4>1, <4>2, PushIs
    <3>3. Len(s) + 1 = 3
      BY <2>4
    <3>4. Len(u) = 3 /\ u[1] = s[1] /\ u[2] = s[2] /\ u[3] = f
      BY <3>2, <3>3
    <3> QED BY <1>3, <2>3, <3>1, <3>4
  <2>6. Linked' = Linked
    BY <1>3 DEF Linked
  <2>7. UsedOnce' /\ OwnersFit' /\ \A k : Past(k) => Past(k)'
    BY <1>3, <2>6, LessLinked DEF Route
  <2>8. /\ stack'[2].kind = "clear" /\ stack'[2].type = stack[2].type
        /\ stack'[2].prev = stack[2].prev /\ stack'[2].node = stack[2].node
        /\ stack'[1].kind = "leave" /\ stack'[1].limit = stack[1].limit
    BY <2>2, <2>4, <2>5 DEF AtClear
  <2>9. PICK g : g = stack'[2]
    OBVIOUS
  <2>10. /\ CursorLive(g)' /\ Passed(g)' /\ Handled(g)'
    BY <1>3, <2>2, <2>6, <2>8, <2>9
       DEF AtClear, CursorLive, Passed, Handled, ExitKeeps, OneUse
  <2>11. OnType(g, stack[1].limit - 1)'
    BY <2>2, <2>7, <2>8, <2>9 DEF AtClear, OnType
  <2>12. <<o, t>> \in ClearEffects(stack[2].type, info[stack[2].node].owner)
    BY <1>3, <1>5, <2>1, <2>2 DEF HandlerRunning
  <2>13. /\ Len(stack') = 3 /\ stack'[3] = f
    BY <2>5
  <2>14. AtClear'
    BY <1>2, <1>3, <2>1, <2>2, <2>8, <2>9, <2>10, <2>11, <2>12, <2>13 DEF AtClear
  <2> QED BY <2>7, <2>14 DEF Route
<1> QED BY <1>4, <1>5

LEMMA AtTopClear ==
  ASSUME Sound, Route, TopIs("clear")
  PROVE  /\ AtClear /\ Len(stack) = 2 /\ Top = stack[2] /\ Top \in Frame
         /\ stack \in Seq(Frame) /\ stack # << >> /\ TypeOK
<1>1. /\ TypeOK /\ stack \in Seq(Frame) /\ stack # << >> /\ Top.kind = "clear"
      /\ Top = stack[Len(stack)]
  BY DEF Sound, TypeOK, TopIs, Top
<1>2. Len(stack) \in 1..Len(stack)
  BY <1>1, EmptySeq
<1>3. ~NoLeave
  BY <1>1, <1>2 DEF NoLeave
<1>4. ~AtLeave /\ ~AtSweep
  BY <1>1 DEF AtLeave, AtSweep
<1>5. AtClear
  BY <1>3, <1>4 DEF Route
<1>6. Len(stack) = 2
  BY <1>1, <1>5 DEF AtClear
<1>7. Top \in Frame
  BY <1>1, StackOps
<1> QED BY <1>1, <1>5, <1>6, <1>7

\* Everything before the next node of the type is of other types, or kept.
LEMMA PassedToNext ==
  ASSUME queue \in Seq(Node), NEW f, CursorLive(f), Passed(f), NEW i \in 1..Len(queue),
         NextOfType(f, i)
  PROVE  \A j \in 1..(i - 1) : info[queue[j]].type = f.type => ExitKeeps(queue[j])
<1> SUFFICES ASSUME NEW j \in 1..(i - 1), info[queue[j]].type = f.type
             PROVE  ExitKeeps(queue[j])
  OBVIOUS
<1>1. PICK c \in 0..(i - 1) :
        CursorAt(f, c) /\ \A m \in (c + 1)..(i - 1) : info[queue[m]].type # f.type
  BY DEF NextOfType
<1>2. j <= c
  BY <1>1
<1>3. CASE f.prev = HEAD
  <2>1. f.prev \notin Linked
    BY <1>3, ElementOfSeq, QueueConstants DEF Linked
  <2>2. c = 0
    BY <1>1, <1>3, <2>1 DEF CursorAt
  <2> QED BY <1>2, <2>2
<1>4. CASE f.prev # HEAD
  <2>1. c \in 1..Len(queue) /\ queue[c] = f.prev
    BY <1>1, <1>4 DEF CursorLive, CursorAt
  <2>2. j \in 1..Len(queue)
    BY <1>1, <1>2, <2>1
  <2> QED BY <1>2, <2>1, <2>2 DEF Passed
<1> QED BY <1>3, <1>4

\* The cursor that is left in front of a node that goes.
LEMMA CursorAfter ==
  ASSUME queue \in Seq(Node), Distinct(queue), NEW f, CursorLive(f), Passed(f),
         NEW i \in 1..Len(queue), NextOfType(f, i), queue' = RemoveAt(queue, i), info' = info,
         NEW g, g.prev = CursorBefore(i), g.type = f.type
  PROVE  CursorLive(g)' /\ Passed(g)'
<1>1. /\ Len(queue) \in Nat /\ i \in Nat /\ Len(queue') = Len(queue) - 1
      /\ \A a \in 1..(Len(queue) - 1) : queue'[a] = IF a < i THEN queue[a] ELSE queue[a + 1]
  BY RemoveAtProperties, LenProperties
<1>2. CASE i = 1
  <2>1. g.prev = HEAD
    BY <1>2 DEF CursorBefore
  <2>2. RemoveAt(queue, i) \in Seq(Node)
    BY QueueEdits
  <2>3. \A a \in 1..Len(queue') : queue'[a] # HEAD
    BY <2>2, ElementOfSeq, QueueConstants
  <2> QED BY <2>1, <2>3 DEF CursorLive, Passed
<1>3. CASE i # 1
  <2>1. PICK b \in 1..Len(queue') : b = i - 1 /\ b < i /\ b \in 1..Len(queue)
    BY <1>1, <1>3
  <2>2. g.prev = queue[b] /\ queue'[b] = queue[b]
    BY <1>1, <1>3, <2>1 DEF CursorBefore
  <2>3. CursorLive(g)'
    BY <2>1, <2>2 DEF CursorLive, Linked
  <2>4. Passed(g)'
    <3> SUFFICES ASSUME NEW a \in 1..Len(queue'), NEW c \in 1..Len(queue'),
                        a <= c, queue'[c] = g.prev, info[queue'[a]].type = f.type
                 PROVE  ExitKeeps(queue'[a])
      BY DEF Passed, ExitKeeps
    <3>1. c = b
      <4>1. CASE c < i
        <5>1. c \in 1..Len(queue) /\ queue[c] = queue[b]
          BY <1>1, <2>2, <4>1
        <5> QED BY <2>1, <5>1 DEF Distinct
      <4>2. CASE ~(c < i)
        <5>1. c + 1 \in 1..Len(queue) /\ queue[c + 1] = queue[b]
          BY <1>1, <2>2, <4>2
        <5>2. c + 1 = b
          BY <2>1, <5>1 DEF Distinct
        <5> QED BY <2>1, <4>2, <5>2
      <4> QED BY <4>1, <4>2
    <3>2. a \in 1..(i - 1) /\ queue'[a] = queue[a]
      BY <1>1, <2>1, <3>1
    <3> QED BY <3>2, PassedToNext
  <2> QED BY <2>3, <2>4
<1> QED BY <1>2, <1>3

LEMMA RouteOfClearScan ==
  ASSUME Sound, Route, ClearScan
  PROVE  Route'
<1>1. /\ AtClear /\ Len(stack) = 2 /\ Top = stack[2] /\ Top \in Frame /\ TypeOK
      /\ stack \in Seq(Frame) /\ stack # << >>
  BY AtTopClear DEF ClearScan
<1>2. PICK i \in 1..Len(queue) :
        NextOfType(Top, i) /\ (ClearMoot(i) \/ ClearKept(i) \/ ClearHandled(i))
  BY DEF ClearScan
<1>3. /\ queue \in Seq(Node) /\ Distinct(queue) /\ Linked \subseteq alloc /\ info' = info
      /\ alloc \subseteq Node
  BY <1>1, MemoryParts DEF Sound, TypeOK, Memory, ClearScan
<1>4. PICK f \in Frame : f = Top
  BY <1>1
<1>5. /\ CursorLive(f) /\ Passed(f) /\ f.kind = "clear" /\ f.node = NIL
      /\ f.type = stack[2].type
  BY <1>1, <1>4 DEF AtClear, ClearScan
<1>6. queue[i] \in Node /\ queue[i] \in Linked /\ info[queue[i]].type = f.type
  BY <1>2, <1>3, <1>4, ElementOfSeq DEF Linked, NextOfType
<1>7. /\ CursorBefore(i) \in Node \cup {HEAD}
      /\ [f EXCEPT !.prev = CursorBefore(i)] \in Frame
      /\ [f EXCEPT !.prev = queue[i]] \in Frame
  <2>1. CursorBefore(i) \in Node \cup {HEAD}
    BY <1>3, ElementOfSeq, LenProperties DEF CursorBefore
  <2> QED BY <1>6, <2>1 DEF Frame
<1>8. PICK g \in Frame : g = [f EXCEPT !.prev = CursorBefore(i)]
  BY <1>7
<1>9. g.prev = CursorBefore(i) /\ g.type = f.type /\ g.kind = f.kind /\ g.node = f.node
  BY <1>8 DEF Frame
<1>10. Advanced(i) = g /\ Unlinked(i) = RemoveAt(queue, i)
  BY <1>4, <1>5, <1>8 DEF Advanced, Unlinked
<1>11. ASSUME queue' = RemoveAt(queue, i), alloc' \subseteq alloc
       PROVE  /\ UsedOnce' /\ OwnersFit' /\ \A k : Past(k) => Past(k)'
              /\ Linked' \subseteq Linked
  <2>1. Members(queue') = Members(queue) \ {queue[i]}
    BY <1>3, <1>11, RemoveAtMembers
  <2>2. Linked' \subseteq Linked
    BY <2>1 DEF Members, Linked
  <2> QED BY <1>3, <1>11, <2>2, LessLinked DEF Route
<1>12. CASE ClearMoot(i)
  <2>1. queue' = RemoveAt(queue, i) /\ alloc' \subseteq alloc /\ stack' = WithTop(g)
    BY <1>10, <1>12 DEF ClearMoot
  <2>2. CursorLive(g)' /\ Passed(g)'
    BY <1>2, <1>3, <1>4, <1>5, <1>9, <2>1, CursorAfter
  <2>3. Handled(g)'
    BY <1>5, <1>9 DEF Handled
  <2> QED BY <1>1, <1>5, <1>9, <1>11, <2>1, <2>2, <2>3, ClearGoesOn
<1>13. CASE ClearKept(i)
  <2>1. PICK h \in Frame : h = [f EXCEPT !.prev = queue[i]]
    BY <1>7
  <2>2. h.prev = queue[i] /\ h.type = f.type /\ h.kind = f.kind /\ h.node = f.node
    BY <2>1 DEF Frame
  <2>3. queue' = queue /\ alloc' = alloc /\ stack' = WithTop(h) /\ ExitKeeps(queue[i])
    BY <1>4, <1>13, <2>1 DEF ClearKept
  <2>4. Linked' = Linked
    BY <2>3 DEF Linked
  <2>5. UsedOnce' /\ OwnersFit' /\ \A k : Past(k) => Past(k)'
    BY <1>3, <2>3, <2>4, LessLinked DEF Route
  <2>6. CursorLive(h)'
    BY <1>6, <2>2, <2>4 DEF CursorLive
  <2>7. Passed(h)'
    <3> SUFFICES ASSUME NEW a \in 1..Len(queue), NEW c \in 1..Len(queue),
                        a <= c, queue[c] = h.prev, info[queue[a]].type = f.type
                 PROVE  ExitKeeps(queue[a])
      BY <1>3, <2>2, <2>3 DEF Passed, ExitKeeps
    <3>1. c = i
      BY <1>3, <2>2 DEF Distinct
    <3>2. a = i \/ a \in 1..(i - 1)
      BY <3>1
    <3>3. NextOfType(f, i)
      BY <1>2, <1>4
    <3>4. \A b \in 1..(i - 1) : info[queue[b]].type = f.type => ExitKeeps(queue[b])
      BY <1>3, <1>5, <3>3, PassedToNext
    <3> QED BY <2>3, <3>2, <3>4
  <2>8. Handled(h)'
    BY <1>5, <2>2 DEF Handled
  <2> QED BY <1>1, <1>5, <2>2, <2>3, <2>5, <2>6, <2>7, <2>8, ClearGoesOn
<1>14. CASE ClearHandled(i)
  <2>1. PICK h \in Frame : h = [g EXCEPT !.node = queue[i], !.ops = MaxOps]
    <3>1. [g EXCEPT !.node = queue[i], !.ops = MaxOps] \in Frame
      BY <1>6, OpsBounds, HandlerFrame
    <3> QED BY <3>1
  <2>2. h.prev = g.prev /\ h.type = g.type /\ h.kind = g.kind /\ h.node = queue[i]
    BY <2>1 DEF Frame
  <2>3. queue' = RemoveAt(queue, i) /\ alloc' = alloc /\ stack' = WithTop(h)
    BY <1>10, <1>14, <2>1 DEF ClearHandled
  <2>4. CursorLive(h)' /\ Passed(h)'
    <3>1. h.prev = CursorBefore(i) /\ h.type = f.type
      BY <1>9, <2>2
    <3> QED BY <1>2, <1>3, <1>4, <1>5, <2>3, <3>1, CursorAfter
  <2>5. /\ UsedOnce' /\ OwnersFit' /\ \A k : Past(k) => Past(k)'
        /\ Linked' \subseteq Linked
    BY <1>11, <2>3
  <2>6. Handled(h)'
    <3>1. f.type \in Disposable => info[queue[i]].owner \in Item
      BY <1>3, <1>6 DEF Route, OwnersFit, Fits, OwnersOf, Disposable
    <3>2. \A m \in Linked : OneUse(m, queue[i])
      BY <1>6 DEF Route, UsedOnce
    <3>3. info'[queue[i]].type = h.type
      BY <1>3, <1>6, <1>9, <2>2
    <3>4. h.type \in Disposable => info'[queue[i]].owner \in Item
      BY <1>3, <1>9, <2>2, <3>1
    <3>5. \A n : h.node = n =>
            /\ info'[n].type = h.type
            /\ h.type \in Disposable => info'[n].owner \in Item
            /\ \A m \in Linked' : OneUse(m, n)'
      <4>1. \A n : n = queue[i] => \A m \in Linked' : OneUse(m, n)'
        BY <1>3, <2>5, <3>2 DEF OneUse
      <4> QED BY <2>2, <3>3, <3>4, <4>1
    <3> QED BY <3>5 DEF Handled
  <2> QED BY <1>1, <1>5, <1>9, <2>2, <2>3, <2>4, <2>5, <2>6, ClearGoesOn
<1> QED BY <1>2, <1>12, <1>13, <1>14

LEMMA RouteOfClearDrop ==
  ASSUME Sound, Route, ClearDrop
  PROVE  Route'
<1>1. /\ AtClear /\ Len(stack) = 2 /\ Top = stack[2] /\ Top \in Frame /\ TypeOK
      /\ stack \in Seq(Frame) /\ stack # << >>
  BY AtTopClear DEF ClearDrop
<1>2. PICK f \in Frame : f = [Top EXCEPT !.node = NIL, !.ops = 0]
  <2>1. [Top EXCEPT !.node = NIL, !.ops = 0] \in Frame
    BY <1>1, OpsBounds, HandlerFrame
  <2> QED BY <2>1
<1>3. f.prev = Top.prev /\ f.type = Top.type /\ f.kind = Top.kind /\ f.node = NIL
  BY <1>1, <1>2 DEF Frame
<1>4. /\ queue' = queue /\ info' = info /\ alloc' \subseteq alloc /\ stack' = WithTop(f)
      /\ Top.kind = "clear"
  BY <1>2 DEF ClearDrop, TopIs
<1>5. Linked' = Linked
  BY <1>4 DEF Linked
<1>6. UsedOnce' /\ OwnersFit' /\ \A k : Past(k) => Past(k)'
  BY <1>4, <1>5, LessLinked DEF Route
<1>7. CursorLive(f)' /\ Passed(f)' /\ Handled(f)'
  BY <1>1, <1>3, <1>4, <1>5 DEF AtClear, CursorLive, Passed, Handled, ExitKeeps
<1> QED BY <1>1, <1>3, <1>4, <1>6, <1>7, ClearGoesOn

LEMMA RouteOfClearReturn ==
  ASSUME Sound, Route, ClearReturn
  PROVE  Route'
<1>1. AtClear /\ Len(stack) = 2 /\ Top = stack[2] /\ TypeOK
  BY AtTopClear DEF ClearReturn
<1>2. stack' = Pop /\ queue' = queue /\ info' = info /\ alloc' = alloc
  BY DEF ClearReturn
<1>3. PICK f : f = Top
  OBVIOUS
<1>4. CursorLive(f) /\ Passed(f)
  BY <1>1, <1>3 DEF AtClear
<1>5. PICK c \in 0..Len(queue) :
        CursorAt(f, c) /\ \A j \in (c + 1)..Len(queue) : info[queue[j]].type # f.type
  BY <1>3 DEF ClearReturn
<1>6. queue \in Seq(Node) /\ Len(queue) \in Nat
  BY <1>1, LenProperties DEF TypeOK
<1>7. \A j \in 1..Len(queue) : info[queue[j]].type = f.type => ExitKeeps(queue[j])
  <2> SUFFICES ASSUME NEW j \in 1..Len(queue), info[queue[j]].type = f.type
               PROVE  ExitKeeps(queue[j])
    OBVIOUS
  <2>1. j <= c
    BY <1>5, <1>6
  <2>2. c \in 1..Len(queue)
    BY <1>6, <2>1
  <2>3. f.prev # HEAD
    <3>1. f.prev = HEAD => f.prev \notin Linked
      BY <1>6, ElementOfSeq, QueueConstants DEF Linked
    <3> QED BY <1>5, <2>2, <3>1 DEF CursorAt
  <2>4. queue[c] = f.prev
    BY <1>4, <1>5, <2>3 DEF CursorLive, CursorAt
  <2> QED BY <1>4, <2>1, <2>2, <2>4 DEF Passed
<1>8. \A n \in Linked : info[n].type = stack[2].type => ExitKeeps(n)
  BY <1>1, <1>3, <1>7 DEF Linked
<1> QED BY <1>1, <1>2, <1>8, TypeDone

LEMMA RouteOfStartLeave ==
  ASSUME Sound, Route, StartLeave
  PROVE  Route'
<1>1. PICK f \in Frame : f = NewFrame("leave", 1, ANY, ANY)
  <2>1. NewFrame("leave", 1, ANY, ANY) \in Frame
    BY NewFrameType
  <2> QED BY <2>1
<1>2. f.kind = "leave" /\ f.limit = 1
  BY <1>1 DEF NewFrame
<1>3. /\ stack = << >> /\ stack \in Seq(Frame) /\ stack' = Push(stack, f)
      /\ queue' = queue /\ info' = info /\ alloc' = alloc
  BY <1>1 DEF StartLeave, Sound, TypeOK
<1>4. Len(stack') = 1 /\ stack'[1] = f
  <2>1. PICK u : u = Push(stack, f)
    OBVIOUS
  <2>2. Len(stack) = 0
    BY <1>3, EmptySeq
  <2>3. Len(u) = Len(stack) + 1 /\ u[Len(stack) + 1] = f
    BY <1>3, <2>1, PushIs
  <2>4. Len(stack) + 1 = 1
    BY <2>2
  <2>5. Len(u) = 1 /\ u[1] = f
    BY <2>3, <2>4
  <2> QED BY <1>3, <2>1, <2>5
<1>5. UsedOnce' /\ OwnersFit'
  <2>1. Linked' = Linked
    BY <1>3 DEF Linked
  <2> QED BY <1>3, <2>1, LessLinked DEF Route
<1>6. Past(1 - 1)'
  BY DEF Past
<1>7. AtLeave'
  BY <1>2, <1>4, <1>6 DEF AtLeave
<1> QED BY <1>5, <1>7 DEF Route

LEMMA RouteOfLeaveReturn ==
  ASSUME Sound, Route, LeaveReturn
  PROVE  Route'
<1>1. /\ stack \in Seq(Frame) /\ stack # << >> /\ Top.kind = "leave"
      /\ Top = stack[Len(stack)] /\ stack' = Pop
      /\ queue' = queue /\ info' = info /\ alloc' = alloc
  BY DEF Sound, TypeOK, LeaveReturn, TopIs, Top
<1>2. Len(stack) = 1
  <2>1. ~NoLeave
    BY <1>1, LenProperties, EmptySeq DEF NoLeave
  <2>2. ~AtSweep
    BY <1>1 DEF AtSweep
  <2>3. ~AtClear
    BY <1>1 DEF AtClear
  <2> QED BY <2>1, <2>2, <2>3 DEF Route, AtLeave
<1>3. UsedOnce' /\ OwnersFit'
  <2>1. Linked' = Linked
    BY <1>1 DEF Linked
  <2> QED BY <1>1, <2>1, LessLinked DEF Route
<1>4. Kinds(stack')
  <2>1. Len(stack') = 0
    BY <1>1, <1>2, PopIs
  <2> QED BY <2>1 DEF Kinds
<1> QED BY <1>3, <1>4, NoLeaveAgain

LEMMA RouteOfDispatch ==
  ASSUME Sound, Route, Dispatch
  PROVE  Route'
<1>1. /\ TypeOK /\ queue \in Seq(Node) /\ stack \in Seq(Frame) /\ stack # << >>
      /\ TopIs("process") /\ queue # << >> /\ queue' = Tail(queue) /\ info' = info
  BY DEF Sound, TypeOK, Dispatch, TopIs, HeadDue
<1>2. Linked' \subseteq Linked /\ Head(queue) \in Node
  BY <1>1, HeadTailProperties, ElementOfSeq, LenProperties, EmptySeq DEF Linked
<1>3. alloc' \subseteq alloc
  BY DEF Dispatch
<1>4. stack' = stack \/ \E f \in Frame : f.kind = "process" /\ stack' = WithTop(f)
  <2>1. Top \in Frame /\ Top.kind = "process"
    BY <1>1, StackOps DEF TopIs
  <2>2. PICK f : f = [Top EXCEPT !.node = Head(queue), !.ops = MaxOps]
    OBVIOUS
  <2>3. f \in Frame
    BY <1>2, <2>1, <2>2, OpsBounds, HandlerFrame
  <2>4. f.kind = "process"
    BY <2>1, <2>2 DEF Frame
  <2>5. stack' = stack \/ stack' = WithTop(f)
    BY <2>2 DEF Dispatch
  <2> QED BY <2>3, <2>4, <2>5
<1> QED BY <1>1, <1>2, <1>3, <1>4, RouteOfProcess

LEMMA RouteOfHandlerReturn ==
  ASSUME Sound, Route, NEW stop \in BOOLEAN, HandlerReturn(stop)
  PROVE  Route'
<1>1. /\ stack \in Seq(Frame) /\ stack # << >> /\ TopIs("process")
      /\ queue' = queue /\ info' = info /\ alloc' \subseteq alloc
  BY DEF Sound, TypeOK, HandlerReturn, TopIs
<1>2. Linked' \subseteq Linked
  BY <1>1 DEF Linked
<1>3. stack' = Pop \/ \E f \in Frame : f.kind = "process" /\ stack' = WithTop(f)
  <2>1. Top \in Frame /\ Top.kind = "process"
    BY <1>1, StackOps DEF TopIs
  <2>2. PICK f : f = [Top EXCEPT !.node = NIL, !.ops = 0]
    OBVIOUS
  <2>3. f \in Frame
    BY <2>1, <2>2, OpsBounds, HandlerFrame
  <2>4. f.kind = "process"
    BY <2>1, <2>2 DEF Frame
  <2>5. stack' = Pop \/ stack' = WithTop(f)
    BY <2>2 DEF HandlerReturn
  <2> QED BY <2>3, <2>4, <2>5
<1> QED BY <1>1, <1>2, <1>3, RouteOfProcess

LEMMA RouteStep ==
  ASSUME Sound, Route, ~LethalClear, [Next]_vars
  PROVE  Route'
<1>1. ASSUME NEW n \in Node, NEW d \in Delays, NEW o \in Owner \cup {NIL}, NEW t \in Types,
             AddEvent(n, d, o, t)
      PROVE  Route'
  BY <1>1, RouteAdd
<1>2. ASSUME NEW o \in Owner \cup {ANY}, NEW t \in Types \cup {ANY}, NEW destroy \in BOOLEAN,
             StartPurge(o, t, destroy)
      PROVE  Route'
  BY <1>2, RouteOfStartPurge
<1>3. CASE StartProcess
  <2>1. PICK f : f = NewFrame("process", now, ANY, ANY)
    OBVIOUS
  <2>2. now \in Nat
    BY DEF Sound, TypeOK
  <2>3. f \in Frame /\ f.kind = "process"
    BY <2>1, <2>2, NewFrameType DEF NewFrame
  <2>4. /\ queue' = queue /\ info' = info /\ alloc' = alloc /\ MayCall
        /\ stack' = Push(Charged, f)
        /\ HandlerRunning => Top.kind = "process"
    BY <1>3, <2>1 DEF StartProcess
  <2>5. stack # << >> => Top.kind # "clear"
    BY <2>4 DEF MayCall
  <2> QED BY <2>3, <2>4, <2>5, RouteOfCalls
<1>4. CASE StartLeave
  BY <1>4, RouteOfStartLeave
<1>5. CASE AdvanceTime
  <2>1. /\ queue' = queue /\ info' = info /\ alloc' = alloc /\ MayCall
        /\ stack' = Charged
        /\ HandlerRunning => Top.kind = "process"
    BY <1>5 DEF AdvanceTime
  <2>2. stack # << >> => Top.kind # "clear"
    BY <2>1 DEF MayCall
  <2> QED BY <2>1, <2>2, RouteOfCalls
<1>6. ASSUME NEW stop \in BOOLEAN, HandlerReturn(stop)
      PROVE  Route'
  BY <1>6, RouteOfHandlerReturn
<1>7. CASE ClearDrop
  BY <1>7, RouteOfClearDrop
<1>8. CASE PurgeStep
  BY <1>8, RouteOfPurge
<1>9. CASE PurgeReturn
  BY <1>9, RouteOfPurgeReturn
<1>10. CASE Dispatch
  BY <1>10, RouteOfDispatch
<1>11. CASE ProcessReturn
  <2>1. /\ TopIs("process") /\ info' = info /\ alloc' = alloc /\ queue' = queue
        /\ stack' = Pop
    BY <1>11 DEF ProcessReturn
  <2>2. Linked' \subseteq Linked
    BY <2>1 DEF Linked
  <2> QED BY <2>1, <2>2, RouteOfProcess
<1>12. CASE LeaveStep
  BY <1>12, RouteOfLeaveStep
<1>13. CASE LeaveReturn
  BY <1>13, RouteOfLeaveReturn
<1>14. CASE ClearScan
  BY <1>14, RouteOfClearScan
<1>15. CASE ClearReturn
  BY <1>15, RouteOfClearReturn
<1>16. CASE UNCHANGED vars
  <2>1. Linked' = Linked /\ stack' = stack /\ info' = info /\ queue' = queue /\ alloc' = alloc
    BY <1>16 DEF vars, Linked
  <2> QED BY <2>1 DEF Route, UsedOnce, OwnersFit, Fits, OneUse, NoLeave, AtLeave, AtSweep, AtClear,
                      OnType, Past, Passed, Handled, CursorLive, ExitKeeps
<1> QED BY <1>1, <1>2, <1>3, <1>4, <1>5, <1>6, <1>7, <1>8, <1>9, <1>10, <1>11, <1>12, <1>13,
           <1>14, <1>15, <1>16 DEF Next, Loop

LEMMA RouteLive == Sound /\ Route => CursorsLive
<1> SUFFICES ASSUME Sound, Route, NEW i \in 1..Len(stack), stack[i].kind = "clear"
             PROVE  CursorLive(stack[i])
  BY DEF CursorsLive
<1>1. Len(stack) \in Nat
  BY LenProperties DEF Sound, TypeOK
<1>2. AtClear
  <2>1. ~NoLeave
    BY DEF NoLeave
  <2>2. ~AtLeave
    BY <1>1 DEF AtLeave
  <2>3. ~AtSweep
    <3>1. Len(stack) = 2 => i = 1 \/ i = 2
      BY <1>1
    <3> QED BY <3>1 DEF AtSweep
  <2> QED BY <2>1, <2>2, <2>3 DEF Route
<1>3. i = 1 \/ i = 2 \/ i = 3
  BY <1>1, <1>2 DEF AtClear
<1>4. i = 2
  BY <1>2, <1>3 DEF AtClear
<1> QED BY <1>2, <1>4 DEF AtClear

\* When no map-exit handler kills, the cell that ptr of a suspended queueClearByEventType
\* points into is in the list whenever the handler comes back (queue.cc:488).
THEOREM CursorsLiveUnlessLethal == ASSUME ~LethalClear PROVE Spec => []CursorsLive
<1>1. Init => Sound /\ Route
  BY SoundInit, RouteInit
<1>2. Sound /\ Route /\ [Next]_vars => (Sound /\ Route)'
  BY SoundStep, RouteStep, RouteLive
<1>3. Sound /\ Route => CursorsLive
  BY RouteLive
<1> QED BY <1>1, <1>2, <1>3, PTL DEF Spec

\* Then no node of the queue is freed twice, used after it is freed or leaked, and the list
\* stays sorted, through every nesting of handlers and every change of map.
THEOREM MemorySafe == ASSUME ~LethalClear PROVE Spec => [](Memory /\ Sorted)
BY CursorsLiveUnlessLethal, MemorySafeIfCursorsLive, PTL

\* And the queue implements TimedEvents, without a condition on its behaviour.
THEOREM ImplementsPromise == ASSUME ~LethalClear PROVE Spec => ImplementsTimedEvents
BY CursorsLiveUnlessLethal, ImplementsIfCursorsLive, PTL

-----------------------------------------------------------------------------
(* Destroyed objects                                                        *)

\* The events that need their owner and do not stay whoever they are of.
Bound(n) == DerefsOwner(info[n].type) /\ info[n].type # "KNOCKOUT"
\* Nothing in the list but knock-outs needs an owner that is gone.
NoneGone == \A n \in Linked : ~(info[n].owner \in gone /\ Bound(n))
\* Only the removal that belongs to a destruction finds such events.
GonePurged ==
  \A n \in Linked : info[n].owner \in gone /\ Bound(n) =>
    TopIs("purge") /\ Top.owner = info[n].owner /\ Top.type = ANY

LEMMA FewerGone ==
  ASSUME NoneGone, Linked' \subseteq Linked, info' = info, gone' = gone
  PROVE  GonePurged'
BY DEF NoneGone, GonePurged, Bound

LEMMA NoneAtCalls ==
  ASSUME Sound, GonePurged, MayCall
  PROVE  NoneGone
<1>1. stack # << >> => Len(stack) \in 1..Len(stack) /\ Top = stack[Len(stack)]
  BY EmptySeq DEF Sound, TypeOK, Top
<1>2. ~TopIs("purge")
  BY <1>1 DEF Sound, Idle, IdleFrame, MayCall, HandlerRunning, TopIs
<1> QED BY <1>2 DEF NoneGone, GonePurged

\* Everything that needs its owner and is kept, but for knock-outs, belongs to the party.
LEMMA KeptByParty ==
  ASSUME Sound, Route, LeaveReturn, NEW n \in Linked, Bound(n)
  PROVE  info[n].owner \in Party \cup {NIL}
<1>1. /\ TypeOK /\ stack \in Seq(Frame) /\ stack # << >> /\ Top.kind = "leave"
      /\ Top = stack[Len(stack)] /\ Top.limit > Len(EventTypes_)
  BY DEF Sound, TypeOK, LeaveReturn, TopIs, Top
<1>2. AtLeave
  <2>1. ~NoLeave
    BY <1>1, LenProperties, EmptySeq DEF NoLeave
  <2>2. ~AtSweep
    BY <1>1 DEF AtSweep
  <2>3. ~AtClear
    BY <1>1 DEF AtClear
  <2> QED BY <2>1, <2>2, <2>3 DEF Route
<1>3. PICK k \in Nat : k = stack[1].limit /\ k > Len(EventTypes_)
  <2>1. Len(stack) = 1
    BY <1>2 DEF AtLeave
  <2> QED BY <1>1, <2>1, LimitIs
<1>4. Past(k - 1)
  BY <1>2, <1>3 DEF AtLeave
<1>5. info[n].type \in Types /\ n \in alloc /\ Fits(n)
  BY <1>1, ElementOfSeq DEF TypeOK, Linked, Info, Sound, Memory, Route, OwnersFit
<1>6. PICK m \in 1..Len(EventTypes_) : EventTypes_[m] = info[n].type
  BY <1>5 DEF Types
<1>7. m <= k - 1
  BY <1>3, <1>6, TypesNonEmpty
<1>8. CASE ClearedOnMapExit(info[n].type)
  <2>1. ExitKeeps(n)
    BY <1>4, <1>6, <1>7, <1>8 DEF Past
  <2> QED BY <1>5, <2>1 DEF ExitKeeps, Bound
<1>9. CASE ~ClearedOnMapExit(info[n].type)
  <2>1. info[n].type = "RADIATION"
    BY <1>9 DEF ClearedOnMapExit, DerefsOwner, OwnerFreeTypes, Bound
  <2> QED BY <1>5, <2>1, QueueConstants DEF Fits, OwnersOf
<1> QED BY <1>8, <1>9

LEMMA GoneInit == Init => GonePurged
<1> SUFFICES ASSUME Init PROVE GonePurged
  OBVIOUS
<1> QED BY DEF Init, GonePurged

LEMMA GoneStep ==
  ASSUME Sound, Route, GonePurged, [Next]_vars
  PROVE  GonePurged'
<1>0. /\ queue \in Seq(Node) /\ info \in [Node -> Info] /\ Linked \subseteq alloc
      /\ alloc \subseteq Node /\ Distinct(queue)
  BY MemoryParts DEF Sound, TypeOK, Memory
<1>a. ASSUME ~TopIs("purge") PROVE NoneGone
  BY <1>a DEF NoneGone, GonePurged
<1>b. queue' = queue => Linked' = Linked
  BY DEF Linked
<1>c. ASSUME ~TopIs("purge"), queue' = queue, info' = info, gone' = gone
      PROVE  GonePurged'
  BY <1>a, <1>b, <1>c, FewerGone
<1>1. ASSUME NEW n \in Node, NEW d \in Delays, NEW o \in Owner \cup {NIL}, NEW t \in Types,
             AddEvent(n, d, o, t)
      PROVE  GonePurged'
  <2>1. NoneGone
    BY <1>1, NoneAtCalls DEF AddEvent
  <2>2. /\ gone' = gone /\ o \notin gone /\ n \notin alloc
        /\ info' = [info EXCEPT ![n] = [time |-> Due(d), type |-> t, owner |-> o]]
    BY <1>1 DEF AddEvent
  <2>3. Linked' = Linked \cup {n}
    <3>1. PICK p \in 0..Len(queue) : queue' = InsertAt(queue, p + 1, n)
      BY <1>1 DEF AddEvent
    <3>2. Members(InsertAt(queue, p + 1, n)) = Members(queue) \cup {n}
      <4>1. queue \in Seq(Node) /\ p \in 0..Len(queue) /\ n \in Node
        BY <1>0
      <4> QED BY <4>1, InsertAtMembers
    <3> QED BY <3>1, <3>2 DEF Members, Linked
  <2>4. info'[n].owner = o /\ \A m \in Linked : info'[m] = info[m]
    BY <1>0, <2>2
  <2> QED BY <2>1, <2>2, <2>3, <2>4 DEF NoneGone, GonePurged, Bound
<1>2. ASSUME NEW o \in Owner \cup {ANY}, NEW t \in Types \cup {ANY}, NEW destroy \in BOOLEAN,
             StartPurge(o, t, destroy)
      PROVE  GonePurged'
  <2>1. NoneGone /\ Linked' = Linked /\ info' = info
    BY <1>2, NoneAtCalls DEF StartPurge, Linked
  <2>2. CASE ~destroy
    BY <1>2, <2>1, <2>2, FewerGone DEF StartPurge
  <2>3. CASE destroy
    <3>1. PICK f \in Frame : f = NewFrame("purge", 0, t, o)
      <4>1. NewFrame("purge", 0, t, o) \in Frame
        BY NewFrameType
      <4> QED BY <4>1
    <3>2. /\ f.kind = "purge" /\ f.owner = o /\ f.type = ANY
          /\ gone' = gone \cup {o} /\ stack' = Push(Charged, f) /\ MayCall
      BY <1>2, <2>3, <3>1 DEF StartPurge, NewFrame
    <3>3. stack' # << >> /\ stack'[Len(stack')] = f
      <4>1. PICK s \in Seq(Frame) : s = Charged
        BY <3>2, ChargedIs DEF Sound, TypeOK
      <4>2. PICK u : u = Push(s, f)
        OBVIOUS
      <4>3. Len(s) \in Nat /\ Len(u) = Len(s) + 1 /\ u[Len(s) + 1] = f
        BY <4>2, PushIs
      <4>4. Len(u) # 0 /\ u[Len(u)] = f
        BY <4>3
      <4>5. u # << >>
        BY <4>4, EmptySeq
      <4> QED BY <3>2, <4>1, <4>2, <4>4, <4>5
    <3> QED BY <2>1, <3>2, <3>3 DEF NoneGone, GonePurged, Bound, TopIs, Top
  <2> QED BY <2>2, <2>3
<1>3. CASE StartProcess
  BY <1>3, <1>b, NoneAtCalls, FewerGone DEF StartProcess
<1>4. CASE StartLeave
  BY <1>4, <1>b, NoneAtCalls, FewerGone DEF StartLeave, MayCall
<1>5. CASE AdvanceTime
  BY <1>5, <1>b, NoneAtCalls, FewerGone DEF AdvanceTime
<1>6. ASSUME NEW stop \in BOOLEAN, HandlerReturn(stop)
      PROVE  GonePurged'
  BY <1>6, <1>c DEF HandlerReturn, TopIs
<1>7. CASE ClearDrop
  BY <1>7, <1>c DEF ClearDrop, TopIs
<1>8. CASE PurgeStep
  <2>1. PICK p \in 1..Len(queue) : queue' = RemoveAt(queue, p)
    BY <1>8 DEF PurgeStep
  <2>2. Members(queue') = Members(queue) \ {queue[p]}
    BY <1>0, <2>1, RemoveAtMembers
  <2>3. Linked' \subseteq Linked
    BY <2>2 DEF Members, Linked
  <2> QED BY <1>8, <2>3 DEF PurgeStep, GonePurged, Bound, TopIs, Top
<1>9. CASE PurgeReturn
  <2>1. \A n \in Linked : ~Matches(n, Top.owner, Top.type)
    BY <1>9 DEF PurgeReturn, Linked
  <2>2. NoneGone
    BY <2>1 DEF NoneGone, GonePurged, Matches
  <2> QED BY <1>9, <1>b, <2>2, FewerGone DEF PurgeReturn
<1>10. CASE Dispatch
  <2>1. queue # << >> /\ queue' = Tail(queue)
    BY <1>10 DEF Dispatch, HeadDue
  <2>2. Linked' \subseteq Linked
    BY <1>0, <2>1, HeadTailProperties, LenProperties, EmptySeq DEF Linked
  <2> QED BY <1>10, <1>a, <2>2, FewerGone DEF Dispatch, TopIs
<1>11. CASE ProcessReturn
  BY <1>11, <1>c DEF ProcessReturn, TopIs
<1>12. CASE LeaveStep
  BY <1>12, <1>c DEF LeaveStep, TopIs
<1>13. CASE LeaveReturn
  <2>1. /\ NoneGone /\ Linked' = Linked /\ info' = info /\ gone' = gone \cup (Owner \ Party)
    BY <1>13, <1>a, <1>b DEF LeaveReturn, TopIs
  <2>2. \A n \in Linked : Bound(n) => info[n].owner \in Party \cup {NIL}
    BY <1>13, KeptByParty
  <2>3. NIL \notin Owner
    BY QueueConstants
  <2> QED BY <2>1, <2>2, <2>3 DEF NoneGone, GonePurged, Bound
<1>14. CASE ClearScan
  <2>1. ~TopIs("purge") /\ info' = info /\ gone' = gone
    BY <1>14 DEF ClearScan, TopIs
  <2>2. Linked' \subseteq Linked
    <3>1. PICK i \in 1..Len(queue) : ClearMoot(i) \/ ClearKept(i) \/ ClearHandled(i)
      BY <1>14 DEF ClearScan
    <3>2. queue' = queue \/ queue' = RemoveAt(queue, i)
      BY <3>1 DEF ClearMoot, ClearKept, ClearHandled, Unlinked
    <3>3. Members(RemoveAt(queue, i)) = Members(queue) \ {queue[i]}
      BY <1>0, RemoveAtMembers
    <3> QED BY <3>2, <3>3 DEF Members, Linked
  <2> QED BY <1>a, <2>1, <2>2, FewerGone
<1>15. CASE ClearReturn
  BY <1>15, <1>c DEF ClearReturn, TopIs
<1>16. CASE UNCHANGED vars
  BY <1>16, <1>b DEF vars, GonePurged, Bound, TopIs, Top
<1> QED BY <1>1, <1>2, <1>3, <1>4, <1>5, <1>6, <1>7, <1>8, <1>9, <1>10, <1>11, <1>12, <1>13,
           <1>14, <1>15, <1>16 DEF Next, Loop

\* When no map-exit handler kills, knock-outs are all that outlives an owner it needs,
\* whatever types are in play: everything else that a change of map keeps belongs to the
\* party, and a destroyed object's events are gone when the removal in objectDestroy is over
\* (proto_instance.cc:807). A knock-out is kept whoever it is of (critter.cc:1424).
THEOREM OnlyKnockoutsOutlive == ASSUME ~LethalClear PROVE Spec => []OwnersExist
<1>1. Init => Sound /\ Route /\ GonePurged
  BY SoundInit, RouteInit, GoneInit
<1>2. Sound /\ Route /\ GonePurged /\ [Next]_vars => (Sound /\ Route /\ GonePurged)'
  BY SoundStep, RouteStep, RouteLive, GoneStep
<1>3. Sound /\ GonePurged => OwnersExist
  <2> SUFFICES ASSUME Sound, GonePurged, NEW n \in Linked, info[n].owner \in gone,
                      DerefsOwner(info[n].type), info[n].type # "KNOCKOUT"
               PROVE  \E i \in 1..Len(stack) :
                        stack[i].kind = "purge" /\ stack[i].owner = info[n].owner
    BY DEF OwnersExist
  <2>1. TopIs("purge") /\ Top.owner = info[n].owner
    BY DEF GonePurged, Bound
  <2>2. stack \in Seq(Frame) /\ stack # << >>
    BY <2>1 DEF Sound, TypeOK, TopIs
  <2>3. Len(stack) \in 1..Len(stack)
    BY <2>2, EmptySeq
  <2> QED BY <2>1, <2>3 DEF TopIs, Top
<1> QED BY <1>1, <1>2, <1>3, PTL DEF Spec
=============================================================================
