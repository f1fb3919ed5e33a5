------------------------- MODULE ScriptHooksProofs -------------------------
(***************************************************************************)
(* Proofs about ScriptHooks for all programs, hook types and limits.       *)
(*                                                                         *)
(* A list of hooks is Single: no program is in it twice. A call is         *)
(* Faithful to its copy of the list: what it has called is the copy        *)
(* backwards, as far as index.                                             *)
(* A run is of a program that lives, or that has exited meanwhile.         *)
(***************************************************************************)
EXTENDS ScriptHooks, SequenceEdits

Single ==
  {list \in Seq(Programs) :
     \A i, j \in 1..Len(list) : list[i] = list[j] => i = j}
Return == [prog : Programs, from : Nat]
Call ==
  [kind : {"call"}, hook : HookTypes, list : Single, index : Nat,
   rets : Seq(Return), due : SUBSET Programs, ran : Seq(Programs)]
Faithful(call) ==
  /\ call.due = ProgramsOf(call.list)
  /\ call.index <= Len(call.list)
  /\ Len(call.ran) = Len(call.list) - call.index
  /\ \A k \in 1..Len(call.ran) : call.ran[k] = call.list[Len(call.list) + 1 - k]

Running(P) == [kind : {"run"}, prog : P]
FaithfulCall == {call \in Call : Faithful(call)}
Frame(P) == Running(P) \cup FaithfulCall \cup {[kind |-> "aborted"]}
Living == Programs \ (freed \ exited)

IInv ==
  /\ hooks \in [HookTypes -> Single]
  /\ frames \in Seq(Frame(Living))
  /\ NoneDangling

-----------------------------------------------------------------------------
(* Lists of hooks *)

LEMMA SingleFacts ==
  ASSUME NEW list \in Single
  PROVE  /\ list \in Seq(Programs) /\ Len(list) \in Nat /\ DOMAIN list = 1..Len(list)
         /\ \A i \in 1..Len(list) : list[i] \in Programs
         /\ \A i, j \in 1..Len(list) : list[i] = list[j] => i = j
<1>1. list \in Seq(Programs)
  BY DEF Single
<1>2. Len(list) \in Nat /\ DOMAIN list = 1..Len(list)
  BY <1>1, LenProperties
<1>3. \A i \in 1..Len(list) : list[i] \in Programs
  BY <1>1, ElementOfSeq
<1> QED BY <1>1, <1>2, <1>3, Zenon DEF Single

LEMMA EmptySingle == << >> \in Single /\ ProgramsOf(<< >>) = {}
<1>1. << >> \in Seq(Programs) /\ Len(<< >>) = 0
  BY EmptySeq
<1>2. 1..0 = {}
  OBVIOUS
<1> QED BY <1>1, <1>2 DEF Single, ProgramsOf

\* Taking a program off a list leaves it single, and the program is gone.
LEMMA WithoutHookProperties ==
  ASSUME NEW list \in Single, NEW p
  PROVE  /\ WithoutHook(list, p) \in Single
         /\ ProgramsOf(WithoutHook(list, p)) \subseteq ProgramsOf(list) \ {p}
<1>1. CASE p \notin ProgramsOf(list)
  BY <1>1 DEF WithoutHook
<1>2. CASE p \in ProgramsOf(list)
  <2> DEFINE at == PlaceOf(list, p)
             r == RemoveAt(list, at)
  <2>1. at \in DOMAIN list /\ list[at] = p
    <3>1. \E i \in DOMAIN list : list[i] = p
      BY <1>2 DEF ProgramsOf
    <3> QED BY <3>1 DEF PlaceOf
  <2>2. WithoutHook(list, p) = r
    BY <1>2 DEF WithoutHook
  <2> HIDE DEF at
  <2>3. at \in 1..Len(list) /\ list \in Seq(Programs) /\ Len(list) \in Nat
    BY <2>1, SingleFacts
  <2>4. /\ r \in Seq(Programs) /\ Len(r) = Len(list) - 1
        /\ \A i \in 1..(Len(list) - 1) : r[i] = IF i < at THEN list[i] ELSE list[i + 1]
    BY <2>3, RemoveAtProperties
  <2> HIDE DEF r
  <2>5. \A k \in 1..Len(r) :
          \E m \in 1..Len(list) : r[k] = list[m] /\ m # at /\ m = (IF k < at THEN k ELSE k + 1)
    BY <2>3, <2>4
  <2>6. \A i, j \in 1..Len(r) : r[i] = r[j] => i = j
    <3> SUFFICES ASSUME NEW i \in 1..Len(r), NEW j \in 1..Len(r), r[i] = r[j]
                 PROVE  i = j
      OBVIOUS
    <3>1. PICK m \in 1..Len(list) : r[i] = list[m] /\ m # at /\ m = (IF i < at THEN i ELSE i + 1)
      BY <2>5
    <3>2. PICK n \in 1..Len(list) : r[j] = list[n] /\ n # at /\ n = (IF j < at THEN j ELSE j + 1)
      BY <2>5
    <3>3. m = n
      BY <3>1, <3>2, SingleFacts
    <3> QED BY <2>3, <2>4, <3>1, <3>2, <3>3
  <2>8. r \in Single
    BY <2>4, <2>6, Zenon DEF Single
  <2>9. ProgramsOf(r) \subseteq ProgramsOf(list) \ {p}
    <3>1. ASSUME NEW k \in DOMAIN r
          PROVE  r[k] \in ProgramsOf(list) \ {p}
      <4>1. k \in 1..Len(r)
        BY <2>8, SingleFacts
      <4>2. PICK m \in 1..Len(list) : r[k] = list[m] /\ m # at
        BY <2>5, <4>1
      <4>3. list[m] # p
        BY <2>1, <2>3, <4>2, SingleFacts
      <4> QED BY <4>2, <4>3, SingleFacts DEF ProgramsOf
    <3> QED BY <3>1 DEF ProgramsOf
  <2> QED BY <2>2, <2>8, <2>9
<1> QED BY <1>1, <1>2

\* A program that is in no list yet is put at one of the ends of it.
LEMMA PlacedProperties ==
  ASSUME NEW list \in Single, NEW p \in Programs, p \notin ProgramsOf(list),
         NEW spec \in BOOLEAN
  PROVE  /\ Placed(list, p, spec) \in Single
         /\ ProgramsOf(Placed(list, p, spec)) \subseteq ProgramsOf(list) \cup {p}
<1> DEFINE r == Placed(list, p, spec)
           n == Len(list)
<1>1. p \in Programs
  OBVIOUS
<1>2. list \in Seq(Programs) /\ n \in Nat /\ DOMAIN list = 1..n
  BY SingleFacts
<1>3. \A i \in 1..n : list[i] # p
  BY <1>2 DEF ProgramsOf
<1>4. CASE spec
  <2>1. r = <<p>> \o list
    BY <1>4 DEF Placed
  <2>2. <<p>> \in Seq(Programs) /\ Len(<<p>>) = 1 /\ <<p>>[1] = p
    BY <1>1
  <2> HIDE DEF r
  <2>3. /\ r \in Seq(Programs) /\ Len(r) = 1 + n
        /\ \A i \in 1..(1 + n) : r[i] = IF i <= 1 THEN <<p>>[i] ELSE list[i - 1]
    BY <1>2, <2>1, <2>2, ConcatProperties
  <2>4. \A i \in 1..(1 + n) : r[i] = IF i = 1 THEN p ELSE list[i - 1]
    BY <1>2, <2>2, <2>3
  <2>5. \A i, j \in 1..Len(r) : r[i] = r[j] => i = j
    <3> SUFFICES ASSUME NEW i \in 1..Len(r), NEW j \in 1..Len(r), r[i] = r[j]
                 PROVE  i = j
      OBVIOUS
    <3>1. CASE i = 1 \/ j = 1
      BY <1>1, <1>2, <1>3, <2>3, <2>4, <3>1
    <3>2. CASE i # 1 /\ j # 1
      <4>1. i - 1 \in 1..n /\ j - 1 \in 1..n /\ list[i - 1] = list[j - 1]
        BY <1>2, <2>3, <2>4, <3>2
      <4>2. i - 1 = j - 1
        BY <4>1, SingleFacts
      <4> QED BY <1>2, <2>3, <4>2
    <3> QED BY <3>1, <3>2
  <2>7. r \in Single
    BY <2>3, <2>5, Zenon DEF Single
  <2>8. ProgramsOf(r) \subseteq ProgramsOf(list) \cup {p}
    <3>1. ASSUME NEW k \in DOMAIN r
          PROVE  r[k] \in ProgramsOf(list) \cup {p}
      <4>1. k \in 1..(1 + n)
        BY <2>3, <2>7, SingleFacts
      <4>2. k = 1 \/ (k - 1 \in DOMAIN list /\ r[k] = list[k - 1])
        BY <1>2, <2>4, <4>1
      <4> QED BY <1>1, <2>4, <4>1, <4>2 DEF ProgramsOf
    <3> QED BY <3>1 DEF ProgramsOf
  <2> QED BY <2>7, <2>8 DEF r
<1>5. CASE ~spec
  <2>1. r = Append(list, p)
    BY <1>5 DEF Placed
  <2> HIDE DEF r
  <2>2. /\ r \in Seq(Programs) /\ Len(r) = n + 1
        /\ \A i \in 1..n : r[i] = list[i]
        /\ r[n + 1] = p
    BY <1>1, <1>2, <2>1, AppendProperties
  <2>3. \A i \in 1..Len(r) : i \in 1..n \/ i = n + 1
    BY <1>2, <2>2
  <2>4. \A i, j \in 1..Len(r) : r[i] = r[j] => i = j
    BY <1>1, <1>2, <1>3, <2>2, <2>3, SingleFacts
  <2>6. r \in Single
    BY <2>2, <2>4, Zenon DEF Single
  <2>7. ProgramsOf(r) \subseteq ProgramsOf(list) \cup {p}
    <3>1. ASSUME NEW k \in DOMAIN r
          PROVE  r[k] \in ProgramsOf(list) \cup {p}
      <4>1. k \in 1..Len(r)
        BY <2>6, SingleFacts
      <4>2. k = n + 1 \/ (k \in DOMAIN list /\ r[k] = list[k])
        BY <1>2, <2>2, <2>3, <4>1
      <4> QED BY <1>1, <2>2, <4>2 DEF ProgramsOf
    <3> QED BY <3>1 DEF ProgramsOf
  <2> QED BY <2>6, <2>7 DEF r
<1> QED BY <1>4, <1>5

-----------------------------------------------------------------------------
(* Calls *)

LEMMA CallFacts ==
  ASSUME NEW call \in FaithfulCall
  PROVE  /\ call \in Call /\ Faithful(call) /\ call.kind = "call" /\ call.hook \in HookTypes
         /\ call.list \in Single /\ call.index \in Nat /\ call.rets \in Seq(Return)
         /\ call.due \in SUBSET Programs /\ call.ran \in Seq(Programs)
         /\ Len(call.list) \in Nat /\ Len(call.ran) \in Nat
         /\ DOMAIN call.ran = 1..Len(call.ran)
<1>1. call \in Call /\ Faithful(call)
  BY DEF FaithfulCall
<1>2. /\ call.kind = "call" /\ call.hook \in HookTypes
      /\ call.list \in Single /\ call.index \in Nat /\ call.rets \in Seq(Return)
      /\ call.due \in SUBSET Programs /\ call.ran \in Seq(Programs)
  BY <1>1 DEF Call
<1> QED BY <1>1, <1>2, SingleFacts, LenProperties

LEMMA NextHookType ==
  ASSUME NEW call \in FaithfulCall, call.index > 0
  PROVE  /\ call.index \in 1..Len(call.list)
         /\ NextHook(call) = call.list[call.index]
         /\ NextHook(call) \in Programs
<1>1. call.index \in 1..Len(call.list)
  BY CallFacts DEF Faithful
<1>2. NextHook(call) = call.list[call.index]
  BY DEF NextHook, Walked
<1> QED BY <1>1, <1>2, CallFacts, SingleFacts

\* A handler that is called is the next of the copy, backwards.
LEMMA CalledFaithful ==
  ASSUME NEW call \in FaithfulCall, call.index > 0
  PROVE  Called(call) \in FaithfulCall
<1> DEFINE c == Called(call)
           n == Len(call.list)
           hook == NextHook(call)
<1>1. /\ call.index \in 1..n /\ hook = call.list[call.index] /\ hook \in Programs
      /\ n \in Nat /\ call.index \in Nat /\ call.ran \in Seq(Programs) /\ Len(call.ran) \in Nat
  BY NextHookType, CallFacts
<1>2. /\ Append(call.ran, hook) \in Seq(Programs)
      /\ Len(Append(call.ran, hook)) = Len(call.ran) + 1
      /\ \A k \in 1..Len(call.ran) : Append(call.ran, hook)[k] = call.ran[k]
      /\ Append(call.ran, hook)[Len(call.ran) + 1] = hook
  BY <1>1, AppendProperties
<1>3. call \in Call
  BY CallFacts
<1>4. /\ c.index = call.index - 1 /\ c.rets = << >> /\ c.ran = Append(call.ran, hook)
      /\ c.list = call.list /\ c.due = call.due
  BY <1>3 DEF Called, Call
<1>5. call.index - 1 \in Nat /\ << >> \in Seq(Return)
  BY <1>1, EmptySeq
<1>6. c \in Call
  BY <1>2, <1>3, <1>5 DEF Called, Call
<1>7. /\ call.due = ProgramsOf(call.list) /\ Len(call.ran) = n - call.index
      /\ \A k \in 1..Len(call.ran) : call.ran[k] = call.list[n + 1 - k]
  BY CallFacts DEF Faithful
<1> HIDE DEF c, hook
<1>8. ASSUME NEW k \in 1..Len(c.ran)
      PROVE  c.ran[k] = c.list[Len(c.list) + 1 - k]
  <2>1. CASE k \in 1..Len(call.ran)
    BY <1>2, <1>4, <1>7, <2>1
  <2>2. CASE k = Len(call.ran) + 1
    <3>1. n + 1 - k = call.index
      BY <1>1, <1>7, <2>2
    <3> QED BY <1>1, <1>2, <1>4, <2>2, <3>1
  <2>3. Len(c.ran) = Len(call.ran) + 1
    BY <1>2, <1>4
  <2> QED BY <1>1, <2>1, <2>2, <2>3
<1>9. Faithful(c)
  <2>1. c.index <= Len(c.list) /\ Len(c.ran) = Len(c.list) - c.index
    BY <1>1, <1>2, <1>4, <1>7
  <2> QED BY <1>4, <1>7, <1>8, <2>1 DEF Faithful
<1> QED BY <1>6, <1>9 DEF FaithfulCall, c

LEMMA NewCallFaithful ==
  ASSUME hooks \in [HookTypes -> Single], NEW h \in HookTypes
  PROVE  NewCall(h) \in FaithfulCall
<1> DEFINE c == NewCall(h)
<1>1. hooks[h] \in Single
  OBVIOUS
<1>2. Len(hooks[h]) \in Nat
  BY <1>1, SingleFacts
<1>3. << >> \in Seq(Return) /\ << >> \in Seq(Programs) /\ Len(<< >>) = 0
  BY EmptySeq
<1>4. ProgramsOf(hooks[h]) \subseteq Programs
  <2>1. \A i \in DOMAIN hooks[h] : hooks[h][i] \in Programs
    BY <1>1, SingleFacts
  <2> QED BY <2>1 DEF ProgramsOf
<1>5. c \in Call
  BY <1>1, <1>2, <1>3, <1>4 DEF NewCall, Call
<1>6. /\ c.index = Len(hooks[h]) /\ c.list = hooks[h] /\ c.ran = << >>
      /\ c.due = ProgramsOf(hooks[h])
  BY DEF NewCall
<1>7. Faithful(c)
  BY <1>2, <1>3, <1>6 DEF Faithful
<1> QED BY <1>5, <1>7 DEF FaithfulCall

LEMMA ReturnFaithful ==
  ASSUME NEW call \in FaithfulCall, NEW r \in Return
  PROVE  [call EXCEPT !.rets = Append(@, r)] \in FaithfulCall
<1> DEFINE c == [call EXCEPT !.rets = Append(@, r)]
<1>1. call \in Call /\ Append(call.rets, r) \in Seq(Return)
  BY CallFacts, AppendProperties
<1>2. c \in Call
  BY <1>1 DEF Call
<1>3. c.due = call.due /\ c.list = call.list /\ c.index = call.index /\ c.ran = call.ran
  BY <1>1 DEF Call
<1>4. Faithful(c)
  BY <1>3, CallFacts DEF Faithful
<1> QED BY <1>2, <1>4 DEF FaithfulCall

\* A faithful call that has come to its end has called each program of its copy once.
LEMMA FaithfulCalls ==
  ASSUME NEW call \in FaithfulCall
  PROVE  call.index = 0 => \A p \in call.due : CalledOnce(call, p)
<1> DEFINE n == Len(call.list)
           ran == call.ran
<1>1. /\ call.list \in Single /\ n \in Nat /\ call.index \in Nat
      /\ Len(ran) = n - call.index /\ DOMAIN ran = 1..Len(ran)
      /\ call.due = ProgramsOf(call.list)
      /\ \A k \in 1..Len(ran) : ran[k] = call.list[n + 1 - k]
  BY CallFacts DEF Faithful
<1>2. ASSUME NEW k \in DOMAIN ran
      PROVE  n + 1 - k \in 1..n /\ ran[k] = call.list[n + 1 - k]
  <2>1. k \in 1..Len(ran)
    BY <1>1, Zenon
  <2>2. n + 1 - k \in 1..n
    BY <1>1, <2>1
  <2>3. ran[k] = call.list[n + 1 - k]
    BY <1>1, <2>1, Zenon
  <2> QED BY <2>2, <2>3, Zenon
<1>3. \A i, j \in 1..n : call.list[i] = call.list[j] => i = j
  BY <1>1, SingleFacts
<1>4. ASSUME call.index = 0, NEW p \in call.due
      PROVE  CalledOnce(call, p)
  <2>1. PICK i \in 1..n : call.list[i] = p
    <3>1. DOMAIN call.list = 1..n
      BY <1>1, SingleFacts
    <3>2. p \in {call.list[i] : i \in 1..n}
      BY <1>1, <3>1 DEF ProgramsOf
    <3> QED BY <3>2
  <2>2. n + 1 - i \in DOMAIN ran
    BY <1>1, <1>4
  <2>3. ASSUME NEW j \in DOMAIN ran
        PROVE  ran[j] = p <=> j = n + 1 - i
    <3>1. n + 1 - j \in 1..n /\ ran[j] = call.list[n + 1 - j]
      BY <1>2
    <3>2. ran[j] = p <=> n + 1 - j = i
      BY <1>3, <2>1, <3>1
    <3>3. n + 1 - j = i <=> j = n + 1 - i
      BY <1>1
    <3> QED BY <3>2, <3>3
  <2> QED BY <2>2, <2>3 DEF CalledOnce
<1> QED BY <1>4

-----------------------------------------------------------------------------
(* The stack of runs and calls *)

LEMMA StackOps ==
  ASSUME NEW F, frames \in Seq(F), frames # << >>
  PROVE  /\ Len(frames) \in 1..Len(frames) /\ DOMAIN frames = 1..Len(frames)
         /\ Top \in F /\ Front(frames) \in Seq(F)
         /\ \A f \in F : WithTop(f) \in Seq(F)
         /\ \A n \in 1..Len(frames) : SubSeq(frames, 1, n - 1) \in Seq(F)
<1>1. Len(frames) \in 1..Len(frames) /\ DOMAIN frames = 1..Len(frames)
  BY EmptySeq, LenProperties
<1>2. Top \in F
  BY <1>1, ElementOfSeq DEF Top, Last
<1>3. Front(frames) \in Seq(F)
  BY FrontProperties DEF Front
<1>4. \A f \in F : WithTop(f) \in Seq(F)
  BY <1>1, ExceptSeq DEF WithTop
<1>5. ASSUME NEW n \in 1..Len(frames)
      PROVE  SubSeq(frames, 1, n - 1) \in Seq(F)
  <2>1. n - 1 \in Int /\ \A i \in 1..(n - 1) : frames[i] \in F
    BY <1>1, ElementOfSeq
  <2> QED BY <2>1, SubSeqProperties
<1> QED BY <1>1, <1>2, <1>3, <1>4, <1>5

LEMMA FrameKinds ==
  ASSUME NEW P, NEW f \in Frame(P)
  PROVE  /\ f.kind = "run" => f.prog \in P
         /\ f.kind = "call" => f \in FaithfulCall
<1>1. CASE f \in Running(P)
  BY <1>1 DEF Running
<1>2. CASE f \in FaithfulCall
  BY <1>2, CallFacts
<1>3. CASE f = [kind |-> "aborted"]
  BY <1>3
<1> QED BY <1>1, <1>2, <1>3 DEF Frame

LEMMA RunInFrame ==
  ASSUME NEW P, NEW p \in P
  PROVE  Run(p) \in Frame(P)
BY DEF Run, Running, Frame

\* Programs that go on living or exit keep every frame sound.
LEMMA FramesKept ==
  ASSUME frames' \in Seq(Frame(Living)), Living \subseteq Living'
  PROVE  frames' \in Seq(Frame(Living'))
<1>1. Frame(Living) \subseteq Frame(Living')
  BY DEF Frame, Running, FaithfulCall, Call, Faithful, Single, Return
<1> QED BY <1>1, SeqMonotonic

THEOREM InitIInv == Init => IInv
<1> SUFFICES ASSUME Init
             PROVE  IInv
  OBVIOUS
<1>1. hooks \in [HookTypes -> Single] /\ \A h \in HookTypes : hooks[h] = << >>
  BY EmptySingle DEF Init, NoHooks
<1>2. frames \in Seq(Frame(Living))
  BY EmptySeq DEF Init
<1>3. NoneDangling
  BY <1>1, EmptySingle DEF NoneDangling
<1> QED BY <1>1, <1>2, <1>3 DEF IInv

\* Unregistering a program keeps the lists ordered and leaves it in none of them.
LEMMA UnregisteredProperties ==
  ASSUME hooks \in [HookTypes -> Single], NEW p
  PROVE  /\ Unregistered(p) \in [HookTypes -> Single]
         /\ \A h \in HookTypes :
              ProgramsOf(Unregistered(p)[h]) \subseteq ProgramsOf(hooks[h]) \ {p}
<1>1. \A h \in HookTypes :
        /\ WithoutHook(hooks[h], p) \in Single
        /\ ProgramsOf(WithoutHook(hooks[h], p)) \subseteq ProgramsOf(hooks[h]) \ {p}
  BY WithoutHookProperties
<1> QED BY <1>1 DEF Unregistered

THEOREM StepIInv == IInv /\ [Next]_vars => IInv'
<1> SUFFICES ASSUME IInv, [Next]_vars
             PROVE  IInv'
  OBVIOUS
<1>0. /\ hooks \in [HookTypes -> Single]
      /\ frames \in Seq(Frame(Living))
      /\ \A h \in HookTypes : ProgramsOf(hooks[h]) \cap freed = {}
  BY DEF IInv, NoneDangling
\* What follows when the lists and the freed programs stay as they are.
<1>a. ASSUME UNCHANGED <<hooks, freed>>, frames' \in Seq(Frame(Living)), exited \subseteq exited'
      PROVE  IInv'
  <2>1. Living \subseteq Living'
    BY <1>a DEF Living
  <2>2. frames' \in Seq(Frame(Living'))
    BY <1>a, <2>1, FramesKept
  <2>3. NoneDangling'
    BY <1>0, <1>a DEF NoneDangling
  <2> QED BY <1>0, <1>a, <2>2, <2>3 DEF IInv
\* And when the stack and who lives stay, with no freed program in the new lists.
<1>b. ASSUME hooks' \in [HookTypes -> Single], UNCHANGED frames, Living' = Living,
             \A h \in HookTypes : ProgramsOf(hooks'[h]) \cap freed' = {}
      PROVE  IInv'
  <2>1. frames' \in Seq(Frame(Living'))
    BY <1>0, <1>b
  <2>2. NoneDangling'
    BY <1>b DEF NoneDangling
  <2> QED BY <1>b, <2>1, <2>2 DEF IInv
<1>c. ASSUME InRun
      PROVE  /\ Top \in Frame(Living) /\ Top.prog \in Living
             /\ Front(frames) \in Seq(Frame(Living))
  BY <1>0, <1>c, StackOps, FrameKinds DEF InRun
<1>d. ASSUME InCall
      PROVE  /\ Top \in FaithfulCall /\ Front(frames) \in Seq(Frame(Living))
             /\ Frame(Living) # {}
             /\ \A f \in FaithfulCall : f \in Frame(Living) /\ WithTop(f) \in Seq(Frame(Living))
  <2>1. /\ Top \in Frame(Living) /\ Top.kind = "call" /\ Front(frames) \in Seq(Frame(Living))
        /\ \A f \in Frame(Living) : WithTop(f) \in Seq(Frame(Living))
    BY <1>0, <1>d, StackOps DEF InCall
  <2>2. \A f \in FaithfulCall : f \in Frame(Living)
    BY DEF Frame
  <2> QED BY <2>1, <2>2, FrameKinds
<1>e. ASSUME AtHook
      PROVE  /\ InCall /\ Top \in FaithfulCall /\ NextHook(Top) \in Programs
             /\ Called(Top) \in FaithfulCall
             /\ WithTop(Called(Top)) \in Seq(Frame(Living))
  <2>1. InCall /\ Top.index > 0
    BY <1>e DEF AtHook
  <2>2. Top \in FaithfulCall
    BY <1>d, <2>1
  <2>3. NextHook(Top) \in Programs /\ Called(Top) \in FaithfulCall
    BY <2>1, <2>2, NextHookType, CalledFaithful
  <2> QED BY <1>d, <2>1, <2>2, <2>3
<1>1. ASSUME NEW h \in HookTypes, NEW spec \in BOOLEAN, Register(h, spec)
      PROVE  IInv'
  <2> DEFINE p == Top.prog
  <2>1. /\ InRun /\ p \notin exited /\ p \notin ProgramsOf(hooks[h])
        /\ hooks' = [hooks EXCEPT ![h] = Placed(@, p, spec)]
        /\ UNCHANGED <<exited, freed, frames>>
    BY <1>1 DEF Register, Acting, lives
  <2>2. p \in Programs \ freed
    BY <1>c, <2>1 DEF Living
  <2> HIDE DEF p
  <2>3. /\ Placed(hooks[h], p, spec) \in Single
        /\ ProgramsOf(Placed(hooks[h], p, spec)) \subseteq ProgramsOf(hooks[h]) \cup {p}
    BY <1>0, <2>1, <2>2, PlacedProperties
  <2>4. hooks' \in [HookTypes -> Single]
    BY <1>0, <2>1, <2>3
  <2>5. \A k \in HookTypes : ProgramsOf(hooks'[k]) \subseteq ProgramsOf(hooks[k]) \cup {p}
    BY <1>0, <2>1, <2>3
  <2>6. \A k \in HookTypes : ProgramsOf(hooks'[k]) \cap freed' = {}
    BY <1>0, <2>1, <2>2, <2>5
  <2>7. Living' = Living
    BY <2>1 DEF Living
  <2> QED BY <1>b, <2>1, <2>4, <2>6, <2>7
<1>2. ASSUME NEW p \in Programs \ Global, ScriptRemove(p)
      PROVE  IInv'
  <2>1. hooks' = Unregistered(p) /\ UNCHANGED <<exited, freed, frames>>
    BY <1>2 DEF ScriptRemove, lives
  <2>2. Living' = Living
    BY <2>1 DEF Living
  <2> QED BY <1>0, <1>b, <2>1, <2>2, UnregisteredProperties
<1>3. ASSUME NEW p \in Programs \ Global, UpdatePrograms(p)
      PROVE  IInv'
  <2>1. /\ hooks' = Unregistered(p) /\ freed' = freed \cup {p} /\ p \in exited
        /\ UNCHANGED <<exited, frames>>
    BY <1>3 DEF UpdatePrograms
  <2>2. Living' = Living
    BY <2>1 DEF Living
  <2> QED BY <1>0, <1>b, <2>1, <2>2, UnregisteredProperties
<1>4. ASSUME LeaveMap \/ LoadGame
      PROVE  IInv'
  <2>1. hooks' = NoHooks /\ frames' = << >>
    BY <1>4 DEF LeaveMap, LoadGame, AtRest
  <2>2. hooks' \in [HookTypes -> Single] /\ \A h \in HookTypes : hooks'[h] = << >>
    BY <2>1, EmptySingle DEF NoHooks
  <2>3. frames' \in Seq(Frame(Living'))
    BY <2>1, EmptySeq
  <2>4. NoneDangling'
    BY <2>2, EmptySingle DEF NoneDangling
  <2> QED BY <2>2, <2>3, <2>4 DEF IInv
<1>5. ASSUME NEW p \in Programs, RunProgram(p)
      PROVE  IInv'
  <2>1. frames' = <<Run(p)>> /\ UNCHANGED <<hooks, freed, exited>> /\ p \in Living
    BY <1>5 DEF RunProgram, lives, Living
  <2>2. frames' \in Seq(Frame(Living))
    BY <2>1, RunInFrame
  <2> QED BY <1>a, <2>1, <2>2
<1>6. ASSUME ProgramReturns
      PROVE  IInv'
  BY <1>6, <1>a, <1>c DEF ProgramReturns, lives
<1>7. ASSUME ProgramFails
      PROVE  IInv'
  BY <1>7, <1>a, <1>c DEF ProgramFails, Acting
<1>8. ASSUME SetReturn
      PROVE  IInv'
  <2>1. PICK at \in CallsAt :
          /\ InRun /\ UNCHANGED <<hooks, freed, exited>>
          /\ frames' = [frames EXCEPT ![at].rets =
                         Append(@, [prog |-> Top.prog, from |-> Len(frames)])]
    BY <1>8 DEF SetReturn, Acting, lives
  <2> DEFINE r == [prog |-> Top.prog, from |-> Len(frames)]
             c == [frames[at] EXCEPT !.rets = Append(@, r)]
  <2>2. at \in 1..Len(frames) /\ frames[at].kind = "call" /\ Len(frames) \in Nat
    BY <1>0, LenProperties DEF CallsAt
  <2>3. frames[at] \in FaithfulCall
    BY <1>0, <2>2, ElementOfSeq, FrameKinds
  <2>4. r \in Return
    BY <1>c, <2>1, <2>2 DEF Return, Living
  <2> HIDE DEF r
  <2>5. c \in Frame(Living)
    BY <2>3, <2>4, ReturnFaithful DEF Frame
  <2>6. frames' = [frames EXCEPT ![at] = c]
    BY <2>1 DEF r
  <2> HIDE DEF c
  <2>7. frames' \in Seq(Frame(Living))
    BY <1>0, <2>2, <2>5, <2>6, ExceptSeq
  <2> QED BY <1>a, <2>1, <2>7
<1>9. ASSUME NEW h \in HookTypes, NEW same \in BOOLEAN, Raise(h, same)
      PROVE  IInv'
  <2>1. /\ UNCHANGED <<hooks, freed, exited>>
        /\ frames' = frames \/ frames' = Append(frames, NewCall(h))
    BY <1>9 DEF Raise, lives
  <2>2. NewCall(h) \in Frame(Living)
    BY <1>0, NewCallFaithful DEF Frame
  <2>3. frames' \in Seq(Frame(Living))
    BY <1>0, <2>1, <2>2, AppendProperties
  <2> QED BY <1>a, <2>1, <2>3
<1>10. ASSUME CallHandler
       PROVE  IInv'
  <2>1. /\ AtHook /\ NextHook(Top) \notin exited \cup freed
        /\ frames' = Append(WithTop(Called(Top)), Run(NextHook(Top)))
        /\ UNCHANGED <<hooks, freed, exited>>
    BY <1>10 DEF CallHandler, lives
  <2>2. NextHook(Top) \in Living
    BY <1>e, <2>1 DEF Living
  <2>3. Run(NextHook(Top)) \in Frame(Living)
    BY <2>2, RunInFrame
  <2>4. frames' \in Seq(Frame(Living))
    BY <1>e, <2>1, <2>3, AppendProperties
  <2> QED BY <1>a, <2>1, <2>4
<1>11. ASSUME CallExited
       PROVE  IInv'
  BY <1>11, <1>a, <1>e DEF CallExited
<1>12. ASSUME CallOverflows
       PROVE  IInv'
  <2>1. /\ AtHook /\ UNCHANGED <<hooks, freed>>
        /\ \/ \E current \in Runs :
                /\ frames' = SubSeq(frames, 1, current - 1)
                /\ exited' = exited \cup {frames[current].prog}
           \/ frames' = <<[kind |-> "aborted"]>> /\ UNCHANGED exited
    BY <1>12 DEF CallOverflows
  <2>2. frames # << >>
    BY <1>e, <2>1 DEF InCall
  <2>3. CASE \E current \in Runs :
               /\ frames' = SubSeq(frames, 1, current - 1)
               /\ exited' = exited \cup {frames[current].prog}
    <3>1. PICK current \in Runs :
            /\ frames' = SubSeq(frames, 1, current - 1)
            /\ exited' = exited \cup {frames[current].prog}
      BY <2>3
    <3>2. current \in 1..Len(frames)
      BY <1>0, LenProperties DEF Runs
    <3>3. frames' \in Seq(Frame(Living))
      BY <1>0, <2>2, <3>1, <3>2, StackOps
    <3> QED BY <1>a, <2>1, <3>1, <3>3
  <2>4. CASE frames' = <<[kind |-> "aborted"]>> /\ UNCHANGED exited
    <3>1. [kind |-> "aborted"] \in Frame(Living)
      BY DEF Frame
    <3>2. frames' \in Seq(Frame(Living))
      BY <2>4, <3>1
    <3> QED BY <1>a, <2>1, <2>4, <3>2
  <2> QED BY <2>1, <2>3, <2>4
<1>13. ASSUME CallFreed
       PROVE  IInv'
  <2>1. /\ AtHook /\ UNCHANGED <<hooks, freed, exited>>
        /\ frames' \in {<<[kind |-> "aborted"]>>, WithTop(Called(Top))}
    BY <1>13 DEF CallFreed, lives
  <2>2. [kind |-> "aborted"] \in Frame(Living)
    BY DEF Frame
  <2>3. CASE frames' = <<[kind |-> "aborted"]>>
    <3>1. frames' \in Seq(Frame(Living))
      BY <2>2, <2>3
    <3> QED BY <1>a, <2>1, <3>1
  <2>4. CASE frames' = WithTop(Called(Top))
    BY <1>a, <1>e, <2>1, <2>4
  <2> QED BY <2>1, <2>3, <2>4
<1>14. ASSUME CallEnds
       PROVE  IInv'
  BY <1>14, <1>a, <1>d DEF CallEnds, lives
<1>15. ASSUME UNCHANGED vars
       PROVE  IInv'
  BY <1>0, <1>15, <1>a DEF vars
<1> QED
  BY <1>1, <1>2, <1>3, <1>4, <1>5, <1>6, <1>7, <1>8, <1>9, <1>10, <1>11, <1>12, <1>13, <1>14,
     <1>15 DEF Next

THEOREM SpecIInv == Spec => []IInv
BY InitIInv, StepIInv, PTL DEF Spec

\* In every reachable state no list of hooks names a program that was freed, so that no
\* call of a hook begins with one in its copy of the list (scriptHooksUnregisterProgram).
THEOREM SpecNoneDangling == Spec => []NoneDangling
<1>1. IInv => NoneDangling
  BY DEF IInv
<1> QED BY <1>1, SpecIInv, PTL

\* Every call of a hook that has come to its end has called everyone who was registered
\* when it began exactly once, hence whoever is still registered (ScriptHookCall::call).
THEOREM SpecHandlersCalled == Spec => []HandlersCalled
<1>1. ASSUME IInv
      PROVE  HandlersCalled
  <2>1. ASSUME NEW i \in CallsAt
        PROVE  frames[i] \in FaithfulCall
    <3>1. frames \in Seq(Frame(Living))
      BY <1>1 DEF IInv
    <3>2. i \in 1..Len(frames) /\ frames[i].kind = "call"
      BY <3>1, LenProperties DEF CallsAt
    <3> QED BY <3>1, <3>2, ElementOfSeq, FrameKinds
  <2> QED BY <2>1, FaithfulCalls DEF HandlersCalled
<1> QED BY <1>1, SpecIInv, PTL

-----------------------------------------------------------------------------
(* Who has the last word                                                   *)
(* What a call was told comes from the run above it, which is of the hook  *)
(* called last; and callStack, whose entries lie in the order of their     *)
(* addresses and may be of calls long jumped over, has one for every call, *)
(* so that its last entry is the call below that run or of none at all.    *)

Entry == [at : Nat, hook : HookTypes]
Sorted(entries) ==
  \A j, k \in 1..Len(entries) : j < k => entries[j].at <= entries[k].at
Entered(stack, entries) ==
  \A i \in 1..Len(stack) :
    stack[i].kind = "call" => \E k \in 1..Len(entries) : entries[k].at = i

Told(call, i) ==
  call.kind = "call" =>
    \A k \in DOMAIN call.rets : call.rets[k] = [prog |-> Last(call.ran), from |-> i + 1]
Atop(call, run) ==
  run.kind = "run" => call.kind = "call" /\ Last(call.ran) = run.prog
Well(stack) ==
  \A i \in 1..Len(stack) : Told(stack[i], i) /\ (i > 1 => Atop(stack[i - 1], stack[i]))

Words ==
  /\ callStack \in Seq(Entry) /\ Sorted(callStack) /\ Entered(frames, callStack)
  /\ Well(frames)

\* Frames are taken off the stack.
LEMMA CutWell ==
  ASSUME NEW F, NEW stack \in Seq(F), Well(stack), NEW n \in 0..Len(stack)
  PROVE  /\ SubSeq(stack, 1, n) \in Seq(F) /\ Len(SubSeq(stack, 1, n)) = n
         /\ \A i \in 1..n : SubSeq(stack, 1, n)[i] = stack[i]
         /\ Well(SubSeq(stack, 1, n))
<1> DEFINE r == SubSeq(stack, 1, n)
<1>1. Len(stack) \in Nat /\ n \in Nat /\ 1..n \subseteq 1..Len(stack)
  BY LenProperties
<1>2. \A i \in 1..n : stack[i] \in F
  BY <1>1, ElementOfSeq
<1>3. r \in Seq(F) /\ Len(r) = n /\ \A i \in 1..n : r[i] = stack[i]
  BY <1>1, <1>2, SubSeqProperties
<1> HIDE DEF r
<1>4. Well(r)
  <2> SUFFICES ASSUME NEW i \in 1..Len(r)
               PROVE  Told(r[i], i) /\ (i > 1 => Atop(r[i - 1], r[i]))
    BY DEF Well
  <2>1. i \in 1..Len(stack) /\ r[i] = stack[i] /\ i \in Nat
    BY <1>1, <1>3
  <2>2. i > 1 => r[i - 1] = stack[i - 1]
    BY <1>3
  <2>3. Told(stack[i], i) /\ (i > 1 => Atop(stack[i - 1], stack[i]))
    BY <2>1 DEF Well
  <2> QED BY <2>1, <2>2, <2>3
<1> QED BY <1>3, <1>4 DEF r

\* A frame comes on top.
LEMMA PushWell ==
  ASSUME NEW F, NEW stack \in Seq(F), Well(stack), NEW f \in F,
         Told(f, Len(stack) + 1), stack = << >> \/ Atop(stack[Len(stack)], f)
  PROVE  /\ Append(stack, f) \in Seq(F) /\ Len(Append(stack, f)) = Len(stack) + 1
         /\ \A i \in 1..Len(stack) : Append(stack, f)[i] = stack[i]
         /\ Append(stack, f)[Len(stack) + 1] = f
         /\ Well(Append(stack, f))
<1> DEFINE r == Append(stack, f)
           n == Len(stack)
<1>1. n \in Nat /\ (stack = << >> => n = 0)
  BY LenProperties, EmptySeq
<1>2. /\ r \in Seq(F) /\ Len(r) = n + 1 /\ \A i \in 1..n : r[i] = stack[i]
      /\ r[n + 1] = f
  BY AppendProperties
<1> HIDE DEF r
<1>3. Well(r)
  <2> SUFFICES ASSUME NEW i \in 1..Len(r)
               PROVE  Told(r[i], i) /\ (i > 1 => Atop(r[i - 1], r[i]))
    BY DEF Well
  <2>1. CASE i \in 1..n
    <3>1. r[i] = stack[i] /\ (i > 1 => r[i - 1] = stack[i - 1])
      BY <1>1, <1>2, <2>1
    <3>2. Told(stack[i], i) /\ (i > 1 => Atop(stack[i - 1], stack[i]))
      BY <2>1 DEF Well
    <3> QED BY <3>1, <3>2
  <2>2. CASE i = n + 1
    <3>1. r[i] = f /\ (i > 1 => n \in 1..n /\ r[i - 1] = stack[n] /\ stack # << >>)
      BY <1>1, <1>2, <2>2
    <3> QED BY <2>2, <3>1
  <2> QED BY <1>1, <1>2, <2>1, <2>2
<1> QED BY <1>2, <1>3 DEF r

\* A call changes in its place: the run above it, if there is one, is of its last hook.
Changed(stack, n, f) == [stack EXCEPT ![n] = f]
Below(f, stack, n) == n < Len(stack) => Atop(f, stack[n + 1])

LEMMA ChangeWell ==
  ASSUME NEW F, NEW stack \in Seq(F), Well(stack), NEW n \in 1..Len(stack), NEW f \in F,
         f.kind = "call", Told(f, n), Below(f, stack, n)
  PROVE  /\ Changed(stack, n, f) \in Seq(F) /\ Len(Changed(stack, n, f)) = Len(stack)
         /\ \A i \in 1..Len(stack) : i # n => Changed(stack, n, f)[i] = stack[i]
         /\ Changed(stack, n, f)[n] = f
         /\ Well(Changed(stack, n, f))
<1> DEFINE r == Changed(stack, n, f)
<1>1. Len(stack) \in Nat /\ DOMAIN stack = 1..Len(stack)
  BY LenProperties
<1>2. r \in Seq(F) /\ Len(r) = Len(stack)
  BY ExceptSeq DEF Changed
<1>3. r[n] = f /\ \A i \in 1..Len(stack) : i # n => r[i] = stack[i]
  BY <1>1 DEF Changed
<1> HIDE DEF r
<1>4. Well(r)
  <2> SUFFICES ASSUME NEW i \in 1..Len(stack)
               PROVE  Told(r[i], i) /\ (i > 1 => Atop(r[i - 1], r[i]))
    BY <1>2 DEF Well
  <2>1. Told(stack[i], i) /\ (i > 1 => Atop(stack[i - 1], stack[i]))
    BY DEF Well
  <2>2. CASE i = n
    BY <1>3, <2>2 DEF Atop
  <2>3. CASE i = n + 1
    BY <1>1, <1>3, <2>1, <2>3 DEF Below
  <2>4. CASE i # n /\ i # n + 1
    <3>1. r[i] = stack[i] /\ (i > 1 => i - 1 \in 1..Len(stack) /\ r[i - 1] = stack[i - 1])
      BY <1>1, <1>3, <2>4
    <3> QED BY <2>1, <3>1
  <2> QED BY <2>2, <2>3, <2>4
<1> QED BY <1>2, <1>3, <1>4 DEF r

\* No call comes and every call that stays keeps its entry.
LEMMA EnteredKept ==
  ASSUME NEW stack, NEW r, NEW entries, Entered(stack, entries),
         \A i \in 1..Len(r) :
           r[i].kind = "call" => i \in 1..Len(stack) /\ stack[i].kind = "call"
  PROVE  Entered(r, entries)
BY DEF Entered

LEMMA PrefixSorted ==
  ASSUME NEW entries \in Seq(Entry), Sorted(entries), NEW n \in 0..Len(entries)
  PROVE  /\ SubSeq(entries, 1, n) \in Seq(Entry) /\ Len(SubSeq(entries, 1, n)) = n
         /\ \A k \in 1..n : SubSeq(entries, 1, n)[k] = entries[k]
         /\ Sorted(SubSeq(entries, 1, n))
<1> DEFINE r == SubSeq(entries, 1, n)
<1>1. Len(entries) \in Nat /\ n \in Nat /\ 1..n \subseteq 1..Len(entries)
  BY LenProperties
<1>2. \A k \in 1..n : entries[k] \in Entry
  BY <1>1, ElementOfSeq
<1>3. r \in Seq(Entry) /\ Len(r) = n /\ \A k \in 1..n : r[k] = entries[k]
  BY <1>1, <1>2, SubSeqProperties
<1> HIDE DEF r
<1>4. Sorted(r)
  BY <1>1, <1>3 DEF Sorted
<1> QED BY <1>3, <1>4 DEF r

\* What is left of callStack lies at or below the new call, and has every call's entry.
LEMMA DrainedWords ==
  ASSUME IInv, Words, NEW same \in BOOLEAN
  PROVE  /\ Drained(same) \in Seq(Entry) /\ Sorted(Drained(same))
         /\ Entered(frames, Drained(same))
         /\ \A k \in 1..Len(Drained(same)) : Drained(same)[k].at <= Len(frames) + 1
<1> DEFINE here == Len(frames) + 1
           stale == {k \in DOMAIN callStack :
                       callStack[k].at > here \/ (~same /\ callStack[k].at = here)}
<1>1. /\ callStack \in Seq(Entry) /\ Len(callStack) \in Nat
      /\ DOMAIN callStack = 1..Len(callStack) /\ Len(frames) \in Nat
      /\ \A k \in 1..Len(callStack) : callStack[k].at \in Nat
  <2>1. callStack \in Seq(Entry) /\ frames \in Seq(Frame(Living))
    BY DEF Words, IInv
  <2>2. \A k \in 1..Len(callStack) : callStack[k] \in Entry
    BY <2>1, ElementOfSeq
  <2> QED BY <2>1, <2>2, LenProperties DEF Entry
<1>2. CASE stale = {}
  <2>1. Drained(same) = callStack
    BY <1>2 DEF Drained
  <2>2. \A k \in 1..Len(callStack) : callStack[k].at <= here
    BY <1>1, <1>2
  <2> QED BY <2>1, <2>2 DEF Words
<1>3. CASE stale # {}
  <2> DEFINE m == Min(stale)
  <2>1. stale \in SUBSET Nat
    BY <1>1
  <2>2. m \in stale /\ \A k \in stale : m <= k
    BY <1>3, <2>1, MinIs
  <2>3. Drained(same) = SubSeq(callStack, 1, m - 1)
    BY <1>3 DEF Drained
  <2> HIDE DEF m
  <2>4. m \in 1..Len(callStack) /\ callStack[m].at >= here
    BY <1>1, <2>2
  <2> DEFINE r == SubSeq(callStack, 1, m - 1)
  <2>5. /\ r \in Seq(Entry) /\ Len(r) = m - 1 /\ Sorted(r)
        /\ \A k \in 1..(m - 1) : r[k] = callStack[k]
    BY <1>1, <2>4, PrefixSorted DEF Words
  <2> HIDE DEF r
  <2>6. \A k \in 1..(m - 1) : callStack[k].at <= here
    BY <1>1, <2>2, <2>4
  <2>7. Entered(frames, r)
    <3> SUFFICES ASSUME NEW i \in 1..Len(frames), frames[i].kind = "call"
                 PROVE  \E k \in 1..Len(r) : r[k].at = i
      BY DEF Entered
    <3>1. PICK k \in 1..Len(callStack) : callStack[k].at = i
      BY DEF Words, Entered
    <3>2. k < m
      <4>1. ~(m < k) /\ k # m
        BY <1>1, <2>4, <3>1 DEF Words, Sorted
      <4> QED BY <2>4, <4>1
    <3> QED BY <2>4, <2>5, <3>1, <3>2
  <2> QED BY <2>3, <2>4, <2>5, <2>6, <2>7 DEF r
<1> QED BY <1>2, <1>3

LEMMA InitWords == Init => Words
<1> SUFFICES ASSUME Init
             PROVE  Words
  OBVIOUS
<1>1. callStack \in Seq(Entry) /\ Len(callStack) = 0 /\ Len(frames) = 0 /\ 1..0 = {}
  BY EmptySeq DEF Init
<1> QED BY <1>1 DEF Words, Sorted, Entered, Well

\* The entry of a new call comes last.
LEMMA EntryAppended ==
  ASSUME NEW entries \in Seq(Entry), Sorted(entries), NEW e \in Entry,
         \A k \in 1..Len(entries) : entries[k].at <= e.at
  PROVE  /\ Append(entries, e) \in Seq(Entry) /\ Sorted(Append(entries, e))
         /\ \A k \in 1..Len(entries) :
              k \in 1..Len(Append(entries, e)) /\ Append(entries, e)[k] = entries[k]
         /\ \E k \in 1..Len(Append(entries, e)) : Append(entries, e)[k] = e
<1> DEFINE r == Append(entries, e)
           n == Len(entries)
<1>1. n \in Nat /\ \A k \in 1..n : entries[k] \in Entry
  BY LenProperties, ElementOfSeq
<1>2. /\ r \in Seq(Entry) /\ Len(r) = n + 1 /\ r[n + 1] = e
      /\ \A k \in 1..n : r[k] = entries[k]
  BY AppendProperties
<1> HIDE DEF r
<1>3. Sorted(r)
  <2> SUFFICES ASSUME NEW j \in 1..(n + 1), NEW k \in 1..(n + 1), j < k
               PROVE  r[j].at <= r[k].at
    BY <1>2 DEF Sorted
  <2>1. j \in 1..n /\ (k \in 1..n \/ k = n + 1)
    BY <1>1
  <2> QED BY <1>2, <2>1 DEF Sorted
<1>4. \A k \in 1..n : k \in 1..Len(r)
  BY <1>1, <1>2
<1>5. n + 1 \in 1..Len(r)
  BY <1>1, <1>2
<1> QED BY <1>2, <1>3, <1>4, <1>5 DEF r

LEMMA CalledFacts ==
  ASSUME IInv, AtHook
  PROVE  /\ Len(frames) \in 1..Len(frames) /\ Called(Top) \in FaithfulCall
         /\ frames[Len(frames)].kind = "call"
         /\ Called(Top).kind = "call" /\ Called(Top).rets = << >>
         /\ Last(Called(Top).ran) = NextHook(Top)
<1>1. frames \in Seq(Frame(Living)) /\ frames # << >> /\ Top.kind = "call" /\ Top.index > 0
  BY DEF IInv, AtHook, InCall
<1>2. Len(frames) \in 1..Len(frames) /\ Top = frames[Len(frames)] /\ Top \in FaithfulCall
  BY <1>1, StackOps, FrameKinds DEF Top, Last
<1>3. Called(Top) \in FaithfulCall /\ NextHook(Top) \in Programs
  BY <1>1, <1>2, CalledFaithful, NextHookType
<1>4. Top \in Call /\ Top.ran \in Seq(Programs)
  BY <1>2, CallFacts
<1>5. /\ Called(Top).kind = "call" /\ Called(Top).rets = << >>
      /\ Called(Top).ran = Append(Top.ran, NextHook(Top))
  BY <1>1, <1>4 DEF Called, Call
<1>6. Last(Append(Top.ran, NextHook(Top))) = NextHook(Top)
  BY <1>3, <1>4, AppendProperties, LenProperties DEF Last
<1> QED BY <1>1, <1>2, <1>3, <1>5, <1>6

LEMMA StepWords == IInv /\ Words /\ [Next]_vars => Words'
<1> SUFFICES ASSUME IInv, Words, [Next]_vars
             PROVE  Words'
  OBVIOUS
<1> DEFINE F == Frame(Living)
           n == Len(frames)
<1>0. /\ frames \in Seq(F) /\ n \in Nat /\ DOMAIN frames = 1..n
      /\ callStack \in Seq(Entry) /\ Len(callStack) \in Nat
      /\ DOMAIN callStack = 1..Len(callStack)
      /\ Sorted(callStack) /\ Entered(frames, callStack) /\ Well(frames)
  BY LenProperties DEF IInv, Words
<1>a. ASSUME UNCHANGED <<frames, callStack>>
      PROVE  Words'
  BY <1>a DEF Words
\* What follows when no call comes and the entries stay.
<1>b. ASSUME Well(frames'), UNCHANGED callStack,
             \A i \in 1..Len(frames') :
               frames'[i].kind = "call" => i \in 1..n /\ frames[i].kind = "call"
      PROVE  Words'
  <2>1. Entered(frames', callStack)
    BY <1>0, <1>b, EnteredKept
  <2> QED BY <1>0, <1>b, <2>1 DEF Words
<1>c. ASSUME NEW m \in 0..n, frames' = SubSeq(frames, 1, m), UNCHANGED callStack
      PROVE  Words'
  <2> DEFINE r == SubSeq(frames, 1, m)
  <2>1. Len(r) = m /\ Well(r) /\ \A i \in 1..m : r[i] = frames[i]
    BY <1>0, CutWell
  <2> HIDE DEF r
  <2>2. frames' = r
    BY <1>c DEF r
  <2>3. \A i \in 1..m : i \in 1..n
    BY <1>0
  <2> QED BY <1>b, <1>c, <2>1, <2>2, <2>3
<1>1. ASSUME NEW h \in HookTypes, NEW spec \in BOOLEAN, Register(h, spec)
      PROVE  Words'
  BY <1>1, <1>a DEF Register, calls
<1>2. ASSUME NEW p \in Programs \ Global, ScriptRemove(p) \/ UpdatePrograms(p)
      PROVE  Words'
  BY <1>2, <1>a DEF ScriptRemove, UpdatePrograms, calls
<1>3. ASSUME LeaveMap \/ LoadGame
      PROVE  Words'
  <2>1. frames = << >> /\ frames' = << >> /\ callStack' = << >>
    BY <1>3 DEF LeaveMap, LoadGame, AtRest
  <2>2. callStack' \in Seq(Entry) /\ Len(callStack') = 0 /\ Len(frames') = 0 /\ 1..0 = {}
    BY <2>1, EmptySeq
  <2> QED BY <2>2 DEF Words, Sorted, Entered, Well
<1>4. ASSUME NEW p \in Programs, RunProgram(p)
      PROVE  Words'
  <2>1. frames = << >> /\ frames' = <<Run(p)>> /\ UNCHANGED callStack
    BY <1>4 DEF RunProgram, AtRest, calls
  <2>2. Len(frames') = 1 /\ frames'[1].kind = "run"
    BY <2>1 DEF Run
  <2>3. Well(frames')
    BY <2>2 DEF Well, Told
  <2> QED BY <1>b, <2>1, <2>2, <2>3
<1>5. ASSUME ProgramReturns \/ ProgramFails
      PROVE  Words'
  <2>1. frames # << >> /\ frames' = Front(frames) /\ UNCHANGED callStack
    BY <1>5 DEF ProgramReturns, ProgramFails, Acting, InRun, calls
  <2>2. n - 1 \in 0..n /\ frames' = SubSeq(frames, 1, n - 1)
    BY <1>0, <2>1, EmptySeq DEF Front
  <2> QED BY <1>c, <2>1, <2>2
<1>6. ASSUME SetReturn
      PROVE  Words'
  <2> DEFINE at == Last(callStack).at
             r == [prog |-> Top.prog, from |-> n]
  <2>1. /\ frames # << >> /\ Top.kind = "run" /\ callStack # << >> /\ at \in CallsAt
        /\ frames' = [frames EXCEPT ![at].rets = Append(@, r)] /\ UNCHANGED callStack
    BY <1>6 DEF SetReturn, Acting, InRun, calls
  <2>2. /\ at \in 1..n /\ frames[at].kind = "call" /\ n \in 1..n /\ Top = frames[n]
        /\ Len(callStack) \in 1..Len(callStack) /\ at = callStack[Len(callStack)].at
    BY <1>0, <2>1, EmptySeq DEF CallsAt, Top, Last
  <2>3. frames[at] \in FaithfulCall /\ Top \in F /\ Top.prog \in Programs
    BY <1>0, <2>1, <2>2, ElementOfSeq, FrameKinds DEF Living
  \* The last entry is not below the call under the run, which is not below another.
  <2>4. n > 1 /\ at = n - 1
    <3> HIDE DEF at
    <3>1. at # n
      BY <2>1, <2>2
    <3>2. n > 1
      BY <1>0, <2>2, <3>1
    <3>3. Atop(frames[n - 1], frames[n])
      BY <1>0, <2>2, <3>2 DEF Well
    <3>4. n - 1 \in 1..n /\ frames[n - 1].kind = "call"
      BY <1>0, <2>1, <2>2, <3>2, <3>3 DEF Atop
    <3>5. PICK k \in 1..Len(callStack) : callStack[k].at = n - 1
      BY <1>0, <3>4 DEF Entered
    <3>6. n - 1 <= at
      BY <1>0, <2>2, <3>5 DEF Sorted
    <3> QED BY <1>0, <2>2, <3>1, <3>2, <3>6
  <2> HIDE DEF at
  <2>5. r \in Return
    BY <1>0, <2>3 DEF Return
  <2>6. PICK c \in FaithfulCall :
          /\ c = [frames[at] EXCEPT !.rets = Append(@, r)]
          /\ c.kind = "call" /\ c.rets = Append(frames[at].rets, r) /\ c.ran = frames[at].ran
    <3> DEFINE w == [frames[at] EXCEPT !.rets = Append(@, r)]
    <3>1. w \in FaithfulCall
      BY <2>3, <2>5, ReturnFaithful
    <3>2. frames[at] \in Call
      BY <2>3, CallFacts
    <3> w \in FaithfulCall /\ w.kind = "call" /\ w.rets = Append(frames[at].rets, r) /\ w.ran = frames[at].ran
      BY <2>2, <3>1, <3>2 DEF Call
    <3> WITNESS w \in FaithfulCall
    <3> QED OBVIOUS
  <2>7. Atop(frames[at], frames[n]) /\ Told(frames[at], at)
    BY <1>0, <2>2, <2>4 DEF Well
  <2>8. Last(c.ran) = Top.prog
    BY <2>1, <2>2, <2>6, <2>7 DEF Atop
  <2>9. Told(c, at)
    <3>1. /\ frames[at].rets \in Seq(Return) /\ Len(frames[at].rets) \in Nat
          /\ DOMAIN frames[at].rets = 1..Len(frames[at].rets)
      BY <2>3, CallFacts, LenProperties
    <3> SUFFICES ASSUME NEW k \in DOMAIN c.rets
                 PROVE  c.rets[k] = [prog |-> Last(c.ran), from |-> at + 1]
      BY DEF Told
    <3>2. /\ DOMAIN c.rets = 1..(Len(frames[at].rets) + 1)
          /\ \A j \in 1..Len(frames[at].rets) : c.rets[j] = frames[at].rets[j]
          /\ c.rets[Len(frames[at].rets) + 1] = r
      BY <2>5, <2>6, <3>1, AppendProperties, LenProperties
    <3>3. CASE k \in 1..Len(frames[at].rets)
      BY <2>2, <2>6, <2>7, <3>1, <3>2, <3>3 DEF Told
    <3>4. CASE k = Len(frames[at].rets) + 1
      <4>1. at + 1 = n
        BY <1>0, <2>2, <2>4
      <4> QED BY <2>8, <3>2, <3>4, <4>1
    <3> QED BY <3>1, <3>2, <3>3, <3>4
  <2>10. Atop(c, frames[at + 1])
    BY <1>0, <2>1, <2>2, <2>4, <2>6, <2>8 DEF Atop
  <2>11. frames' = Changed(frames, at, c)
    BY <2>1, <2>6 DEF Changed
  <2>12. c \in F
    BY DEF Frame
  <2> HIDE DEF r
  <2>13. c.kind = "call" /\ Below(c, frames, at)
    BY <2>6, <2>10 DEF Below
  <2>14. PICK w : w = Changed(frames, at, c)
    OBVIOUS
  <2>15. Well(w) /\ Len(w) = n /\ \A i \in 1..n : i # at => w[i] = frames[i]
    BY <1>0, <2>2, <2>9, <2>12, <2>13, <2>14, ChangeWell
  <2>16. frames' = w
    BY <2>11, <2>14
  <2>17. \A i \in 1..n : w[i].kind = "call" => frames[i].kind = "call"
    BY <2>2, <2>15
  <2> QED BY <1>b, <2>1, <2>15, <2>16, <2>17
<1>7. ASSUME NEW h \in HookTypes, NEW same \in BOOLEAN, Raise(h, same)
      PROVE  Words'
  <2> DEFINE d == Drained(same)
             e == [at |-> n + 1, hook |-> h]
  <2>1. /\ d \in Seq(Entry) /\ Sorted(d) /\ Entered(frames, d)
        /\ \A k \in 1..Len(d) : d[k].at <= n + 1
    BY DrainedWords
  <2>2. \/ callStack' = d /\ UNCHANGED frames
        \/ callStack' = Append(d, e) /\ frames' = Append(frames, NewCall(h))
    BY <1>7 DEF Raise
  <2> HIDE DEF d
  <2>3. CASE callStack' = d /\ UNCHANGED frames
    BY <1>0, <2>1, <2>3 DEF Words
  <2>4. CASE callStack' = Append(d, e) /\ frames' = Append(frames, NewCall(h))
    <3> DEFINE c == NewCall(h)
    <3>1. c \in F /\ c.kind = "call" /\ c.rets = << >>
      BY NewCallFaithful DEF NewCall, Frame, IInv
    <3> HIDE DEF c
    <3>2. Told(c, n + 1) /\ Atop(frames[n], c)
      BY <3>1 DEF Told, Atop
    <3>3. /\ Len(Append(frames, c)) = n + 1 /\ Well(Append(frames, c))
          /\ \A i \in 1..n : Append(frames, c)[i] = frames[i]
      BY <1>0, <3>1, <3>2, PushWell
    <3>4. e \in Entry /\ e.at = n + 1
      BY <1>0 DEF Entry
    <3> HIDE DEF e
    <3>5. /\ Append(d, e) \in Seq(Entry) /\ Sorted(Append(d, e))
          /\ \A k \in 1..Len(d) : k \in 1..Len(Append(d, e)) /\ Append(d, e)[k] = d[k]
          /\ \E k \in 1..Len(Append(d, e)) : Append(d, e)[k] = e
      BY <2>1, <3>4, EntryAppended
    <3>6. Entered(Append(frames, c), Append(d, e))
      <4> SUFFICES ASSUME NEW i \in 1..(n + 1), Append(frames, c)[i].kind = "call"
                   PROVE  \E k \in 1..Len(Append(d, e)) : Append(d, e)[k].at = i
        BY <3>3 DEF Entered
      <4>1. CASE i = n + 1
        BY <3>4, <3>5, <4>1
      <4>2. CASE i \in 1..n
        <5>1. PICK k \in 1..Len(d) : d[k].at = i
          BY <2>1, <3>3, <4>2 DEF Entered
        <5> QED BY <3>5, <5>1
      <4> QED BY <1>0, <4>1, <4>2
    <3> QED BY <2>4, <3>3, <3>5, <3>6 DEF Words, c
  <2> QED BY <2>2, <2>3, <2>4
\* A call that goes on to its next hook forgets what it was told.
<1>d. ASSUME AtHook
      PROVE  LET W == WithTop(Called(Top))
             IN /\ W \in Seq(F) /\ Len(W) = n /\ Well(W)
                /\ n \in 1..n /\ W[n].kind = "call" /\ Last(W[n].ran) = NextHook(Top)
                /\ \A i \in 1..n : W[i].kind = "call" => frames[i].kind = "call"
  <2> DEFINE c == Called(Top)
             W == Changed(frames, n, c)
  <2>1. /\ n \in 1..n /\ c \in FaithfulCall /\ frames[n].kind = "call"
        /\ c.kind = "call" /\ c.rets = << >> /\ Last(c.ran) = NextHook(Top)
    BY <1>d, CalledFacts
  <2>2. WithTop(c) = W
    BY DEF WithTop, Changed
  <2> HIDE DEF c
  <2>3. Told(c, n)
    BY <2>1 DEF Told
  <2>4. c \in F /\ Below(c, frames, n)
    BY <1>0, <2>1 DEF Frame, Below
  <2>5. /\ W \in Seq(F) /\ Len(W) = n /\ Well(W) /\ W[n] = c
        /\ \A i \in 1..n : i # n => W[i] = frames[i]
    <3>1. frames \in Seq(F) /\ Well(frames) /\ n \in 1..Len(frames) /\ c.kind = "call"
      BY <1>0, <2>1
    <3> QED BY <3>1, <2>3, <2>4, ChangeWell
  <2> HIDE DEF W
  <2>6. /\ W \in Seq(F) /\ Len(W) = n /\ Well(W)
        /\ n \in 1..n /\ W[n].kind = "call" /\ Last(W[n].ran) = NextHook(Top)
        /\ \A i \in 1..n : W[i].kind = "call" => frames[i].kind = "call"
    BY <2>1, <2>5
  <2> QED BY <2>2, <2>6 DEF c
<1>8. ASSUME CallHandler
      PROVE  Words'
  <2> DEFINE W == WithTop(Called(Top))
             run == Run(NextHook(Top))
  <2>1. AtHook /\ frames' = Append(W, run) /\ UNCHANGED callStack
    BY <1>8 DEF CallHandler, calls
  <2>2. /\ W \in Seq(F) /\ Len(W) = n /\ Well(W) /\ n \in 1..n
        /\ W[n].kind = "call" /\ Last(W[n].ran) = NextHook(Top)
        /\ \A i \in 1..n : W[i].kind = "call" => frames[i].kind = "call"
    BY <1>d, <2>1
  <2>3. run.kind = "run" /\ run.prog = NextHook(Top)
    BY DEF Run
  <2>4. run \in F
    <3>1. NextHook(Top) \in Living
      <4>1. frames \in Seq(F) /\ frames # << >> /\ Top.kind = "call" /\ Top.index > 0
        BY <1>0, <2>1 DEF AtHook, InCall
      <4>2. NextHook(Top) \in Programs
        BY <4>1, StackOps, FrameKinds, NextHookType
      <4> QED BY <1>8, <4>2 DEF CallHandler, AtHook, Living
    <3> QED BY <3>1, RunInFrame
  <2> HIDE DEF W, run
  <2>5. Told(run, n + 1) /\ Atop(W[n], run)
    BY <2>2, <2>3 DEF Told, Atop
  <2>6. /\ Len(Append(W, run)) = n + 1 /\ Well(Append(W, run))
        /\ \A i \in 1..n : Append(W, run)[i] = W[i]
        /\ Append(W, run)[n + 1] = run
    BY <2>2, <2>4, <2>5, PushWell
  <2>7. \A i \in 1..(n + 1) : Append(W, run)[i].kind = "call" => i \in 1..n /\ frames[i].kind = "call"
    BY <1>0, <2>2, <2>3, <2>6
  <2> QED BY <1>b, <2>1, <2>6, <2>7
<1>9. ASSUME CallExited
      PROVE  Words'
  <2> DEFINE W == WithTop(Called(Top))
  <2>1. AtHook /\ frames' = W /\ UNCHANGED callStack
    BY <1>9 DEF CallExited, calls
  <2>2. Len(W) = n /\ Well(W) /\ \A i \in 1..n : W[i].kind = "call" => frames[i].kind = "call"
    BY <1>d, <2>1
  <2> HIDE DEF W
  <2> QED BY <1>b, <2>1, <2>2
<1>10. ASSUME CallOverflows
       PROVE  Words'
  <2>1. UNCHANGED callStack
    BY <1>10 DEF CallOverflows, calls
  <2>2. CASE \E current \in Runs : frames' = SubSeq(frames, 1, current - 1)
    <3>1. PICK current \in Runs : frames' = SubSeq(frames, 1, current - 1)
      BY <2>2
    <3>2. current - 1 \in 0..n
      BY <1>0 DEF Runs
    <3> QED BY <1>c, <2>1, <3>1, <3>2
  <2>3. CASE frames' = <<[kind |-> "aborted"]>>
    <3>1. Len(frames') = 1 /\ frames'[1].kind = "aborted"
      BY <2>3
    <3>2. Well(frames')
      BY <3>1 DEF Well, Told
    <3> QED BY <1>b, <2>1, <3>1, <3>2
  <2> QED BY <1>10, <2>2, <2>3 DEF CallOverflows
<1>11. ASSUME CallFreed
       PROVE  Words'
  <2> DEFINE W == WithTop(Called(Top))
  <2>1. /\ AtHook /\ UNCHANGED callStack
        /\ frames' \in {<<[kind |-> "aborted"]>>, W}
    BY <1>11 DEF CallFreed, calls
  <2>2. Len(W) = n /\ Well(W) /\ \A i \in 1..n : W[i].kind = "call" => frames[i].kind = "call"
    BY <1>d, <2>1
  <2> HIDE DEF W
  <2>3. CASE frames' = W
    BY <1>b, <2>1, <2>2, <2>3
  <2>4. CASE frames' = <<[kind |-> "aborted"]>>
    <3>1. Len(frames') = 1 /\ frames'[1].kind = "aborted"
      BY <2>4
    <3>2. Well(frames')
      BY <3>1 DEF Well, Told
    <3> QED BY <1>b, <2>1, <3>1, <3>2
  <2> QED BY <2>1, <2>3, <2>4
<1>12. ASSUME CallEnds
       PROVE  Words'
  <2> DEFINE r == SubSeq(frames, 1, n - 1)
             last == Len(callStack)
             entries == SubSeq(callStack, 1, last - 1)
  <2>1. /\ frames # << >> /\ Top.kind = "call"
        /\ frames' = r /\ callStack' = entries
    BY <1>12 DEF CallEnds, InCall, Front
  <2>2. n \in 1..n /\ n - 1 \in 0..n /\ frames[n].kind = "call"
    BY <1>0, <2>1, EmptySeq DEF Top, Last
  <2>3. Len(r) = n - 1 /\ Well(r) /\ \A i \in 1..(n - 1) : r[i] = frames[i]
    BY <1>0, <2>2, CutWell
  <2>4. PICK top \in 1..last : callStack[top].at = n
    BY <1>0, <2>2 DEF Entered
  <2>5. last - 1 \in 0..last
    BY <1>0, <2>4
  <2>6. /\ entries \in Seq(Entry) /\ Len(entries) = last - 1 /\ Sorted(entries)
        /\ \A k \in 1..(last - 1) : entries[k] = callStack[k]
    BY <1>0, <2>5, PrefixSorted
  <2> HIDE DEF r, entries
  <2>7. Entered(r, entries)
    <3> SUFFICES ASSUME NEW i \in 1..(n - 1), frames[i].kind = "call"
                 PROVE  \E k \in 1..(last - 1) : callStack[k].at = i
      BY <2>3, <2>6 DEF Entered
    <3>1. PICK k \in 1..last : callStack[k].at = i
      BY <1>0 DEF Entered
    <3>2. ~(top < k) /\ top # k
      BY <1>0, <2>4, <3>1 DEF Sorted
    <3> QED BY <1>0, <2>4, <3>1, <3>2
  <2> QED BY <2>1, <2>3, <2>6, <2>7 DEF Words
<1>13. ASSUME UNCHANGED vars
       PROVE  Words'
  BY <1>13, <1>a DEF vars, calls
<1> QED
  BY <1>1, <1>2, <1>3, <1>4, <1>5, <1>6, <1>7, <1>8, <1>9, <1>10, <1>11, <1>12,
     <1>13 DEF Next

\* What a call was told, at any time, comes from the handler it called last, whatever
\* handlers raise, and though calls that a fatal error jumped over leave their entries in
\* callStack (ScriptHookCall::call, drainStaleEntries, addReturnValueFromScript).
THEOREM SpecLastWord == Spec => []LastWord
<1>1. ASSUME IInv, Words
      PROVE  LastWord
  <2>1. frames \in Seq(Frame(Living)) /\ Well(frames)
    BY <1>1 DEF IInv, Words
  <2>2. \A i \in CallsAt : i \in 1..Len(frames) /\ frames[i].kind = "call"
    BY <2>1, LenProperties DEF CallsAt
  <2> QED BY <2>1, <2>2 DEF LastWord, Well, Told
<1> QED BY <1>1, InitIInv, StepIInv, InitWords, StepWords, PTL DEF Spec
=============================================================================
