-------------------------- MODULE CombatTurnsProofs --------------------------
(***************************************************************************)
(* Proofs about CombatTurns for any number of critters, fights, strikes    *)
(* and removals.                                                           *)
(*                                                                         *)
(* The list is Listing in every state of a fight: it names those who take  *)
(* part once each, its parts fit in it, and only the dead are behind them. *)
(* Living says what the two loops between rounds have done so far, Walked  *)
(* how far the round has come, and Grudges that whoever is not listed      *)
(* remembers nobody.                                                       *)
(***************************************************************************)
EXTENDS CombatTurns, SequenceEdits, FiniteSetTheorems

Listing ==
  /\ IsInjective(line) /\ Range(line) = members /\ com + noncom <= Len(line)
  /\ \A i \in (com + noncom + 1)..Len(line) : shape[line[i]] = "dead"

\* None of those who act is dead when a round begins.
Living ==
  /\ phase = "dropping" => \A i \in 1..com : i < cur => shape[line[i]] # "dead"
  /\ phase = "parking" \/ (phase = "round" /\ acted = {}) =>
       \A i \in 1..com : shape[line[i]] # "dead"
  /\ phase = "turn" => acted # {}

\* Where the walk of a round goes on after the turn, unless it is clamped.
Reached == cur - (savedCom - com)
ActedTo(n) == \A i \in 1..com : i <= n => line[i] \in acted
ActedFirst == \A i, j \in 1..com : i < j /\ line[j] \in acted => line[i] \in acted
\* In the walk of a round, those who had a turn come first; in every later part
\* everyone who acts had one.
InTurn(loop) == phase = "turn" /\ back = loop
Walked ==
  /\ phase = "turn" => cur <= Cardinality(Critters)
  /\ InTurn("round") => com <= savedCom /\ cur <= savedCom
  /\ phase = "joining" => com < cur
  /\ InTurn("joining") => com <= cur
  /\ ~cutShort /\ ~headLeft =>
       /\ phase = "round" => ActedTo(cur - 1) /\ ActedFirst
       /\ InTurn("round") => ActedTo(Reached) /\ ActedFirst
       /\ phase = "joining" \/ InTurn("joining") => ActedTo(com)

Grudges ==
  /\ \A c \in Critters : ~Fighting \/ c \notin members => target[c] = Nobody
  /\ phase = "turn" => actor \in Critters /\ (actor \in members \/ shape[actor] \in {"dead", "gone"})
  /\ shape[Dude] # "gone"

IInv ==
  /\ TypeOK /\ Grudges
  /\ Fighting => Listing /\ Living /\ Walked

-----------------------------------------------------------------------------
(* Sequences without repetitions *)

LEMMA ChangedTwice ==
  ASSUME NEW S, NEW l \in Seq(S), NEW i \in 1..Len(l), NEW j \in 1..Len(l),
         NEW x \in S, NEW y \in S
  PROVE  LET r == [l EXCEPT ![i] = x, ![j] = y]
         IN /\ r \in Seq(S) /\ Len(r) = Len(l)
            /\ \A k \in 1..Len(l) : r[k] = IF k = j THEN y ELSE IF k = i THEN x ELSE l[k]
<1> DEFINE r == [k \in 1..Len(l) |-> IF k = j THEN y ELSE IF k = i THEN x ELSE l[k]]
<1>1. l \in [1..Len(l) -> S] /\ Len(l) \in Nat
  BY LenProperties
<1>2. [l EXCEPT ![i] = x, ![j] = y] = r
  BY <1>1
<1>3. r \in Seq(S) /\ Len(r) = Len(l)
  BY <1>1, IsASeq
<1> QED BY <1>2, <1>3

LEMMA ChangedThrice ==
  ASSUME NEW S, NEW l \in Seq(S), NEW i \in 1..Len(l), NEW j \in 1..Len(l), NEW k \in 1..Len(l),
         NEW x \in S, NEW y \in S, NEW z \in S
  PROVE  LET r == [l EXCEPT ![i] = x, ![j] = y, ![k] = z]
         IN /\ r \in Seq(S) /\ Len(r) = Len(l)
            /\ \A n \in 1..Len(l) :
                 r[n] = IF n = k THEN z ELSE IF n = j THEN y ELSE IF n = i THEN x ELSE l[n]
<1> DEFINE r == [n \in 1..Len(l) |->
                   IF n = k THEN z ELSE IF n = j THEN y ELSE IF n = i THEN x ELSE l[n]]
<1>1. l \in [1..Len(l) -> S] /\ Len(l) \in Nat
  BY LenProperties
<1>2. [l EXCEPT ![i] = x, ![j] = y, ![k] = z] = r
  BY <1>1
<1>3. r \in Seq(S) /\ Len(r) = Len(l)
  BY <1>1, IsASeq
<1> QED BY <1>2, <1>3

\* What is only moved about is neither lost nor doubled.
LEMMA Rearranged ==
  ASSUME NEW S, NEW l \in Seq(S), IsInjective(l), NEW r \in Seq(S), Len(r) = Len(l),
         NEW p \in [1..Len(l) -> 1..Len(l)], NEW q \in [1..Len(l) -> 1..Len(l)],
         \A k \in 1..Len(l) : p[q[k]] = k /\ q[p[k]] = k /\ r[k] = l[p[k]]
  PROVE  IsInjective(r) /\ Range(r) = Range(l)
<1>1. DOMAIN l = 1..Len(l) /\ DOMAIN r = 1..Len(l)
  BY LenProperties
<1>2. IsInjective(r)
  BY <1>1 DEF IsInjective
<1>3. Range(r) \subseteq Range(l)
  BY <1>1 DEF Range
<1>4. Range(l) \subseteq Range(r)
  BY <1>1 DEF Range
<1> QED BY <1>2, <1>3, <1>4

Swapped(r, l, i, j) ==
  /\ Len(r) = Len(l)
  /\ \A k \in 1..Len(l) : r[k] = IF k = j THEN l[i] ELSE IF k = i THEN l[j] ELSE l[k]
LEMMA Swapping ==
  ASSUME NEW S, NEW l \in Seq(S), IsInjective(l), NEW i \in 1..Len(l), NEW j \in 1..Len(l),
         NEW r \in Seq(S), Swapped(r, l, i, j)
  PROVE  IsInjective(r) /\ Range(r) = Range(l)
<1> DEFINE p == [k \in 1..Len(l) |-> IF k = j THEN i ELSE IF k = i THEN j ELSE k]
<1>1. /\ p \in [1..Len(l) -> 1..Len(l)]
      /\ \A k \in 1..Len(l) : p[p[k]] = k /\ p[p[k]] = k /\ r[k] = l[p[k]]
  BY DEF Swapped
<1>2. Len(r) = Len(l)
  BY DEF Swapped
<1> HIDE DEF p
<1> QED BY <1>1, <1>2, Rearranged

Rotated(r, l, i, j, k) ==
  /\ Len(r) = Len(l)
  /\ \A n \in 1..Len(l) :
       r[n] = IF n = k THEN l[i] ELSE IF n = j THEN l[k] ELSE IF n = i THEN l[j] ELSE l[n]
LEMMA Rotating ==
  ASSUME NEW S, NEW l \in Seq(S), IsInjective(l),
         NEW i \in 1..Len(l), NEW j \in 1..Len(l), NEW k \in 1..Len(l), i <= j, j <= k,
         NEW r \in Seq(S), Rotated(r, l, i, j, k)
  PROVE  IsInjective(r) /\ Range(r) = Range(l)
<1> DEFINE p == [n \in 1..Len(l) |-> IF n = k THEN i ELSE IF n = j THEN k ELSE IF n = i THEN j ELSE n]
           q == [n \in 1..Len(l) |-> IF n = i THEN k ELSE IF n = j THEN i ELSE IF n = k THEN j ELSE n]
<1>1. /\ p \in [1..Len(l) -> 1..Len(l)] /\ q \in [1..Len(l) -> 1..Len(l)]
      /\ \A n \in 1..Len(l) : p[q[n]] = n /\ q[p[n]] = n /\ r[n] = l[p[n]]
  BY DEF Rotated
<1>2. Len(r) = Len(l)
  BY DEF Rotated
<1> HIDE DEF p, q
<1> QED BY <1>1, <1>2, Rearranged

-----------------------------------------------------------------------------
(* What is always so in a fight *)

LEMMA RoomForAll ==
  ASSUME TurnsConstants, NEW l \in Seq(Critters), IsInjective(l)
  PROVE  Len(l) <= Cardinality(Critters)
<1>1. l \in Injection(1..Len(l), Critters)
  BY LenProperties DEF Injection, IsInjective
<1>2. Cardinality(1..Len(l)) <= Cardinality(Critters)
  BY <1>1, FS_Injection DEF TurnsConstants
<1> QED BY <1>2, FS_Interval, LenProperties

LEMMA SomeCritters ==
  ASSUME TurnsConstants
  PROVE  Cardinality(Critters) \in Nat \ {0}
BY FS_CardinalityType, FS_EmptySet DEF TurnsConstants

\* The one at a place of the list takes part.
LEMMA ListedTakesPart ==
  ASSUME IInv, Fighting, NEW i \in 1..Len(line)
  PROVE  line[i] \in Critters /\ line[i] \in members
<1>1. line \in Seq(Critters) /\ Range(line) = members
  BY DEF IInv, TypeOK, Listing
<1> QED BY <1>1, ElementOfSeq, LenProperties DEF Range

LEMMA PartsFit ==
  ASSUME TurnsConstants, IInv, Fighting
  PROVE  /\ line \in Seq(Critters) /\ IsInjective(line) /\ Range(line) = members
         /\ Len(line) \in Nat /\ com \in Nat /\ noncom \in Nat /\ com + noncom <= Len(line)
         /\ Len(line) <= Cardinality(Critters) /\ Cardinality(Critters) \in Nat \ {0}
         /\ cur \in Nat /\ cur >= 1 /\ savedCom \in Nat
<1>1. line \in Seq(Critters) /\ IsInjective(line) /\ Cardinality(Critters) \in Nat \ {0}
  BY SomeCritters DEF IInv, TypeOK, Listing
<1>2. Len(line) <= Cardinality(Critters) /\ Len(line) \in Nat
  BY <1>1, RoomForAll, LenProperties
<1> QED BY <1>1, <1>2 DEF IInv, TypeOK, Listing

-----------------------------------------------------------------------------
(* The steps *)

LEMMA NextTurnStep ==
  ASSUME TurnsConstants, IInv, NextTurn
  PROVE  IInv'
<1>0. Fighting
  BY DEF NextTurn, Fighting
<1>1. /\ phase = "round" /\ phase' = "turn" /\ actor' = line[cur] /\ back' = "round"
      /\ savedCom' = com /\ acted' = acted \cup {line[cur]} /\ cur <= com
      /\ UNCHANGED <<line, com, noncom, cur, shape, mood, target, members, cutShort, headLeft>>
  BY DEF NextTurn, TurnOf, parts
<1>2. line[cur] \in Critters /\ line[cur] \in members
  BY <1>0, <1>1, PartsFit, ListedTakesPart
<1>3. TypeOK'
  BY <1>1, <1>2 DEF IInv, TypeOK
<1>4. Grudges'
  BY <1>0, <1>1, <1>2 DEF IInv, Grudges, Fighting, Able
<1>5. Listing'
  BY <1>0, <1>1 DEF IInv, Listing
<1>6. Living'
  BY <1>1 DEF Living
<1>7. Walked'
  <2>1. cur <= Cardinality(Critters) /\ cur <= com
    BY <1>0, <1>1, PartsFit
  <2>2. ASSUME ~cutShort, ~headLeft
        PROVE  ActedTo(Reached)' /\ ActedFirst'
    <3>1. ActedTo(cur - 1) /\ ActedFirst
      BY <1>0, <1>1, <2>2 DEF IInv, Walked
    <3>2. \A i \in 1..com : i <= cur => line[i] \in acted'
      BY <1>0, <1>1, <3>1, PartsFit DEF ActedTo
    <3>3. Reached' = cur /\ com \in Nat /\ cur \in Nat
      BY <1>0, <1>1, PartsFit DEF Reached
    <3>4. ActedTo(Reached)'
      BY <1>1, <3>2, <3>3 DEF ActedTo
    <3>5. ActedFirst'
      <4>1. \A j \in 1..com : line[j] = line[cur] => j = cur
        BY <1>0, <1>1, PartsFit, LenProperties DEF IsInjective
      <4> QED BY <1>1, <3>1, <3>2, <3>3, <4>1 DEF ActedFirst
    <3> QED BY <3>4, <3>5
  <2> QED BY <1>1, <2>1, <2>2, PartsFit, <1>0 DEF Walked, InTurn
<1> QED BY <1>3, <1>4, <1>5, <1>6, <1>7 DEF IInv

LEMMA StrikeStep ==
  ASSUME TurnsConstants, IInv, NEW v \in Critters, NEW result \in {"up", "out", "dead"},
         Strike(v, result)
  PROVE  IInv'
<1>0. Fighting
  BY DEF Strike, Fighting
<1>1. /\ phase = "turn" /\ Able(actor) /\ v # actor /\ shape[v] \notin {"dead", "gone"}
      /\ v \in Acting \cup Waiting
      /\ shape' = [shape EXCEPT ![v] = result]
      /\ target' = Hates(Hates(target, actor, v), v, actor)
      /\ UNCHANGED <<phase, line, com, noncom, cur, actor, back, savedCom, members, acted, cutShort, headLeft>>
  BY DEF Strike, parts, history
<1>2. actor \in Critters /\ actor \in members
  BY <1>0, <1>1 DEF IInv, Grudges, Able
<1>3. v \in members
  <2>1. PICK i \in 1..(com + noncom) : line[i] = v
    BY <1>0, <1>1, PartsFit DEF Acting, Waiting, Prefix
  <2> QED BY <1>0, <2>1, PartsFit, ListedTakesPart
<1>4. shape' \in [Critters -> {"up", "out", "dead", "gone"}] /\ shape'[Dude] # "gone"
  BY <1>1 DEF IInv, TypeOK, Grudges
<1>5. mood' \in [Critters -> SUBSET {"engaging", "disengaging"}]
  <2>1. PICK near \in {{}, Acting \cup Waiting} :
          mood' = [c \in Critters |-> IF c \in near THEN mood[c] \cup {"engaging"} ELSE mood[c]]
    BY DEF Strike
  <2> QED BY <2>1 DEF IInv, TypeOK
<1>6. /\ target' \in [Critters -> Critters \cup {Nobody}]
      /\ \A c \in Critters : c # actor /\ c # v => target'[c] = target[c]
  BY <1>1, <1>2 DEF Hates, IInv, TypeOK
<1>7. TypeOK'
  BY <1>1, <1>4, <1>5, <1>6 DEF IInv, TypeOK
<1>8. Grudges'
  BY <1>0, <1>1, <1>2, <1>3, <1>4, <1>6 DEF IInv, Grudges, Fighting
<1>9. Listing'
  BY <1>0, <1>1 DEF IInv, Listing, TypeOK
<1>10. Living'
  BY <1>0, <1>1 DEF IInv, Living
<1>11. Walked'
  BY <1>0, <1>1 DEF IInv, Walked, InTurn, ActedTo, ActedFirst, Reached
<1> QED BY <1>7, <1>8, <1>9, <1>10, <1>11 DEF IInv

LEMMA FleeStep ==
  ASSUME TurnsConstants, IInv, Flee
  PROVE  IInv'
<1>1. /\ phase = "turn"
      /\ mood' = [mood EXCEPT ![actor] = @ \cup {"disengaging"}]
      /\ UNCHANGED <<phase, line, com, noncom, cur, actor, back, savedCom, shape, target,
                     members, acted, cutShort, headLeft>>
  BY DEF Flee, parts, history
<1>2. Fighting
  BY <1>1 DEF Fighting
<1>3. TypeOK'
  BY <1>1 DEF IInv, TypeOK
<1>4. Grudges'
  BY <1>1 DEF IInv, Grudges, Fighting, Able
<1>5. Listing' /\ Living' /\ Walked'
  BY <1>1, <1>2 DEF IInv, Listing, Living, Walked, InTurn, ActedTo, ActedFirst, Reached
<1> QED BY <1>3, <1>4, <1>5 DEF IInv

LEMMA WakeStep ==
  ASSUME TurnsConstants, IInv, NEW c \in Critters, Wake(c)
  PROVE  IInv'
<1>1. /\ phase \in {"peace", "turn"} /\ shape[c] = "out" /\ shape' = [shape EXCEPT ![c] = "up"]
      /\ mood' \in {mood, [mood EXCEPT ![c] = @ \cup {"engaging"}]}
      /\ UNCHANGED <<phase, line, com, noncom, cur, actor, back, savedCom, target,
                     members, acted, cutShort, headLeft>>
  BY DEF Wake, parts, history
<1>2. TypeOK'
  BY <1>1 DEF IInv, TypeOK
<1>3. Grudges'
  BY <1>1 DEF IInv, Grudges, Fighting, Able, TypeOK
<1>4. ASSUME Fighting
      PROVE  Listing' /\ Living' /\ Walked'
  <2>1. Listing'
    BY <1>1, <1>4 DEF IInv, Listing, TypeOK
  <2>2. Living' /\ Walked'
    BY <1>1, <1>4 DEF Fighting, IInv, Living, Walked, InTurn, ActedTo, ActedFirst, Reached
  <2> QED BY <2>1, <2>2
<1> QED BY <1>1, <1>2, <1>3, <1>4 DEF IInv, Fighting

LEMMA TakeOffStep ==
  ASSUME TurnsConstants, IInv, NEW v \in Critters, NEW result \in {"dead", "gone"},
         TakeOff(v, result)
  PROVE  IInv'
<1> DEFINE at == CHOOSE i \in DOMAIN line : line[i] = v
           old(i) == IF i < at THEN i ELSE i + 1
<1>0. Fighting /\ phase = "turn"
  BY DEF TakeOff, Fighting
<1>1. /\ v \in Range(line) /\ v # Dude
      /\ line' = RemoveAt(line, at)
      /\ com' = (IF at <= com THEN com - 1 ELSE com)
      /\ noncom' = (IF com < at /\ at <= com + noncom THEN noncom - 1 ELSE noncom)
      /\ shape' = [shape EXCEPT ![v] = result] /\ target' = [target EXCEPT ![v] = Nobody]
      /\ members' = members \ {v}
      /\ UNCHANGED <<phase, cur, actor, back, savedCom, mood, acted, cutShort, headLeft>>
  BY DEF TakeOff
<1>2. /\ line \in Seq(Critters) /\ IsInjective(line) /\ Range(line) = members
      /\ Len(line) \in Nat /\ com \in Nat /\ noncom \in Nat /\ com + noncom <= Len(line)
      /\ cur \in Nat /\ savedCom \in Nat
  BY <1>0, PartsFit
<1>3. at \in 1..Len(line) /\ line[at] = v
  BY <1>1, <1>2, LenProperties DEF Range
<1> HIDE DEF at
<1>4. /\ line' \in Seq(Critters) /\ Len(line') = Len(line) - 1
      /\ \A i \in 1..(Len(line) - 1) : line'[i] = IF i < at THEN line[i] ELSE line[i + 1]
  BY <1>1, <1>2, <1>3, RemoveAtProperties
<1>5. DOMAIN line = 1..Len(line) /\ DOMAIN line' = 1..(Len(line) - 1)
  BY <1>2, <1>4, LenProperties
<1>6. \A i, j \in 1..Len(line) : line[i] = line[j] => i = j
  BY <1>2, <1>5 DEF IsInjective
<1>61. \A i \in 1..(Len(line) - 1) : old(i) \in 1..Len(line) /\ old(i) # at /\ line'[i] = line[old(i)]
  BY <1>2, <1>3, <1>4
<1>62. \A i, j \in 1..(Len(line) - 1) : i < j => old(i) < old(j)
  BY <1>2, <1>3
<1>63. \A i \in 1..(Len(line) - 1) : i <= com' => old(i) <= com
  BY <1>1, <1>2, <1>3
<1> HIDE DEF old
<1>7. TypeOK'
  <2>1. com' \in Nat /\ noncom' \in Nat
    BY <1>1, <1>2, <1>3
  <2> QED BY <1>1, <1>4, <2>1 DEF IInv, TypeOK
<1>8. Grudges'
  BY <1>0, <1>1 DEF IInv, TypeOK, Grudges, Fighting
<1>9. Listing'
  <2>1. IsInjective(line')
    <3>1. ASSUME NEW i \in 1..(Len(line) - 1), NEW j \in 1..(Len(line) - 1), line'[i] = line'[j]
          PROVE  i = j
      <4>1. old(i) = old(j) /\ old(i) \in Int
        BY <1>6, <1>61, <3>1
      <4>2. ~(i < j) /\ ~(j < i)
        BY <1>62, <4>1
      <4> QED BY <1>2, <4>2
    <3> QED BY <1>5, <3>1 DEF IsInjective
  <2>2. Range(line') = members'
    <3>1. \A i \in 1..(Len(line) - 1) : line'[i] \in members \ {v}
      BY <1>2, <1>3, <1>5, <1>6, <1>61 DEF Range
    <3>2. ASSUME NEW c \in members \ {v}
          PROVE  \E i \in 1..(Len(line) - 1) : line'[i] = c
      <4>1. PICK k \in 1..Len(line) : line[k] = c
        BY <1>2, <1>5 DEF Range
      <4>2. CASE k < at
        BY <1>2, <1>3, <1>4, <4>1, <4>2
      <4>3. CASE k > at
        <5>1. k - 1 \in 1..(Len(line) - 1) /\ line'[k - 1] = line[k]
          BY <1>2, <1>3, <1>4, <4>3
        <5> QED BY <4>1, <5>1
      <4> QED BY <1>2, <1>3, <4>1, <4>2, <4>3
    <3> QED BY <1>1, <1>5, <3>1, <3>2 DEF Range
  <2>3. com' + noncom' <= Len(line')
    BY <1>1, <1>2, <1>3, <1>4
  <2>4. \A i \in (com' + noncom' + 1)..Len(line') : shape'[line'[i]] = "dead"
    <3> SUFFICES ASSUME NEW i \in (com' + noncom' + 1)..Len(line')
                 PROVE  shape'[line'[i]] = "dead"
      OBVIOUS
    <3>1. \A k \in (com + noncom + 1)..Len(line) : shape[line[k]] = "dead"
      BY <1>0 DEF IInv, Listing
    <3>2. PICK k \in (com + noncom + 1)..Len(line) : line'[i] = line[k] /\ k # at
      <4>1. CASE i < at
        BY <1>1, <1>2, <1>3, <1>4, <4>1
      <4>2. CASE i >= at
        BY <1>1, <1>2, <1>3, <1>4, <4>2
      <4> QED BY <1>1, <1>2, <1>3, <1>4, <4>1, <4>2
    <3>3. line[k] \in Critters /\ line[k] # v
      BY <1>2, <1>3, <1>6, <3>2, ElementOfSeq
    <3> QED BY <1>1, <3>1, <3>2, <3>3 DEF IInv, TypeOK
  <2> QED BY <2>1, <2>2, <2>3, <2>4 DEF Listing
<1>10. Living'
  BY <1>0, <1>1 DEF IInv, Living
<1>11. Walked'
  <2>1. InTurn("round") => com' <= savedCom' /\ cur' <= savedCom'
    BY <1>0, <1>1, <1>2, <1>3 DEF IInv, Walked
  <2>11. InTurn("joining") => com' <= cur'
    BY <1>0, <1>1, <1>2, <1>3 DEF IInv, Walked
  <2>2. ASSUME ~cutShort, ~headLeft, back = "round"
        PROVE  ActedTo(Reached)' /\ ActedFirst'
    <3>1. ActedTo(Reached) /\ ActedFirst
      BY <1>0, <2>2 DEF IInv, Walked, InTurn
    <3>2. ActedTo(Reached)'
      <4> SUFFICES ASSUME NEW i \in 1..com', i <= Reached'
                   PROVE  line'[i] \in acted
        BY <1>1 DEF ActedTo
      <4>1. i \in 1..(Len(line) - 1)
        BY <1>1, <1>2, <1>3
      <4>2. old(i) <= Reached
        BY <1>1, <1>2, <1>3, <4>1 DEF Reached, old
      <4>3. old(i) \in 1..com
        BY <1>2, <1>61, <1>63, <4>1
      <4> QED BY <1>61, <3>1, <4>1, <4>2, <4>3 DEF ActedTo
    <3>3. ActedFirst'
      <4> SUFFICES ASSUME NEW i \in 1..com', NEW j \in 1..com', i < j, line'[j] \in acted
                   PROVE  line'[i] \in acted
        BY <1>1 DEF ActedFirst
      <4>1. i \in 1..(Len(line) - 1) /\ j \in 1..(Len(line) - 1)
        BY <1>1, <1>2, <1>3
      <4>2. old(i) \in 1..com /\ old(j) \in 1..com /\ old(i) < old(j)
        BY <1>2, <1>61, <1>62, <1>63, <4>1
      <4> QED BY <1>61, <3>1, <4>1, <4>2 DEF ActedFirst
    <3> QED BY <3>2, <3>3
  <2>3. ASSUME ~cutShort, ~headLeft, back = "joining"
        PROVE  ActedTo(com)'
    <3>1. ActedTo(com)
      BY <1>0, <2>3 DEF IInv, Walked, InTurn
    <3> QED BY <1>1, <1>2, <1>3, <1>4, <3>1 DEF ActedTo
  <2> QED BY <1>0, <1>1, <2>1, <2>11, <2>2, <2>3 DEF IInv, Walked, InTurn
<1> QED BY <1>7, <1>8, <1>9, <1>10, <1>11 DEF IInv

LEMMA ResumeBounds ==
  ASSUME TurnsConstants, IInv, Fighting
  PROVE  Resume \in 1..cur
BY PartsFit DEF Resume

LEMMA TurnEndsStep ==
  ASSUME TurnsConstants, IInv, TurnEnds
  PROVE  IInv'
<1>1. /\ phase = "turn" /\ phase' = back /\ actor' = Nobody /\ back' = "round" /\ savedCom' = 0
      /\ cur' = (IF back = "round" THEN Resume ELSE cur) + 1
      /\ headLeft' = (headLeft \/ (back = "round" /\ HeadLeft))
      /\ UNCHANGED <<line, com, noncom, shape, mood, target, members, acted, cutShort>>
  BY DEF TurnEnds, TurnDone, parts
<1>2. Fighting /\ back \in {"round", "joining"}
  BY <1>1 DEF Fighting, IInv, TypeOK
<1>3. Resume \in 1..cur /\ cur \in Nat /\ cur <= Cardinality(Critters) /\ Cardinality(Critters) \in Nat
  BY <1>1, <1>2, ResumeBounds, PartsFit DEF IInv, Walked
<1>4. TypeOK'
  <2>1. cur' \in 1..(Cardinality(Critters) + 1)
    BY <1>1, <1>3
  <2>2. headLeft' \in BOOLEAN
    BY <1>1 DEF HeadLeft
  <2> QED BY <1>1, <1>2, <2>1, <2>2 DEF IInv, TypeOK
<1>5. Grudges'
  BY <1>1, <1>2 DEF IInv, Grudges, Fighting
<1>6. Listing'
  BY <1>1, <1>2 DEF IInv, Listing
<1>7. Living'
  BY <1>1, <1>2 DEF IInv, Living
<1>8. Walked'
  <2>1. ASSUME ~cutShort, ~headLeft', back = "round"
        PROVE  ActedTo(cur - 1)' /\ ActedFirst'
    <3>1. ActedTo(Reached) /\ ActedFirst /\ ~HeadLeft /\ com <= savedCom
      BY <1>1, <1>2, <2>1 DEF IInv, Walked, InTurn
    <3>2. ActedTo(Resume)
      <4>1. CASE Resume = Reached
        BY <3>1, <4>1
      <4>2. CASE Resume # Reached
        <5>1. Resume = 1
          BY <1>2, <3>1, <4>2, PartsFit DEF Resume, Reached
        <5>2. com > 0 => line[1] \in acted
          <6>1. ASSUME com > 0
                PROVE  \E j \in 1..com : line[j] \in acted
            BY <3>1, <6>1 DEF HeadLeft, Acting, Prefix
          <6> QED BY <1>2, <3>1, <6>1, PartsFit DEF ActedFirst
        <5> QED BY <1>2, <5>1, <5>2, PartsFit DEF ActedTo
      <4> QED BY <4>1, <4>2
    <3>3. cur' - 1 = Resume
      BY <1>1, <1>3, <2>1
    <3> QED BY <1>1, <3>1, <3>2, <3>3 DEF ActedTo, ActedFirst
  <2>2. ASSUME ~cutShort, ~headLeft', back = "joining"
        PROVE  ActedTo(com)'
    BY <1>1, <1>2, <2>2 DEF IInv, Walked, InTurn, ActedTo
  <2>3. back = "joining" => com' < cur'
    BY <1>1, <1>2, <1>3, PartsFit DEF IInv, Walked, InTurn
  <2> QED BY <1>1, <1>2, <2>1, <2>2, <2>3 DEF Walked, InTurn
<1> QED BY <1>4, <1>5, <1>6, <1>7, <1>8 DEF IInv

LEMMA BrokenStep ==
  ASSUME TurnsConstants, IInv, NEW place \in {cur, Resume}, Broken(place)
  PROVE  IInv'
<1>1. /\ phase = "turn" /\ phase' \in {"over", "round"} /\ cur' = place /\ cutShort' = TRUE
      /\ actor' = Nobody /\ back' = "round" /\ savedCom' = 0
      /\ UNCHANGED <<line, com, noncom, shape, mood, target, members, acted, headLeft>>
  BY DEF Broken, TurnDone, parts
<1>2. Fighting
  BY <1>1 DEF Fighting
<1>3. cur' \in 1..(Cardinality(Critters) + 1)
  <2>1. place \in 1..cur
    BY <1>2, ResumeBounds, PartsFit
  <2> QED BY <1>1, <2>1, <1>2, PartsFit DEF IInv, TypeOK
<1>4. TypeOK' /\ Grudges'
  BY <1>1, <1>2, <1>3 DEF IInv, TypeOK, Grudges, Fighting
<1>5. Listing' /\ Living'
  BY <1>1, <1>2 DEF IInv, Listing, Living
<1>6. Walked'
  BY <1>1 DEF Walked, InTurn
<1> QED BY <1>4, <1>5, <1>6 DEF IInv

LEMMA JoinAbortsStep ==
  ASSUME TurnsConstants, IInv, JoinAborts
  PROVE  IInv'
<1>1. /\ phase = "turn" /\ phase' = "over" /\ com' = 0 /\ noncom' = Len(line)
      /\ actor' = Nobody /\ back' = "round" /\ savedCom' = 0
      /\ UNCHANGED <<line, cur, shape, mood, target, members, acted, cutShort, headLeft>>
  BY DEF JoinAborts, TurnDone, history
<1>2. Fighting
  BY <1>1 DEF Fighting
<1>3. Len(line) \in Nat
  BY <1>2, PartsFit
<1>4. TypeOK' /\ Grudges'
  BY <1>1, <1>2, <1>3 DEF IInv, TypeOK, Grudges, Fighting
<1>5. Listing' /\ Living' /\ Walked'
  BY <1>1, <1>2, <1>3 DEF IInv, Listing, Living, Walked, InTurn
<1> QED BY <1>4, <1>5 DEF IInv

LEMMA RoundEndsStep ==
  ASSUME TurnsConstants, IInv, RoundEnds
  PROVE  IInv'
<1>1. /\ phase = "round" /\ cur > com /\ phase' = "joining" /\ cur' = com + 1
      /\ UNCHANGED <<line, com, noncom, actor, back, savedCom, shape, target,
                     members, acted, cutShort, headLeft>>
  BY DEF RoundEnds, parts, history
<1>2. Fighting
  BY <1>1 DEF Fighting
<1>3. mood' \in [Critters -> SUBSET {"engaging", "disengaging"}]
  <2>1. PICK near \in {{}, {c \in Range(line) : Team[c] = Team[Dude]}} :
          mood' = [c \in Critters |-> IF c \in near THEN mood[c] \cup {"engaging"} ELSE mood[c]]
    BY DEF RoundEnds
  <2> QED BY <2>1 DEF IInv, TypeOK
<1>4. cur' \in 1..(Cardinality(Critters) + 1)
  BY <1>1, <1>2, PartsFit
<1>5. TypeOK'
  BY <1>1, <1>3, <1>4 DEF IInv, TypeOK
<1>6. Grudges' /\ Listing' /\ Living'
  BY <1>1, <1>2 DEF IInv, Grudges, Fighting, Listing, Living
<1>7. Walked'
  <2>1. ~cutShort /\ ~headLeft => ActedTo(com)'
    BY <1>1, <1>2, PartsFit DEF IInv, Walked, ActedTo
  <2> QED BY <1>1, <1>2, <2>1, PartsFit DEF Walked, InTurn
<1> QED BY <1>5, <1>6, <1>7 DEF IInv

LEMMA JoinStep ==
  ASSUME TurnsConstants, IInv, Join
  PROVE  IInv'
<1>1. /\ phase = "joining" /\ cur <= com + noncom /\ phase' = "turn" /\ actor' = line[cur]
      /\ back' = "joining" /\ savedCom' = 0 /\ acted' = acted \cup {line[cur]}
      /\ line' = [line EXCEPT ![cur] = line[com + 1], ![com + 1] = line[cur]]
      /\ com' = com + 1 /\ noncom' = noncom - 1
      /\ mood' = [mood EXCEPT ![line[cur]] = {}]
      /\ UNCHANGED <<cur, shape, target, members, cutShort, headLeft>>
  BY DEF Join, Asking, TurnOf
<1>2. Fighting
  BY <1>1 DEF Fighting
<1>3. com < cur
  BY <1>1, <1>2 DEF IInv, Walked
<1>4. cur \in 1..Len(line) /\ com + 1 \in 1..Len(line)
  BY <1>1, <1>2, <1>3, PartsFit
<1>5. /\ line' \in Seq(Critters) /\ Swapped(line', line, cur, com + 1)
      /\ IsInjective(line') /\ Range(line') = Range(line)
  <2>1. line \in Seq(Critters) /\ IsInjective(line)
    BY <1>2, PartsFit
  <2>2. line[cur] \in Critters /\ line[com + 1] \in Critters
    BY <1>4, <2>1, ElementOfSeq
  <2>3. line' \in Seq(Critters) /\ Swapped(line', line, cur, com + 1)
    BY <1>1, <1>4, <2>1, <2>2, ChangedTwice DEF Swapped
  <2> QED BY <1>4, <2>1, <2>3, Swapping
<1>6. line[cur] \in Critters /\ line[cur] \in members
  BY <1>2, <1>4, ListedTakesPart
<1>7. TypeOK'
  <2>1. com' \in Nat /\ noncom' \in Nat
    BY <1>1, <1>2, <1>3, PartsFit
  <2> QED BY <1>1, <1>5, <1>6, <2>1 DEF IInv, TypeOK
<1>8. Grudges'
  BY <1>1, <1>2, <1>6 DEF IInv, Grudges, Fighting
<1>9. Listing'
  <2>1. com' + noncom' = com + noncom
    BY <1>1, <1>2, PartsFit
  <2>2. \A i \in (com + noncom + 1)..Len(line) : i \in 1..Len(line) /\ line'[i] = line[i]
    BY <1>1, <1>2, <1>3, <1>5, PartsFit DEF Swapped
  <2> QED BY <1>1, <1>2, <1>5, <2>1, <2>2 DEF IInv, Listing, Swapped
<1>10. Living'
  BY <1>1 DEF Living
<1>11. Walked'
  <2>1. cur <= Cardinality(Critters)
    BY <1>2, <1>4, PartsFit
  <2>2. ASSUME ~cutShort, ~headLeft
        PROVE  ActedTo(com)'
    <3>1. ActedTo(com)
      BY <1>1, <1>2, <2>2 DEF IInv, Walked
    <3> QED BY <1>1, <1>2, <1>3, <1>4, <1>5, <3>1, PartsFit DEF ActedTo, Swapped
  <2>3. com' <= cur'
    BY <1>1, <1>2, <1>3, PartsFit
  <2> QED BY <1>1, <2>1, <2>2, <2>3 DEF Walked, InTurn
<1> QED BY <1>7, <1>8, <1>9, <1>10, <1>11 DEF IInv

LEMMA StayOutStep ==
  ASSUME TurnsConstants, IInv, StayOut
  PROVE  IInv'
<1>1. /\ phase = "joining" /\ cur <= com + noncom /\ cur' = cur + 1
      /\ UNCHANGED <<phase, line, com, noncom, actor, back, savedCom, shape, mood, target,
                     members, acted, cutShort, headLeft>>
  BY DEF StayOut, Asking, parts, history
<1>2. Fighting
  BY <1>1 DEF Fighting
<1>3. cur' \in 1..(Cardinality(Critters) + 1)
  BY <1>1, <1>2, PartsFit
<1>4. TypeOK'
  BY <1>1, <1>3 DEF IInv, TypeOK
<1>5. Grudges' /\ Listing' /\ Living'
  BY <1>1, <1>2 DEF IInv, Grudges, Fighting, Listing, Living
<1>6. Walked'
  BY <1>1, <1>2, PartsFit DEF IInv, Walked, InTurn, ActedTo
<1> QED BY <1>4, <1>5, <1>6 DEF IInv

LEMMA JoinsEndStep ==
  ASSUME TurnsConstants, IInv, JoinsEnd
  PROVE  IInv'
<1>1. /\ phase = "joining" /\ phase' = "dropping" /\ cur' = 1
      /\ UNCHANGED <<line, com, noncom, actor, back, savedCom, shape, mood, target,
                     members, acted, cutShort, headLeft>>
  BY DEF JoinsEnd, parts, history
<1>2. Fighting
  BY <1>1 DEF Fighting
<1>3. TypeOK'
  BY <1>1, <1>2, PartsFit DEF IInv, TypeOK
<1>4. Grudges' /\ Listing' /\ Living' /\ Walked'
  BY <1>1, <1>2 DEF IInv, Grudges, Fighting, Listing, Living, Walked, InTurn
<1> QED BY <1>3, <1>4 DEF IInv

LEMMA DropDeadStep ==
  ASSUME TurnsConstants, IInv, DropDead
  PROVE  IInv'
<1>1. /\ phase = "dropping" /\ cur <= com /\ shape[line[cur]] = "dead" /\ com' = com - 1
      /\ line' = [line EXCEPT ![cur] = line[com], ![com] = line[com + noncom],
                             ![com + noncom] = line[cur]]
      /\ UNCHANGED <<phase, noncom, cur, actor, back, savedCom, shape, mood, target,
                     members, acted, cutShort, headLeft>>
  BY DEF DropDead, At, Dead, history
<1>2. Fighting
  BY <1>1 DEF Fighting
<1> DEFINE last == com + noncom
<1>3. /\ cur \in 1..Len(line) /\ com \in 1..Len(line) /\ last \in 1..Len(line)
      /\ cur <= com /\ com <= last /\ com' + noncom' = last - 1
      /\ line' = [line EXCEPT ![cur] = line[com], ![com] = line[last], ![last] = line[cur]]
  BY <1>1, <1>2, PartsFit
<1> HIDE DEF last
<1>4. /\ line' \in Seq(Critters) /\ Rotated(line', line, cur, com, last)
      /\ IsInjective(line') /\ Range(line') = Range(line)
  <2>1. line \in Seq(Critters) /\ IsInjective(line)
    BY <1>2, PartsFit
  <2>2. cur \in 1..Len(line) /\ com \in 1..Len(line) /\ last \in 1..Len(line) /\ cur <= com /\ com <= last
    BY <1>3
  <2>3. line[cur] \in Critters /\ line[com] \in Critters /\ line[last] \in Critters
    BY <2>1, <2>2, ElementOfSeq
  <2>4. line' \in Seq(Critters) /\ Rotated(line', line, cur, com, last)
    BY <1>3, <2>1, <2>2, <2>3, ChangedThrice DEF Rotated
  <2> QED BY <2>1, <2>2, <2>4, Rotating
<1>5. com' \in Nat
  BY <1>1, <1>3
<1>6. TypeOK'
  BY <1>1, <1>4, <1>5 DEF IInv, TypeOK
<1>7. Grudges'
  BY <1>1, <1>2 DEF IInv, Grudges, Fighting
<1>8. Listing'
  <2>1. \A i \in (last + 1)..Len(line) : shape[line[i]] = "dead"
    BY <1>2 DEF IInv, Listing, last
  <2>2. \A i \in last..Len(line) : shape[line'[i]] = "dead"
    BY <1>1, <1>2, <1>3, <1>4, <2>1, PartsFit DEF Rotated
  <2>3. com' + noncom' <= Len(line')
    BY <1>2, <1>3, <1>4, PartsFit DEF Rotated
  <2>4. com' + noncom' + 1 = last
    BY <1>2, <1>3, PartsFit
  <2> QED BY <1>1, <1>2, <1>4, <2>2, <2>3, <2>4 DEF IInv, Listing, Rotated
<1>9. Living'
  <2>1. \A i \in 1..com : i < cur => shape[line[i]] # "dead"
    BY <1>1, <1>2 DEF IInv, Living
  <2>2. \A i \in 1..com' : i < cur => i \in 1..com /\ line'[i] = line[i]
    BY <1>1, <1>2, <1>3, <1>4, PartsFit DEF Rotated
  <2> QED BY <1>1, <2>1, <2>2 DEF Living
<1>10. Walked'
  BY <1>1 DEF Walked, InTurn
<1> QED BY <1>6, <1>7, <1>8, <1>9, <1>10 DEF IInv

LEMMA ParkStep ==
  ASSUME TurnsConstants, IInv, Park
  PROVE  IInv'
<1>1. /\ phase = "parking" /\ cur <= com /\ com' = com - 1 /\ noncom' = noncom + 1
      /\ line' = [line EXCEPT ![cur] = line[com], ![com] = line[cur]]
      /\ mood' = [mood EXCEPT ![line[cur]] = @ \ {"engaging"}]
      /\ UNCHANGED <<phase, cur, actor, back, savedCom, shape, target,
                     members, acted, cutShort, headLeft>>
  BY DEF Park, At, history
<1>2. Fighting
  BY <1>1 DEF Fighting
<1>3. cur \in 1..Len(line) /\ com \in 1..Len(line) /\ com' + noncom' = com + noncom
  BY <1>1, <1>2, PartsFit
<1>4. /\ line' \in Seq(Critters) /\ Swapped(line', line, cur, com)
      /\ IsInjective(line') /\ Range(line') = Range(line)
  <2>1. line \in Seq(Critters) /\ IsInjective(line)
    BY <1>2, PartsFit
  <2>2. line[cur] \in Critters /\ line[com] \in Critters
    BY <1>3, <2>1, ElementOfSeq
  <2>3. line' \in Seq(Critters) /\ Swapped(line', line, cur, com)
    BY <1>1, <1>3, <2>1, <2>2, ChangedTwice DEF Swapped
  <2> QED BY <1>3, <2>1, <2>3, Swapping
<1>5. TypeOK'
  <2>1. com' \in Nat /\ noncom' \in Nat
    BY <1>1, <1>2, <1>3, PartsFit
  <2>2. mood' \in [Critters -> SUBSET {"engaging", "disengaging"}]
    BY <1>1 DEF IInv, TypeOK
  <2> QED BY <1>1, <1>4, <2>1, <2>2 DEF IInv, TypeOK
<1>6. Grudges'
  BY <1>1, <1>2 DEF IInv, Grudges, Fighting
<1>7. Listing'
  <2>1. \A i \in (com + noncom + 1)..Len(line) : line'[i] = line[i]
    BY <1>1, <1>2, <1>3, <1>4, PartsFit DEF Swapped
  <2> QED BY <1>1, <1>2, <1>3, <1>4, <2>1, PartsFit DEF IInv, Listing, Swapped
<1>8. Living'
  <2>1. \A i \in 1..com : shape[line[i]] # "dead"
    BY <1>1, <1>2 DEF IInv, Living
  <2>2. \A i \in 1..com' : \E k \in 1..com : line'[i] = line[k]
    BY <1>1, <1>2, <1>3, <1>4, PartsFit DEF Swapped
  <2> QED BY <1>1, <2>1, <2>2 DEF Living
<1>9. Walked'
  BY <1>1 DEF Walked, InTurn
<1> QED BY <1>5, <1>6, <1>7, <1>8, <1>9 DEF IInv

LEMMA KeepStep ==
  ASSUME TurnsConstants, IInv, Keep
  PROVE  IInv'
<1>1. /\ phase \in {"dropping", "parking"} /\ cur <= com /\ cur' = cur + 1
      /\ phase = "dropping" => shape[line[cur]] # "dead"
      /\ UNCHANGED <<phase, line, com, noncom, actor, back, savedCom, shape, mood, target,
                     members, acted, cutShort, headLeft>>
  BY DEF Keep, At, Dead, parts, history
<1>2. Fighting
  BY <1>1 DEF Fighting
<1>3. cur' \in 1..(Cardinality(Critters) + 1)
  BY <1>1, <1>2, PartsFit
<1>4. TypeOK'
  BY <1>1, <1>3 DEF IInv, TypeOK
<1>5. Grudges' /\ Listing' /\ Walked'
  BY <1>1, <1>2 DEF IInv, Grudges, Fighting, Listing, Walked, InTurn
<1>6. Living'
  BY <1>1, <1>2, PartsFit DEF IInv, Living
<1> QED BY <1>4, <1>5, <1>6 DEF IInv

LEMMA DropsEndStep ==
  ASSUME TurnsConstants, IInv, DropsEnd
  PROVE  IInv'
<1>1. /\ phase = "dropping" /\ cur > com /\ phase' = "parking" /\ cur' = 1
      /\ UNCHANGED <<line, com, noncom, actor, back, savedCom, shape, mood, target,
                     members, acted, cutShort, headLeft>>
  BY DEF DropsEnd, parts, history
<1>2. Fighting
  BY <1>1 DEF Fighting
<1>3. TypeOK'
  BY <1>1, <1>2, PartsFit DEF IInv, TypeOK
<1>4. Grudges' /\ Listing' /\ Walked'
  BY <1>1, <1>2 DEF IInv, Grudges, Fighting, Listing, Walked, InTurn
<1>5. Living'
  BY <1>1, <1>2, PartsFit DEF IInv, Living
<1> QED BY <1>3, <1>4, <1>5 DEF IInv

\* Sorted lists everyone once.
LEMMA SortedListsAll ==
  ASSUME NEW S, IsFiniteSet(S), NEW Key, \A c \in S : Key[c] \in Int, NEW s \in Sorted(S, Key)
  PROVE  /\ Cardinality(S) \in Nat /\ s \in Seq(S) /\ Len(s) = Cardinality(S)
         /\ IsInjective(s) /\ Range(s) = S
<1> DEFINE n == Cardinality(S)
<1>1. n \in Nat
  BY FS_CardinalityType
<1>2. s \in [1..n -> S] /\ \A i, j \in 1..n : i < j => Key[s[i]] < Key[s[j]]
  BY DEF Sorted
<1> HIDE DEF n
<1>3. s \in Seq(S) /\ Len(s) = n
  BY <1>1, <1>2, IsASeq
<1>4. \A i, j \in 1..n : s[i] = s[j] => i = j
  <2> SUFFICES ASSUME NEW i \in 1..n, NEW j \in 1..n, s[i] = s[j], i # j
               PROVE  FALSE
    OBVIOUS
  <2>1. s[i] \in S /\ Key[s[i]] \in Int
    BY <1>2
  <2>2. i < j \/ j < i
    BY <1>1
  <2> QED BY <1>2, <2>1, <2>2
<1>5. s \in Injection(1..n, S) /\ IsInjective(s)
  BY <1>2, <1>4 DEF Injection, IsInjective
<1>6. Cardinality(1..n) = n
  BY <1>1, FS_Interval
<1>7. s \in Surjection(1..n, S)
  BY <1>5, <1>6, FS_Injection DEF n
<1>8. Range(s) = S
  BY <1>2, <1>7 DEF Surjection, Range
<1> QED BY <1>1, <1>3, <1>5, <1>8 DEF n

LEMMA NextRoundStep ==
  ASSUME TurnsConstants, IInv, NextRound
  PROVE  IInv'
<1>1. /\ phase = "parking" /\ phase' \in {"over", "round"} /\ cur' = 1 /\ acted' = {}
      /\ cutShort' = FALSE /\ headLeft' = FALSE
      /\ UNCHANGED <<com, noncom, actor, back, savedCom, shape, mood, target, members>>
  BY DEF NextRound
<1>2. Fighting
  BY <1>1 DEF Fighting
<1>3. PICK order \in Sorted(Acting, Slowness) :
        line' = [i \in DOMAIN line |-> IF i <= com THEN order[i] ELSE line[i]]
  BY DEF NextRound
<1>4. /\ \A i \in 1..com : i \in 1..Len(line) /\ line[i] \in Critters
      /\ \A i, j \in 1..com : line[i] = line[j] => i = j
      /\ DOMAIN line = 1..Len(line) /\ Acting \subseteq Critters
  <2>1. DOMAIN line = 1..Len(line) /\ \A i \in 1..com : i \in 1..Len(line)
    BY <1>2, PartsFit, LenProperties
  <2>2. \A i \in 1..com : line[i] \in Critters
    BY <1>2, <2>1, ListedTakesPart
  <2> QED BY <1>2, <2>1, <2>2, PartsFit DEF IsInjective, Acting, Prefix
<1>5. IsFiniteSet(Acting) /\ Cardinality(Acting) = com
  <2> DEFINE f == [i \in 1..com |-> line[i]]
  <2>1. f \in Injection(1..com, Acting)
    BY <1>4 DEF Injection, IsInjective, Acting, Prefix
  <2>2. f \in Surjection(1..com, Acting)
    BY <2>1 DEF Surjection, Injection, Acting, Prefix
  <2>3. IsFiniteSet(Acting)
    BY <1>4, FS_Subset DEF TurnsConstants
  <2>4. Cardinality(1..com) = com
    BY <1>2, PartsFit, FS_Interval
  <2> HIDE DEF f
  <2> QED BY <2>1, <2>2, <2>3, <2>4, FS_Injection
<1>6. /\ order \in Seq(Acting) /\ Len(order) = com /\ IsInjective(order) /\ Range(order) = Acting
  <2>1. \A c \in Acting : Slowness[c] \in Int
    BY <1>4 DEF Slowness, TurnsConstants
  <2>2. order \in Sorted(Acting, Slowness)
    BY <1>3
  <2> QED BY <1>5, <2>1, <2>2, SortedListsAll
<1>7. /\ DOMAIN order = 1..com
      /\ \A i \in 1..com : order[i] \in Acting
      /\ \A i \in 1..com : \E k \in 1..com : order[k] = line[i]
      /\ \A i \in 1..com : \E k \in 1..com : order[i] = line[k]
  <2>1. DOMAIN order = 1..com
    BY <1>6, LenProperties
  <2>2. Acting = {line[i] : i \in 1..com} /\ Acting = {order[i] : i \in 1..com}
    BY <1>6, <2>1 DEF Range, Acting, Prefix
  <2> QED BY <2>1, <2>2
<1>8. /\ DOMAIN line' = 1..Len(line)
      /\ \A i \in 1..Len(line) : line'[i] = IF i <= com THEN order[i] ELSE line[i]
  BY <1>3, <1>4
<1>9. line' \in Seq(Critters) /\ Len(line') = Len(line)
  <2>1. ASSUME NEW i \in 1..Len(line)
        PROVE  line'[i] \in Critters
    <3>1. i <= com => order[i] \in Critters
      BY <1>2, <1>4, <1>7, PartsFit
    <3>2. line[i] \in Critters
      BY <1>2, PartsFit, ElementOfSeq
    <3> QED BY <1>8, <3>1, <3>2
  <2>2. line' \in [1..Len(line) -> Critters]
    BY <1>3, <1>4, <2>1
  <2> QED BY <1>2, <2>2, PartsFit, IsASeq
<1>10. TypeOK'
  <2>1. cur' \in 1..(Cardinality(Critters) + 1)
    BY <1>1, SomeCritters
  <2> QED BY <1>1, <1>9, <2>1 DEF IInv, TypeOK
<1>11. Grudges'
  BY <1>1, <1>2 DEF IInv, Grudges, Fighting
<1>12. Listing'
  <2>1. \A i, j \in 1..Len(line) : line[i] = line[j] => i = j
    BY <1>2, <1>4, PartsFit DEF IsInjective
  <2>2. IsInjective(line')
    <3> SUFFICES ASSUME NEW i \in 1..Len(line), NEW j \in 1..Len(line), line'[i] = line'[j]
                 PROVE  i = j
      BY <1>8 DEF IsInjective
    <3>1. CASE i <= com /\ j <= com
      <4>1. i \in 1..com /\ j \in 1..com
        BY <1>2, <3>1, PartsFit
      <4>2. line'[i] = order[i] /\ line'[j] = order[j]
        BY <1>8, <3>1
      <4>3. \A a, b \in 1..com : order[a] = order[b] => a = b
        BY <1>6, <1>7 DEF IsInjective
      <4> QED BY <4>1, <4>2, <4>3
    <3>2. CASE i <= com /\ j > com
      <4>1. i \in 1..com /\ line'[i] = order[i] /\ line'[j] = line[j]
        BY <1>2, <1>8, <3>2, PartsFit
      <4>2. PICK k \in 1..com : order[i] = line[k]
        BY <1>7, <4>1
      <4>3. k \in 1..Len(line) /\ line[k] = line[j]
        BY <1>4, <4>1, <4>2
      <4>4. k = j
        BY <2>1, <4>3
      <4> QED BY <1>2, <3>2, <4>2, <4>4, PartsFit
    <3>3. CASE i > com /\ j <= com
      <4>1. j \in 1..com /\ line'[j] = order[j] /\ line'[i] = line[i]
        BY <1>2, <1>8, <3>3, PartsFit
      <4>2. PICK k \in 1..com : order[j] = line[k]
        BY <1>7, <4>1
      <4>3. k \in 1..Len(line) /\ line[k] = line[i]
        BY <1>4, <4>1, <4>2
      <4>4. k = i
        BY <2>1, <4>3
      <4> QED BY <1>2, <3>3, <4>2, <4>4, PartsFit
    <3>4. CASE i > com /\ j > com
      <4>1. line'[i] = line[i] /\ line'[j] = line[j]
        BY <1>2, <1>8, <3>4, PartsFit
      <4> QED BY <2>1, <4>1
    <3> QED BY <1>2, <3>1, <3>2, <3>3, <3>4, PartsFit
  <2>3. Range(line') \subseteq Range(line)
    <3> SUFFICES ASSUME NEW i \in 1..Len(line)
                 PROVE  \E k \in 1..Len(line) : line'[i] = line[k]
      BY <1>4, <1>8 DEF Range
    <3>1. CASE i <= com
      <4>1. PICK k \in 1..com : order[i] = line[k]
        BY <1>2, <1>7, <3>1, PartsFit
      <4> QED BY <1>4, <1>8, <3>1, <4>1
    <3>2. CASE i > com
      BY <1>2, <1>8, <3>2, PartsFit
    <3> QED BY <1>2, <3>1, <3>2, PartsFit
  <2>4. Range(line) \subseteq Range(line')
    <3> SUFFICES ASSUME NEW i \in 1..Len(line)
                 PROVE  \E k \in 1..Len(line) : line'[k] = line[i]
      BY <1>4, <1>8 DEF Range
    <3>1. CASE i <= com
      <4>1. PICK k \in 1..com : order[k] = line[i]
        BY <1>2, <1>7, <3>1, PartsFit
      <4> QED BY <1>2, <1>4, <1>8, <4>1, PartsFit
    <3>2. CASE i > com
      BY <1>2, <1>8, <3>2, PartsFit
    <3> QED BY <1>2, <3>1, <3>2, PartsFit
  <2>5. \A i \in (com + noncom + 1)..Len(line) : line'[i] = line[i]
    BY <1>2, <1>8, PartsFit
  <2> QED BY <1>1, <1>2, <1>9, <2>2, <2>3, <2>4, <2>5 DEF IInv, Listing
<1>13. Living'
  <2>1. \A i \in 1..com : shape[line[i]] # "dead"
    BY <1>1, <1>2 DEF IInv, Living
  <2>2. \A i \in 1..com : shape[line'[i]] # "dead"
    <3> SUFFICES ASSUME NEW i \in 1..com
                 PROVE  shape[line'[i]] # "dead"
      OBVIOUS
    <3>1. PICK k \in 1..com : order[i] = line[k]
      BY <1>7
    <3>2. line'[i] = order[i]
      BY <1>2, <1>4, <1>8, PartsFit
    <3> QED BY <2>1, <3>1, <3>2
  <2> QED BY <1>1, <2>2 DEF Living
<1>14. Walked'
  BY <1>1, <1>2, PartsFit DEF Walked, InTurn, ActedTo, ActedFirst
<1> QED BY <1>10, <1>11, <1>12, <1>13, <1>14 DEF IInv

LEMMA OverStep ==
  ASSUME TurnsConstants, IInv, Over
  PROVE  IInv'
<1>1. /\ phase = "over" /\ phase' = "peace" /\ line' = << >>
      /\ mood' = [c \in Critters |-> IF c \in Acting \cup Waiting THEN {} ELSE mood[c]]
      /\ target' = [c \in Critters |-> IF c \in Range(line) THEN Nobody ELSE target[c]]
      /\ shape' \in {shape, [shape EXCEPT ![Dude] = "up"]}
      /\ UNCHANGED <<com, noncom, cur, actor, back, savedCom, members, acted, cutShort, headLeft>>
  BY DEF Over, Forgets, history
<1>2. Fighting /\ ~Fighting'
  BY <1>1 DEF Fighting
<1>3. \A c \in Critters : target'[c] = Nobody
  BY <1>1, <1>2, PartsFit DEF IInv, Grudges
<1>4. TypeOK'
  <2>1. line' \in Seq(Critters)
    BY <1>1, EmptySeq
  <2>2. target' \in [Critters -> Critters \cup {Nobody}]
    BY <1>1 DEF IInv, TypeOK
  <2>3. mood' \in [Critters -> SUBSET {"engaging", "disengaging"}]
    BY <1>1 DEF IInv, TypeOK
  <2>4. shape' \in [Critters -> {"up", "out", "dead", "gone"}]
    BY <1>1 DEF IInv, TypeOK
  <2> QED BY <1>1, <2>1, <2>2, <2>3, <2>4 DEF IInv, TypeOK
<1>5. Grudges'
  BY <1>1, <1>3 DEF IInv, Grudges, TypeOK
<1> QED BY <1>2, <1>4, <1>5 DEF IInv

-----------------------------------------------------------------------------
(* The beginning of a fight *)

\* order lists the same as all, once each, and those in front are all leaders.
Lined(order, all, leaders) ==
  /\ order.l \in Seq(Critters) /\ IsInjective(order.l)
  /\ Range(order.l) = Range(all) /\ Len(order.l) = Len(all)
  /\ order.n \in 0..Len(order.l)
  /\ \A i \in 1..order.n : order.l[i] \in leaders

LEMMA ToFrontKeeps ==
  ASSUME NEW order, NEW all, NEW leaders, Lined(order, all, leaders),
         NEW c, c \in Range(all) => c \notin leaders
  PROVE  Lined(ToFront(order, c), all, leaders \cup {c})
<1> DEFINE l == order.l
           i == CHOOSE j \in DOMAIN l : l[j] = c
           k == order.n + 1
           r == [l EXCEPT ![i] = l[k], ![k] = c]
<1>1. CASE c \notin Range(l)
  <2>1. ToFront(order, c) = order
    BY <1>1 DEF ToFront
  <2> QED BY <2>1 DEF Lined
<1>2. CASE c \in Range(l)
  <2>1. ToFront(order, c) = [l |-> r, n |-> k]
    BY <1>2 DEF ToFront
  <2> HIDE DEF r
  <2>2. /\ l \in Seq(Critters) /\ IsInjective(l) /\ Range(l) = Range(all) /\ Len(l) = Len(all)
        /\ Len(l) \in Nat /\ order.n \in 0..Len(l)
        /\ \A j \in 1..order.n : l[j] \in leaders
    BY LenProperties DEF Lined
  <2>3. i \in 1..Len(l) /\ l[i] = c
    BY <1>2, <2>2, LenProperties DEF Range
  <2>4. i \notin 1..order.n
    BY <1>2, <2>2, <2>3
  <2>5. k \in 1..Len(l)
    BY <2>2, <2>3, <2>4
  <2>6. l[i] \in Critters /\ l[k] \in Critters
    BY <2>2, <2>3, <2>5, ElementOfSeq
  <2> HIDE DEF l, i
  <2>7. r \in Seq(Critters) /\ Swapped(r, l, i, k)
    BY <2>2, <2>3, <2>5, <2>6, ChangedTwice DEF Swapped, r
  <2>8. IsInjective(r) /\ Range(r) = Range(all) /\ Len(r) = Len(all)
    <3>1. IsInjective(r) /\ Range(r) = Range(l)
      BY <2>2, <2>3, <2>5, <2>7, Swapping
    <3> QED BY <2>2, <2>7, <3>1 DEF Swapped
  <2>9. k \in 0..Len(r) /\ \A j \in 1..k : r[j] \in leaders \cup {c}
    BY <2>2, <2>3, <2>4, <2>5, <2>7 DEF Swapped
  <2> QED BY <2>1, <2>7, <2>8, <2>9 DEF Lined
<1> QED BY <1>1, <1>2 DEF l

LEMMA EnrolledKeeps ==
  ASSUME NEW l \in Seq(Critters), IsInjective(l), NEW c \in Critters \cup {Nobody}, Nobody \notin Critters,
         c # Nobody => shape[c] # "dead"
  PROVE  /\ Enrolled(l, c) \in Seq(Critters) /\ IsInjective(Enrolled(l, c))
         /\ Range(Enrolled(l, c)) = Range(l) \cup ({c} \ {Nobody})
<1>1. CASE c = Nobody \/ c \in Range(l)
  <2>1. Enrolled(l, c) = l
    BY <1>1 DEF Enrolled
  <2>2. Nobody \notin Range(l)
    BY LenProperties, ElementOfSeq DEF Range
  <2> QED BY <1>1, <2>1, <2>2
<1>2. CASE c # Nobody /\ c \notin Range(l)
  <2>1. Enrolled(l, c) = Append(l, c) /\ c \in Critters
    BY <1>2 DEF Enrolled
  <2> DEFINE r == Append(l, c)
  <2>2. /\ r \in Seq(Critters) /\ Len(r) = Len(l) + 1 /\ Len(l) \in Nat
        /\ \A i \in 1..Len(l) : r[i] = l[i]
        /\ r[Len(l) + 1] = c
    BY <2>1, AppendProperties, LenProperties
  <2> HIDE DEF r
  <2>3. DOMAIN l = 1..Len(l) /\ DOMAIN r = 1..(Len(l) + 1)
    BY <2>2, LenProperties
  <2>4. \A i \in 1..Len(l) : l[i] # c
    BY <1>2, <2>3 DEF Range
  <2>5. IsInjective(r)
    <3>1. \A i, j \in 1..Len(l) : l[i] = l[j] => i = j
      BY <2>3 DEF IsInjective
    <3>2. \A i, j \in 1..(Len(l) + 1) : r[i] = r[j] => i = j
      <4> SUFFICES ASSUME NEW i \in 1..(Len(l) + 1), NEW j \in 1..(Len(l) + 1), r[i] = r[j]
                   PROVE  i = j
        OBVIOUS
      <4>1. \A m \in 1..(Len(l) + 1) : m \in 1..Len(l) \/ m = Len(l) + 1
        BY <2>2
      <4> QED BY <2>2, <2>4, <3>1, <4>1
    <3> QED BY <2>3, <3>2 DEF IsInjective
  <2>6. Range(r) = Range(l) \cup {c}
    <3>1. \A m \in 1..(Len(l) + 1) : m \in 1..Len(l) \/ m = Len(l) + 1
      BY <2>2
    <3>2. 1..Len(l) \subseteq 1..(Len(l) + 1) /\ Len(l) + 1 \in 1..(Len(l) + 1)
      BY <2>2
    <3> QED BY <2>2, <2>3, <3>1, <3>2 DEF Range
  <2> QED BY <1>2, <2>1, <2>2, <2>5, <2>6 DEF r
<1> QED BY <1>1, <1>2

LEMMA BeginStep ==
  ASSUME TurnsConstants, IInv, NEW pair \in Starters, Begin(pair[1], pair[2])
  PROVE  IInv'
<1> DEFINE a == pair[1]
           d == pair[2]
           roster == {c \in Roster : shape[c] # "gone"}
<1>1. PICK here \in Sorted(roster, Tile) :
        LET all == Enrolled(Enrolled(here, a), d)
            order == Led(all, a, d)
        IN /\ line' = order.l
           /\ com' = order.n /\ noncom' = Len(all) - order.n
           /\ target' = FirstTargets(all, a, d)
           /\ members' = Range(all)
  BY DEF Begin
<1> DEFINE one == Enrolled(here, a)
           all == Enrolled(one, d)
           order == Led(all, a, d)
<1>2. /\ phase = "peace" /\ shape[Dude] # "dead" /\ \A c \in {a, d} \ {Nobody} : shape[c] = "up"
      /\ mood' = [c \in Critters |-> mood[c] \cap {"engaging"}]
      /\ phase' = "round" /\ cur' = 1 /\ acted' = {} /\ cutShort' = FALSE /\ headLeft' = FALSE
      /\ UNCHANGED <<actor, back, savedCom, shape>>
  BY DEF Begin
<1>3. /\ line' = order.l /\ com' = order.n /\ noncom' = Len(all) - order.n
      /\ target' = FirstTargets(all, a, d) /\ members' = Range(all)
  BY <1>1
<1>4. /\ a \in Critters \cup {Nobody} /\ d \in Critters \cup {Nobody} /\ (a = d => a = Nobody)
      /\ Nobody \notin Critters /\ Dude \in Critters
  BY DEF TurnsConstants
<1>5. here \in Seq(Critters) /\ IsInjective(here)
  <2>1. IsFiniteSet(roster) /\ roster \subseteq Critters
    BY FS_Subset DEF TurnsConstants
  <2>2. \A c \in roster : Tile[c] \in Int
    BY <2>1 DEF TurnsConstants
  <2>3. here \in Seq(roster) /\ IsInjective(here)
    <3> HIDE DEF roster
    <3> QED BY <1>1, <2>1, <2>2, SortedListsAll
  <2> QED BY <2>1, <2>3, LenProperties, IsASeq, ElementOfSeq
<1> HIDE DEF a, d
<1>6. one \in Seq(Critters) /\ IsInjective(one) /\ Range(one) = Range(here) \cup ({a} \ {Nobody})
  <2>1. a # Nobody => shape[a] # "dead"
    BY <1>2
  <2> QED BY <1>4, <1>5, <2>1, EnrolledKeeps
<1>7. all \in Seq(Critters) /\ IsInjective(all) /\ Range(all) = Range(one) \cup ({d} \ {Nobody})
  <2>1. d # Nobody => shape[d] # "dead"
    BY <1>2
  <2> HIDE DEF one
  <2> QED BY <1>4, <1>6, <2>1, EnrolledKeeps
<1>8. Range(all) \subseteq Critters /\ Nobody \notin Range(all) /\ {a, d} \ {Nobody} \subseteq Range(all)
  <2>1. Range(all) \subseteq Critters
    BY <1>7, LenProperties, ElementOfSeq DEF Range
  <2> QED BY <1>4, <1>6, <1>7, <2>1
<1> HIDE DEF all, one
<1>9. Lined(order, all, {a, d, Dude})
  <2> DEFINE start == [l |-> all, n |-> 0]
             first == ToFront(start, a)
             two == ToFront(first, d)
  <2>1. Lined(start, all, {})
    BY <1>7, LenProperties DEF Lined
  <2> HIDE DEF start
  <2>2. Lined(first, all, {} \cup {a})
    BY <2>1, ToFrontKeeps
  <2> HIDE DEF first
  <2>3. Lined(two, all, ({} \cup {a}) \cup {d})
    BY <1>4, <1>8, <2>2, ToFrontKeeps
  <2> HIDE DEF two
  <2>4. ASSUME Dude \notin {a, d}
        PROVE  Lined(ToFront(two, Dude), all, (({} \cup {a}) \cup {d}) \cup {Dude})
    BY <2>3, <2>4, ToFrontKeeps
  <2>5. order = IF Dude \in {a, d} THEN two ELSE ToFront(two, Dude)
    BY DEF Led, start, first, two
  <2>6. ({} \cup {a}) \cup {d} \subseteq {a, d, Dude}
        /\ (({} \cup {a}) \cup {d}) \cup {Dude} = {a, d, Dude}
    OBVIOUS
  <2> HIDE DEF order
  <2>7. CASE Dude \in {a, d}
    BY <2>3, <2>5, <2>6, <2>7 DEF Lined
  <2>8. CASE Dude \notin {a, d}
    BY <2>4, <2>5, <2>6, <2>8 DEF Lined
  <2> QED BY <2>7, <2>8
<1> HIDE DEF order
<1>10. /\ line' \in Seq(Critters) /\ IsInjective(line') /\ Range(line') = members'
       /\ Len(line') = Len(all) /\ com' \in 0..Len(line') /\ Len(all) \in Nat
       /\ \A i \in 1..com' : line'[i] \in {a, d, Dude} /\ line'[i] \in Critters
  <2>1. /\ line' \in Seq(Critters) /\ IsInjective(line') /\ Range(line') = members'
        /\ com' \in 0..Len(line') /\ \A i \in 1..com' : line'[i] \in {a, d, Dude}
    BY <1>3, <1>9 DEF Lined
  <2>2. Len(all) \in Nat /\ Len(line') \in Nat
    BY <1>7, <2>1, LenProperties
  <2>3. Len(line') = Len(all)
    BY <1>3, <1>9 DEF Lined
  <2>4. \A i \in 1..com' : line'[i] \in Critters
    BY <2>1, <2>2, ElementOfSeq
  <2> QED BY <2>1, <2>2, <2>3, <2>4
<1>11. target' \in [Critters -> Critters \cup {Nobody}] /\ \A c \in Critters : c \notin members' => target'[c] = Nobody
  <2> DEFINE none == [c \in Critters |-> IF c \in Range(all) THEN Nobody ELSE target[c]]
             once == IF a = Nobody THEN none ELSE Hates(none, a, d)
  <2>1. none = [c \in Critters |-> Nobody]
    BY <1>2 DEF IInv, Grudges, Fighting
  <2>2. target' = IF d = Nobody THEN once ELSE Hates(once, d, a)
    BY <1>3 DEF FirstTargets
  <2> HIDE DEF none
  <2>3. once \in [Critters -> Critters \cup {Nobody}] /\ \A c \in Critters : c # a => once[c] = Nobody
    BY <1>4, <2>1 DEF Hates
  <2> HIDE DEF once
  <2>4. target' \in [Critters -> Critters \cup {Nobody}] /\ \A c \in Critters : c \notin {a, d} => target'[c] = Nobody
    BY <1>4, <2>2, <2>3 DEF Hates
  <2>5. a = Nobody => \A c \in Critters : c # d => target'[c] = Nobody
    BY <1>4, <2>4
  <2> QED BY <1>3, <1>4, <1>8, <2>4
<1>12. TypeOK'
  <2>1. noncom' \in Nat /\ com' \in Nat
    BY <1>3, <1>10
  <2>2. mood' \in [Critters -> SUBSET {"engaging", "disengaging"}]
    BY <1>2 DEF IInv, TypeOK
  <2>3. members' \cup acted' \subseteq Critters /\ {cutShort', headLeft'} \subseteq BOOLEAN
    BY <1>2, <1>3, <1>8
  <2>4. cur' \in 1..(Cardinality(Critters) + 1)
    BY <1>2, SomeCritters
  <2> QED BY <1>2, <1>10, <1>11, <2>1, <2>2, <2>3, <2>4 DEF IInv, TypeOK
<1>13. Grudges'
  BY <1>2, <1>11 DEF IInv, Grudges, Fighting
<1>14. Listing'
  <2>1. com' + noncom' = Len(line')
    BY <1>3, <1>10
  <2> QED BY <1>10, <2>1 DEF Listing
<1>15. Living'
  <2>1. \A c \in {a, d, Dude} \cap Critters : shape[c] # "dead"
    BY <1>2, <1>4
  <2> QED BY <1>2, <1>10, <2>1 DEF Living
<1>16. Walked'
  <2>1. ActedTo(cur - 1)'
    BY <1>2, <1>10 DEF ActedTo
  <2> QED BY <1>2, <2>1 DEF Walked, InTurn, ActedFirst
<1> QED BY <1>12, <1>13, <1>14, <1>15, <1>16 DEF IInv

-----------------------------------------------------------------------------
(* All of it *)

LEMMA InitHolds ==
  ASSUME TurnsConstants, TurnsInit
  PROVE  IInv
<1>1. << >> \in Seq(Critters) /\ 1 \in 1..(Cardinality(Critters) + 1)
  BY SomeCritters, EmptySeq
<1>2. TypeOK
  BY <1>1 DEF TurnsInit, TypeOK
<1>3. Grudges
  BY DEF TurnsInit, Grudges, TurnsConstants
<1>4. ~Fighting
  BY DEF TurnsInit, Fighting
<1> QED BY <1>2, <1>3, <1>4 DEF IInv

LEMMA NothingHappens ==
  ASSUME IInv, UNCHANGED turnVars
  PROVE  IInv'
<1>1. UNCHANGED <<phase, line, com, noncom, cur, actor, back, savedCom, shape, mood, target,
                  members, acted, cutShort, headLeft>>
  BY DEF turnVars
<1>2. TypeOK' /\ Grudges'
  BY <1>1 DEF IInv, TypeOK, Grudges, Fighting
<1>3. ASSUME Fighting
      PROVE  Listing' /\ Living' /\ Walked'
  <2>1. Listing' /\ Living'
    BY <1>1, <1>3 DEF IInv, Listing, Living
  <2>2. Walked'
    BY <1>1, <1>3 DEF IInv, Walked, InTurn, ActedTo, ActedFirst, Reached
  <2> QED BY <2>1, <2>2
<1>4. Fighting' = Fighting
  BY <1>1 DEF Fighting
<1> QED BY <1>2, <1>3, <1>4 DEF IInv

LEMMA StepHolds ==
  ASSUME TurnsConstants, IInv, [TurnsNext]_turnVars
  PROVE  IInv'
<1>1. ASSUME NEW pair \in Starters, Begin(pair[1], pair[2])
      PROVE  IInv'
  BY <1>1, BeginStep
<1>2. CASE NextTurn
  BY <1>2, NextTurnStep
<1>3. CASE TurnEnds
  BY <1>3, TurnEndsStep
<1>4. CASE TurnAborts \/ PlayerFalls
  BY <1>4, BrokenStep DEF TurnAborts, PlayerFalls
<1>5. CASE JoinAborts
  BY <1>5, JoinAbortsStep
<1>6. ASSUME NEW v \in Critters, NEW result \in {"up", "out", "dead"}, Strike(v, result)
      PROVE  IInv'
  BY <1>6, StrikeStep
<1>7. ASSUME NEW v \in Critters, NEW result \in {"dead", "gone"}, TakeOff(v, result)
      PROVE  IInv'
  BY <1>7, TakeOffStep
<1>8. CASE Flee \/ RoundEnds \/ Join
  BY <1>8, FleeStep, RoundEndsStep, JoinStep
<1>9. CASE StayOut \/ JoinsEnd
  BY <1>9, StayOutStep, JoinsEndStep
<1>10. CASE DropDead \/ Park \/ Keep
  BY <1>10, DropDeadStep, ParkStep, KeepStep
<1>11. CASE DropsEnd \/ NextRound \/ Over
  BY <1>11, DropsEndStep, NextRoundStep, OverStep
<1>12. ASSUME NEW c \in Critters, Wake(c)
       PROVE  IInv'
  BY <1>12, WakeStep
<1>13. CASE UNCHANGED turnVars
  BY <1>13, NothingHappens
<1> QED BY <1>1, <1>2, <1>3, <1>4, <1>5, <1>6, <1>7, <1>8, <1>9, <1>10, <1>11, <1>12, <1>13 DEF TurnsNext

\* The list, how far the round has come and what is remembered fit together in
\* every state of every fight.
THEOREM SpecIInv ==
  ASSUME TurnsConstants
  PROVE  TurnsSpec => []IInv
<1>1. TurnsInit => IInv
  BY InitHolds
<1>2. IInv /\ [TurnsNext]_turnVars => IInv'
  BY StepHolds
<1> QED BY <1>1, <1>2, PTL DEF TurnsSpec

\* _combat_list names everyone once and only the dead are dropped, for any number
\* of critters, rounds, attacks and removals (combat.cc:3097-3312, 2706-2766).
THEOREM SpecPartition ==
  ASSUME TurnsConstants
  PROVE  TurnsSpec => []Partition
<1>1. IInv => Partition
  <2> SUFFICES ASSUME IInv
               PROVE  Partition
    OBVIOUS
  <2>1. TypeOK
    BY DEF IInv
  <2>2. ASSUME Fighting
        PROVE  /\ IsInjective(line) /\ Range(line) = members /\ com + noncom <= Len(line)
               /\ \A c \in Dropped : shape[c] = "dead"
               /\ phase = "round" /\ acted = {} => \A c \in Acting : shape[c] # "dead"
    BY <2>2 DEF IInv, Listing, Living, Dropped, Acting, Prefix
  <2> QED BY <2>1, <2>2 DEF Partition
<1> QED BY <1>1, SpecIInv, PTL

\* However many leave the list under the walk and whenever, nobody who acts is
\* passed over but behind a head that left whole (combat.cc:3838-3868).
THEOREM SpecEveryoneActsBut ==
  ASSUME TurnsConstants
  PROVE  TurnsSpec => []EveryoneActsBut
<1>1. IInv => EveryoneActsBut
  BY DEF IInv, Walked, ActedTo, EveryoneActsBut, Fighting, Acting, Prefix
<1> QED BY <1>1, SpecIInv, PTL

\* No grudge outlives the fight: whoever is not listed remembers nobody, so that
\* resetting those listed is enough (_combat_over, combat.cc:2915-3002).
THEOREM SpecForgiven ==
  ASSUME TurnsConstants
  PROVE  TurnsSpec => []Forgiven
<1>1. IInv => Forgiven
  BY DEF IInv, Grudges, Forgiven, Fighting
<1> QED BY <1>1, SpecIInv, PTL
=============================================================================
