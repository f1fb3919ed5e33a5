--------------------------- MODULE SequenceEdits ---------------------------
(***************************************************************************)
(* What InsertAt and RemoveAt do to the length and the elements of a       *)
(* sequence, and what a sum over a finite set is: the lemmas the proofs    *)
(* about linked lists, key arrays and counted sizes use.                   *)
(***************************************************************************)
EXTENDS Integers, Sequences, SequencesExt, SequenceTheorems, FiniteSetTheorems,
        WellFoundedInduction, TLAPS

LEMMA InsertAtProperties ==
  ASSUME NEW S, NEW s \in Seq(S), NEW p \in 0..Len(s), NEW e \in S
  PROVE  LET r == InsertAt(s, p + 1, e)
         IN /\ r \in Seq(S)
            /\ Len(r) = Len(s) + 1
            /\ \A i \in 1..(Len(s) + 1) :
                 r[i] = IF i <= p THEN s[i] ELSE IF i = p + 1 THEN e ELSE s[i - 1]
<1> DEFINE front == SubSeq(s, 1, p)
           back  == SubSeq(s, p + 1, Len(s))
           mid   == <<e>>
<1>0. Len(s) \in Nat /\ p \in Nat /\ p <= Len(s)
  BY LenProperties
<1>1. /\ front \in Seq(S) /\ Len(front) = p
      /\ \A i \in 1..p : front[i] = s[i]
  <2>1. \A i \in 1..p : s[i] \in S
    BY <1>0, ElementOfSeq
  <2> QED BY <1>0, <2>1, SubSeqProperties
<1>2. /\ back \in Seq(S) /\ Len(back) = Len(s) - p
      /\ \A i \in 1..(Len(s) - p) : back[i] = s[p + i]
  <2>1. \A i \in (p + 1)..Len(s) : s[i] \in S
    BY <1>0, ElementOfSeq
  <2> QED BY <1>0, <2>1, SubSeqProperties
<1>3. mid \in Seq(S) /\ Len(mid) = 1 /\ mid[1] = e
  OBVIOUS
<1>4. InsertAt(s, p + 1, e) = (front \o mid) \o back
  <2>1. (p + 1) - 1 = p
    BY <1>0
  <2> QED BY <2>1, Zenon DEF InsertAt
<1> HIDE DEF front, mid, back
<1>5. /\ front \o mid \in Seq(S) /\ Len(front \o mid) = p + 1
      /\ \A i \in 1..(p + 1) : (front \o mid)[i] = IF i <= p THEN s[i] ELSE e
  <2>1. /\ front \o mid \in Seq(S)
        /\ Len(front \o mid) = p + 1
        /\ \A i \in 1..(p + 1) : (front \o mid)[i] = IF i <= p THEN front[i] ELSE mid[i - p]
    <3>1. front \o mid \in Seq(S)
      BY <1>1, <1>3, ConcatProperties
    <3>2. Len(front \o mid) = Len(front) + Len(mid)
      BY <1>1, <1>3, ConcatProperties
    <3>3. \A i \in 1..(Len(front) + Len(mid)) :
            (front \o mid)[i] = IF i <= Len(front) THEN front[i] ELSE mid[i - Len(front)]
      BY <1>1, <1>3, ConcatProperties
    <3> QED BY <1>1, <1>3, <3>1, <3>2, <3>3, Zenon
  <2>2. \A i \in 1..(p + 1) : (i <= p => i \in 1..p) /\ (~(i <= p) => i - p = 1)
    BY <1>0
  <2> QED BY <1>1, <1>3, <2>1, <2>2
<1> DEFINE head == front \o mid
<1> HIDE DEF head
<1>6. /\ head \o back \in Seq(S)
      /\ Len(head \o back) = (p + 1) + (Len(s) - p)
      /\ \A i \in 1..((p + 1) + (Len(s) - p)) :
           (head \o back)[i] = IF i <= p + 1 THEN head[i] ELSE back[i - (p + 1)]
  <2>1. head \in Seq(S) /\ Len(head) = p + 1
    BY <1>5 DEF head
  <2>2. head \o back \in Seq(S)
    BY <1>2, <2>1, ConcatProperties
  <2>3. Len(head \o back) = Len(head) + Len(back)
    BY <1>2, <2>1, ConcatProperties
  <2>4. \A i \in 1..(Len(head) + Len(back)) :
          (head \o back)[i] = IF i <= Len(head) THEN head[i] ELSE back[i - Len(head)]
    BY <1>2, <2>1, ConcatProperties
  <2> QED BY <1>2, <2>1, <2>2, <2>3, <2>4, Zenon
<1>7. ASSUME NEW i \in 1..(Len(s) + 1)
      PROVE  (head \o back)[i] = IF i <= p THEN s[i] ELSE IF i = p + 1 THEN e ELSE s[i - 1]
  <2>0. i \in 1..((p + 1) + (Len(s) - p))
    BY <1>0
  <2>1. CASE i <= p + 1
    <3>1. i \in 1..(p + 1) /\ (~(i <= p) => i = p + 1)
      BY <1>0, <2>1
    <3>2. (head \o back)[i] = head[i]
      BY <1>6, <2>0, <2>1
    <3> QED BY <1>5, <3>1, <3>2 DEF head
  <2>2. CASE ~(i <= p + 1)
    <3>1. i - (p + 1) \in 1..(Len(s) - p) /\ p + (i - (p + 1)) = i - 1 /\ ~(i <= p) /\ i # p + 1
      BY <1>0, <2>2
    <3>2. (head \o back)[i] = back[i - (p + 1)]
      BY <1>6, <2>0, <2>2
    <3>3. back[i - (p + 1)] = s[p + (i - (p + 1))]
      BY <1>2, <3>1
    <3> QED BY <3>1, <3>2, <3>3
  <2> QED BY <2>1, <2>2
<1>8. (p + 1) + (Len(s) - p) = Len(s) + 1
  BY <1>0
<1>9. QED
  BY <1>4, <1>6, <1>7, <1>8, Zenon DEF head

\* The same, with what r is folded in a name.
Lengthened(s, p, e, r) ==
  /\ Len(r) = Len(s) + 1
  /\ \A i \in 1..(Len(s) + 1) :
       r[i] = IF i <= p THEN s[i] ELSE IF i = p + 1 THEN e ELSE s[i - 1]

LEMMA InsertIs ==
  ASSUME NEW S, NEW s \in Seq(S), NEW p \in 0..Len(s), NEW e \in S
  PROVE  InsertAt(s, p + 1, e) \in Seq(S) /\ Lengthened(s, p, e, InsertAt(s, p + 1, e))
BY InsertAtProperties DEF Lengthened

LEMMA RemoveAtProperties ==
  ASSUME NEW S, NEW s \in Seq(S), NEW p \in 1..Len(s)
  PROVE  LET r == RemoveAt(s, p)
         IN /\ r \in Seq(S)
            /\ Len(r) = Len(s) - 1
            /\ \A i \in 1..(Len(s) - 1) : r[i] = IF i < p THEN s[i] ELSE s[i + 1]
<1> DEFINE front == SubSeq(s, 1, p - 1)
           back  == SubSeq(s, p + 1, Len(s))
<1>0. Len(s) \in Nat /\ p \in Nat /\ 1 <= p /\ p <= Len(s)
  BY LenProperties
<1>1. /\ front \in Seq(S) /\ Len(front) = p - 1
      /\ \A i \in 1..(p - 1) : front[i] = s[i]
  <2>1. \A i \in 1..(p - 1) : s[i] \in S
    BY <1>0, ElementOfSeq
  <2> QED BY <1>0, <2>1, SubSeqProperties
<1>2. /\ back \in Seq(S) /\ Len(back) = Len(s) - p
      /\ \A i \in 1..(Len(s) - p) : back[i] = s[p + i]
  <2>1. \A i \in (p + 1)..Len(s) : s[i] \in S
    BY <1>0, ElementOfSeq
  <2> QED BY <1>0, <2>1, SubSeqProperties
<1>3. RemoveAt(s, p) = front \o back
  BY <1>0 DEF RemoveAt
<1> HIDE DEF front, back
<1>4. /\ front \o back \in Seq(S)
      /\ Len(front \o back) = (p - 1) + (Len(s) - p)
      /\ \A i \in 1..((p - 1) + (Len(s) - p)) :
           (front \o back)[i] = IF i <= p - 1 THEN front[i] ELSE back[i - (p - 1)]
  <2>1. front \o back \in Seq(S)
    BY <1>1, <1>2, ConcatProperties
  <2>2. Len(front \o back) = Len(front) + Len(back)
    BY <1>1, <1>2, ConcatProperties
  <2>3. \A i \in 1..(Len(front) + Len(back)) :
          (front \o back)[i] = IF i <= Len(front) THEN front[i] ELSE back[i - Len(front)]
    BY <1>1, <1>2, ConcatProperties
  <2> QED BY <1>1, <1>2, <2>1, <2>2, <2>3, Zenon
<1>5. ASSUME NEW i \in 1..(Len(s) - 1)
      PROVE  (front \o back)[i] = IF i < p THEN s[i] ELSE s[i + 1]
  <2>0. i \in 1..((p - 1) + (Len(s) - p))
    BY <1>0
  <2>1. CASE i < p
    <3>1. i \in 1..(p - 1) /\ i <= p - 1
      BY <1>0, <2>1
    <3> QED BY <1>1, <1>4, <2>0, <2>1, <3>1
  <2>2. CASE ~(i < p)
    <3>1. i - (p - 1) \in 1..(Len(s) - p) /\ p + (i - (p - 1)) = i + 1 /\ ~(i <= p - 1)
      BY <1>0, <2>2
    <3>2. (front \o back)[i] = back[i - (p - 1)]
      BY <1>4, <2>0, <3>1
    <3>3. back[i - (p - 1)] = s[p + (i - (p - 1))]
      BY <1>2, <3>1
    <3> QED BY <2>2, <3>1, <3>2, <3>3
  <2> QED BY <2>1, <2>2
<1>6. (p - 1) + (Len(s) - p) = Len(s) - 1
  BY <1>0
<1>7. QED
  BY <1>3, <1>4, <1>5, <1>6, Zenon
Distinct(s) == \A i, j \in 1..Len(s) : s[i] = s[j] => i = j
Members(s) == {s[i] : i \in 1..Len(s)}

LEMMA InsertAtMembers ==
  ASSUME NEW S, NEW s \in Seq(S), NEW p \in 0..Len(s), NEW e \in S
  PROVE  /\ Members(InsertAt(s, p + 1, e)) = Members(s) \cup {e}
         /\ Distinct(s) /\ e \notin Members(s) => Distinct(InsertAt(s, p + 1, e))
<1> DEFINE r == InsertAt(s, p + 1, e)
<1>0. Len(s) \in Nat /\ p \in Nat /\ p <= Len(s)
  BY LenProperties
<1>1. /\ Len(r) = Len(s) + 1
      /\ \A i \in 1..(Len(s) + 1) : r[i] = IF i <= p THEN s[i] ELSE IF i = p + 1 THEN e ELSE s[i - 1]
  BY InsertAtProperties
<1> HIDE DEF r
<1>2. Members(r) \subseteq Members(s) \cup {e}
  BY <1>0, <1>1 DEF Members
<1>3. e \in Members(r)
  <2>1. p + 1 \in 1..Len(r) /\ r[p + 1] = e
    BY <1>0, <1>1
  <2> QED BY <2>1 DEF Members
<1>4. ASSUME NEW i \in 1..Len(s)
      PROVE  s[i] \in Members(r)
  <2>1. CASE i <= p
    <3>1. i \in 1..Len(r) /\ r[i] = s[i]
      BY <1>0, <1>1, <2>1
    <3> QED BY <3>1 DEF Members
  <2>2. CASE ~(i <= p)
    <3>1. i + 1 \in 1..Len(r) /\ r[i + 1] = s[(i + 1) - 1]
      BY <1>0, <1>1, <2>2
    <3>2. (i + 1) - 1 = i
      OBVIOUS
    <3> QED BY <3>1, <3>2 DEF Members
  <2> QED BY <2>1, <2>2
<1>5. Members(r) = Members(s) \cup {e}
  BY <1>2, <1>3, <1>4 DEF Members
<1>6. ASSUME Distinct(s), e \notin Members(s)
      PROVE  Distinct(r)
  <2>1. SUFFICES ASSUME NEW i \in 1..Len(r), NEW j \in 1..Len(r), r[i] = r[j]
                 PROVE  i = j
    BY DEF Distinct
  <2>2. \A k \in 1..Len(r) : k # p + 1 =>
          \E m \in 1..Len(s) : r[k] = s[m] /\ m = (IF k <= p THEN k ELSE k - 1)
    BY <1>0, <1>1
  <2>3. \A k \in 1..Len(r) : k # p + 1 => r[k] # e
    BY <1>6, <2>2 DEF Members
  <2>4. r[p + 1] = e
    BY <1>0, <1>1
  <2>5. CASE i = p + 1 \/ j = p + 1
    BY <2>1, <2>3, <2>4, <2>5
  <2>6. CASE i # p + 1 /\ j # p + 1
    BY <1>0, <1>1, <1>6, <2>1, <2>2, <2>6 DEF Distinct
  <2> QED BY <2>5, <2>6
<1> QED BY <1>5, <1>6 DEF r

LEMMA RemoveAtMembers ==
  ASSUME NEW S, NEW s \in Seq(S), NEW p \in 1..Len(s), Distinct(s)
  PROVE  /\ Members(RemoveAt(s, p)) = Members(s) \ {s[p]}
         /\ Distinct(RemoveAt(s, p))
<1> DEFINE r == RemoveAt(s, p)
<1>0. Len(s) \in Nat /\ p \in Nat /\ 1 <= p /\ p <= Len(s)
  BY LenProperties
<1>1. /\ Len(r) = Len(s) - 1
      /\ \A i \in 1..(Len(s) - 1) : r[i] = IF i < p THEN s[i] ELSE s[i + 1]
  BY RemoveAtProperties
<1> HIDE DEF r
<1>2. \A k \in 1..Len(r) :
        \E m \in 1..Len(s) : r[k] = s[m] /\ m # p /\ m = (IF k < p THEN k ELSE k + 1)
  BY <1>0, <1>1
<1>3. Members(r) \subseteq Members(s) \ {s[p]}
  BY <1>2 DEF Members, Distinct
<1>4. ASSUME NEW i \in 1..Len(s), i # p
      PROVE  s[i] \in Members(r)
  <2>1. CASE i < p
    <3>1. i \in 1..Len(r) /\ r[i] = s[i]
      BY <1>0, <1>1, <2>1
    <3> QED BY <3>1 DEF Members
  <2>2. CASE ~(i < p)
    <3>1. i - 1 \in 1..Len(r) /\ r[i - 1] = s[(i - 1) + 1]
      BY <1>0, <1>1, <1>4, <2>2
    <3>2. (i - 1) + 1 = i
      OBVIOUS
    <3> QED BY <3>1, <3>2 DEF Members
  <2> QED BY <2>1, <2>2
<1>5. Members(r) = Members(s) \ {s[p]}
  BY <1>3, <1>4 DEF Members
<1>6. Distinct(r)
  BY <1>0, <1>1, <1>2 DEF Distinct
<1> QED BY <1>5, <1>6 DEF r

LEMMA TailIsRemoveAt ==
  ASSUME NEW S, NEW s \in Seq(S), s # << >>
  PROVE  1 \in 1..Len(s) /\ Head(s) = s[1] /\ Tail(s) = RemoveAt(s, 1)
<1>1. 1 \in 1..Len(s) /\ Len(s) \in Nat
  BY EmptySeq
<1>2. Head(s) = s[1]
  OBVIOUS
<1>3. /\ RemoveAt(s, 1) \in Seq(S)
      /\ Len(RemoveAt(s, 1)) = Len(s) - 1
      /\ \A i \in 1..(Len(s) - 1) : RemoveAt(s, 1)[i] = s[i + 1]
  <2>1. \A i \in 1..(Len(s) - 1) : ~(i < 1)
    BY <1>1
  <2> QED BY <1>1, <2>1, RemoveAtProperties
<1>4. /\ Tail(s) \in Seq(S) /\ Len(Tail(s)) = Len(s) - 1
      /\ \A i \in 1..(Len(s) - 1) : Tail(s)[i] = s[i + 1]
  BY HeadTailProperties
<1>5. Tail(s) = RemoveAt(s, 1)
  BY <1>3, <1>4, SeqEqual
<1> QED BY <1>1, <1>2, <1>5
LEMMA FrontProperties ==
  ASSUME NEW S, NEW s \in Seq(S), s # << >>
  PROVE  LET r == SubSeq(s, 1, Len(s) - 1)
         IN /\ r \in Seq(S)
            /\ Len(r) = Len(s) - 1
            /\ \A i \in 1..(Len(s) - 1) : r[i] = s[i]
<1> DEFINE n == Len(s) - 1
           r == SubSeq(s, 1, n)
<1>1. n \in Nat /\ n \in Int /\ n - 1 + 1 = n
  BY EmptySeq
<1>2. \A i \in 1..n : s[i] \in S /\ 1 + i - 1 = i
  BY <1>1, ElementOfSeq
<1> HIDE DEF n
<1>3. r \in Seq(S)
  BY <1>1, <1>2, SubSeqProperties
<1>4. Len(r) = IF 1 <= n THEN n - 1 + 1 ELSE 0
  BY <1>1, <1>2, SubSeqProperties
<1>5. Len(r) = n
  BY <1>1, <1>4
<1>6. \A i \in 1..(n - 1 + 1) : r[i] = s[1 + i - 1]
  BY <1>1, <1>2, SubSeqProperties
<1> QED BY <1>1, <1>2, <1>3, <1>5, <1>6 DEF n

\* Every set of natural numbers but the empty one has a least element: the
\* induction there is, for the library's takes an operator.
LEMMA Least ==
  ASSUME NEW T \in SUBSET Nat, T # {}
  PROVE  \E x \in T : \A y \in T : x <= y
<1> DEFINE R == OpToRel(<, Nat)
<1>1. IsWellFoundedOn(R, Nat)
  BY NatLessThanWellFounded
<1> HIDE DEF R
<1>2. PICK x \in T : \A y \in T : ~(<<y, x>> \in R)
  BY <1>1, WFMin
<1> USE DEF R
<1>3. \A y \in T : ~(y < x)
  BY <1>2 DEF OpToRel
<1> QED BY <1>3

LEMMA MinIs ==
  ASSUME NEW T \in SUBSET Nat, T # {}
  PROVE  Min(T) \in T /\ \A y \in T : Min(T) <= y
BY Least DEF Min

LEMMA RangeIs ==
  ASSUME NEW S, NEW s \in Seq(S)
  PROVE  /\ Range(s) = Members(s) /\ Range(s) \subseteq S
         /\ IsInjective(s) <=> Distinct(s)
<1>1. DOMAIN s = 1..Len(s) /\ \A i \in 1..Len(s) : s[i] \in S
  BY LenProperties, ElementOfSeq
<1> QED BY <1>1 DEF Range, Members, IsInjective, Distinct

LEMMA RemoveFirstMembers ==
  ASSUME NEW S, NEW s \in Seq(S), NEW e, Distinct(s)
  PROVE  /\ RemoveFirst(s, e) \in Seq(S) /\ Distinct(RemoveFirst(s, e))
         /\ Members(RemoveFirst(s, e)) = Members(s) \ {e}
<1> DEFINE I == {i \in 1..Len(s) : s[i] = e}
<1>1. CASE I = {}
  <2>1. RemoveFirst(s, e) = s /\ e \notin Members(s)
    BY <1>1 DEF RemoveFirst, Members
  <2> QED BY <2>1
<1>2. CASE I # {}
  <2>1. I \in SUBSET Nat
    BY LenProperties
  <2>2. Min(I) \in I
    BY <1>2, <2>1, MinIs
  <2>3. RemoveFirst(s, e) = RemoveAt(s, Min(I))
    BY <1>2 DEF RemoveFirst, SelectInSeq
  <2> HIDE DEF I
  <2>4. Min(I) \in 1..Len(s) /\ s[Min(I)] = e
    BY <2>2 DEF I
  <2>5. /\ RemoveAt(s, Min(I)) \in Seq(S) /\ Distinct(RemoveAt(s, Min(I)))
        /\ Members(RemoveAt(s, Min(I))) = Members(s) \ {e}
    BY <2>4, RemoveAtProperties, RemoveAtMembers
  <2> QED BY <2>3, <2>5
<1> QED BY <1>1, <1>2

LEMMA PrependMembers ==
  ASSUME NEW S, NEW s \in Seq(S), NEW e \in S
  PROVE  /\ <<e>> \o s \in Seq(S) /\ Head(<<e>> \o s) = e
         /\ Members(<<e>> \o s) = Members(s) \cup {e}
         /\ Distinct(s) /\ e \notin Members(s) => Distinct(<<e>> \o s)
<1> DEFINE r == <<e>> \o s
<1>1. <<e>> \in Seq(S) /\ Len(<<e>>) = 1 /\ <<e>>[1] = e /\ Len(s) \in Nat
  BY LenProperties
<1>2. /\ r \in Seq(S) /\ Len(r) = Len(s) + 1
      /\ \A i \in 1..(Len(s) + 1) : r[i] = IF i = 1 THEN e ELSE s[i - 1]
  <2>1. /\ r \in Seq(S) /\ Len(r) = Len(<<e>>) + Len(s)
        /\ \A i \in 1..(Len(<<e>>) + Len(s)) :
             r[i] = IF i <= Len(<<e>>) THEN <<e>>[i] ELSE s[i - Len(<<e>>)]
    BY <1>1, ConcatProperties
  <2> HIDE DEF r
  <2> QED BY <1>1, <2>1
<1>3. Head(r) = e
  <2>1. r[1] = e
    BY <1>1, <1>2
  <2>2. Head(r) = r[1]
    BY <1>1, <1>2, HeadTailProperties, EmptySeq
  <2> QED BY <2>1, <2>2
<1> HIDE DEF r
<1>4. Members(r) = Members(s) \cup {e}
  <2>1. ASSUME NEW x \in Members(s)
        PROVE  x \in Members(r)
    <3>1. PICK i \in 1..Len(s) : s[i] = x
      BY DEF Members
    <3>2. i + 1 \in 1..(Len(s) + 1) /\ r[i + 1] = x
      BY <1>1, <1>2, <3>1
    <3> QED BY <1>2, <3>2 DEF Members
  <2>2. e \in Members(r)
    BY <1>1, <1>2 DEF Members
  <2>3. ASSUME NEW x \in Members(r)
        PROVE  x \in Members(s) \cup {e}
    <3>1. PICK i \in 1..(Len(s) + 1) : r[i] = x
      BY <1>2 DEF Members
    <3>2. i = 1 \/ i - 1 \in 1..Len(s)
      BY <1>1
    <3> QED BY <1>2, <3>1, <3>2 DEF Members
  <2> QED BY <2>1, <2>2, <2>3
<1>5. Distinct(s) /\ e \notin Members(s) => Distinct(r)
  <2> SUFFICES ASSUME Distinct(s), e \notin Members(s),
                      NEW i \in 1..(Len(s) + 1), NEW j \in 1..(Len(s) + 1), r[i] = r[j]
               PROVE  i = j
    BY <1>2 DEF Distinct
  <2>1. \A k \in 1..(Len(s) + 1) : k = 1 \/ k - 1 \in 1..Len(s)
    BY <1>1
  <2>2. \A k \in 1..Len(s) : s[k] # e
    BY DEF Members
  <2>3. CASE i = 1 \/ j = 1
    BY <1>1, <1>2, <2>1, <2>2, <2>3
  <2>4. CASE i # 1 /\ j # 1
    <3>1. i - 1 \in 1..Len(s) /\ j - 1 \in 1..Len(s) /\ s[i - 1] = s[j - 1]
      BY <1>2, <2>1, <2>4
    <3>2. i - 1 = j - 1
      BY <3>1 DEF Distinct
    <3> QED BY <1>1, <3>2
  <2> QED BY <2>3, <2>4
<1> QED BY <1>2, <1>3, <1>4, <1>5 DEF r

LEMMA AppendMembers ==
  ASSUME NEW S, NEW s \in Seq(S), NEW e \in S
  PROVE  /\ Append(s, e) \in Seq(S)
         /\ Members(Append(s, e)) = Members(s) \cup {e}
         /\ Distinct(s) /\ e \notin Members(s) => Distinct(Append(s, e))
<1>1. PICK r : r = Append(s, e)
  OBVIOUS
<1>2. /\ r \in Seq(S) /\ Len(r) = Len(s) + 1 /\ Len(s) \in Nat /\ r[Len(s) + 1] = e
      /\ \A i \in 1..Len(s) : r[i] = s[i]
  BY <1>1, AppendProperties, LenProperties
<1>3. \A i \in 1..(Len(s) + 1) : i = Len(s) + 1 \/ i \in 1..Len(s)
  BY <1>2
<1>4. 1..Len(s) \subseteq 1..(Len(s) + 1) /\ Len(s) + 1 \in 1..(Len(s) + 1)
  BY <1>2
<1>5. Members(r) = Members(s) \cup {e}
  BY <1>2, <1>3, <1>4 DEF Members
<1>6. Distinct(s) /\ e \notin Members(s) => Distinct(r)
  BY <1>2, <1>3 DEF Members, Distinct
<1> QED BY <1>1, <1>2, <1>5, <1>6

-----------------------------------------------------------------------------
(* Sums over finite sets                                                    *)

Pick(s) == CHOOSE x \in s : TRUE
\* The value of one more level of a sum of weights, and f as what it settles at.
Level(w, f, s) == IF s = {} THEN 0 ELSE w[Pick(s)] + f[s \ {Pick(s)}]
Adds(w, S, f) == f = [s \in SUBSET S |-> Level(w, f, s)]
Total(w, S) == (CHOOSE f : Adds(w, S, f))[S]
\* The same up to sets of n elements.
Partial(w, S, n, f) ==
  /\ f \in [SUBSET S -> Nat]
  /\ \A s \in SUBSET S : Cardinality(s) <= n => f[s] = Level(w, f, s)

LEMMA PickIn ==
  ASSUME NEW s, s # {}
  PROVE  Pick(s) \in s
BY DEF Pick

LEMMA LevelNat ==
  ASSUME NEW S, NEW w \in [S -> Nat], NEW f \in [SUBSET S -> Nat], NEW s \in SUBSET S
  PROVE  Level(w, f, s) \in Nat
<1>1. CASE s = {}
  BY <1>1 DEF Level
<1>2. CASE s # {}
  <2>1. Pick(s) \in S /\ s \ {Pick(s)} \in SUBSET S
    BY <1>2, PickIn
  <2>2. w[Pick(s)] \in Nat /\ f[s \ {Pick(s)}] \in Nat
    BY <2>1
  <2> QED BY <1>2, <2>2 DEF Level
<1> QED BY <1>1, <1>2

LEMMA SmallerRest ==
  ASSUME NEW s, IsFiniteSet(s), NEW x \in s
  PROVE  /\ IsFiniteSet(s \ {x}) /\ Cardinality(s) \in Nat
         /\ Cardinality(s \ {x}) = Cardinality(s) - 1 /\ Cardinality(s \ {x}) \in Nat
BY FS_RemoveElement, FS_CardinalityType

LEMMA PartialExists ==
  ASSUME NEW S, IsFiniteSet(S), NEW w \in [S -> Nat], NEW n \in Nat
  PROVE  \E f : Partial(w, S, n, f)
<1> DEFINE Bad == {k \in Nat : ~\E f : Partial(w, S, k, f)}
<1> SUFFICES ASSUME Bad # {}
             PROVE  FALSE
  OBVIOUS
<1>1. PICK m \in Bad : \A k \in Bad : m <= k
  BY Least
<1>2. CASE m = 0
  <2> DEFINE f == [s \in SUBSET S |-> 0]
  <2>1. \A s \in SUBSET S : Cardinality(s) <= 0 => s = {}
    <3> SUFFICES ASSUME NEW s \in SUBSET S, Cardinality(s) <= 0
                 PROVE  s = {}
      OBVIOUS
    <3>1. IsFiniteSet(s)
      BY FS_Subset
    <3> QED BY <3>1, FS_CardinalityType, FS_EmptySet
  <2>2. Partial(w, S, 0, f)
    BY <2>1 DEF Partial, Level
  <2> QED BY <1>1, <1>2, <2>2
<1>3. CASE m # 0
  <2>1. m - 1 \in Nat /\ m - 1 \notin Bad
    BY <1>1, <1>3
  <2>2. PICK f : Partial(w, S, m - 1, f)
    BY <2>1
  <2> DEFINE g == [s \in SUBSET S |-> Level(w, f, s)]
  <2>3. g \in [SUBSET S -> Nat]
    BY <2>2, LevelNat DEF Partial
  <2>4. ASSUME NEW s \in SUBSET S, Cardinality(s) <= m
        PROVE  g[s] = Level(w, g, s)
    <3>1. CASE s = {}
      BY <3>1 DEF Level
    <3>2. CASE s # {}
      <4> DEFINE r == s \ {Pick(s)}
      <4>1. r \in SUBSET S /\ Pick(s) \in s /\ IsFiniteSet(s)
        BY <3>2, PickIn, FS_Subset
      <4>2. Cardinality(r) <= m - 1
        BY <1>1, <2>4, <4>1, SmallerRest
      <4>3. f[r] = Level(w, f, r) /\ g[r] = Level(w, f, r)
        BY <2>2, <4>1, <4>2 DEF Partial
      <4>4. g[s] = Level(w, f, s)
        OBVIOUS
      <4> HIDE DEF g
      <4> QED BY <3>2, <4>3, <4>4 DEF Level
    <3> QED BY <3>1, <3>2
  <2> HIDE DEF g
  <2>5. Partial(w, S, m, g)
    BY <2>3, <2>4 DEF Partial
  <2> QED BY <1>1, <2>5
<1> QED BY <1>2, <1>3

\* There is a sum, and it is a number.
LEMMA AddsExists ==
  ASSUME NEW S, IsFiniteSet(S), NEW w \in [S -> Nat]
  PROVE  \E f \in [SUBSET S -> Nat] : Adds(w, S, f)
<1>1. Cardinality(S) \in Nat
  BY FS_CardinalityType
<1>2. PICK f : Partial(w, S, Cardinality(S), f)
  BY <1>1, PartialExists
<1>3. \A s \in SUBSET S : f[s] = Level(w, f, s)
  BY <1>2, FS_Subset DEF Partial
<1>4. f \in [SUBSET S -> Nat]
  BY <1>2 DEF Partial
<1>5. Adds(w, S, f)
  BY <1>3, <1>4 DEF Adds
<1> QED BY <1>4, <1>5

\* There is but one.
LEMMA AddsOnce ==
  ASSUME NEW S, NEW T, NEW w, NEW f, NEW g, Adds(w, S, f), Adds(w, T, g),
         NEW U \in SUBSET (S \cap T), IsFiniteSet(U)
  PROVE  f[U] = g[U]
<1> DEFINE Bad == {k \in Nat : \E s \in SUBSET U : Cardinality(s) = k /\ f[s] # g[s]}
<1>1. Cardinality(U) \in Nat
  BY FS_CardinalityType
<1> SUFFICES ASSUME Bad # {}
             PROVE  FALSE
  BY <1>1
<1>2. PICK m \in Bad : \A k \in Bad : m <= k
  BY Least
<1>3. PICK s \in SUBSET U : Cardinality(s) = m /\ f[s] # g[s]
  BY <1>2
<1>4. f[s] = Level(w, f, s) /\ g[s] = Level(w, g, s)
  BY DEF Adds
<1>5. s # {}
  BY <1>3, <1>4 DEF Level
<1>6. IsFiniteSet(s) /\ Pick(s) \in s
  BY <1>5, PickIn, FS_Subset
<1>7. Cardinality(s \ {Pick(s)}) = m - 1 /\ m - 1 \in Nat
  BY <1>3, <1>6, SmallerRest
<1>8. m - 1 \notin Bad
  BY <1>2, <1>7
<1>9. s \ {Pick(s)} \in SUBSET U
  OBVIOUS
<1>10. f[s \ {Pick(s)}] = g[s \ {Pick(s)}]
  BY <1>7, <1>8, <1>9
<1> QED BY <1>3, <1>4, <1>5, <1>10 DEF Level

\* The sum of none, and that of some in the order of the choices.
LEMMA TotalSteps ==
  ASSUME NEW S, IsFiniteSet(S), NEW w \in [S -> Nat]
  PROVE  /\ Total(w, S) \in Nat
         /\ \A f : Adds(w, S, f) => f[S] = Total(w, S)
         /\ S = {} => Total(w, S) = 0
         /\ S # {} => Total(w, S) = w[Pick(S)] + Total(w, S \ {Pick(S)})
<1> DEFINE c == CHOOSE f : Adds(w, S, f)
<1>1. Adds(w, S, c)
  BY AddsExists
<1>2. \A f : Adds(w, S, f) => f[S] = c[S]
  BY <1>1, AddsOnce
<1>3. c[S] \in Nat
  <2>1. PICK f \in [SUBSET S -> Nat] : Adds(w, S, f)
    BY AddsExists
  <2>2. f[S] \in Nat /\ f[S] = c[S]
    BY <1>2, <2>1
  <2> QED BY <2>2
<1>4. Total(w, S) = c[S]
  BY DEF Total
<1>5. c[S] = Level(w, c, S)
  BY <1>1 DEF Adds
<1> HIDE DEF c
<1>6. S = {} => c[S] = 0
  BY <1>5 DEF Level
<1>7. ASSUME S # {}
      PROVE  c[S] = w[Pick(S)] + Total(w, S \ {Pick(S)})
  <2> DEFINE R == S \ {Pick(S)}
             d == CHOOSE f : Adds(w, R, f)
  <2>1. Pick(S) \in S /\ IsFiniteSet(R) /\ R \in SUBSET S
    BY <1>7, PickIn, FS_Subset
  <2>2. \E f : Adds(w, R, f)
    <3>1. \A x \in R : w[x] \in Nat
      BY <2>1
    <3> DEFINE v == [x \in R |-> w[x]]
    <3>2. PICK f \in [SUBSET R -> Nat] : Adds(v, R, f)
      <4>1. v \in [R -> Nat]
        BY <3>1
      <4> QED BY <2>1, <4>1, AddsExists
    <3>3. \A s \in SUBSET R : Level(v, f, s) = Level(w, f, s)
      BY PickIn DEF Level
    <3>4. Adds(w, R, f)
      BY <3>2, <3>3 DEF Adds
    <3> QED BY <3>4
  <2>3. Adds(w, R, d)
    BY <2>2
  <2> HIDE DEF d
  <2>4. c[R] = d[R]
    BY <1>1, <2>1, <2>3, AddsOnce
  <2>5. Total(w, R) = d[R]
    BY DEF Total, d
  <2> QED BY <1>5, <1>7, <2>4, <2>5 DEF Level
<1> QED BY <1>2, <1>3, <1>4, <1>6, <1>7

\* A weight is the same wherever else the function is defined.
LEMMA TotalNat ==
  ASSUME NEW S, IsFiniteSet(S), NEW w, \A x \in S : w[x] \in Nat
  PROVE  /\ Total(w, S) \in Nat
         /\ \A f : Adds(w, S, f) => f[S] = Total(w, S)
         /\ S = {} => Total(w, S) = 0
         /\ S # {} => Total(w, S) = w[Pick(S)] + Total(w, S \ {Pick(S)})
<1> DEFINE v == [x \in S |-> w[x]]
<1>1. v \in [S -> Nat] /\ \A x \in S : v[x] = w[x]
  OBVIOUS
<1> HIDE DEF v
<1>2. ASSUME NEW R \in SUBSET S
      PROVE  Total(v, R) = Total(w, R)
  <2>1. \A f, s : s \in SUBSET R => Level(v, f, s) = Level(w, f, s)
    BY <1>1, PickIn DEF Level
  <2>2. \A f : Adds(v, R, f) <=> Adds(w, R, f)
    BY <2>1 DEF Adds
  <2>3. (CHOOSE f : Adds(v, R, f)) = (CHOOSE f : Adds(w, R, f))
    BY <2>2
  <2> QED BY <2>3 DEF Total
<1>3. \A f : Adds(w, S, f) => Adds(v, S, f)
  <2>1. \A f, s : s \in SUBSET S => Level(v, f, s) = Level(w, f, s)
    BY <1>1, PickIn DEF Level
  <2> QED BY <2>1 DEF Adds
<1>4. Total(v, S) = Total(w, S)
  BY <1>2
<1>5. S # {} => /\ Total(v, S \ {Pick(S)}) = Total(w, S \ {Pick(S)})
                /\ v[Pick(S)] = w[Pick(S)]
  BY <1>1, <1>2, PickIn
<1> QED BY <1>1, <1>3, <1>4, <1>5, TotalSteps

LEMMA TotalNone ==
  ASSUME NEW w
  PROVE  IsFiniteSet({}) /\ Total(w, {}) = 0
<1>1. IsFiniteSet({}) /\ \A x \in {} : w[x] \in Nat
  BY FS_EmptySet
<1> QED BY <1>1, TotalNat

\* Whichever element is taken out first.
LEMMA TotalTakes ==
  ASSUME NEW S, IsFiniteSet(S), NEW w, \A x \in S : w[x] \in Nat, NEW e \in S
  PROVE  Total(w, S) = w[e] + Total(w, S \ {e})
<1> DEFINE Wrong(s) == \E x \in s : Total(w, s) # w[x] + Total(w, s \ {x})
           Bad == {k \in Nat : \E s \in SUBSET S : Cardinality(s) = k /\ Wrong(s)}
<1>1. Cardinality(S) \in Nat
  BY FS_CardinalityType
<1> SUFFICES ASSUME Bad # {}
             PROVE  FALSE
  BY <1>1
<1>2. PICK m \in Bad : \A k \in Bad : m <= k
  BY Least
<1>3. PICK s \in SUBSET S : Cardinality(s) = m /\ Wrong(s)
  BY <1>2
<1>4. PICK x \in s : Total(w, s) # w[x] + Total(w, s \ {x})
  BY <1>3
<1> DEFINE p == Pick(s)
<1>5. IsFiniteSet(s) /\ p \in s /\ s # {}
  BY <1>4, PickIn, FS_Subset
<1>6. Total(w, s) = w[p] + Total(w, s \ {p})
  BY <1>5, TotalNat
<1>7. p # x
  BY <1>4, <1>6
<1>8. ASSUME NEW y \in s
      PROVE  ~Wrong(s \ {y}) /\ IsFiniteSet(s \ {y})
  <2>1. IsFiniteSet(s \ {y}) /\ Cardinality(s \ {y}) = m - 1 /\ m - 1 \in Nat
    BY <1>3, <1>5, SmallerRest
  <2>2. m - 1 \notin Bad
    BY <1>2, <2>1
  <2>3. s \ {y} \in SUBSET S
    OBVIOUS
  <2> QED BY <2>1, <2>2, <2>3
<1>9. Total(w, s \ {p}) = w[x] + Total(w, (s \ {p}) \ {x})
  BY <1>5, <1>7, <1>8
<1>10. Total(w, s \ {x}) = w[p] + Total(w, (s \ {x}) \ {p})
  BY <1>5, <1>7, <1>8
<1>11. (s \ {p}) \ {x} = (s \ {x}) \ {p}
  OBVIOUS
<1>12. Total(w, (s \ {p}) \ {x}) \in Nat /\ w[x] \in Nat /\ w[p] \in Nat
  <2>1. IsFiniteSet((s \ {p}) \ {x}) /\ (s \ {p}) \ {x} \in SUBSET S
    BY <1>5, FS_Subset
  <2> QED BY <1>5, <2>1, TotalNat
<1>13. Total(w, s \ {x}) = w[p] + Total(w, (s \ {p}) \ {x})
  BY <1>10, <1>11, Zenon
<1> HIDE DEF p
<1> QED BY <1>4, <1>6, <1>9, <1>12, <1>13

\* Weights that correspond, one to one, have the same sum.
Pairs(b, S, T) ==
  /\ b \in [S -> T]
  /\ \A x, y \in S : b[x] = b[y] => x = y
  /\ \A y \in T : \E x \in S : b[x] = y
Carries(b, S, w, v) == \A x \in S : w[x] \in Nat /\ w[x] = v[b[x]]
LEMMA TotalMapped ==
  ASSUME NEW S, IsFiniteSet(S), NEW T, NEW b, Pairs(b, S, T),
         NEW w, NEW v, Carries(b, S, w, v)
  PROVE  Total(w, S) = Total(v, T)
<1> USE DEF Pairs, Carries
<1> DEFINE Im(s) == {b[x] : x \in s}
           Wrong(s) == ~IsFiniteSet(Im(s)) \/ Total(w, s) # Total(v, Im(s))
           Bad == {k \in Nat : \E s \in SUBSET S : Cardinality(s) = k /\ Wrong(s)}
<1>1. Cardinality(S) \in Nat
  BY FS_CardinalityType
<1>2. Im(S) = T
  OBVIOUS
<1> SUFFICES ASSUME Bad # {}
             PROVE  FALSE
  BY <1>1, <1>2
<1>3. PICK m \in Bad : \A k \in Bad : m <= k
  BY Least
<1>4. PICK s \in SUBSET S : Cardinality(s) = m /\ Wrong(s)
  BY <1>3
<1>5. IsFiniteSet(s)
  BY FS_Subset
<1>6. CASE s = {}
  <2>1. Im(s) = {}
    BY <1>6
  <2>2. IsFiniteSet({}) /\ Total(w, {}) = 0 /\ Total(v, {}) = 0
    BY TotalNone
  <2>3. IsFiniteSet(Im(s)) /\ Total(w, s) = Total(v, Im(s))
    BY <1>6, <2>1, <2>2, Zenon
  <2> QED BY <1>4, <2>3
<1>7. CASE s # {}
  <2>1. PICK e \in s : TRUE
    BY <1>7
  <2>2. PICK r \in SUBSET S : r = s \ {e}
    OBVIOUS
  <2>3. Cardinality(r) = m - 1 /\ m - 1 \in Nat
    <3>1. Cardinality(s) = m
      BY <1>4
    <3>2. Cardinality(s \ {e}) = m - 1 /\ m - 1 \in Nat
      <4>1. Cardinality(s \ {e}) = Cardinality(s) - 1 /\ Cardinality(s \ {e}) \in Nat
        BY <1>5, SmallerRest
      <4> QED BY <3>1, <4>1
    <3> QED BY <2>2, <3>2, Zenon
  <2>4. m - 1 \notin Bad
    <3>1. m \in Nat
      OBVIOUS
    <3> HIDE DEF Bad
    <3> QED BY <1>3, <2>3, <3>1
  <2>5. IsFiniteSet(Im(r)) /\ Total(w, r) = Total(v, Im(r))
    <3> HIDE DEF Im
    <3> QED BY <2>3, <2>4
  <2>6. /\ Im(s) = Im(r) \cup {b[e]} /\ b[e] \in Im(s) /\ Im(s) \ {b[e]} = Im(r)
    BY <2>2
  <2>7. \A y \in Im(s) : v[y] \in Nat
    OBVIOUS
  <2> HIDE DEF Im
  <2>8. IsFiniteSet(Im(s))
    <3>1. IsFiniteSet(Im(r) \cup {b[e]})
      BY <2>5, FS_AddElement
    <3> QED BY <2>6, <3>1, Zenon
  <2>9. Total(v, Im(s)) = v[b[e]] + Total(v, Im(s) \ {b[e]})
    BY <2>6, <2>7, <2>8, TotalTakes
  <2>10. Total(w, s) = w[e] + Total(w, s \ {e})
    BY <1>5, TotalTakes
  <2>11. Total(w, s) = Total(v, Im(s))
    <3>1. Total(v, Im(s)) = v[b[e]] + Total(v, Im(r))
      BY <2>6, <2>9, Zenon
    <3>2. Total(w, s) = w[e] + Total(w, r)
      BY <2>2, <2>10, Zenon
    <3> QED BY <2>5, <3>1, <3>2
  <2> QED BY <1>4, <2>8, <2>11
<1> QED BY <1>6, <1>7

\* A set that is parted.
LEMMA TotalParted ==
  ASSUME NEW S, IsFiniteSet(S), NEW w, \A x \in S : w[x] \in Nat, NEW T \in SUBSET S
  PROVE  /\ Total(w, S) = Total(w, T) + Total(w, S \ T)
         /\ Total(w, S) \in Nat /\ Total(w, T) \in Nat /\ Total(w, S \ T) \in Nat
<1> DEFINE Wrong(s) == Total(w, s) # Total(w, s \cap T) + Total(w, s \ T)
           Bad == {k \in Nat : \E s \in SUBSET S : Cardinality(s) = k /\ Wrong(s)}
<1>1. Cardinality(S) \in Nat
  BY FS_CardinalityType
<1>2. ASSUME NEW s \in SUBSET S
      PROVE  /\ IsFiniteSet(s) /\ IsFiniteSet(s \cap T) /\ IsFiniteSet(s \ T)
             /\ Total(w, s) \in Nat /\ Total(w, s \cap T) \in Nat /\ Total(w, s \ T) \in Nat
  <2>1. IsFiniteSet(s) /\ IsFiniteSet(s \cap T) /\ IsFiniteSet(s \ T)
    BY FS_Subset
  <2> QED BY <2>1, TotalNat
<1>3. S \cap T = T
  OBVIOUS
<1> SUFFICES ASSUME Bad # {}
             PROVE  FALSE
  BY <1>1, <1>2, <1>3
<1>4. PICK m \in Bad : \A k \in Bad : m <= k
  BY Least
<1>5. PICK s \in SUBSET S : Cardinality(s) = m /\ Wrong(s)
  BY <1>4
<1>6. CASE s = {}
  <2>1. s \cap T = {} /\ s \ T = {}
    BY <1>6
  <2>2. Total(w, {}) = 0
    BY TotalNone
  <2>3. Total(w, s) = 0 /\ Total(w, s \cap T) = 0 /\ Total(w, s \ T) = 0
    BY <1>6, <2>1, <2>2, Zenon
  <2> QED BY <1>5, <2>3
<1>7. CASE s # {}
  <2>1. PICK e \in s : TRUE
    BY <1>7
  <2>2. PICK r \in SUBSET S : r = s \ {e}
    OBVIOUS
  <2>3. Cardinality(r) = m - 1 /\ m - 1 \in Nat
    <3>1. Cardinality(s \ {e}) = m - 1 /\ m - 1 \in Nat
      BY <1>2, <1>5, SmallerRest
    <3> QED BY <2>2, <3>1, Zenon
  <2>4. m - 1 \notin Bad
    <3>1. m \in Nat
      OBVIOUS
    <3> HIDE DEF Bad
    <3> QED BY <1>4, <2>3, <3>1
  <2>5. Total(w, r) = Total(w, r \cap T) + Total(w, r \ T)
    <3> HIDE DEF Wrong
    <3>1. ~Wrong(r)
      BY <2>3, <2>4
    <3> QED BY <3>1 DEF Wrong
  <2>6. Total(w, s) = w[e] + Total(w, r)
    <3>1. Total(w, s) = w[e] + Total(w, s \ {e})
      BY <1>2, TotalTakes
    <3> QED BY <2>2, <3>1, Zenon
  <2>7. w[e] \in Nat /\ Total(w, r \cap T) \in Nat /\ Total(w, r \ T) \in Nat
    BY <1>2
  <2>8. CASE e \in T
    <3>1. (s \cap T) \ {e} = r \cap T /\ s \ T = r \ T /\ e \in s \cap T
      BY <2>2, <2>8
    <3>2. Total(w, s \cap T) = w[e] + Total(w, (s \cap T) \ {e})
      BY <1>2, <3>1, TotalTakes
    <3>3. Total(w, s \cap T) = w[e] + Total(w, r \cap T) /\ Total(w, s \ T) = Total(w, r \ T)
      BY <3>1, <3>2, Zenon
    <3> QED BY <1>5, <2>5, <2>6, <2>7, <3>3
  <2>9. CASE e \notin T
    <3>1. (s \ T) \ {e} = r \ T /\ s \cap T = r \cap T /\ e \in s \ T
      BY <2>2, <2>9
    <3>2. Total(w, s \ T) = w[e] + Total(w, (s \ T) \ {e})
      BY <1>2, <3>1, TotalTakes
    <3>3. Total(w, s \ T) = w[e] + Total(w, r \ T) /\ Total(w, s \cap T) = Total(w, r \cap T)
      BY <3>1, <3>2, Zenon
    <3> QED BY <1>5, <2>5, <2>6, <2>7, <3>3
  <2> QED BY <2>8, <2>9
<1> QED BY <1>6, <1>7

LEMMA CountTo ==
  ASSUME NEW n \in Nat
  PROVE  IsFiniteSet(1..n) /\ Cardinality(1..n) = n
<1>1. IsFiniteSet(1..n) /\ Cardinality(1..n) = IF 1 > n THEN 0 ELSE n - 1 + 1
  BY FS_Interval
<1> QED BY <1>1
=============================================================================
