----------------------------- MODULE SequenceFacts -----------------------------
(***************************************************************************)
(* Membership and repetition in the sequences that stand for queues and    *)
(* channels, what Append and Tail do to them, and what is left of them     *)
(* without an element.                                                     *)
(***************************************************************************)
EXTENDS Integers, SequenceFilter, SequenceTheorems, FiniteSetTheorems, WellFoundedInduction,
        TLAPS

\* x is an element of s; no element is in s twice.
Member(s, x) == \E i \in 1..Len(s) : s[i] = x
Distinct(s) == \A i, j \in 1..Len(s) : s[i] = s[j] => i = j
--------------------------------------------------------------------------------
\* Append adds one element, at the end, and repeats none that was not there.
LEMMA AppendFacts ==
  ASSUME NEW S, NEW s \in Seq(S), NEW x \in S
  PROVE  /\ Append(s, x) \in Seq(S)
         /\ Len(Append(s, x)) = Len(s) + 1
         /\ \A y : Member(Append(s, x), y) <=> Member(s, y) \/ y = x
         /\ Distinct(s) /\ ~Member(s, x) => Distinct(Append(s, x))
  BY DEF Member, Distinct

\* Head and Tail divide a sequence into one element and the rest.
LEMMA TailFacts ==
  ASSUME NEW S, NEW s \in Seq(S), s # <<>>
  PROVE  /\ Head(s) \in S
         /\ Tail(s) \in Seq(S)
         /\ Len(Tail(s)) = Len(s) - 1
         /\ \A y : Member(s, y) <=> y = Head(s) \/ Member(Tail(s), y)
         /\ Distinct(s) => Distinct(Tail(s)) /\ ~Member(Tail(s), Head(s))
<1>1. /\ Head(s) = s[1] /\ Head(s) \in S
      /\ Tail(s) \in Seq(S)
      /\ Len(s) \in Nat \ {0}
      /\ Len(Tail(s)) = Len(s) - 1
      /\ \A i \in 1..Len(s) - 1 : Tail(s)[i] = s[i + 1]
  BY HeadTailProperties, LenProperties, EmptySeq
<1>2. ASSUME NEW y
      PROVE  Member(s, y) <=> y = Head(s) \/ Member(Tail(s), y)
  <2>1. ASSUME NEW i \in 1..Len(s), s[i] = y, i # 1
        PROVE  Member(Tail(s), y)
    <3>1. i - 1 \in 1..Len(Tail(s)) /\ Tail(s)[i - 1] = s[i]
      BY <1>1, <2>1
    <3> QED BY <3>1, <2>1 DEF Member
  <2>2. ASSUME NEW i \in 1..Len(Tail(s)), Tail(s)[i] = y
        PROVE  Member(s, y)
    <3>1. i + 1 \in 1..Len(s) /\ s[i + 1] = y
      BY <1>1, <2>2
    <3> QED BY <3>1 DEF Member
  <2>3. Member(s, Head(s))
    BY <1>1 DEF Member
  <2> QED BY <1>1, <2>1, <2>2, <2>3 DEF Member
<1>3. ASSUME Distinct(s)
      PROVE  Distinct(Tail(s)) /\ ~Member(Tail(s), Head(s))
  <2>1. ASSUME NEW i \in 1..Len(Tail(s))
        PROVE  i + 1 \in 1..Len(s) /\ i + 1 # 1 /\ Tail(s)[i] = s[i + 1]
    BY <1>1
  <2>2. ~Member(Tail(s), Head(s))
    BY <1>1, <1>3, <2>1 DEF Member, Distinct
  <2>3. ASSUME NEW i \in 1..Len(Tail(s)), NEW j \in 1..Len(Tail(s)), Tail(s)[i] = Tail(s)[j]
        PROVE  i = j
    <3>1. i + 1 = j + 1
      BY <2>1, <2>3, <1>3 DEF Distinct
    <3> QED BY <3>1
  <2> QED BY <2>2, <2>3 DEF Distinct
<1> QED BY <1>1, <1>2, <1>3

\* A sequence without repetition over a set that has one more element is
\* shorter than the set.
LEMMA DistinctIsShort ==
  ASSUME NEW S, IsFiniteSet(S), NEW s \in Seq(S), Distinct(s),
         NEW x \in S, ~Member(s, x)
  PROVE  Len(s) < Cardinality(S)
<1> DEFINE T == S \ {x}
<1>1. /\ IsFiniteSet(T) /\ Cardinality(T) = Cardinality(S) - 1
      /\ Cardinality(S) \in Nat
  BY FS_RemoveElement, FS_CardinalityType
<1>2. Len(s) \in Nat /\ s \in [1..Len(s) -> T]
  BY LenProperties DEF Member
<1>3. s \in Injection(1..Len(s), T)
  BY <1>2 DEF Distinct, Injection, IsInjective
<1>4. Cardinality(1..Len(s)) = Len(s)
  <2>1. 1 \in Int /\ Len(s) \in Int
    BY <1>2
  <2>2. Cardinality(1..Len(s)) = IF 1 > Len(s) THEN 0 ELSE Len(s) - 1 + 1
    BY <2>1, FS_Interval, Zenon
  <2> QED BY <1>2, <2>2
<1>5. Cardinality(1..Len(s)) <= Cardinality(T)
  BY <1>1, <1>3, FS_Injection
<1> QED BY <1>1, <1>2, <1>4, <1>5
--------------------------------------------------------------------------------
(***************************************************************************)
(* What is left of a sequence without an element.  Without is a recursive  *)
(* function: that it exists, and what it gives, is shown by the least      *)
(* number for which it would not be so.                                    *)
(***************************************************************************)
\* A set of naturals has a least element.
LEMMA Least ==
  ASSUME NEW T \in SUBSET Nat, T # {}
  PROVE  \E n \in T : \A m \in T : n <= m
<1>1. IsWellFoundedOn({p \in Nat \X Nat : p[1] < p[2]}, Nat)
  BY NatLessThanWellFounded DEF OpToRel
<1>2. PICK n \in T : \A m \in T : <<m, n>> \notin {p \in Nat \X Nat : p[1] < p[2]}
  BY <1>1, WFMin
<1>3. \A m \in T : ~(m < n)
  BY <1>2
<1> QED BY <1>3

\* f gives what is left, without e, of the last n elements of s, for n up to k: the
\* function of Without's definition.
IsLeft(f, s, e, k) ==
  f = [n \in 0..k |->
         IF n = 0 THEN <<>>
         ELSE (IF s[Len(s) + 1 - n] = e THEN <<>> ELSE <<s[Len(s) + 1 - n]>>) \o f[n - 1]]

\* There is such a function: of the k for which there is none, none is the least.
LEMMA LeftExists ==
  ASSUME NEW S, NEW s \in Seq(S), NEW e
  PROVE  \E f \in [0..Len(s) -> Seq(S)] : IsLeft(f, s, e, Len(s))
<1> DEFINE Bad == {k \in 0..Len(s) : \A f \in [0..k -> Seq(S)] : ~IsLeft(f, s, e, k)}
<1>1. Len(s) \in Nat /\ \A i \in 1..Len(s) : s[i] \in S
  BY LenProperties
<1>2. SUFFICES ASSUME Bad # {} PROVE FALSE
  BY <1>1
<1>3. PICK k \in Bad : \A m \in Bad : k <= m
  <2>1. Bad \in SUBSET Nat
    BY <1>1
  <2> HIDE DEF Bad
  <2> QED BY <1>2, <2>1, Least
<1>4. k \in 0..Len(s) /\ \A f \in [0..k -> Seq(S)] : ~IsLeft(f, s, e, k)
  BY <1>3
<1>5. k # 0
  <2> DEFINE f == [n \in 0..0 |-> <<>>]
  <2>1. f \in [0..0 -> Seq(S)]
    OBVIOUS
  <2>2. IsLeft(f, s, e, 0)
    BY DEF IsLeft
  <2> QED BY <1>4, <2>1, <2>2
<1>6. k \in 1..Len(s) /\ k - 1 \in 0..Len(s)
  BY <1>1, <1>4, <1>5
<1>7. PICK g \in [0..(k - 1) -> Seq(S)] : IsLeft(g, s, e, k - 1)
  <2>1. k - 1 \notin Bad
    <3> HIDE DEF Bad
    <3> QED BY <1>3, <1>6
  <2> QED BY <1>6, <2>1
<1> DEFINE x == s[Len(s) + 1 - k]
           last == (IF x = e THEN <<>> ELSE <<x>>) \o g[k - 1]
           f == [n \in 0..k |-> IF n = k THEN last ELSE g[n]]
<1>8. last \in Seq(S)
  <2>1. Len(s) + 1 - k \in 1..Len(s)
    BY <1>1, <1>6
  <2>2. g[k - 1] \in Seq(S) /\ x \in S
    BY <1>1, <1>6, <1>7, <2>1
  <2> QED BY <2>2, ConcatProperties
<1> HIDE DEF last
<1>9. f \in [0..k -> Seq(S)]
  BY <1>6, <1>7, <1>8
<1>10. ASSUME NEW n \in 0..k
      PROVE  f[n] = IF n = 0 THEN <<>>
                    ELSE (IF s[Len(s) + 1 - n] = e THEN <<>> ELSE <<s[Len(s) + 1 - n]>>) \o f[n - 1]
  <2>1. CASE n = k
    <3>1. f[n] = last /\ f[n - 1] = g[k - 1]
      BY <1>6, <2>1
    <3>2. f[n] = (IF x = e THEN <<>> ELSE <<x>>) \o f[n - 1]
      BY <3>1 DEF last
    <3>3. n # 0
      BY <1>6, <2>1
    <3> HIDE DEF f
    <3> QED BY <2>1, <3>2, <3>3
  <2>2. CASE n # k
    <3>1. n \in 0..(k - 1) /\ f[n] = g[n] /\ (n # 0 => f[n - 1] = g[n - 1])
      BY <1>6, <2>2
    <3> QED BY <1>7, <3>1 DEF IsLeft
  <2> QED BY <2>1, <2>2
<1>11. IsLeft(f, s, e, k)
  BY <1>10 DEF IsLeft
<1> QED BY <1>4, <1>9, <1>11

\* The last l elements of s and t are the same.
SameEnd(s, t, l) == \A n \in 1..l : s[Len(s) + 1 - n] = t[Len(t) + 1 - n]

\* Two such functions agree where the sequences have the same last elements.
LEMMA LeftAgree ==
  ASSUME NEW s, NEW t, NEW e, NEW f, NEW g, NEW k \in Nat, NEW l \in 0..k,
         IsLeft(f, s, e, k), IsLeft(g, t, e, l), SameEnd(s, t, l)
  PROVE  \A n \in 0..l : f[n] = g[n]
<1> DEFINE Bad == {n \in 0..l : f[n] # g[n]}
<1> SUFFICES ASSUME Bad # {} PROVE FALSE
  OBVIOUS
<1>1. PICK n \in Bad : \A m \in Bad : n <= m
  <2>1. Bad \in SUBSET Nat
    OBVIOUS
  <2> HIDE DEF Bad
  <2> QED BY <2>1, Least
<1>2. n # 0
  BY <1>1 DEF IsLeft
<1>3. n \in 1..l /\ n - 1 \in 0..l /\ n - 1 \in 0..k /\ n \in 0..k /\ f[n - 1] = g[n - 1]
  BY <1>1, <1>2
<1>4. f[n] = (IF s[Len(s) + 1 - n] = e THEN <<>> ELSE <<s[Len(s) + 1 - n]>>) \o f[n - 1]
  BY <1>2, <1>3 DEF IsLeft
<1>5. g[n] = (IF t[Len(t) + 1 - n] = e THEN <<>> ELSE <<t[Len(t) + 1 - n]>>) \o g[n - 1]
  BY <1>1, <1>2 DEF IsLeft
<1> QED BY <1>1, <1>3, <1>4, <1>5 DEF SameEnd

\* Without takes its value from such a function, if there is one.
LEMMA WithoutIs ==
  ASSUME NEW s, NEW e, NEW f, IsLeft(f, s, e, Len(s))
  PROVE  \E left : IsLeft(left, s, e, Len(s)) /\ Without(s, e) = left[Len(s)]
BY DEF Without, IsLeft

\* Without looks at one element after the other.
LEMMA WithoutFacts ==
  ASSUME NEW S, NEW s \in Seq(S), NEW e
  PROVE  /\ Without(s, e) \in Seq(S)
         /\ s = <<>> => Without(s, e) = <<>>
         /\ s # <<>> =>
              Without(s, e) = (IF Head(s) = e THEN <<>> ELSE <<Head(s)>>) \o Without(Tail(s), e)
<1>1. \A t \in Seq(S) : \E f \in [0..Len(t) -> Seq(S)] :
         IsLeft(f, t, e, Len(t)) /\ Without(t, e) = f[Len(t)]
  <2> SUFFICES ASSUME NEW t \in Seq(S)
               PROVE  \E f \in [0..Len(t) -> Seq(S)] :
                        IsLeft(f, t, e, Len(t)) /\ Without(t, e) = f[Len(t)]
    OBVIOUS
  <2>1. PICK g \in [0..Len(t) -> Seq(S)] : IsLeft(g, t, e, Len(t))
    BY LeftExists
  <2>2. PICK left : IsLeft(left, t, e, Len(t)) /\ Without(t, e) = left[Len(t)]
    BY <2>1, WithoutIs
  <2>3. Len(t) \in Nat
    BY LenProperties
  <2>4. \A n \in 0..Len(t) : left[n] = g[n]
    BY <2>1, <2>2, <2>3, LeftAgree DEF SameEnd
  <2> QED BY <2>1, <2>2, <2>3, <2>4
<1>2. PICK f \in [0..Len(s) -> Seq(S)] : IsLeft(f, s, e, Len(s)) /\ Without(s, e) = f[Len(s)]
  BY <1>1
<1>3. Len(s) \in Nat
  BY LenProperties
<1>4. Without(s, e) \in Seq(S)
  BY <1>2, <1>3
<1>5. ASSUME s = <<>> PROVE Without(s, e) = <<>>
  BY <1>2, <1>5 DEF IsLeft
<1>6. ASSUME s # <<>>
      PROVE  Without(s, e) = (IF Head(s) = e THEN <<>> ELSE <<Head(s)>>) \o Without(Tail(s), e)
  <2> DEFINE t == Tail(s)
  <2>1. /\ t \in Seq(S) /\ Len(t) = Len(s) - 1 /\ Len(s) \in Nat \ {0} /\ Head(s) = s[1]
        /\ \A i \in 1..Len(s) - 1 : t[i] = s[i + 1]
    BY <1>3, <1>6, HeadTailProperties, EmptySeq
  <2> HIDE DEF t
  <2>2. PICK g \in [0..Len(t) -> Seq(S)] : IsLeft(g, t, e, Len(t)) /\ Without(t, e) = g[Len(t)]
    BY <1>1, <2>1
  <2>3. SameEnd(s, t, Len(t))
    <3> SUFFICES ASSUME NEW n \in 1..Len(t) PROVE s[Len(s) + 1 - n] = t[Len(t) + 1 - n]
      BY DEF SameEnd
    <3>1. Len(t) + 1 - n \in 1..Len(s) - 1 /\ (Len(t) + 1 - n) + 1 = Len(s) + 1 - n
      BY <2>1
    <3> QED BY <2>1, <3>1
  <2>4. Len(t) \in 0..Len(s) /\ Len(t) = Len(s) - 1
    BY <2>1
  <2>5. f[Len(s) - 1] = g[Len(t)]
    <3>1. \A n \in 0..Len(t) : f[n] = g[n]
      BY <1>2, <1>3, <2>2, <2>3, <2>4, LeftAgree
    <3>2. Len(t) \in 0..Len(t)
      BY <2>1
    <3> QED BY <2>4, <3>1, <3>2
  <2>6. f[Len(s)] = (IF s[1] = e THEN <<>> ELSE <<s[1]>>) \o f[Len(s) - 1]
    <3>1. Len(s) \in 0..Len(s) /\ Len(s) # 0 /\ Len(s) + 1 - Len(s) = 1
      BY <2>1
    <3>2. f[Len(s)] = (IF s[Len(s) + 1 - Len(s)] = e THEN <<>> ELSE <<s[Len(s) + 1 - Len(s)]>>)
                        \o f[Len(s) - 1]
      BY <1>2, <3>1 DEF IsLeft
    <3> QED BY <3>1, <3>2
  <2> QED BY <1>2, <2>1, <2>2, <2>5, <2>6 DEF t
<1> QED BY <1>4, <1>5, <1>6
--------------------------------------------------------------------------------
(***************************************************************************)
(* A sequence that is rotated once, and loses e on the way.                *)
(***************************************************************************)
\* What s will be when its first n elements have been looked at.
Rotated(s, n, e) == SubSeq(s, n + 1, Len(s)) \o Without(SubSeq(s, 1, n), e)

LEMMA RotatedEnds ==
  ASSUME NEW S, NEW s \in Seq(S), NEW e
  PROVE  Rotated(s, 0, e) = s /\ Rotated(s, Len(s), e) = Without(s, e)
<1>1. Len(s) \in Nat /\ <<>> \in Seq(S)
  BY LenProperties
<1>2. SubSeq(s, 1, Len(s)) = s /\ 0 + 1 = 1
  BY SubSeqFull
<1>3. SubSeq(s, 1, 0) = <<>> /\ SubSeq(s, Len(s) + 1, Len(s)) = <<>>
  BY <1>1, SubSeqEmpty
<1>4. Without(<<>>, e) = <<>> /\ Without(s, e) \in Seq(S)
  BY <1>1, WithoutFacts
<1>5. Rotated(s, 0, e) = s
  BY <1>2, <1>3, <1>4, ConcatEmptySeq DEF Rotated
<1>6. Rotated(s, Len(s), e) = Without(s, e)
  BY <1>2, <1>3, <1>4, ConcatEmptySeq DEF Rotated
<1> QED BY <1>5, <1>6

\* The first element is dropped if it is e, and goes last if it is not: what s will
\* be stays the same.
LEMMA RotatedStep ==
  ASSUME NEW S, NEW s \in Seq(S), NEW e, NEW n \in 1..Len(s)
  PROVE  /\ Head(s) = e => Rotated(Tail(s), n - 1, e) = Rotated(s, n, e)
         /\ Head(s) # e => Rotated(Append(Tail(s), Head(s)), n - 1, e) = Rotated(s, n, e)
<1> DEFINE x == Head(s)
           t == Tail(s)
           front == SubSeq(t, 1, n - 1)
           back == SubSeq(s, n + 1, Len(s))
<1>1. Len(s) \in Nat \ {0} /\ s # <<>>
  BY LenProperties, EmptySeq
<1>2. /\ x \in S /\ t \in Seq(S) /\ Len(t) = Len(s) - 1 /\ x = s[1]
      /\ \A i \in 1..Len(t) : t[i] = s[i + 1]
  BY <1>1, HeadTailProperties
<1> HIDE DEF x, t
<1>3. back \in Seq(S) /\ Len(back) = Len(s) - n
      /\ \A i \in 1..Len(s) - n : back[i] = s[n + i]
  <2>1. \A i \in n + 1..Len(s) : s[i] \in S
    BY <1>1, LenProperties
  <2> QED BY <1>1, <2>1, SubSeqProperties
<1>4. front \in Seq(S) /\ Len(front) = n - 1 /\ \A i \in 1..n - 1 : front[i] = t[i]
  <2>1. \A i \in 1..n - 1 : t[i] \in S
    BY <1>1, <1>2, LenProperties
  <2> QED BY <1>1, <2>1, SubSeqProperties
<1> HIDE DEF front, back
\* What has been looked at loses its first element.
<1>5. Without(SubSeq(s, 1, n), e) = (IF x = e THEN <<>> ELSE <<x>>) \o Without(front, e)
  <2> DEFINE looked == SubSeq(s, 1, n)
  <2>1. \A i \in 1..n : s[i] \in S
    BY <1>1, LenProperties
  <2>2. looked \in Seq(S) /\ Len(looked) = n /\ \A i \in 1..n : looked[i] = s[i]
    BY <1>1, <2>1, SubSeqProperties
  <2> HIDE DEF looked
  <2>3. looked # <<>>
    BY <2>2
  <2>4. /\ Head(looked) = x /\ Tail(looked) \in Seq(S) /\ Len(Tail(looked)) = n - 1
        /\ \A i \in 1..n - 1 : Tail(looked)[i] = s[i + 1]
    BY <1>2, <2>2, <2>3, HeadTailProperties
  <2>5. \A i \in 1..n - 1 : Tail(looked)[i] = front[i]
    BY <1>1, <1>2, <1>4, <2>4
  <2>6. Tail(looked) = front
    BY <1>4, <2>4, <2>5, SeqEqual
  <2>7. Without(looked, e) = (IF x = e THEN <<>> ELSE <<x>>) \o Without(front, e)
    BY <2>2, <2>3, <2>4, <2>6, WithoutFacts
  <2> QED BY <2>7 DEF looked
<1>6. Without(front, e) \in Seq(S)
  BY <1>4, WithoutFacts
<1>7. ASSUME x = e PROVE Rotated(t, n - 1, e) = Rotated(s, n, e)
  <2>1. \A i \in (n - 1) + 1..Len(t) : t[i] \in S
    BY <1>1, <1>2, LenProperties
  <2>2. /\ SubSeq(t, (n - 1) + 1, Len(t)) \in Seq(S)
        /\ Len(SubSeq(t, (n - 1) + 1, Len(t))) = Len(s) - n
        /\ \A i \in 1..Len(s) - n : SubSeq(t, (n - 1) + 1, Len(t))[i] = t[n + i - 1]
    BY <1>1, <1>2, <2>1, SubSeqProperties
  <2>3. \A i \in 1..Len(s) - n : t[n + i - 1] = s[n + i]
    BY <1>1, <1>2
  <2>4. SubSeq(t, (n - 1) + 1, Len(t)) = back
    BY <1>3, <2>2, <2>3, SeqEqual
  <2>5. Without(SubSeq(s, 1, n), e) = Without(front, e)
    BY <1>5, <1>6, <1>7, ConcatEmptySeq
  <2> QED BY <2>4, <2>5 DEF Rotated, front, back
<1>8. ASSUME x # e PROVE Rotated(Append(t, x), n - 1, e) = Rotated(s, n, e)
  <2> DEFINE u == Append(t, x)
  <2>1. /\ u \in Seq(S) /\ Len(u) = Len(s)
        /\ \A i \in 1..Len(s) - 1 : u[i] = t[i]
        /\ u[Len(s)] = x
    BY <1>1, <1>2, AppendProperties
  <2> HIDE DEF u
  <2>2. SubSeq(u, 1, n - 1) = front
    <3>1. \A i \in 1..n - 1 : u[i] \in S
      BY <1>1, <2>1, LenProperties
    <3>2. /\ SubSeq(u, 1, n - 1) \in Seq(S) /\ Len(SubSeq(u, 1, n - 1)) = n - 1
          /\ \A i \in 1..n - 1 : SubSeq(u, 1, n - 1)[i] = u[i]
      BY <1>1, <3>1, SubSeqProperties
    <3>3. ASSUME NEW i \in 1..n - 1 PROVE u[i] = front[i]
      <4>1. i \in 1..Len(s) - 1
        BY <1>1
      <4>2. u[i] = t[i]
        BY <2>1, <4>1
      <4> QED BY <1>4, <4>2
    <3>4. front \in Seq(S) /\ Len(front) = n - 1
      BY <1>4
    <3> QED BY <3>2, <3>3, <3>4, SeqEqual
  <2>3. SubSeq(u, (n - 1) + 1, Len(u)) = back \o <<x>>
    <3>1. \A i \in (n - 1) + 1..Len(u) : u[i] \in S
      BY <1>1, <2>1, LenProperties
    <3>2. /\ SubSeq(u, (n - 1) + 1, Len(u)) \in Seq(S)
          /\ Len(SubSeq(u, (n - 1) + 1, Len(u))) = Len(s) - n + 1
          /\ \A i \in 1..Len(s) - n + 1 : SubSeq(u, (n - 1) + 1, Len(u))[i] = u[n + i - 1]
      BY <1>1, <2>1, <3>1, SubSeqProperties
    <3>3. <<x>> \in Seq(S) /\ Len(<<x>>) = 1 /\ <<x>>[1] = x
      BY <1>2
    <3>4. /\ back \o <<x>> \in Seq(S) /\ Len(back \o <<x>>) = Len(s) - n + 1
          /\ \A i \in 1..Len(s) - n + 1 :
                (back \o <<x>>)[i] = IF i <= Len(s) - n THEN back[i] ELSE x
      <4>1. /\ back \o <<x>> \in Seq(S) /\ Len(back \o <<x>>) = Len(back) + Len(<<x>>)
            /\ \A i \in 1..Len(back) + Len(<<x>>) :
                  (back \o <<x>>)[i] = IF i <= Len(back) THEN back[i] ELSE <<x>>[i - Len(back)]
        BY <1>3, <3>3, ConcatProperties
      <4>2. Len(back) = Len(s) - n /\ Len(<<x>>) = 1 /\ Len(s) - n \in Nat
        BY <1>1, <1>3
      <4>3. ASSUME NEW i \in 1..Len(s) - n + 1, ~(i <= Len(s) - n)
            PROVE  i - Len(back) = 1
        BY <4>2, <4>3
      <4>4. ASSUME NEW i \in 1..Len(s) - n + 1
            PROVE  (back \o <<x>>)[i] = IF i <= Len(s) - n THEN back[i] ELSE x
        BY <3>3, <4>1, <4>2, <4>3
      <4> QED BY <4>1, <4>2, <4>4
    <3>5. \A i \in 1..Len(s) - n + 1 : u[n + i - 1] = IF i <= Len(s) - n THEN back[i] ELSE x
      <4> SUFFICES ASSUME NEW i \in 1..Len(s) - n + 1
                   PROVE  u[n + i - 1] = IF i <= Len(s) - n THEN back[i] ELSE x
        OBVIOUS
      <4>1. CASE i <= Len(s) - n
        <5>1. n + i - 1 \in 1..Len(s) - 1 /\ (n + i - 1) + 1 = n + i /\ i \in 1..Len(s) - n
          BY <1>1, <4>1
        <5>2. u[n + i - 1] = t[n + i - 1] /\ t[n + i - 1] = s[n + i] /\ back[i] = s[n + i]
          BY <1>2, <1>3, <2>1, <5>1
        <5> QED BY <4>1, <5>2
      <4>2. CASE ~(i <= Len(s) - n)
        BY <1>1, <2>1, <4>2
      <4> QED BY <4>1, <4>2
    <3> QED BY <1>1, <3>2, <3>4, <3>5, SeqEqual
  <2>4. <<x>> \in Seq(S)
    BY <1>2
  <2>5. (back \o <<x>>) \o Without(front, e) = back \o (<<x>> \o Without(front, e))
    BY <1>3, <1>6, <2>4, ConcatAssociative
  <2>6. Rotated(u, n - 1, e) = (back \o <<x>>) \o Without(front, e)
    BY <2>2, <2>3 DEF Rotated
  <2>7. Rotated(s, n, e) = back \o (<<x>> \o Without(front, e))
    BY <1>5, <1>8 DEF Rotated, back
  <2> QED BY <2>5, <2>6, <2>7 DEF u
<1> QED BY <1>7, <1>8 DEF x, t
================================================================================
