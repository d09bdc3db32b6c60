---------------------------- MODULE SequenceLemmas ----------------------------
(***************************************************************************)
(* What the proofs use about FlattenSeq, the fold with which the models    *)
(* put texts together.  It is a recursive function, and what it does is    *)
(* proved by induction on the length of its argument: an argument by       *)
(* induction looks at the least counterexample, which LeastNatural says is *)
(* there if there is any.                                                  *)
(***************************************************************************)
EXTENDS SequencesExt, SequenceTheorems, FiniteSetTheorems, WellFoundedInduction, TLAPS

\* A set of natural numbers has a least element.
LEMMA LeastNatural ==
  ASSUME NEW A \in SUBSET Nat, A # {}
  PROVE  \E n \in A : \A m \in A : n <= m
<1>. DEFINE Up == {1 .. n : n \in A}
<1>1. \A n \in Nat : IsFiniteSet(1 .. n)
  BY FS_Interval
<1>2. Up \subseteq FiniteSubsetsOf(Nat)
  BY <1>1 DEF FiniteSubsetsOf
<1>3. Up # {}
  OBVIOUS
<1>4. IsWellFoundedOn(StrictSubsetOrdering(Nat), FiniteSubsetsOf(Nat))
  BY FS_StrictSubsetOrderingWellFounded
<1>5. PICK x \in Up : \A y \in Up : ~ (<<y, x>> \in StrictSubsetOrdering(Nat))
  <2>. HIDE DEF Up
  <2>. QED
    BY <1>2, <1>3, <1>4, WFMin
<1>6. PICK n \in A : x = 1 .. n
  OBVIOUS
<1>7. ASSUME NEW m \in A, m < n
      PROVE  FALSE
  <2>1. 1 .. m \in Up
    OBVIOUS
  <2>2. 1 .. m \subseteq 1 .. n /\ 1 .. m # 1 .. n
    <3>1. n \in 1 .. n /\ n \notin 1 .. m
      BY <1>7
    <3>. QED
      BY <1>7, <3>1
  <2>3. <<1 .. m, 1 .. n>> \in StrictSubsetOrdering(Nat)
    BY <2>2 DEF StrictSubsetOrdering
  <2>. QED
    BY <1>5, <1>6, <2>1, <2>3
<1>. QED
  BY <1>7

-------------------------------------------------------------------------------
(* Concatenation, by its algebra.  The provers expand \o to the function   *)
(* it is; ++ is the same, and stays closed.                                *)

s ++ t == s \o t

LEMMA JoinType ==
  ASSUME NEW S
  PROVE  \A s, t \in Seq(S) : s ++ t \in Seq(S)
BY DEF ++

LEMMA JoinAssociative ==
  ASSUME NEW S
  PROVE  \A s, t, u \in Seq(S) : (s ++ t) ++ u = s ++ (t ++ u)
BY DEF ++

LEMMA JoinEmpty ==
  ASSUME NEW S
  PROVE  \A s \in Seq(S) : s ++ <<>> = s /\ <<>> ++ s = s
BY ConcatEmptySeq DEF ++

-------------------------------------------------------------------------------
(* FlattenSeq.  Its recursive function is whatever satisfies this equation, if *)
(* something does.                                                             *)

Flattens(f, s, n) == f = [i \in 1 .. n |-> IF i = 1 THEN s[i] ELSE f[i - 1] \o s[i]]

LEMMA FlattensAt ==
  ASSUME NEW s, NEW n \in Nat, NEW f, Flattens(f, s, n), NEW i \in 1 .. n
  PROVE  f[i] = IF i = 1 THEN s[i] ELSE f[i - 1] \o s[i]
<1>. DEFINE h == [j \in 1 .. n |-> IF j = 1 THEN s[j] ELSE f[j - 1] \o s[j]]
<1>1. h[i] = IF i = 1 THEN s[i] ELSE f[i - 1] \o s[i]
  OBVIOUS
<1>2. f = h
  BY Zenon DEF Flattens
<1>. QED
  BY <1>1, <1>2, Zenon

LEMMA FlattensAgree ==
  ASSUME NEW s, NEW t, NEW n \in Nat, NEW m \in Nat, n <= m,
         \A i \in 1 .. n : s[i] = t[i],
         NEW f, Flattens(f, s, n), NEW g, Flattens(g, t, m)
  PROVE  \A i \in 1 .. n : f[i] = g[i]
<1>. DEFINE A == {i \in 1 .. n : f[i] # g[i]}
<1>. SUFFICES ASSUME A # {}
              PROVE  FALSE
  OBVIOUS
<1>1. A \in SUBSET Nat
  OBVIOUS
<1>2. PICK k \in A : \A i \in A : k <= i
  <2>. HIDE DEF A
  <2>. QED
    BY <1>1, LeastNatural
<1>3. k \in 1 .. n /\ f[k] # g[k]
  OBVIOUS
<1>4. /\ f[k] = IF k = 1 THEN s[k] ELSE f[k - 1] \o s[k]
      /\ g[k] = IF k = 1 THEN t[k] ELSE g[k - 1] \o t[k]
  BY <1>3, FlattensAt
<1>5. CASE k = 1
  BY <1>3, <1>4, <1>5
<1>6. CASE k # 1
  <2>1. k - 1 \in 1 .. n /\ k - 1 \notin A
    BY <1>2, <1>3, <1>6
  <2>. QED
    BY <1>3, <1>4, <1>6, <2>1
<1>. QED
  BY <1>5, <1>6

LEMMA FlattensExists ==
  ASSUME NEW s, NEW n \in Nat
  PROVE  \E f : Flattens(f, s, n)
<1>. DEFINE A == {m \in Nat : ~ \E f : Flattens(f, s, m)}
<1>. SUFFICES ASSUME A # {}
              PROVE  FALSE
  OBVIOUS
<1>1. A \in SUBSET Nat
  OBVIOUS
<1>2. PICK k \in A : \A i \in A : k <= i
  <2>. HIDE DEF A
  <2>. QED
    BY <1>1, LeastNatural
<1>3. k \in Nat /\ ~ \E f : Flattens(f, s, k)
  OBVIOUS
<1>4. k # 0
  <2>1. Flattens([i \in 1 .. 0 |-> 0], s, 0)
    BY DEF Flattens
  <2>. QED
    BY <1>3, <2>1
<1>5. PICK f : Flattens(f, s, k - 1)
  <2>1. k - 1 \in Nat /\ k - 1 \notin A
    BY <1>2, <1>3, <1>4
  <2>. QED
    BY <2>1
<1>. DEFINE g == [i \in 1 .. k |-> IF i = 1 THEN s[i] ELSE f[i - 1] \o s[i]]
<1>6. \A i \in 1 .. k - 1 : f[i] = g[i]
  <2>. SUFFICES ASSUME NEW i \in 1 .. k - 1
                PROVE  f[i] = g[i]
    OBVIOUS
  <2>1. f[i] = IF i = 1 THEN s[i] ELSE f[i - 1] \o s[i]
    BY <1>3, <1>4, <1>5, FlattensAt
  <2>2. g[i] = IF i = 1 THEN s[i] ELSE f[i - 1] \o s[i]
    BY <1>3
  <2>. QED
    BY <2>1, <2>2
<1>7. Flattens(g, s, k)
  <2>1. \A i \in 1 .. k : (IF i = 1 THEN s[i] ELSE f[i - 1] \o s[i])
                          = IF i = 1 THEN s[i] ELSE g[i - 1] \o s[i]
    <3>. SUFFICES ASSUME NEW i \in 1 .. k, i # 1
                  PROVE  f[i - 1] \o s[i] = g[i - 1] \o s[i]
      BY Zenon
    <3>1. i - 1 \in 1 .. k - 1
      BY <1>3
    <3>2. f[i - 1] = g[i - 1]
      BY <1>6, <3>1, Zenon
    <3>. QED
      BY <3>2, Zenon
  <2>2. g = [i \in 1 .. k |-> IF i = 1 THEN s[i] ELSE g[i - 1] \o s[i]]
    BY <2>1, Zenon
  <2>. QED
    BY <2>2, Zenon DEF Flattens
<1>. QED
  BY <1>3, <1>7

LEMMA FlattenSeqDef ==
  ASSUME NEW s, Len(s) \in Nat \ {0}
  PROVE  \E f : Flattens(f, s, Len(s)) /\ FlattenSeq(s) = f[Len(s)]
<1>. DEFINE f == CHOOSE f : Flattens(f, s, Len(s))
<1>1. Flattens(f, s, Len(s))
  BY FlattensExists
<1>2. FlattenSeq(s) = f[Len(s)]
  BY DEF FlattenSeq, Flattens
<1>. QED
  BY <1>1, <1>2

LEMMA FlattenEmpty == FlattenSeq(<<>>) = <<>>
BY DEF FlattenSeq

\* A sequence is flattened from its first element to its last.
THEOREM FlattenAppend ==
  ASSUME NEW S, NEW s \in Seq(Seq(S)), NEW e \in Seq(S)
  PROVE  FlattenSeq(Append(s, e)) = FlattenSeq(s) ++ e
<1>. DEFINE t == Append(s, e)
            n == Len(s)
<1>1. /\ n \in Nat /\ Len(t) = n + 1 /\ t[n + 1] = e
      /\ \A i \in 1 .. n : t[i] = s[i]
  BY LenProperties, AppendProperties
<1>. HIDE DEF t
<1>2. PICK g : Flattens(g, t, n + 1) /\ FlattenSeq(t) = g[n + 1]
  BY <1>1, FlattenSeqDef
<1>3. g[n + 1] = IF n + 1 = 1 THEN t[n + 1] ELSE g[n + 1 - 1] \o t[n + 1]
  <2>1. n + 1 \in Nat /\ n + 1 \in 1 .. n + 1
    BY <1>1
  <2>. DEFINE m == n + 1
  <2>2. m \in Nat /\ m \in 1 .. m /\ Flattens(g, t, m)
    BY <1>2, <2>1
  <2>. HIDE DEF m
  <2>3. g[m] = IF m = 1 THEN t[m] ELSE g[m - 1] \o t[m]
    BY <2>2, FlattensAt
  <2>. QED
    BY <2>3 DEF m
<1>4. CASE n = 0
  <2>1. s = <<>>
    BY <1>4, EmptySeq
  <2>2. FlattenSeq(t) = e
    BY <1>1, <1>2, <1>3, <1>4
  <2>3. FlattenSeq(s) ++ e = e
    BY <2>1, FlattenEmpty, JoinEmpty
  <2>. QED
    BY <2>2, <2>3 DEF t
<1>5. CASE n # 0
  <2>1. PICK f : Flattens(f, s, n) /\ FlattenSeq(s) = f[n]
    BY <1>1, <1>5, FlattenSeqDef
  <2>2. f[n] = g[n]
    <3>1. n <= n + 1 /\ n + 1 \in Nat /\ n \in 1 .. n
      BY <1>1, <1>5
    <3>2. \A i \in 1 .. n : s[i] = t[i]
      BY <1>1
    <3>3. \A i \in 1 .. n : f[i] = g[i]
      <4>. DEFINE m == n + 1
      <4>1. m \in Nat /\ n <= m /\ n \in Nat /\ Flattens(g, t, m)
        BY <1>1, <1>2, <3>1
      <4>. HIDE DEF n, m
      <4>. QED
        BY <2>1, <3>2, <4>1, FlattensAgree
    <3>. QED
      BY <3>1, <3>3
  <2>3. g[n + 1] = g[n] \o e
    BY <1>1, <1>3, <1>5
  <2>. QED
    BY <1>2, <2>1, <2>2, <2>3 DEF t, ++
<1>. QED
  BY <1>4, <1>5

LEMMA FlattenType ==
  ASSUME NEW S, NEW s \in Seq(Seq(S))
  PROVE  FlattenSeq(s) \in Seq(S)
<1>. DEFINE A == {n \in Nat : \E u \in Seq(Seq(S)) : Len(u) = n /\ FlattenSeq(u) \notin Seq(S)}
<1>. SUFFICES ASSUME A # {}
              PROVE  FALSE
  BY LenProperties
<1>1. PICK k \in A : \A i \in A : k <= i
  <2>1. A \in SUBSET Nat
    OBVIOUS
  <2>. HIDE DEF A
  <2>. QED
    BY <2>1, LeastNatural
<1>2. PICK u \in Seq(Seq(S)) : Len(u) = k /\ FlattenSeq(u) \notin Seq(S)
  OBVIOUS
<1>3. u # <<>>
  BY <1>2, FlattenEmpty, EmptySeq
<1>4. PICK v \in Seq(Seq(S)), e \in Seq(S) : u = Append(v, e)
  BY <1>3, SequenceEmptyOrAppend
<1>5. Len(v) \in Nat /\ k = Len(v) + 1
  BY <1>2, <1>4, LenProperties, AppendProperties
<1>6. FlattenSeq(v) \in Seq(S)
  <2>1. Len(v) \in Nat /\ ~ k <= Len(v)
    BY <1>5
  <2>2. Len(v) \notin A
    BY <1>1, <2>1
  <2>. QED
    BY <2>1, <2>2
<1>7. FlattenSeq(u) = FlattenSeq(v) ++ e
  BY <1>4, FlattenAppend
<1>. QED
  BY <1>2, <1>6, <1>7, JoinType

\* The first element comes first.
THEOREM FlattenHead ==
  ASSUME NEW S, NEW s \in Seq(Seq(S)), s # <<>>
  PROVE  FlattenSeq(s) = Head(s) ++ FlattenSeq(Tail(s))
<1>. DEFINE Bad(u) == u # <<>> /\ FlattenSeq(u) # Head(u) ++ FlattenSeq(Tail(u))
            A == {n \in Nat : \E u \in Seq(Seq(S)) : Len(u) = n /\ Bad(u)}
<1>. SUFFICES ASSUME A # {}
              PROVE  FALSE
  BY LenProperties
<1>1. PICK k \in A : \A i \in A : k <= i
  <2>1. A \in SUBSET Nat
    OBVIOUS
  <2>. HIDE DEF A
  <2>. QED
    BY <2>1, LeastNatural
<1>2. PICK u \in Seq(Seq(S)) : Len(u) = k /\ Bad(u)
  OBVIOUS
<1>4. PICK v \in Seq(Seq(S)), e \in Seq(S) : u = Append(v, e)
  BY <1>2, SequenceEmptyOrAppend
<1>5. Len(v) \in Nat /\ k = Len(v) + 1
  BY <1>2, <1>4, LenProperties, AppendProperties
<1>6. ~ Bad(v)
  <2>1. Len(v) \in Nat /\ ~ k <= Len(v)
    BY <1>5
  <2>2. Len(v) \notin A
    BY <1>1, <2>1
  <2>. QED
    BY <2>1, <2>2
<1>7. FlattenSeq(u) = FlattenSeq(v) ++ e
  BY <1>4, FlattenAppend
<1>8. /\ Head(u) = IF v = <<>> THEN e ELSE Head(v)
      /\ Tail(u) = IF v = <<>> THEN <<>> ELSE Append(Tail(v), e)
  BY <1>4, HeadTailAppend
<1>9. CASE v = <<>>
  <2>1. FlattenSeq(u) = e
    BY <1>7, <1>9, FlattenEmpty, JoinEmpty
  <2>2. Head(u) ++ FlattenSeq(Tail(u)) = e
    BY <1>8, <1>9, FlattenEmpty, JoinEmpty
  <2>. QED
    BY <1>2, <2>1, <2>2
<1>10. CASE v # <<>>
  <2>1. Head(v) \in Seq(S) /\ Tail(v) \in Seq(Seq(S))
    BY <1>10, HeadTailProperties
  <2>2. FlattenSeq(Tail(v)) \in Seq(S)
    BY <2>1, FlattenType
  <2>3. FlattenSeq(Tail(u)) = FlattenSeq(Tail(v)) ++ e
    BY <1>8, <1>10, <2>1, FlattenAppend
  <2>4. FlattenSeq(v) = Head(v) ++ FlattenSeq(Tail(v))
    BY <1>6, <1>10
  <2>5. (Head(v) ++ FlattenSeq(Tail(v))) ++ e = Head(v) ++ (FlattenSeq(Tail(v)) ++ e)
    <3>. HIDE DEF A, Bad
    <3>. QED
      BY <2>1, <2>2, JoinAssociative
  <2>. QED
    BY <1>2, <1>7, <1>8, <1>10, <2>3, <2>4, <2>5
<1>. QED
  BY <1>9, <1>10

\* Sequences are flattened one after the other.
THEOREM FlattenJoin ==
  ASSUME NEW S, NEW s \in Seq(Seq(S)), NEW t \in Seq(Seq(S))
  PROVE  FlattenSeq(s \o t) = FlattenSeq(s) ++ FlattenSeq(t)
<1>. DEFINE Bad(u) == FlattenSeq(s \o u) # FlattenSeq(s) ++ FlattenSeq(u)
            A == {n \in Nat : \E u \in Seq(Seq(S)) : Len(u) = n /\ Bad(u)}
<1>. SUFFICES ASSUME A # {}
              PROVE  FALSE
  BY LenProperties
<1>1. PICK k \in A : \A i \in A : k <= i
  <2>1. A \in SUBSET Nat
    OBVIOUS
  <2>. HIDE DEF A
  <2>. QED
    BY <2>1, LeastNatural
<1>2. PICK u \in Seq(Seq(S)) : Len(u) = k /\ Bad(u)
  OBVIOUS
<1>3. FlattenSeq(s) \in Seq(S)
  BY FlattenType
<1>4. u # <<>>
  <2>1. ~ Bad(<<>>)
    BY <1>3, FlattenEmpty, JoinEmpty, ConcatEmptySeq
  <2>. QED
    BY <1>2, <2>1
<1>5. PICK v \in Seq(Seq(S)), e \in Seq(S) : u = Append(v, e)
  BY <1>4, SequenceEmptyOrAppend
<1>6. Len(v) \in Nat /\ k = Len(v) + 1
  BY <1>2, <1>5, LenProperties, AppendProperties
<1>7. FlattenSeq(s \o v) = FlattenSeq(s) ++ FlattenSeq(v)
  <2>1. Len(v) \in Nat /\ ~ k <= Len(v)
    BY <1>6
  <2>2. Len(v) \notin A
    BY <1>1, <2>1
  <2>. QED
    BY <2>1, <2>2
<1>. HIDE DEF A
<1>8. FlattenSeq(v) \in Seq(S) /\ FlattenSeq(u) = FlattenSeq(v) ++ e
  BY <1>5, FlattenAppend, FlattenType
<1>9. s \o u = Append(s \o v, e) /\ s \o v \in Seq(Seq(S))
  BY <1>5
<1>10. FlattenSeq(s \o u) = (FlattenSeq(s) ++ FlattenSeq(v)) ++ e
  BY <1>7, <1>9, FlattenAppend
<1>11. FlattenSeq(s \o u) = FlattenSeq(s) ++ FlattenSeq(u)
  <2>. HIDE DEF Bad
  <2>. QED
    BY <1>3, <1>8, <1>10, JoinAssociative
<1>. QED
  BY <1>2, <1>11

\* Short lists of strings.
LEMMA FlattenShort ==
  ASSUME NEW S
  PROVE  /\ \A x \in Seq(S) : FlattenSeq(<<x>>) = x
         /\ \A x, y \in Seq(S) : FlattenSeq(<<x, y>>) = x ++ y
         /\ \A x, y, z \in Seq(S) : FlattenSeq(<<x, y, z>>) = (x ++ y) ++ z
<1>1. ASSUME NEW x \in Seq(S)
      PROVE  <<x>> \in Seq(Seq(S)) /\ FlattenSeq(<<x>>) = x
  <2>1. <<>> \in Seq(Seq(S)) /\ <<x>> = Append(<<>>, x)
    OBVIOUS
  <2>2. FlattenSeq(<<x>>) = <<>> ++ x
    BY <2>1, FlattenAppend, FlattenEmpty
  <2>. QED
    BY <2>2, JoinEmpty
<1>2. ASSUME NEW x \in Seq(S), NEW y \in Seq(S)
      PROVE  <<x, y>> \in Seq(Seq(S)) /\ FlattenSeq(<<x, y>>) = x ++ y
  <2>1. <<x, y>> = Append(<<x>>, y)
    OBVIOUS
  <2>2. <<x>> \in Seq(Seq(S)) /\ FlattenSeq(<<x>>) = x
    BY <1>1
  <2>3. FlattenSeq(Append(<<x>>, y)) = FlattenSeq(<<x>>) ++ y
    BY <2>2, FlattenAppend
  <2>4. <<x, y>> \in Seq(Seq(S))
    OBVIOUS
  <2>. QED
    BY <2>1, <2>2, <2>3, <2>4, Zenon
<1>3. ASSUME NEW x \in Seq(S), NEW y \in Seq(S), NEW z \in Seq(S)
      PROVE  FlattenSeq(<<x, y, z>>) = (x ++ y) ++ z
  <2>1. <<x, y, z>> = Append(<<x, y>>, z)
    OBVIOUS
  <2>2. <<x, y>> \in Seq(Seq(S)) /\ FlattenSeq(<<x, y>>) = x ++ y
    BY <1>2
  <2>3. FlattenSeq(Append(<<x, y>>, z)) = FlattenSeq(<<x, y>>) ++ z
    BY <2>2, FlattenAppend
  <2>. QED
    BY <2>1, <2>2, <2>3
<1>. QED
  BY <1>1, <1>2, <1>3
===============================================================================
