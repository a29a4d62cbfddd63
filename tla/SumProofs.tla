------------------------------ MODULE SumProofs ------------------------------
(***************************************************************************)
(* Facts about sums over finite sets, as FoldFunctionOnSet of the          *)
(* community modules defines them.  The books of the contracts are totals  *)
(* of maps, so every proof about them rests on what a sum does when one    *)
(* entry is added, dropped or changed; or about sequences that list a set, *)
(* or about shares that are rounded down.                                  *)
(*                                                                         *)
(* A property of the subsets of a set, or of numbers, is given to an       *)
(* induction as the set of those that have it.                             *)
(***************************************************************************)
EXTENDS Integers, FiniteSetTheorems, SequencesExt, SequenceTheorems, WellFoundedInduction, TLAPS

\* A set of numbers has a least one.
LEMMA LeastNumber ==
  ASSUME NEW S \in SUBSET Nat, S # {}
  PROVE  \E n \in S : \A m \in S : n <= m
<1>1. PICK n \in S : \A m \in S : ~ (<<m, n>> \in OpToRel(<, Nat))
  BY NatLessThanWellFounded, WFMin
<1>2. \A m \in Nat : m < n => <<m, n>> \in OpToRel(<, Nat)
  BY DEF OpToRel
<1>3. \A m \in S : n <= m
  <2> SUFFICES ASSUME NEW m \in S PROVE n <= m
    OBVIOUS
  <2>1. ~ (m < n)
    BY <1>1, <1>2
  <2> QED BY <2>1
<1> QED BY <1>3

\* Induction on the natural numbers, for a set of them.
LEMMA CountingUp ==
  ASSUME NEW P, 0 \in P, \A n \in Nat : n \in P => n + 1 \in P
  PROVE  Nat \subseteq P
<1> SUFFICES ASSUME Nat \ P # {} PROVE FALSE
  OBVIOUS
<1>1. PICK n \in Nat \ P : \A m \in Nat \ P : n <= m
  BY LeastNumber
<1>2. n - 1 \in Nat /\ n - 1 \in P
  BY <1>1
<1>3. n - 1 + 1 = n
  OBVIOUS
<1> QED BY <1>1, <1>2, <1>3

\* Induction over the subsets of a finite set: all of them are in P if each is
\* that has no proper subset outside.
LEMMA SubsetInduction ==
  ASSUME NEW S, IsFiniteSet(S), NEW P,
         \A T \in SUBSET S : (\A U \in SUBSET T : U # T => U \in P) => T \in P
  PROVE  \A T \in SUBSET S : T \in P
<1> DEFINE Sizes == {Cardinality(T) : T \in (SUBSET S) \ P}
<1>1. \A T \in SUBSET S : IsFiniteSet(T) /\ Cardinality(T) \in Nat
  BY FS_Subset, FS_CardinalityType
<1>2. ASSUME NEW T \in SUBSET S, T \notin P PROVE FALSE
  <2>1. Sizes \in SUBSET Nat /\ Sizes # {}
    BY <1>1, <1>2
  <2>2. PICK n \in Sizes : \A m \in Sizes : n <= m
    <3> HIDE DEF Sizes
    <3> QED BY <2>1, LeastNumber
  <2>3. PICK U \in (SUBSET S) \ P : Cardinality(U) = n
    BY <2>2
  <2>4. PICK V \in SUBSET U : V # U /\ V \notin P
    BY <2>3
  <2>5. V \in SUBSET S /\ Cardinality(V) \in Sizes
    BY <2>3, <2>4
  <2>6. Cardinality(V) <= Cardinality(U) /\ Cardinality(V) # Cardinality(U)
    BY <1>1, <2>3, <2>4, FS_Subset
  <2>7. Cardinality(V) \in Nat /\ Cardinality(U) \in Nat
    BY <1>1, <2>3, <2>5
  <2> HIDE DEF Sizes
  <2> QED BY <2>2, <2>3, <2>5, <2>6, <2>7
<1> QED BY <1>2

-----------------------------------------------------------------------------
(***************************************************************************)
(* The function a sum is defined with.                                     *)
(***************************************************************************)
Pick(s) == CHOOSE x \in s : TRUE

IsIter(g, f, S) ==
  g = [s \in SUBSET S |-> IF s = {} THEN 0 ELSE f[Pick(s)] + g[s \ {Pick(s)}]]

\* Two such functions agree wherever both are defined.
LEMMA IterUnique ==
  ASSUME NEW f, NEW S, IsFiniteSet(S), NEW T \in SUBSET S, NEW g, NEW h,
         IsIter(g, f, S), IsIter(h, f, T)
  PROVE  g[T] = h[T]
<1> DEFINE P == {s \in SUBSET T : g[s] = h[s]}
<1>1. IsFiniteSet(T)
  BY FS_Subset
<1>2. ASSUME NEW U \in SUBSET T, \A V \in SUBSET U : V # U => V \in P
      PROVE  U \in P
  <2>1. CASE U = {}
    BY <2>1 DEF IsIter
  <2>2. CASE U # {}
    <3> DEFINE x == Pick(U)
    <3>1. x \in U
      BY <2>2 DEF Pick
    <3>2. U \ {x} \in SUBSET U /\ U \ {x} # U
      BY <3>1
    <3>3. g[U \ {x}] = h[U \ {x}]
      BY <1>2, <3>2
    <3>4. g[U] = f[x] + g[U \ {x}]
      BY <2>2 DEF IsIter
    <3>5. h[U] = f[x] + h[U \ {x}]
      BY <2>2 DEF IsIter
    <3> QED BY <3>3, <3>4, <3>5
  <2> QED BY <2>1, <2>2
<1> HIDE DEF P
<1>3. T \in P
  BY <1>1, <1>2, SubsetInduction
<1> QED BY <1>3 DEF P

\* There is one for every finite set.
LEMMA IterExists ==
  ASSUME NEW f, NEW S, IsFiniteSet(S)
  PROVE  \E g : IsIter(g, f, S)
<1> DEFINE P == {T \in SUBSET S : \E g : IsIter(g, f, T)}
<1>1. ASSUME NEW T \in SUBSET S, \A U \in SUBSET T : U # T => U \in P
      PROVE  T \in P
  <2> DEFINE it(U) == CHOOSE g : IsIter(g, f, U)
             g == [s \in SUBSET T |-> IF s = {} THEN 0
                                      ELSE f[Pick(s)] + it(s \ {Pick(s)})[s \ {Pick(s)}]]
  <2>1. \A U \in SUBSET T : U # T => IsIter(it(U), f, U)
    BY <1>1
  <2>2. ASSUME NEW s \in SUBSET T, s # T
        PROVE  g[s] = it(s)[s]
    <3> DEFINE x == Pick(s)
               u == s \ {x}
    <3>1. IsIter(it(s), f, s)
      BY <2>1, <2>2
    <3>2. CASE s = {}
      <4>1. it(s)[s] = 0
        BY <3>1, <3>2 DEF IsIter
      <4> QED BY <4>1, <3>2
    <3>3. CASE s # {}
      <4>1. x \in s
        BY <3>3 DEF Pick
      <4>2. u \in SUBSET s /\ u # T /\ u \in SUBSET T
        BY <2>2, <4>1
      <4>3. IsIter(it(u), f, u)
        BY <2>1, <4>2
      <4>4. IsFiniteSet(s)
        BY FS_Subset
      <4>5. it(s)[u] = it(u)[u]
        <5> HIDE DEF it, u
        <5> QED BY <3>1, <4>2, <4>3, <4>4, IterUnique
      <4>6. it(s)[s] = f[x] + it(s)[u]
        <5> HIDE DEF it
        <5> QED BY <3>1, <3>3 DEF IsIter
      <4> QED BY <3>3, <4>5, <4>6
    <3> QED BY <3>2, <3>3
  <2>3. \A s \in SUBSET T : s # {} =>
          s \ {Pick(s)} \in SUBSET T /\ s \ {Pick(s)} # T
    BY DEF Pick
  <2>4. \A s \in SUBSET T : s # {} =>
          g[s \ {Pick(s)}] = it(s \ {Pick(s)})[s \ {Pick(s)}]
    <3> HIDE DEF it, g
    <3> QED BY <2>2, <2>3
  <2>5. \A s \in SUBSET T :
          g[s] = IF s = {} THEN 0 ELSE f[Pick(s)] + g[s \ {Pick(s)}]
    <3> SUFFICES ASSUME NEW s \in SUBSET T
                 PROVE  g[s] = IF s = {} THEN 0 ELSE f[Pick(s)] + g[s \ {Pick(s)}]
      OBVIOUS
    <3>1. g[s] = IF s = {} THEN 0 ELSE f[Pick(s)] + it(s \ {Pick(s)})[s \ {Pick(s)}]
      BY DEF g
    <3> HIDE DEF g, it
    <3> QED BY <2>4, <3>1
  <2>6. IsIter(g, f, T)
    <3>1. DOMAIN g = SUBSET T /\ g = [s \in DOMAIN g |-> g[s]]
      BY DEF g
    <3> HIDE DEF g
    <3> QED BY <2>5, <3>1 DEF IsIter
  <2> QED BY <2>6
<1> HIDE DEF P
<1>2. S \in P
  BY <1>1, SubsetInduction
<1> QED BY <1>2 DEF P

\* A sum is that function's value.
LEMMA SumIsIter ==
  ASSUME NEW f, NEW S
  PROVE  SumFunctionOnSet(f, S) = (CHOOSE g : IsIter(g, f, S))[S]
BY DEF SumFunctionOnSet, FoldFunctionOnSet, MapThenFoldSet, IsIter, Pick

-----------------------------------------------------------------------------
(***************************************************************************)
(* What a sum does.                                                        *)
(***************************************************************************)
LEMMA SumOfNone == \A f : SumFunctionOnSet(f, {}) = 0
<1> SUFFICES ASSUME NEW f PROVE SumFunctionOnSet(f, {}) = 0
  OBVIOUS
<1> DEFINE g == CHOOSE g : IsIter(g, f, {})
<1>1. IsIter(g, f, {})
  BY FS_EmptySet, IterExists
<1>2. g[{}] = 0
  <2> HIDE DEF g
  <2> QED BY <1>1 DEF IsIter
<1> QED BY <1>2, SumIsIter

\* The summand picked first.
LEMMA SumStep ==
  ASSUME NEW f, NEW S, IsFiniteSet(S), S # {}
  PROVE  /\ Pick(S) \in S
         /\ SumFunctionOnSet(f, S) = f[Pick(S)] + SumFunctionOnSet(f, S \ {Pick(S)})
<1> DEFINE x == Pick(S)
           T == S \ {x}
           g == CHOOSE g : IsIter(g, f, S)
           h == CHOOSE h : IsIter(h, f, T)
<1>1. x \in S
  BY DEF Pick
<1>2. T \in SUBSET S /\ IsFiniteSet(T)
  BY FS_Subset
<1>3. IsIter(g, f, S)
  BY IterExists
<1>4. IsIter(h, f, T)
  BY <1>2, IterExists
<1>5. g[T] = h[T]
  <2> HIDE DEF g, h, T
  <2> QED BY <1>2, <1>3, <1>4, IterUnique
<1>6. g[S] = f[x] + g[T]
  <2> HIDE DEF g
  <2> QED BY <1>3 DEF IsIter
<1>7. SumFunctionOnSet(f, S) = g[S] /\ SumFunctionOnSet(f, T) = h[T]
  BY SumIsIter
<1> HIDE DEF g, h, T, x
<1> QED BY <1>1, <1>5, <1>6, <1>7 DEF T, x

\* A sum of integers is one, and any summand can be taken out of it.
LEMMA SumTakeOut ==
  ASSUME NEW f, NEW S, IsFiniteSet(S), \A x \in S : f[x] \in Int
  PROVE  /\ SumFunctionOnSet(f, S) \in Int
         /\ \A x \in S : SumFunctionOnSet(f, S) = f[x] + SumFunctionOnSet(f, S \ {x})
<1> DEFINE s(T) == SumFunctionOnSet(f, T)
           P == {T \in SUBSET S : /\ s(T) \in Int
                                  /\ \A x \in T : s(T) = f[x] + s(T \ {x})}
<1>1. ASSUME NEW T \in SUBSET S, \A U \in SUBSET T : U # T => U \in P
      PROVE  T \in P
  <2>1. CASE T = {}
    BY <2>1, SumOfNone
  <2>2. CASE T # {}
    <3> DEFINE p == Pick(T)
    <3>0. IsFiniteSet(T)
      BY FS_Subset
    <3>1. p \in T /\ s(T) = f[p] + s(T \ {p})
      BY <2>2, <3>0, SumStep
    <3>2. \A x \in T : s(T \ {x}) \in Int
      BY <1>1
    <3>3. s(T) \in Int
      BY <3>1, <3>2
    <3>4. ASSUME NEW x \in T PROVE s(T) = f[x] + s(T \ {x})
      <4>1. CASE x = p
        BY <3>1, <4>1
      <4>2. CASE x # p
        <5> DEFINE R == T \ {x, p}
        <5>1. R = (T \ {x}) \ {p} /\ R = (T \ {p}) \ {x} /\ R \in SUBSET T /\ R # T
          OBVIOUS
        <5>2. s(T \ {x}) = f[p] + s(R)
          <6>1. T \ {x} \in P /\ p \in T \ {x}
            BY <1>1, <3>1, <4>2
          <6> HIDE DEF R, s
          <6> QED BY <6>1, <5>1
        <5>3. s(T \ {p}) = f[x] + s(R)
          <6>1. T \ {p} \in P /\ x \in T \ {p}
            BY <1>1, <3>1, <4>2
          <6> HIDE DEF R, s
          <6> QED BY <6>1, <5>1
        <5>4. s(R) \in Int /\ f[x] \in Int /\ f[p] \in Int
          <6>1. R \in P
            BY <1>1, <5>1
          <6> HIDE DEF R, s
          <6> QED BY <6>1, <3>1
        <5> HIDE DEF R, s
        <5> QED BY <3>1, <5>2, <5>3, <5>4
      <4> QED BY <4>1, <4>2
    <3> QED BY <3>3, <3>4
  <2> QED BY <2>1, <2>2
<1> HIDE DEF P
<1>2. S \in P
  BY <1>1, SubsetInduction
<1> QED BY <1>2 DEF P

\* One more summand.
LEMMA SumAdd ==
  ASSUME NEW f, NEW S, IsFiniteSet(S), NEW x, x \notin S,
         \A y \in S \cup {x} : f[y] \in Int
  PROVE  SumFunctionOnSet(f, S \cup {x}) = SumFunctionOnSet(f, S) + f[x]
<1>1. IsFiniteSet(S \cup {x}) /\ (S \cup {x}) \ {x} = S
  BY FS_AddElement
<1>2. /\ SumFunctionOnSet(f, S) \in Int
      /\ SumFunctionOnSet(f, S \cup {x}) = f[x] + SumFunctionOnSet(f, S)
  BY <1>1, SumTakeOut
<1> QED BY <1>2

\* Only the summands matter.
LEMMA SumSame ==
  ASSUME NEW f, NEW g, NEW S, IsFiniteSet(S), \A x \in S : f[x] = g[x]
  PROVE  SumFunctionOnSet(f, S) = SumFunctionOnSet(g, S)
<1> DEFINE P == {T \in SUBSET S : SumFunctionOnSet(f, T) = SumFunctionOnSet(g, T)}
<1>1. ASSUME NEW T \in SUBSET S, \A U \in SUBSET T : U # T => U \in P
      PROVE  T \in P
  <2>1. CASE T = {}
    BY <2>1, SumOfNone
  <2>2. CASE T # {}
    <3>1. IsFiniteSet(T)
      BY FS_Subset
    <3>2. /\ Pick(T) \in T
          /\ SumFunctionOnSet(f, T) = f[Pick(T)] + SumFunctionOnSet(f, T \ {Pick(T)})
          /\ SumFunctionOnSet(g, T) = g[Pick(T)] + SumFunctionOnSet(g, T \ {Pick(T)})
      BY <2>2, <3>1, SumStep
    <3>3. SumFunctionOnSet(f, T \ {Pick(T)}) = SumFunctionOnSet(g, T \ {Pick(T)})
      BY <1>1, <3>2
    <3> QED BY <3>2, <3>3
  <2> QED BY <2>1, <2>2
<1> HIDE DEF P
<1>2. S \in P
  BY <1>1, SubsetInduction
<1> QED BY <1>2 DEF P

\* Sums grow with their summands, and with none below 0 with the set.
LEMMA SumMonotone ==
  ASSUME NEW f, NEW g, NEW S, IsFiniteSet(S),
         \A x \in S : f[x] \in Int /\ g[x] \in Int /\ f[x] <= g[x]
  PROVE  SumFunctionOnSet(f, S) <= SumFunctionOnSet(g, S)
<1> DEFINE s(T) == SumFunctionOnSet(f, T)
           t(T) == SumFunctionOnSet(g, T)
           P == {T \in SUBSET S : s(T) <= t(T)}
<1>1. ASSUME NEW T \in SUBSET S, \A U \in SUBSET T : U # T => U \in P
      PROVE  T \in P
  <2>1. CASE T = {}
    BY <2>1, SumOfNone
  <2>2. CASE T # {}
    <3>1. PICK x \in T : TRUE
      BY <2>2
    <3>2. IsFiniteSet(T) /\ IsFiniteSet(T \ {x})
      BY FS_Subset
    <3>3. s(T) = f[x] + s(T \ {x}) /\ t(T) = g[x] + t(T \ {x})
      BY <3>2, SumTakeOut
    <3>4. s(T \ {x}) \in Int /\ t(T \ {x}) \in Int
      BY <3>2, SumTakeOut
    <3>5. s(T \ {x}) <= t(T \ {x})
      BY <1>1, <3>1
    <3> HIDE DEF s, t
    <3>6. s(T) <= t(T)
      BY <3>3, <3>4, <3>5
    <3> QED BY <3>6
  <2> QED BY <2>1, <2>2
<1> HIDE DEF P
<1>2. S \in P
  BY <1>1, SubsetInduction
<1> QED BY <1>2 DEF P

\* A sum of natural numbers is one; it is 0 only if they all are, and none of
\* them exceeds it.
LEMMA SumOfNats ==
  ASSUME NEW f, NEW S, IsFiniteSet(S), \A x \in S : f[x] \in Nat
  PROVE  /\ SumFunctionOnSet(f, S) \in Nat
         /\ \A x \in S : f[x] <= SumFunctionOnSet(f, S)
         /\ SumFunctionOnSet(f, S) = 0 <=> \A x \in S : f[x] = 0
<1> DEFINE s(T) == SumFunctionOnSet(f, T)
           P == {T \in SUBSET S : /\ s(T) \in Nat
                                  /\ s(T) = 0 <=> \A x \in T : f[x] = 0}
<1>1. ASSUME NEW T \in SUBSET S, \A U \in SUBSET T : U # T => U \in P
      PROVE  T \in P
  <2>1. CASE T = {}
    BY <2>1, SumOfNone
  <2>2. CASE T # {}
    <3>1. PICK x \in T : TRUE
      BY <2>2
    <3>2. IsFiniteSet(T) /\ f[x] \in Nat
      BY FS_Subset
    <3>3. s(T) = f[x] + s(T \ {x})
      BY <3>2, SumTakeOut
    <3>4. s(T \ {x}) \in Nat /\ (s(T \ {x}) = 0 <=> \A y \in T \ {x} : f[y] = 0)
      BY <1>1, <3>1
    <3> HIDE DEF s
    <3> QED BY <3>2, <3>3, <3>4
  <2> QED BY <2>1, <2>2
<1>2. \A T \in SUBSET S : T \in P
  <2> HIDE DEF P
  <2> QED BY <1>1, SubsetInduction
<1>3. ASSUME NEW x \in S PROVE f[x] <= s(S)
  <2>1. s(S) = f[x] + s(S \ {x}) /\ s(S \ {x}) \in Nat
    BY <1>2, SumTakeOut
  <2> HIDE DEF s
  <2> QED BY <2>1
<1> QED BY <1>2, <1>3

\* The sum over two sets together.
LEMMA SumUnion ==
  ASSUME NEW f, NEW S, NEW T, IsFiniteSet(S), IsFiniteSet(T), S \cap T = {},
         \A x \in S \cup T : f[x] \in Int
  PROVE  SumFunctionOnSet(f, S \cup T) = SumFunctionOnSet(f, S) + SumFunctionOnSet(f, T)
<1> DEFINE s(U) == SumFunctionOnSet(f, U)
           P == {U \in SUBSET T : s(S \cup U) = s(S) + s(U)}
<1>1. ASSUME NEW U \in SUBSET T, \A V \in SUBSET U : V # U => V \in P
      PROVE  U \in P
  <2>1. s(S) \in Int
    BY SumTakeOut
  <2>2. CASE U = {}
    <3>1. S \cup U = S /\ s(U) = 0
      BY <2>2, SumOfNone
    <3>2. s(S \cup U) = s(S)
      BY <3>1, Zenon
    <3> HIDE DEF s
    <3>3. s(S \cup U) = s(S) + s(U)
      BY <2>1, <3>1, <3>2
    <3> QED BY <3>3
  <2>3. CASE U # {}
    <3>1. PICK x \in U : TRUE
      BY <2>3
    <3> DEFINE V == U \ {x}
    <3>2. V \in SUBSET U /\ V # U /\ x \notin V /\ x \notin S \cup V
      BY <3>1
    <3>3. U = V \cup {x} /\ S \cup U = (S \cup V) \cup {x}
      BY <3>1
    <3>4. IsFiniteSet(V) /\ IsFiniteSet(S \cup V)
      BY FS_Subset, FS_Union
    <3>5. f[x] \in Int /\ s(V) \in Int
      BY <3>4, SumTakeOut
    <3>6. s(V \cup {x}) = s(V) + f[x]
      BY <3>2, <3>3, <3>4, SumAdd
    <3>7. s((S \cup V) \cup {x}) = s(S \cup V) + f[x]
      BY <3>2, <3>3, <3>4, SumAdd
    <3>8. s(S \cup V) = s(S) + s(V)
      BY <1>1, <3>2
    <3>9. s(U) = s(V \cup {x}) /\ s(S \cup U) = s((S \cup V) \cup {x})
      BY <3>3, Zenon
    <3> HIDE DEF s, V
    <3>10. s(S \cup U) = s(S) + s(U)
      BY <2>1, <3>5, <3>6, <3>7, <3>8, <3>9
    <3> QED BY <3>10
  <2> QED BY <2>2, <2>3
<1> HIDE DEF P
<1>2. T \in P
  BY <1>1, SubsetInduction
<1> QED BY <1>2 DEF P

\* The sum of sums, summand by summand.
LEMMA SumPlus ==
  ASSUME NEW f, NEW g, NEW h, NEW S, IsFiniteSet(S),
         \A x \in S : f[x] \in Int /\ g[x] \in Int /\ h[x] = f[x] + g[x]
  PROVE  SumFunctionOnSet(h, S) = SumFunctionOnSet(f, S) + SumFunctionOnSet(g, S)
<1> DEFINE s(T) == SumFunctionOnSet(f, T)
           t(T) == SumFunctionOnSet(g, T)
           u(T) == SumFunctionOnSet(h, T)
           P == {T \in SUBSET S : u(T) = s(T) + t(T)}
<1>1. ASSUME NEW T \in SUBSET S, \A U \in SUBSET T : U # T => U \in P
      PROVE  T \in P
  <2>1. CASE T = {}
    BY <2>1, SumOfNone
  <2>2. CASE T # {}
    <3>1. PICK x \in T : TRUE
      BY <2>2
    <3>2. IsFiniteSet(T) /\ IsFiniteSet(T \ {x})
      BY FS_Subset
    <3>3. /\ s(T) = f[x] + s(T \ {x}) /\ s(T \ {x}) \in Int
          /\ t(T) = g[x] + t(T \ {x}) /\ t(T \ {x}) \in Int
      BY <3>2, SumTakeOut
    <3>4. u(T) = h[x] + u(T \ {x})
      BY <3>2, SumTakeOut
    <3>5. u(T \ {x}) = s(T \ {x}) + t(T \ {x})
      BY <1>1, <3>1
    <3>6. f[x] \in Int /\ g[x] \in Int /\ h[x] = f[x] + g[x]
      OBVIOUS
    <3> HIDE DEF s, t, u
    <3>7. u(T) = s(T) + t(T)
      BY <3>3, <3>4, <3>5, <3>6
    <3> QED BY <3>7
  <2> QED BY <2>1, <2>2
<1> HIDE DEF P
<1>2. S \in P
  BY <1>1, SubsetInduction
<1> QED BY <1>2 DEF P

\* A constant factor can be taken out of a sum.
LEMMA SumTimes ==
  ASSUME NEW f, NEW h, NEW c \in Int, NEW S, IsFiniteSet(S),
         \A x \in S : f[x] \in Int /\ h[x] = c * f[x]
  PROVE  SumFunctionOnSet(h, S) = c * SumFunctionOnSet(f, S)
<1> DEFINE s(T) == SumFunctionOnSet(f, T)
           u(T) == SumFunctionOnSet(h, T)
           P == {T \in SUBSET S : u(T) = c * s(T)}
<1>1. ASSUME NEW T \in SUBSET S, \A U \in SUBSET T : U # T => U \in P
      PROVE  T \in P
  <2>1. CASE T = {}
    BY <2>1, SumOfNone
  <2>2. CASE T # {}
    <3>1. PICK x \in T : TRUE
      BY <2>2
    <3>2. IsFiniteSet(T) /\ IsFiniteSet(T \ {x})
      BY FS_Subset
    <3>3. s(T) = f[x] + s(T \ {x}) /\ s(T \ {x}) \in Int
      BY <3>2, SumTakeOut
    <3>4. u(T) = h[x] + u(T \ {x})
      BY <3>2, SumTakeOut
    <3>5. u(T \ {x}) = c * s(T \ {x})
      BY <1>1, <3>1
    <3>6. f[x] \in Int /\ h[x] = c * f[x]
      OBVIOUS
    <3> HIDE DEF s, u
    <3>7. c * (f[x] + s(T \ {x})) = c * f[x] + c * s(T \ {x})
      BY <3>3, <3>6
    <3>8. u(T) = c * s(T)
      BY <3>3, <3>4, <3>5, <3>6, <3>7
    <3> QED BY <3>8
  <2> QED BY <2>1, <2>2
<1> HIDE DEF P
<1>2. S \in P
  BY <1>1, SubsetInduction
<1> QED BY <1>2 DEF P

\* Summands that are 0 may be left out.
LEMMA SumNonzero ==
  ASSUME NEW f, NEW S, IsFiniteSet(S), NEW T \in SUBSET S,
         \A x \in S : f[x] \in Int, \A x \in S \ T : f[x] = 0
  PROVE  SumFunctionOnSet(f, S) = SumFunctionOnSet(f, T)
<1> DEFINE s(U) == SumFunctionOnSet(f, U)
<1>1. IsFiniteSet(T) /\ IsFiniteSet(S \ T) /\ S = T \cup (S \ T) /\ T \cap (S \ T) = {}
  BY FS_Subset
<1>2. s(T \cup (S \ T)) = s(T) + s(S \ T)
  BY <1>1, SumUnion
<1>3. s(S \ T) = 0
  BY <1>1, SumOfNats
<1>4. s(T) \in Int
  BY <1>1, SumTakeOut
<1>5. s(S) = s(T \cup (S \ T))
  BY <1>1, Zenon
<1> HIDE DEF s
<1>6. s(S) = s(T)
  BY <1>2, <1>3, <1>4, <1>5
<1> QED BY <1>6 DEF s

\* One summand is changed.
LEMMA SumChange ==
  ASSUME NEW f, NEW g, NEW S, IsFiniteSet(S), NEW x \in S,
         \A y \in S : f[y] \in Int /\ g[y] \in Int,
         \A y \in S \ {x} : g[y] = f[y]
  PROVE  SumFunctionOnSet(g, S) = SumFunctionOnSet(f, S) + (g[x] - f[x])
<1>1. IsFiniteSet(S \ {x})
  BY FS_Subset
<1>2. /\ SumFunctionOnSet(f, S) = f[x] + SumFunctionOnSet(f, S \ {x})
      /\ SumFunctionOnSet(g, S) = g[x] + SumFunctionOnSet(g, S \ {x})
      /\ SumFunctionOnSet(f, S \ {x}) \in Int
  BY <1>1, SumTakeOut
<1>3. SumFunctionOnSet(g, S \ {x}) = SumFunctionOnSet(f, S \ {x})
  BY <1>1, SumSame
<1> QED BY <1>2, <1>3

\* Summands that are all 0.
LEMMA SumOfZeros ==
  ASSUME NEW f, NEW S, IsFiniteSet(S), \A x \in S : f[x] = 0
  PROVE  SumFunctionOnSet(f, S) = 0
BY SumOfNats

\* Only one summand counts.
LEMMA SumOfOne ==
  ASSUME NEW f, NEW S, IsFiniteSet(S), NEW x \in S, f[x] \in Int,
         \A y \in S \ {x} : f[y] = 0
  PROVE  SumFunctionOnSet(f, S) = f[x]
<1>1. IsFiniteSet(S \ {x}) /\ \A y \in S : f[y] \in Int
  BY FS_Subset
<1>2. SumFunctionOnSet(f, S \ {x}) = 0
  BY <1>1, SumOfZeros
<1>3. SumFunctionOnSet(f, S) = f[x] + SumFunctionOnSet(f, S \ {x})
  BY <1>1, SumTakeOut
<1> QED BY <1>2, <1>3

\* A sum over a part of a set, as one over all of it.
LEMMA SumWithin ==
  ASSUME NEW f, NEW g, NEW S, IsFiniteSet(S), NEW T \in SUBSET S,
         \A x \in T : f[x] \in Int,
         \A x \in S : g[x] = IF x \in T THEN f[x] ELSE 0
  PROVE  SumFunctionOnSet(g, S) = SumFunctionOnSet(f, T)
<1>1. IsFiniteSet(T)
  BY FS_Subset
<1>2. SumFunctionOnSet(g, S) = SumFunctionOnSet(g, T)
  BY SumNonzero
<1>3. SumFunctionOnSet(g, T) = SumFunctionOnSet(f, T)
  BY <1>1, SumSame
<1> QED BY <1>2, <1>3

\* The members of U come in finite groups, each in one of them.
AreGroups(g, I, U) ==
  /\ IsFiniteSet(I)
  /\ U = UNION {g[i] : i \in I}
  /\ \A i \in I : IsFiniteSet(g[i])
  /\ \A i, j \in I : i # j => g[i] \cap g[j] = {}

\* A sum of several groups' sums is the sum over all their members.
LEMMA SumOfGroups ==
  ASSUME NEW g, NEW I, NEW U, AreGroups(g, I, U), NEW f, NEW h,
         \A x \in U : f[x] \in Int,
         \A i \in I : h[i] = SumFunctionOnSet(f, g[i])
  PROVE  IsFiniteSet(U) /\ SumFunctionOnSet(f, U) = SumFunctionOnSet(h, I)
<1> DEFINE all(J) == UNION {g[i] : i \in J}
           s(V) == SumFunctionOnSet(f, V)
           P == {J \in SUBSET I : IsFiniteSet(all(J)) /\ s(all(J)) = SumFunctionOnSet(h, J)}
<1>0. /\ IsFiniteSet(I) /\ U = UNION {g[i] : i \in I}
      /\ \A i \in I : IsFiniteSet(g[i]) /\ \A x \in g[i] : f[x] \in Int
      /\ \A i, j \in I : i # j => g[i] \cap g[j] = {}
  BY DEF AreGroups
<1>1. ASSUME NEW J \in SUBSET I, \A K \in SUBSET J : K # J => K \in P
      PROVE  J \in P
  <2>1. CASE J = {}
    <3>1. all(J) = {}
      BY <2>1
    <3>2. s(all(J)) = s({}) /\ IsFiniteSet(all(J))
      BY <3>1, FS_EmptySet, Zenon
    <3> QED BY <2>1, <3>2, SumOfNone
  <2>2. CASE J # {}
    <3>1. PICK i \in J : TRUE
      BY <2>2
    <3> DEFINE K == J \ {i}
    <3>2. K \in SUBSET J /\ K # J
      BY <3>1
    <3>3. IsFiniteSet(all(K)) /\ s(all(K)) = SumFunctionOnSet(h, K)
      BY <1>1, <3>2
    <3>4. all(J) = all(K) \cup g[i] /\ all(K) \cap g[i] = {}
      BY <1>0, <3>1
    <3>5. IsFiniteSet(g[i]) /\ \A x \in all(K) \cup g[i] : f[x] \in Int
      BY <1>0, <3>1
    <3> HIDE DEF all
    <3>6. s(all(K) \cup g[i]) = s(all(K)) + s(g[i])
      BY <3>3, <3>4, <3>5, SumUnion
    <3>7. s(all(J)) = s(all(K) \cup g[i])
      BY <3>4, Zenon
    <3>8. IsFiniteSet(all(J))
      <4>1. IsFiniteSet(all(K) \cup g[i])
        BY <3>3, <3>5, FS_Union
      <4> QED BY <3>4, <4>1, Zenon
    <3>9. IsFiniteSet(J) /\ \A j \in J : h[j] \in Int
      <4>1. \A j \in J : SumFunctionOnSet(f, g[j]) \in Int
        BY <1>0, SumTakeOut
      <4> QED BY <1>0, <4>1, FS_Subset
    <3>10. SumFunctionOnSet(h, J) = h[i] + SumFunctionOnSet(h, K)
      BY <3>1, <3>9, SumTakeOut
    <3>11. h[i] = s(g[i]) /\ h[i] \in Int /\ SumFunctionOnSet(h, K) \in Int
      BY <3>1, <3>9, SumTakeOut, FS_Subset
    <3> HIDE DEF s, K
    <3>12. s(all(J)) = SumFunctionOnSet(h, J)
      BY <3>3, <3>6, <3>7, <3>10, <3>11
    <3> QED BY <3>8, <3>12 DEF all
  <2> QED BY <2>1, <2>2
<1> HIDE DEF P
<1>2. I \in P
  BY <1>0, <1>1, SubsetInduction
<1>3. IsFiniteSet(all(I)) /\ s(all(I)) = SumFunctionOnSet(h, I)
  BY <1>2 DEF P
<1>4. U = all(I)
  BY <1>0
<1> HIDE DEF all
<1> QED BY <1>3, <1>4, Zenon

\* G holds the columns of F.
AreColumns(G, F, S, T) == \A x \in S, y \in T : F[x][y] \in Int /\ G[y][x] = F[x][y]

\* The sum of the rows of a table is the sum of its columns.
LEMMA SumSwap ==
  ASSUME NEW F, NEW S, IsFiniteSet(S), NEW T, IsFiniteSet(T), NEW G, AreColumns(G, F, S, T),
         NEW f, \A x \in S : f[x] = SumFunctionOnSet(F[x], T),
         NEW g, \A y \in T : g[y] = SumFunctionOnSet(G[y], S)
  PROVE  SumFunctionOnSet(f, S) = SumFunctionOnSet(g, T)
<1> DEFINE columns(U) == [y \in T |-> SumFunctionOnSet(G[y], U)]
           rows(U) == SumFunctionOnSet(f, U)
           P == {U \in SUBSET S : rows(U) = SumFunctionOnSet(columns(U), T)}
<1>0. \A x \in S, y \in T : F[x][y] \in Int /\ G[y][x] = F[x][y]
  BY DEF AreColumns
<1>1. \A x \in S : f[x] \in Int
  BY <1>0, SumTakeOut
<1>2. ASSUME NEW U \in SUBSET S, \A V \in SUBSET U : V # U => V \in P
      PROVE  U \in P
  <2>1. CASE U = {}
    <3>1. \A y \in T : columns(U)[y] = 0
      BY <2>1, SumOfNone
    <3>2. SumFunctionOnSet(columns(U), T) = 0
      BY <3>1, SumOfZeros
    <3>3. rows(U) = 0
      BY <2>1, SumOfNone
    <3> QED BY <3>2, <3>3
  <2>2. CASE U # {}
    <3>1. PICK x \in U : TRUE
      BY <2>2
    <3> DEFINE V == U \ {x}
    <3>2. V \in SUBSET U /\ V # U /\ x \in S
      BY <3>1
    <3>3. IsFiniteSet(U) /\ IsFiniteSet(V)
      BY FS_Subset
    <3>4. rows(U) = f[x] + rows(V)
      BY <1>1, <3>1, <3>3, SumTakeOut
    <3>5. rows(V) = SumFunctionOnSet(columns(V), T)
      BY <1>2, <3>2
    <3>6. ASSUME NEW y \in T
          PROVE  /\ columns(V)[y] \in Int /\ F[x][y] \in Int
                 /\ columns(U)[y] = F[x][y] + columns(V)[y]
      <4>1. \A z \in U : G[y][z] \in Int
        BY <1>0
      <4>2. G[y][x] = F[x][y] /\ F[x][y] \in Int
        BY <1>0, <3>2
      <4>3. SumFunctionOnSet(G[y], U) = G[y][x] + SumFunctionOnSet(G[y], V)
        BY <3>1, <3>3, <4>1, SumTakeOut
      <4>4. SumFunctionOnSet(G[y], V) \in Int
        BY <3>2, <3>3, <4>1, SumTakeOut
      <4> QED BY <3>2, <4>2, <4>3, <4>4
    <3>7. SumFunctionOnSet(columns(U), T)
            = SumFunctionOnSet(F[x], T) + SumFunctionOnSet(columns(V), T)
      <4> DEFINE a == F[x]
                 b == columns(V)
                 u == columns(U)
      <4>1. \A y \in T : a[y] \in Int /\ b[y] \in Int /\ u[y] = a[y] + b[y]
        BY <3>6
      <4> HIDE DEF a, b, u
      <4>2. SumFunctionOnSet(u, T) = SumFunctionOnSet(a, T) + SumFunctionOnSet(b, T)
        BY <4>1, SumPlus
      <4> QED BY <4>2 DEF a, b, u
    <3> HIDE DEF columns
    <3>8. rows(U) = SumFunctionOnSet(columns(U), T)
      BY <3>2, <3>4, <3>5, <3>7
    <3> QED BY <3>8
  <2> QED BY <2>1, <2>2
<1> HIDE DEF P
<1>3. S \in P
  BY <1>2, SubsetInduction
<1>4. rows(S) = SumFunctionOnSet(columns(S), T)
  BY <1>3 DEF P
<1>5. SumFunctionOnSet(columns(S), T) = SumFunctionOnSet(g, T)
  <2> DEFINE b == columns(S)
  <2>1. \A y \in T : b[y] = g[y]
    OBVIOUS
  <2> HIDE DEF b
  <2>2. SumFunctionOnSet(b, T) = SumFunctionOnSet(g, T)
    BY <2>1, SumSame
  <2> QED BY <2>2 DEF b
<1> QED BY <1>4, <1>5

-----------------------------------------------------------------------------
(***************************************************************************)
(* Lists of the members of a finite set.                                   *)
(***************************************************************************)
\* A list of some of S without repetition.
IsList(s, S) == s \in Seq(S) /\ IsInjective(s) /\ Range(s) = S

\* What a function takes a finite set to is finite.
LEMMA FiniteRange ==
  ASSUME NEW S, IsFiniteSet(S), NEW f, DOMAIN f = S
  PROVE  IsFiniteSet(Range(f))
<1> DEFINE g == [x \in S |-> f[x]]
<1>1. g \in Surjection(S, Range(f))
  BY DEF Surjection, Range
<1> QED BY <1>1, FS_Surjection

\* The members of a finite set can be listed.
LEMMA SetToSeqLists ==
  ASSUME NEW S, IsFiniteSet(S)
  PROVE  IsList(SetToSeq(S), S)
<1> DEFINE n == Cardinality(S)
           s == SetToSeq(S)
<1>1. n \in Nat /\ ExistsBijection(1 .. n, S)
  BY FS_CardinalityType
<1>2. \E f \in [1 .. n -> S] : IsInjective(f)
  BY <1>1 DEF ExistsBijection, Bijection, Injection
<1>3. s \in [1 .. n -> S] /\ IsInjective(s)
  BY <1>2 DEF SetToSeq
<1>4. s \in Injection(1 .. n, S)
  BY <1>3 DEF Injection
<1>5. IsFiniteSet(1 .. n) /\ Cardinality(1 .. n) = n
  BY <1>1, FS_Interval
<1>6. s \in Surjection(1 .. n, S)
  BY <1>4, <1>5, FS_Injection
<1>7. Range(s) = S
  BY <1>3, <1>6 DEF Surjection, Range
<1>8. s \in Seq(S)
  BY <1>1, <1>3
<1> QED BY <1>3, <1>7, <1>8 DEF IsList

\* Lists of sets that have nothing in common, one after the other.
LEMMA ListsTogether ==
  ASSUME NEW S, NEW s, IsList(s, S), NEW T, NEW t, IsList(t, T), S \cap T = {}
  PROVE  IsList(s \o t, S \cup T)
<1> DEFINE u == s \o t
           m == Len(s)
           n == Len(t)
<1>1. s \in Seq(S) /\ IsInjective(s) /\ Range(s) = S
  BY DEF IsList
<1>2. t \in Seq(T) /\ IsInjective(t) /\ Range(t) = T
  BY DEF IsList
<1>3. s \in Seq(S \cup T) /\ t \in Seq(S \cup T)
  BY <1>1, <1>2
<1>4. m \in Nat /\ DOMAIN s = 1 .. m /\ n \in Nat /\ DOMAIN t = 1 .. n
  BY <1>1, <1>2
<1>5. /\ u \in Seq(S \cup T)
      /\ DOMAIN u = 1 .. m + n
  BY <1>3, <1>4
<1>6. \A i \in 1 .. m + n : u[i] = IF i <= m THEN s[i] ELSE t[i - m]
  BY <1>3, ConcatProperties
<1> HIDE DEF u, m, n
<1>7. \A i \in 1 .. m : u[i] = s[i] /\ u[i] \in S
  BY <1>1, <1>4, <1>6 DEF Range
<1>8. \A i \in 1 .. n : u[m + i] = t[i] /\ m + i \in 1 .. m + n
  BY <1>4, <1>6
<1>9. \A i \in 1 .. m + n : i > m => i - m \in 1 .. n /\ u[i] = t[i - m] /\ u[i] \in T
  BY <1>2, <1>4, <1>6 DEF Range
<1>10. Range(u) = S \cup T
  <2>1. \A x \in S : \E i \in DOMAIN u : x = u[i]
    BY <1>1, <1>4, <1>5, <1>7 DEF Range
  <2>2. \A x \in T : \E i \in DOMAIN u : x = u[i]
    BY <1>2, <1>4, <1>5, <1>8 DEF Range
  <2>3. \A i \in DOMAIN u : u[i] \in S \cup T
    BY <1>4, <1>5, <1>7, <1>9
  <2> QED BY <2>1, <2>2, <2>3 DEF Range
<1>11. IsInjective(u)
  <2> SUFFICES ASSUME NEW i \in 1 .. m + n, NEW j \in 1 .. m + n, u[i] = u[j]
               PROVE  i = j
    BY <1>5 DEF IsInjective
  <2>1. CASE i <= m /\ j <= m
    <3>1. i \in 1 .. m /\ j \in 1 .. m
      BY <1>4, <2>1
    <3> QED BY <1>1, <1>4, <1>7, <3>1 DEF IsInjective
  <2>2. CASE i > m /\ j > m
    <3>1. i - m = j - m
      BY <1>2, <1>4, <1>9, <2>2 DEF IsInjective
    <3> QED BY <1>4, <3>1
  <2>3. CASE (i <= m /\ j > m) \/ (i > m /\ j <= m)
    BY <1>4, <1>7, <1>9, <2>3
  <2> QED BY <1>4, <2>1, <2>2, <2>3
<1> QED BY <1>5, <1>10, <1>11 DEF IsList, u

\* A list of one, and of none.
LEMMA ListOfOne ==
  ASSUME NEW x
  PROVE  IsList(<<x>>, {x}) /\ IsList(<< >>, {})
<1> DEFINE s == <<x>>
           e == << >>
<1>1. s \in Seq({x}) /\ DOMAIN s = {1} /\ s[1] = x
  OBVIOUS
<1>2. e \in Seq({}) /\ DOMAIN e = {}
  OBVIOUS
<1> HIDE DEF s, e
<1>3. IsList(s, {x}) /\ IsList(e, {})
  BY <1>1, <1>2 DEF IsList, IsInjective, Range
<1> QED BY <1>3 DEF s, e

\* A list cut in two: what is taken from the front and what remains.
FrontOf(s, k) == {s[i] : i \in 1 .. k}
RestOf(s, k) == SubSeq(s, k + 1, Len(s))

LEMMA ListCut ==
  ASSUME NEW s, NEW S, IsList(s, S), NEW k \in 0 .. Len(s)
  PROVE  /\ FrontOf(s, k) \cup Range(RestOf(s, k)) = S
         /\ FrontOf(s, k) \cap Range(RestOf(s, k)) = {}
         /\ IsFiniteSet(FrontOf(s, k))
         /\ IsList(RestOf(s, k), Range(RestOf(s, k)))
<1> DEFINE n == Len(s)
           front == FrontOf(s, k)
           r == RestOf(s, k)
<1>1. s \in Seq(S) /\ IsInjective(s) /\ Range(s) = S
  BY DEF IsList
<1>2. n \in Nat /\ DOMAIN s = 1 .. n
  BY <1>1
<1>3. k \in 0 .. n
  OBVIOUS
<1>4. \A i \in (k + 1) .. n : s[i] \in S
  BY <1>1, <1>2, <1>3 DEF Range
<1>5. r = SubSeq(s, k + 1, n)
  BY DEF RestOf
<1>6. front = {s[i] : i \in 1 .. k}
  BY DEF FrontOf
<1> HIDE DEF n, front, r
<1>7. /\ r \in Seq(S) /\ Len(r) = n - k
      /\ \A i \in 1 .. n - k : r[i] = s[k + i]
  <2>1. k + 1 \in Int /\ n \in Int
    BY <1>2, <1>3
  <2>2. /\ r \in Seq(S)
        /\ Len(r) = IF k + 1 <= n THEN n - (k + 1) + 1 ELSE 0
        /\ \A i \in 1 .. n - (k + 1) + 1 : r[i] = s[(k + 1) + i - 1]
    BY <1>4, <1>5, <2>1, SubSeqProperties
  <2>3. Len(r) = n - k
    BY <1>2, <1>3, <2>2
  <2>4. \A i \in 1 .. n - k : r[i] = s[k + i]
    <3> SUFFICES ASSUME NEW i \in 1 .. n - k PROVE r[i] = s[k + i]
      OBVIOUS
    <3>1. n - (k + 1) + 1 = n - k /\ (k + 1) + i - 1 = k + i
      BY <1>2, <1>3
    <3> QED BY <2>2, <3>1
  <2> QED BY <2>2, <2>3, <2>4
<1>8. DOMAIN r = 1 .. n - k
  BY <1>7
<1>9. Range(r) = {s[i] : i \in (k + 1) .. n}
  <2>1. \A i \in DOMAIN r : k + i \in (k + 1) .. n /\ r[i] = s[k + i]
    BY <1>2, <1>3, <1>7, <1>8
  <2>2. \A i \in (k + 1) .. n : i - k \in DOMAIN r /\ r[i - k] = s[i]
    <3> SUFFICES ASSUME NEW i \in (k + 1) .. n PROVE i - k \in DOMAIN r /\ r[i - k] = s[i]
      OBVIOUS
    <3>1. i - k \in 1 .. n - k /\ k + (i - k) = i
      BY <1>2, <1>3
    <3> QED BY <1>7, <1>8, <3>1
  <2> QED BY <2>1, <2>2 DEF Range
<1>10. front \cup Range(r) = S
  <2>1. 1 .. n = (1 .. k) \cup ((k + 1) .. n)
    BY <1>2, <1>3
  <2> QED BY <1>1, <1>2, <1>6, <1>9, <2>1 DEF Range
<1>11. front \cap Range(r) = {}
  <2>1. \A i \in 1 .. k : \A j \in (k + 1) .. n : s[i] # s[j]
    BY <1>1, <1>2, <1>3 DEF IsInjective
  <2> QED BY <1>6, <1>9, <2>1
<1>12. IsFiniteSet(front)
  <2> DEFINE f == [i \in 1 .. k |-> s[i]]
  <2>1. DOMAIN f = 1 .. k /\ IsFiniteSet(1 .. k)
    BY <1>3, FS_Interval
  <2>2. front = Range(f)
    BY <1>6 DEF Range
  <2> HIDE DEF f
  <2> QED BY <2>1, <2>2, FiniteRange
<1>13. IsInjective(r)
  <2> SUFFICES ASSUME NEW i \in 1 .. n - k, NEW j \in 1 .. n - k, r[i] = r[j] PROVE i = j
    BY <1>8 DEF IsInjective
  <2>1. s[k + i] = s[k + j] /\ k + i \in 1 .. n /\ k + j \in 1 .. n
    BY <1>2, <1>3, <1>7
  <2>2. k + i = k + j
    BY <1>1, <1>2, <2>1 DEF IsInjective
  <2> QED BY <1>2, <1>3, <2>2
<1>14. r \in Seq(Range(r))
  BY <1>7, <1>8 DEF Range
<1> QED BY <1>10, <1>11, <1>12, <1>13, <1>14 DEF IsList, front, r

\* The sum over the images of a set under a map that keeps its members apart.
LEMMA SumOfImages ==
  ASSUME NEW I, IsFiniteSet(I), NEW m, \A i, j \in I : m[i] = m[j] => i = j,
         NEW S, S = {m[i] : i \in I},
         NEW f, \A x \in S : f[x] \in Int,
         NEW h, \A i \in I : h[i] = f[m[i]]
  PROVE  IsFiniteSet(S) /\ SumFunctionOnSet(f, S) = SumFunctionOnSet(h, I)
<1> DEFINE g == [i \in I |-> {m[i]}]
<1>1. \A i \in I : IsFiniteSet(g[i])
  BY FS_Singleton
<1>2. AreGroups(g, I, S)
  <2>1. \A i, j \in I : i # j => g[i] \cap g[j] = {}
    OBVIOUS
  <2>2. S = UNION {g[i] : i \in I}
    OBVIOUS
  <2> HIDE DEF g
  <2> QED BY <1>1, <2>1, <2>2 DEF AreGroups
<1>3. \A i \in I : h[i] = SumFunctionOnSet(f, g[i])
  <2> SUFFICES ASSUME NEW i \in I PROVE h[i] = SumFunctionOnSet(f, g[i])
    OBVIOUS
  <2> DEFINE G == {m[i]}
  <2>1. m[i] \in G /\ f[m[i]] \in Int /\ \A y \in G \ {m[i]} : f[y] = 0
    OBVIOUS
  <2>2. IsFiniteSet(G) /\ g[i] = G
    BY FS_Singleton
  <2> HIDE DEF G, g
  <2>3. SumFunctionOnSet(f, G) = f[m[i]]
    BY <2>1, <2>2, SumOfOne
  <2> QED BY <2>2, <2>3
<1> HIDE DEF g
<1> QED BY <1>2, <1>3, SumOfGroups

-----------------------------------------------------------------------------
(***************************************************************************)
(* Shares that are rounded down.                                           *)
(***************************************************************************)
\* Division with remainder.
LEMMA DivFacts ==
  ASSUME NEW x \in Nat, NEW p \in Nat \ {0}
  PROVE  /\ x \div p \in Nat
         /\ x % p \in 0 .. p - 1
         /\ x = p * (x \div p) + (x % p)
         /\ p * (x \div p) <= x
<1>1. x \div p \in Nat
  OBVIOUS
<1>2. x % p \in 0 .. p - 1
  OBVIOUS
<1>3. x = p * (x \div p) + (x % p)
  OBVIOUS
<1>4. p * (x \div p) <= x
  OBVIOUS
<1> QED BY <1>1, <1>2, <1>3, <1>4

LEMMA DivOfMultiple ==
  ASSUME NEW q \in Nat, NEW p \in Nat \ {0}
  PROVE  (p * q) \div p = q /\ (p * q) % p = 0
OBVIOUS

\* A factor that is not zero can be left out.
LEMMA Cancel ==
  ASSUME NEW p \in Nat \ {0}, NEW x \in Int, NEW y \in Int, p * x <= p * y
  PROVE  x <= y
<1> SUFFICES ASSUME x >= y + 1 PROVE FALSE
  OBVIOUS
<1>1. PICK k \in Nat : x = y + 1 + k
  <2>1. x - y - 1 \in Nat
    OBVIOUS
  <2> QED BY <2>1
<1>2. p * (y + 1 + k) = p * y + p + p * k
  OBVIOUS
<1>3. p * k \in Nat /\ p * y \in Int
  OBVIOUS
<1> QED BY <1>1, <1>2, <1>3

\* The products of natural numbers and their order.
LEMMA Products ==
  ASSUME NEW p \in Nat, NEW x \in Nat, NEW y \in Nat, x <= y
  PROVE  p * x \in Nat /\ p * x <= p * y
<1>1. PICK k \in Nat : y = x + k
  <2>1. y - x \in Nat
    OBVIOUS
  <2> QED BY <2>1
<1>2. p * (x + k) = p * x + p * k /\ p * k \in Nat /\ p * x \in Nat
  OBVIOUS
<1> QED BY <1>1, <1>2

\* Ones count the members.
LEMMA SumOfOnes ==
  ASSUME NEW f, NEW S, IsFiniteSet(S), \A x \in S : f[x] = 1
  PROVE  SumFunctionOnSet(f, S) = Cardinality(S)
<1> DEFINE s(T) == SumFunctionOnSet(f, T)
           P == {T \in SUBSET S : s(T) = Cardinality(T)}
<1>1. ASSUME NEW T \in SUBSET S, \A U \in SUBSET T : U # T => U \in P
      PROVE  T \in P
  <2>1. CASE T = {}
    BY <2>1, SumOfNone, FS_EmptySet
  <2>2. CASE T # {}
    <3>1. PICK x \in T : TRUE
      BY <2>2
    <3>2. IsFiniteSet(T) /\ IsFiniteSet(T \ {x})
      BY FS_Subset
    <3>3. \A y \in T : f[y] \in Int
      OBVIOUS
    <3>4. s(T) = f[x] + s(T \ {x})
      <4> HIDE DEF P
      <4> QED BY <3>1, <3>2, <3>3, SumTakeOut
    <3>5. s(T \ {x}) = Cardinality(T \ {x})
      BY <1>1, <3>1
    <3>6. Cardinality(T) \in Nat /\ Cardinality(T \ {x}) = Cardinality(T) - 1
      BY <3>1, <3>2, FS_RemoveElement, FS_CardinalityType
    <3>7. f[x] = 1
      BY <3>1
    <3>8. s(T) = Cardinality(T)
      <4> HIDE DEF s
      <4> QED BY <3>4, <3>5, <3>6, <3>7
    <3> QED BY <3>8
  <2> QED BY <2>1, <2>2
<1> HIDE DEF P
<1>2. S \in P
  BY <1>1, SubsetInduction
<1> QED BY <1>2 DEF P

\* What is shared out in proportion, every share rounded down: never more than
\* there is, and all of it but for less than one a share.
LEMMA SharesOfWhole ==
  ASSUME NEW S, IsFiniteSet(S), NEW w, \A x \in S : w[x] \in Nat,
         NEW all, all = SumFunctionOnSet(w, S), all # 0,
         NEW pot \in Nat, NEW f, \A x \in S : f[x] = (pot * w[x]) \div all
  PROVE  /\ \A x \in S : f[x] \in Nat
         /\ SumFunctionOnSet(f, S) \in Nat
         /\ SumFunctionOnSet(f, S) <= pot
         /\ pot <= SumFunctionOnSet(f, S) + Cardinality(S)
<1> DEFINE lower == [x \in S |-> all * f[x]]
           middle == [x \in S |-> pot * w[x]]
           one == [x \in S |-> 1]
           above == [x \in S |-> f[x] + one[x]]
           upper == [x \in S |-> all * above[x]]
           F == SumFunctionOnSet(f, S)
           n == Cardinality(S)
<1>1. all \in Nat \ {0} /\ n \in Nat
  BY SumOfNats, FS_CardinalityType
<1>2. ASSUME NEW x \in S
      PROVE  /\ f[x] \in Nat
             /\ all * f[x] \in Nat /\ all * f[x] <= pot * w[x]
             /\ pot * w[x] \in Nat
             /\ all * (f[x] + 1) \in Nat /\ pot * w[x] <= all * (f[x] + 1)
  <2> DEFINE p == pot * w[x]
             q == p \div all
             r == p % all
  <2>1. p \in Nat
    <3>1. w[x] \in Nat
      OBVIOUS
    <3> QED BY <3>1
  <2>2. q \in Nat /\ r \in 0 .. all - 1 /\ p = all * q + r /\ all * q <= p
    <3> HIDE DEF p
    <3> QED BY <1>1, <2>1, DivFacts
  <2>3. f[x] = q
    OBVIOUS
  <2> HIDE DEF p, q, r
  <2>4. all * (q + 1) = all * q + all /\ all * q \in Nat
    BY <1>1, <2>2
  <2> QED BY <1>1, <2>1, <2>2, <2>3, <2>4 DEF p
<1>3. /\ \A x \in S : lower[x] = all * f[x] /\ middle[x] = pot * w[x] /\ one[x] = 1
      /\ \A x \in S : above[x] = f[x] + one[x] /\ upper[x] = all * above[x]
  OBVIOUS
<1>4. F \in Nat
  BY <1>2, SumOfNats
<1> HIDE DEF lower, middle, one, above, upper
<1>5. \A x \in S : upper[x] = all * (f[x] + 1) /\ above[x] = f[x] + 1
  BY <1>3
<1>6. SumFunctionOnSet(lower, S) = all * F
  <2>1. all \in Int /\ \A x \in S : f[x] \in Int /\ lower[x] = all * f[x]
    BY <1>1, <1>2, <1>3
  <2> QED BY <2>1, SumTimes
<1>7. SumFunctionOnSet(middle, S) = pot * all
  <2>1. pot \in Int /\ \A x \in S : w[x] \in Int /\ middle[x] = pot * w[x]
    BY <1>3
  <2> QED BY <2>1, SumTimes
<1>8. SumFunctionOnSet(above, S) = F + n
  <2>1. SumFunctionOnSet(one, S) = n
    BY <1>3, SumOfOnes
  <2>2. \A x \in S : f[x] \in Int /\ one[x] \in Int /\ above[x] = f[x] + one[x]
    BY <1>2, <1>3
  <2>3. SumFunctionOnSet(above, S) = F + SumFunctionOnSet(one, S)
    BY <2>2, SumPlus
  <2> QED BY <2>1, <2>3
<1>9. SumFunctionOnSet(upper, S) = all * (F + n)
  <2>1. all \in Int
    BY <1>1
  <2>2. \A x \in S : above[x] \in Int /\ upper[x] = all * above[x]
    BY <1>2, <1>3, <1>5
  <2>3. SumFunctionOnSet(upper, S) = all * SumFunctionOnSet(above, S)
    <3> QED BY ONLY IsFiniteSet(S), <2>1, <2>2, SumTimes
  <2> QED BY <1>8, <2>3
<1>10. SumFunctionOnSet(lower, S) <= SumFunctionOnSet(middle, S)
  <2>1. \A x \in S : lower[x] \in Int /\ middle[x] \in Int /\ lower[x] <= middle[x]
    BY <1>2, <1>3
  <2> QED BY <2>1, SumMonotone
<1>11. SumFunctionOnSet(middle, S) <= SumFunctionOnSet(upper, S)
  <2>1. \A x \in S : middle[x] \in Int /\ upper[x] \in Int /\ middle[x] <= upper[x]
    BY <1>2, <1>3, <1>5
  <2> QED BY <2>1, SumMonotone
<1> HIDE DEF F, n
<1>12. all * F <= all * pot /\ all * pot <= all * (F + n)
  <2>1. pot * all = all * pot
    BY <1>1
  <2> QED BY <1>6, <1>7, <1>9, <1>10, <1>11, <2>1
<1>13. F <= pot /\ pot <= F + n
  BY <1>1, <1>4, <1>12, Cancel
<1> QED BY <1>2, <1>4, <1>13 DEF F, n
=============================================================================
