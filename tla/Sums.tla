-------------------------------- MODULE Sums --------------------------------
(***************************************************************************)
(* Sums over finite sets: what the folds of the community modules compute.  *)
(* Every sum of the models is a SumFunctionOnSet, and its value does not    *)
(* depend on the order in which the fold picks the elements.                *)
(***************************************************************************)
EXTENDS Integers, Functions, FiniteSetTheorems, WellFoundedInduction, TLAPS

-----------------------------------------------------------------------------
(* Induction over naturals and finite sets, in terms of sets               *)

\* A set of naturals has a least element.
LEMMA LeastElement ==
  ASSUME NEW S \in SUBSET Nat, S # {}
  PROVE  \E m \in S : \A y \in S : m <= y
<1> DEFINE R == OpToRel(<, Nat)
<1>1. IsWellFoundedOn(R, Nat)
  BY NatLessThanWellFounded
<1>2. \A a, b \in Nat : a < b => <<a, b>> \in R
  BY DEF OpToRel
<1> HIDE DEF R
<1>3. PICK m \in S : \A y \in S : ~(<<y, m>> \in R)
  BY <1>1, WFMin
<1>4. ASSUME NEW y \in S PROVE m <= y
  <2>1. y \in Nat /\ m \in Nat /\ ~(<<y, m>> \in R)
    BY <1>3
  <2>2. ~(y < m)
    BY <1>2, <2>1
  <2> QED BY <2>1, <2>2
<1> QED BY <1>4

\* A set that has 0 and with every natural the next has them all.
LEMMA NatSteps ==
  ASSUME NEW P, 0 \in P, \A n \in Nat : n \in P => n + 1 \in P
  PROVE  \A n \in Nat : n \in P
<1> SUFFICES ASSUME NEW z \in Nat, z \notin P PROVE FALSE
  OBVIOUS
<1> DEFINE bad == {n \in Nat : n \notin P}
<1>1. PICK m \in bad : \A y \in bad : m <= y
  <2>1. bad \in SUBSET Nat /\ bad # {}
    OBVIOUS
  <2> HIDE DEF bad
  <2> QED BY <2>1, LeastElement
<1>2. m \in Nat /\ m # 0 /\ m \notin P
  BY <1>1
<1>3. m - 1 \in Nat /\ (m - 1) + 1 = m
  BY <1>2
<1>4. m - 1 \in bad
  BY <1>2, <1>3
<1> HIDE DEF bad
<1>5. m <= m - 1
  BY <1>1, <1>4
<1> QED BY <1>2, <1>5

\* A set "P" of subsets of S that has every subset whose own parts it has, has
\* them all.
LEMMA SubsetInduction ==
  ASSUME NEW S, IsFiniteSet(S), NEW P,
         \A T \in SUBSET S : (\A U \in SUBSET T : U # T => U \in P) => T \in P
  PROVE  \A T \in SUBSET S : T \in P
<1> SUFFICES ASSUME NEW Z \in SUBSET S, Z \notin P PROVE FALSE
  OBVIOUS
<1> DEFINE bad == {T \in SUBSET S : T \notin P}
           sizes == {Cardinality(T) : T \in bad}
<1>1. \A T \in SUBSET S : IsFiniteSet(T) /\ Cardinality(T) \in Nat
  BY FS_Subset, FS_CardinalityType
<1>2. sizes \in SUBSET Nat /\ sizes # {}
  BY <1>1
<1> HIDE DEF sizes
<1>3. PICK m \in sizes : \A y \in sizes : m <= y
  BY <1>2, LeastElement
<1>4. PICK T \in bad : m = Cardinality(T)
  BY DEF sizes
<1>5. ASSUME NEW U \in SUBSET T, U # T PROVE U \in P
  <2>1. Cardinality(U) < Cardinality(T)
    <3>1. Cardinality(U) <= Cardinality(T) /\ Cardinality(U) # Cardinality(T)
      BY <1>1, <1>5, FS_Subset
    <3>2. Cardinality(U) \in Nat /\ Cardinality(T) \in Nat
      BY <1>1
    <3> QED BY <3>1, <3>2
  <2>2. SUFFICES ASSUME U \notin P PROVE FALSE
    OBVIOUS
  <2>3. Cardinality(U) \in sizes
    BY <2>2 DEF sizes
  <2>4. m <= Cardinality(U) /\ Cardinality(U) \in Nat /\ m \in Nat
    BY <1>1, <1>2, <1>3, <2>3
  <2> QED BY <1>4, <2>1, <2>4
<1> QED BY <1>4, <1>5

-----------------------------------------------------------------------------
(* The fold of a sum                                                       *)

Pick(s) == CHOOSE x \in s : TRUE

\* "g" sums "f" over every subset of S.
Adds(g, f, S) ==
  g = [s \in SUBSET S |-> IF s = {} THEN 0 ELSE f[Pick(s)] + g[s \ {Pick(s)}]]

LEMMA PickIn ==
  ASSUME NEW s, s # {}
  PROVE  Pick(s) \in s
BY DEF Pick

LEMMA AddsAt ==
  ASSUME NEW S, NEW f, NEW g, Adds(g, f, S), NEW s \in SUBSET S
  PROVE  g[s] = IF s = {} THEN 0 ELSE f[Pick(s)] + g[s \ {Pick(s)}]
<1> DEFINE F == [t \in SUBSET S |-> IF t = {} THEN 0 ELSE f[Pick(t)] + g[t \ {Pick(t)}]]
<1>1. g = F
  BY DEF Adds
<1>2. F[s] = IF s = {} THEN 0 ELSE f[Pick(s)] + g[s \ {Pick(s)}]
  OBVIOUS
<1> HIDE DEF F
<1> QED BY <1>1, <1>2

\* Two functions that agree on S have the same sums of its subsets.
LEMMA AddsAlike ==
  ASSUME NEW S, IsFiniteSet(S), NEW T, NEW U, S \subseteq T, S \subseteq U,
         NEW f, NEW e, \A x \in S : f[x] = e[x],
         NEW g, NEW h, Adds(g, f, T), Adds(h, e, U)
  PROVE  g[S] = h[S]
<1> DEFINE P == {s \in SUBSET S : g[s] = h[s]}
<1>1. ASSUME NEW s \in SUBSET S, \A u \in SUBSET s : u # s => u \in P
      PROVE  s \in P
  <2>1. g[s] = IF s = {} THEN 0 ELSE f[Pick(s)] + g[s \ {Pick(s)}]
    <3>1. s \in SUBSET T
      OBVIOUS
    <3> QED BY <3>1, AddsAt
  <2>2. h[s] = IF s = {} THEN 0 ELSE e[Pick(s)] + h[s \ {Pick(s)}]
    <3>1. s \in SUBSET U
      OBVIOUS
    <3> QED BY <3>1, AddsAt
  <2>3. CASE s = {}
    BY <2>1, <2>2, <2>3
  <2>4. CASE s # {}
    <3>1. Pick(s) \in s
      BY <2>4, PickIn
    <3>2. s \ {Pick(s)} \in P
      BY <1>1, <3>1
    <3> QED BY <2>1, <2>2, <2>4, <3>1, <3>2
  <2> QED BY <2>3, <2>4
<1> HIDE DEF P
<1>2. \A s \in SUBSET S : s \in P
  BY <1>1, SubsetInduction
<1> QED BY <1>2 DEF P

LEMMA AddsExists ==
  ASSUME NEW S, IsFiniteSet(S), NEW f
  PROVE  \E g : Adds(g, f, S)
<1> DEFINE P == {T \in SUBSET S : \E g : Adds(g, f, T)}
           Sub(u) == CHOOSE h : Adds(h, f, u)
<1>1. \A T \in P : Adds(Sub(T), f, T)
  OBVIOUS
<1> HIDE DEF Sub
<1>2. ASSUME NEW T \in SUBSET S, \A U \in SUBSET T : U # T => U \in P
      PROVE  T \in P
  <2> DEFINE g == [s \in SUBSET T |-> IF s = {} THEN 0
                     ELSE f[Pick(s)] + Sub(s \ {Pick(s)})[s \ {Pick(s)}]]
  <2>1. ASSUME NEW s \in SUBSET T, s # {}
        PROVE  g[s \ {Pick(s)}] = Sub(s \ {Pick(s)})[s \ {Pick(s)}]
    <3> DEFINE t == s \ {Pick(s)}
    <3>1. Pick(s) \in s
      BY <2>1, PickIn
    <3>2. t \in SUBSET T /\ t # T
      BY <3>1
    <3>3. Adds(Sub(t), f, t)
      BY <1>1, <1>2, <3>2
    <3>4. Sub(t)[t] = IF t = {} THEN 0 ELSE f[Pick(t)] + Sub(t)[t \ {Pick(t)}]
      <4> HIDE DEF t
      <4> QED BY <3>3, AddsAt
    <3>5. CASE t = {}
      <4>1. g[t] = 0
        <5> HIDE DEF t
        <5> QED BY <3>2, <3>5
      <4> HIDE DEF g
      <4> QED BY <3>4, <3>5, <4>1
    <3>6. CASE t # {}
      <4> DEFINE u == t \ {Pick(t)}
      <4>1. u \in SUBSET T /\ u # T /\ u \subseteq t /\ u \subseteq u
        BY <3>2
      <4>2. Adds(Sub(u), f, u)
        BY <1>1, <1>2, <4>1
      <4>3. IsFiniteSet(u)
        BY <4>1, FS_Subset
      <4>4. Sub(u)[u] = Sub(t)[u]
        <5> HIDE DEF u, t
        <5> QED BY <3>3, <4>1, <4>2, <4>3, AddsAlike
      <4>5. g[t] = f[Pick(t)] + Sub(u)[u]
        <5> HIDE DEF t
        <5> QED BY <3>2, <3>6
      <4> QED BY <3>4, <3>6, <4>4, <4>5
    <3> QED BY <3>5, <3>6
  <2>2. g = [s \in SUBSET T |-> IF s = {} THEN 0 ELSE f[Pick(s)] + g[s \ {Pick(s)}]]
    <3> DEFINE h == [s \in SUBSET T |-> IF s = {} THEN 0 ELSE f[Pick(s)] + g[s \ {Pick(s)}]]
    <3>1. \A s \in SUBSET T : g[s] = h[s]
      BY <2>1
    <3>2. DOMAIN g = DOMAIN h /\ g = [s \in DOMAIN g |-> g[s]] /\ h = [s \in DOMAIN h |-> h[s]]
      OBVIOUS
    <3>3. DOMAIN g = SUBSET T
      OBVIOUS
    <3> HIDE DEF g, h
    <3>4. g = h
      BY <3>1, <3>2, <3>3
    <3> QED BY <3>4 DEF h
  <2> HIDE DEF g
  <2> QED BY <2>2 DEF Adds
<1> HIDE DEF P
<1>3. \A T \in SUBSET S : T \in P
  BY <1>2, SubsetInduction
<1> QED BY <1>3 DEF P

\* What the community modules' fold is.
LEMMA SumIs ==
  ASSUME NEW S, IsFiniteSet(S), NEW f
  PROVE  \E g : Adds(g, f, S) /\ SumFunctionOnSet(f, S) = g[S]
<1> DEFINE g == CHOOSE h : Adds(h, f, S)
<1>1. Adds(g, f, S)
  BY AddsExists
<1>2. SumFunctionOnSet(f, S) = g[S]
  BY DEF SumFunctionOnSet, FoldFunctionOnSet, MapThenFoldSet, Adds, Pick
<1> QED BY <1>1, <1>2

-----------------------------------------------------------------------------
(* Sums                                                                    *)

\* A sum depends on the values summed only.
LEMMA SumSame ==
  ASSUME NEW S, IsFiniteSet(S), NEW f, NEW e, \A x \in S : f[x] = e[x]
  PROVE  SumFunctionOnSet(f, S) = SumFunctionOnSet(e, S)
<1>1. PICK g : Adds(g, f, S) /\ SumFunctionOnSet(f, S) = g[S]
  BY SumIs
<1>2. PICK h : Adds(h, e, S) /\ SumFunctionOnSet(e, S) = h[S]
  BY SumIs
<1>3. g[S] = h[S]
  <2>1. S \subseteq S
    OBVIOUS
  <2> QED BY <1>1, <1>2, <2>1, AddsAlike
<1> QED BY <1>1, <1>2, <1>3

LEMMA SumUnfold ==
  ASSUME NEW S, IsFiniteSet(S), NEW f
  PROVE  SumFunctionOnSet(f, S) = IF S = {} THEN 0 ELSE f[Pick(S)] + SumFunctionOnSet(f, S \ {Pick(S)})
<1>1. PICK g : Adds(g, f, S) /\ SumFunctionOnSet(f, S) = g[S]
  BY SumIs
<1> DEFINE R == S \ {Pick(S)}
<1>2. g[S] = IF S = {} THEN 0 ELSE f[Pick(S)] + g[R]
  <2>1. S \in SUBSET S
    OBVIOUS
  <2> QED BY <1>1, <2>1, AddsAt
<1>3. R \subseteq S /\ R \subseteq R /\ IsFiniteSet(R)
  BY FS_Subset
<1> HIDE DEF R
<1>4. PICK h : Adds(h, f, R) /\ SumFunctionOnSet(f, R) = h[R]
  BY <1>3, SumIs
<1>5. h[R] = g[R]
  BY <1>1, <1>3, <1>4, AddsAlike
<1> QED BY <1>1, <1>2, <1>4, <1>5 DEF R

LEMMA SumOfNone == \A f : SumFunctionOnSet(f, {}) = 0
<1> TAKE f
<1> QED BY SumUnfold, FS_EmptySet

\* A sum of integers is one, and of naturals too.
LEMMA SumInt ==
  ASSUME NEW S, IsFiniteSet(S), NEW f, \A x \in S : f[x] \in Int
  PROVE  SumFunctionOnSet(f, S) \in Int
<1> DEFINE P == {s \in SUBSET S : SumFunctionOnSet(f, s) \in Int}
<1>1. ASSUME NEW s \in SUBSET S, \A u \in SUBSET s : u # s => u \in P
      PROVE  s \in P
  <2>1. SumFunctionOnSet(f, s) = IF s = {} THEN 0 ELSE f[Pick(s)] + SumFunctionOnSet(f, s \ {Pick(s)})
    BY FS_Subset, SumUnfold
  <2>2. ASSUME s # {} PROVE f[Pick(s)] \in Int /\ SumFunctionOnSet(f, s \ {Pick(s)}) \in Int
    <3>1. Pick(s) \in s
      BY <2>2, PickIn
    <3>2. s \ {Pick(s)} \in P
      BY <1>1, <3>1
    <3> QED BY <3>1, <3>2
  <2> QED BY <2>1, <2>2
<1> HIDE DEF P
<1>2. \A s \in SUBSET S : s \in P
  BY <1>1, SubsetInduction
<1> QED BY <1>2 DEF P

LEMMA SumNat ==
  ASSUME NEW S, IsFiniteSet(S), NEW f, \A x \in S : f[x] \in Nat
  PROVE  SumFunctionOnSet(f, S) \in Nat
<1> DEFINE P == {s \in SUBSET S : SumFunctionOnSet(f, s) \in Nat}
<1>1. ASSUME NEW s \in SUBSET S, \A u \in SUBSET s : u # s => u \in P
      PROVE  s \in P
  <2>1. SumFunctionOnSet(f, s) = IF s = {} THEN 0 ELSE f[Pick(s)] + SumFunctionOnSet(f, s \ {Pick(s)})
    BY FS_Subset, SumUnfold
  <2>2. ASSUME s # {} PROVE f[Pick(s)] \in Nat /\ SumFunctionOnSet(f, s \ {Pick(s)}) \in Nat
    <3>1. Pick(s) \in s
      BY <2>2, PickIn
    <3>2. s \ {Pick(s)} \in P
      BY <1>1, <3>1
    <3> QED BY <3>1, <3>2
  <2> QED BY <2>1, <2>2
<1> HIDE DEF P
<1>2. \A s \in SUBSET S : s \in P
  BY <1>1, SubsetInduction
<1> QED BY <1>2 DEF P

\* Any element may be taken out of a sum.
LEMMA SumWithout ==
  ASSUME NEW S, IsFiniteSet(S), NEW f, \A x \in S : f[x] \in Int, NEW a \in S
  PROVE  SumFunctionOnSet(f, S) = f[a] + SumFunctionOnSet(f, S \ {a})
<1> DEFINE Out(s) == \A x \in s : SumFunctionOnSet(f, s) = f[x] + SumFunctionOnSet(f, s \ {x})
           P == {s \in SUBSET S : Out(s)}
<1>1. ASSUME NEW s \in SUBSET S, \A u \in SUBSET s : u # s => u \in P
      PROVE  s \in P
  <2> SUFFICES ASSUME NEW x \in s PROVE SumFunctionOnSet(f, s) = f[x] + SumFunctionOnSet(f, s \ {x})
    OBVIOUS
  <2> DEFINE p == Pick(s)
             r == (s \ {p}) \ {x}
  <2>1. p \in s /\ SumFunctionOnSet(f, s) = f[p] + SumFunctionOnSet(f, s \ {p})
    BY FS_Subset, SumUnfold, PickIn
  <2> HIDE DEF p
  <2>2. CASE p = x
    BY <2>1, <2>2
  <2>3. CASE p # x
    <3>1. s \ {p} \in P /\ s \ {x} \in P
      BY <1>1, <2>1
    <3>2. SumFunctionOnSet(f, s \ {p}) = f[x] + SumFunctionOnSet(f, r)
      BY <2>3, <3>1
    <3>3. SumFunctionOnSet(f, s \ {x}) = f[p] + SumFunctionOnSet(f, (s \ {x}) \ {p})
      BY <2>1, <2>3, <3>1
    <3>4. (s \ {x}) \ {p} = r
      OBVIOUS
    <3>5. SumFunctionOnSet(f, r) \in Int /\ f[x] \in Int /\ f[p] \in Int
      <4>1. IsFiniteSet(r) /\ r \subseteq S
        BY FS_Subset
      <4> HIDE DEF r
      <4> QED BY <2>1, <4>1, SumInt
    <3>6. SumFunctionOnSet(f, s \ {x}) = f[p] + SumFunctionOnSet(f, r)
      BY <3>3, <3>4
    <3>7. SumFunctionOnSet(f, s) = f[p] + (f[x] + SumFunctionOnSet(f, r))
      BY <2>1, <3>2
    <3> HIDE DEF r, P
    <3>8. f[p] + (f[x] + SumFunctionOnSet(f, r)) = f[x] + (f[p] + SumFunctionOnSet(f, r))
      BY <3>5
    <3> QED BY <3>6, <3>7, <3>8
  <2> QED BY <2>2, <2>3
<1> HIDE DEF P
<1>2. \A s \in SUBSET S : s \in P
  BY <1>1, SubsetInduction
<1> QED BY <1>2 DEF P

\* One element is added, or its value changes.
LEMMA SumWith ==
  ASSUME NEW S, IsFiniteSet(S), NEW f, NEW a, a \notin S, \A x \in S \cup {a} : f[x] \in Int
  PROVE  SumFunctionOnSet(f, S \cup {a}) = f[a] + SumFunctionOnSet(f, S)
<1>1. IsFiniteSet(S \cup {a}) /\ a \in S \cup {a} /\ (S \cup {a}) \ {a} = S
  BY FS_AddElement
<1> DEFINE T == S \cup {a}
<1> HIDE DEF T
<1>2. SumFunctionOnSet(f, T) = f[a] + SumFunctionOnSet(f, T \ {a})
  BY <1>1, SumWithout DEF T
<1> QED BY <1>1, <1>2 DEF T

LEMMA SumChange ==
  ASSUME NEW S, IsFiniteSet(S), NEW f, NEW e, NEW a \in S,
         \A x \in S : f[x] \in Int /\ e[x] \in Int,
         \A x \in S : x # a => e[x] = f[x]
  PROVE  SumFunctionOnSet(e, S) = SumFunctionOnSet(f, S) + (e[a] - f[a])
<1> DEFINE R == S \ {a}
<1>1. IsFiniteSet(R) /\ R \subseteq S /\ \A x \in R : e[x] = f[x]
  BY FS_Subset
<1>2. SumFunctionOnSet(f, S) = f[a] + SumFunctionOnSet(f, R) /\ SumFunctionOnSet(e, S) = e[a] + SumFunctionOnSet(e, R)
  BY SumWithout
<1> HIDE DEF R
<1>3. SumFunctionOnSet(e, R) = SumFunctionOnSet(f, R) /\ SumFunctionOnSet(f, R) \in Int
  BY <1>1, SumSame, SumInt
<1>4. f[a] \in Int /\ e[a] \in Int
  OBVIOUS
<1> QED BY <1>2, <1>3, <1>4

\* Sums of sums and differences.
LEMMA SumPlus ==
  ASSUME NEW S, IsFiniteSet(S), NEW f, NEW e, NEW h,
         \A x \in S : f[x] \in Int /\ e[x] \in Int /\ h[x] = f[x] + e[x]
  PROVE  SumFunctionOnSet(h, S) = SumFunctionOnSet(f, S) + SumFunctionOnSet(e, S)
<1> DEFINE P == {s \in SUBSET S : SumFunctionOnSet(h, s) = SumFunctionOnSet(f, s) + SumFunctionOnSet(e, s)}
<1>1. ASSUME NEW s \in SUBSET S, \A u \in SUBSET s : u # s => u \in P
      PROVE  s \in P
  <2> DEFINE p == Pick(s)
             r == s \ {p}
  <2>1. /\ SumFunctionOnSet(f, s) = IF s = {} THEN 0 ELSE f[p] + SumFunctionOnSet(f, r)
        /\ SumFunctionOnSet(e, s) = IF s = {} THEN 0 ELSE e[p] + SumFunctionOnSet(e, r)
        /\ SumFunctionOnSet(h, s) = IF s = {} THEN 0 ELSE h[p] + SumFunctionOnSet(h, r)
    BY FS_Subset, SumUnfold
  <2>2. CASE s = {}
    BY <2>1, <2>2
  <2>3. CASE s # {}
    <3>1. p \in s
      BY <2>3, PickIn
    <3>2. r \in P /\ r \subseteq S /\ IsFiniteSet(r)
      BY <1>1, <3>1, FS_Subset
    <3> HIDE DEF p, r
    <3>3. SumFunctionOnSet(f, r) \in Int /\ SumFunctionOnSet(e, r) \in Int
      BY <3>2, SumInt
    <3>4. f[p] \in Int /\ e[p] \in Int /\ h[p] = f[p] + e[p]
      BY <3>1
    <3>5. SumFunctionOnSet(h, r) = SumFunctionOnSet(f, r) + SumFunctionOnSet(e, r)
      BY <3>2
    <3>6. SumFunctionOnSet(h, s) = SumFunctionOnSet(f, s) + SumFunctionOnSet(e, s)
      BY <2>1, <2>3, <3>3, <3>4, <3>5
    <3> QED BY <3>6
  <2> QED BY <2>2, <2>3
<1> HIDE DEF P
<1>2. \A s \in SUBSET S : s \in P
  BY <1>1, SubsetInduction
<1> QED BY <1>2 DEF P

\* Zeros do not count: a sum is that of a part outside which there is nothing.
LEMMA SumPart ==
  ASSUME NEW S, IsFiniteSet(S), NEW T \in SUBSET S, NEW f,
         \A x \in S : f[x] \in Int, \A x \in S : x \notin T => f[x] = 0
  PROVE  SumFunctionOnSet(f, S) = SumFunctionOnSet(f, T)
<1> DEFINE P == {s \in SUBSET S : SumFunctionOnSet(f, s) = SumFunctionOnSet(f, s \cap T)}
<1>1. ASSUME NEW s \in SUBSET S, \A u \in SUBSET s : u # s => u \in P
      PROVE  s \in P
  <2>1. CASE s \subseteq T
    <3>1. s \cap T = s
      BY <2>1
    <3> QED BY <3>1
  <2>2. CASE ~(s \subseteq T)
    <3>1. PICK a \in s : a \notin T
      BY <2>2
    <3> DEFINE r == s \ {a}
    <3>2. r \in P /\ IsFiniteSet(s) /\ r \cap T = s \cap T /\ r \subseteq S /\ IsFiniteSet(r)
      BY <1>1, <3>1, FS_Subset
    <3>3. SumFunctionOnSet(f, s) = f[a] + SumFunctionOnSet(f, r)
      BY <3>2, SumWithout
    <3>4. f[a] = 0
      BY <3>1
    <3> HIDE DEF r
    <3>5. SumFunctionOnSet(f, r) \in Int /\ SumFunctionOnSet(f, r) = SumFunctionOnSet(f, s \cap T)
      BY <3>2, SumInt
    <3> QED BY <3>3, <3>4, <3>5
  <2> QED BY <2>1, <2>2
<1> HIDE DEF P
<1>2. \A s \in SUBSET S : s \in P
  BY <1>1, SubsetInduction
<1>3. S \cap T = T
  OBVIOUS
<1> QED BY <1>2, <1>3 DEF P

\* A sum of naturals is no less than any of them, and nothing when they are.
LEMMA SumAtLeast ==
  ASSUME NEW S, IsFiniteSet(S), NEW f, \A x \in S : f[x] \in Nat, NEW a \in S
  PROVE  SumFunctionOnSet(f, S) \in Nat /\ f[a] <= SumFunctionOnSet(f, S)
<1> DEFINE R == S \ {a}
<1>1. IsFiniteSet(R) /\ \A x \in R : f[x] \in Nat
  BY FS_Subset
<1>2. SumFunctionOnSet(f, S) = f[a] + SumFunctionOnSet(f, R)
  BY SumWithout
<1> HIDE DEF R
<1>3. SumFunctionOnSet(f, R) \in Nat
  BY <1>1, SumNat
<1> QED BY <1>2, <1>3

\* The same value everywhere.
LEMMA SumConstant ==
  ASSUME NEW S, IsFiniteSet(S), NEW f, NEW c \in Int, \A x \in S : f[x] = c
  PROVE  Cardinality(S) \in Nat /\ SumFunctionOnSet(f, S) = c * Cardinality(S)
<1> DEFINE P == {s \in SUBSET S : SumFunctionOnSet(f, s) = c * Cardinality(s)}
<1>1. ASSUME NEW s \in SUBSET S, \A u \in SUBSET s : u # s => u \in P
      PROVE  s \in P
  <2>1. CASE s = {}
    BY <2>1, SumOfNone, FS_EmptySet
  <2>2. CASE s # {}
    <3>1. PICK a : a \in s
      BY <2>2
    <3> DEFINE r == s \ {a}
    <3>2. r \in P /\ IsFiniteSet(s) /\ \A x \in s : f[x] \in Int
      BY <1>1, <3>1, FS_Subset
    <3>3. SumFunctionOnSet(f, s) = c + SumFunctionOnSet(f, r)
      BY <3>1, <3>2, SumWithout
    <3>4. IsFiniteSet(r) /\ Cardinality(r) = Cardinality(s) - 1
          /\ Cardinality(s) \in Nat /\ Cardinality(r) \in Nat
      BY <3>1, <3>2, FS_RemoveElement, FS_CardinalityType
    <3> HIDE DEF r
    <3>5. SumFunctionOnSet(f, s) = c + c * Cardinality(r)
      BY <3>2, <3>3
    <3>6. c + c * Cardinality(r) = c * (Cardinality(r) + 1)
      BY <3>4
    <3> QED BY <3>4, <3>5, <3>6
  <2> QED BY <2>1, <2>2
<1> HIDE DEF P
<1>2. \A s \in SUBSET S : s \in P
  BY <1>1, SubsetInduction
<1> QED BY <1>2, FS_CardinalityType DEF P

\* A smaller value, element by element, gives a smaller sum.
LEMMA SumAtMost ==
  ASSUME NEW S, IsFiniteSet(S), NEW f, NEW e,
         \A x \in S : f[x] \in Int /\ e[x] \in Int /\ f[x] <= e[x]
  PROVE  SumFunctionOnSet(f, S) <= SumFunctionOnSet(e, S)
<1> DEFINE h == [x \in S |-> e[x] - f[x]]
<1>1. \A x \in S : h[x] \in Nat /\ e[x] = f[x] + h[x]
  OBVIOUS
<1> HIDE DEF h
<1>2. SumFunctionOnSet(h, S) \in Nat /\ SumFunctionOnSet(f, S) \in Int
  BY <1>1, SumNat, SumInt
<1>3. SumFunctionOnSet(e, S) = SumFunctionOnSet(f, S) + SumFunctionOnSet(h, S)
  BY <1>1, SumPlus
<1> QED BY <1>2, <1>3

\* Over two sets that have nothing in common.
LEMMA SumUnion ==
  ASSUME NEW S, IsFiniteSet(S), NEW f, \A x \in S : f[x] \in Int, NEW T \in SUBSET S
  PROVE  /\ SumFunctionOnSet(f, T) \in Int /\ SumFunctionOnSet(f, S \ T) \in Int
         /\ SumFunctionOnSet(f, S) = SumFunctionOnSet(f, T) + SumFunctionOnSet(f, S \ T)
<1> DEFINE in  == [x \in S |-> IF x \in T THEN f[x] ELSE 0]
           out == [x \in S |-> IF x \in T THEN 0 ELSE f[x]]
<1>1. \A x \in S : in[x] \in Int /\ out[x] \in Int /\ f[x] = in[x] + out[x]
  OBVIOUS
<1>2. /\ \A x \in T : in[x] = f[x]
      /\ \A x \in S \ T : out[x] = f[x]
      /\ \A x \in S : x \notin T => in[x] = 0
      /\ \A x \in S : x \notin S \ T => out[x] = 0
  OBVIOUS
<1>3. IsFiniteSet(T) /\ IsFiniteSet(S \ T) /\ S \ T \in SUBSET S
  BY FS_Subset
<1> HIDE DEF in, out
<1>4. SumFunctionOnSet(f, S) = SumFunctionOnSet(in, S) + SumFunctionOnSet(out, S)
  BY <1>1, SumPlus
<1>5. SumFunctionOnSet(in, S) = SumFunctionOnSet(in, T)
  BY <1>1, <1>2, SumPart
<1>6. SumFunctionOnSet(out, S) = SumFunctionOnSet(out, S \ T)
  BY <1>1, <1>2, <1>3, SumPart
<1>7. SumFunctionOnSet(in, T) = SumFunctionOnSet(f, T)
  BY <1>2, <1>3, SumSame
<1>8. SumFunctionOnSet(out, S \ T) = SumFunctionOnSet(f, S \ T)
  BY <1>2, <1>3, SumSame
<1>9. SumFunctionOnSet(f, T) \in Int /\ SumFunctionOnSet(f, S \ T) \in Int
  BY <1>3, SumInt
<1> QED BY <1>4, <1>5, <1>6, <1>7, <1>8, <1>9

\* Differences from one place to the next.
LEMMA SumTelescopes ==
  ASSUME NEW N \in Nat, NEW g, NEW f, \A i \in 0..N : g[i] \in Int,
         \A i \in 1..N : f[i] = g[i] - g[i - 1]
  PROVE  SumFunctionOnSet(f, 1..N) = g[N] - g[0]
<1> DEFINE Good(n) == SumFunctionOnSet(f, 1..n) = g[n] - g[0]
           bad == {n \in 0..N : ~Good(n)}
<1> SUFFICES ASSUME bad # {} PROVE FALSE
  <2>1. N \notin bad => Good(N)
    OBVIOUS
  <2> QED BY <2>1
<1>0. bad \in SUBSET Nat
  OBVIOUS
<1>1. PICK n \in bad : \A m \in bad : n <= m
  <2> HIDE DEF bad
  <2> QED BY <1>0, LeastElement
<1>2. n \in 0..N /\ ~Good(n)
  BY <1>1
<1>3. Good(0)
  <2>1. 1..0 = {}
    OBVIOUS
  <2> QED BY <2>1, SumOfNone
<1>4. n # 0 /\ n - 1 \in 0..N /\ n - 1 \notin bad
  <2>1. n # 0
    BY <1>2, <1>3
  <2> QED BY <1>1, <1>2, <2>1
<1>5. Good(n - 1)
  BY <1>4
<1>6. 1..n = (1..(n - 1)) \cup {n} /\ n \notin 1..(n - 1) /\ IsFiniteSet(1..(n - 1))
  <2>1. 1 \in Int /\ n - 1 \in Int
    BY <1>2
  <2>2. IsFiniteSet(1..(n - 1))
    BY <2>1, FS_Interval
  <2> QED BY <1>2, <1>4, <2>2
<1>7. f[n] = g[n] - g[n - 1] /\ g[n] \in Int /\ g[n - 1] \in Int /\ g[0] \in Int
  BY <1>2, <1>4
<1>8. \A x \in (1..(n - 1)) \cup {n} : f[x] \in Int
  BY <1>2, <1>4
<1>9. SumFunctionOnSet(f, 1..n) = f[n] + SumFunctionOnSet(f, 1..(n - 1))
  BY <1>6, <1>8, SumWith
<1> QED BY <1>2, <1>5, <1>7, <1>9

\* Values that are moved: r maps S one to one onto T.
LEMMA SumMoved ==
  ASSUME NEW S, IsFiniteSet(S), NEW T, NEW r, NEW f, NEW e,
         \A x \in S : r[x] \in T, \A y \in T : \E x \in S : r[x] = y,
         \A x, y \in S : r[x] = r[y] => x = y,
         \A x \in S : e[x] \in Int /\ e[x] = f[r[x]]
  PROVE  SumFunctionOnSet(e, S) = SumFunctionOnSet(f, T)
<1> DEFINE To(s) == {r[x] : x \in s}
           P == {s \in SUBSET S : /\ IsFiniteSet(To(s))
                                  /\ SumFunctionOnSet(e, s) = SumFunctionOnSet(f, To(s))}
<1>1. ASSUME NEW s \in SUBSET S, \A u \in SUBSET s : u # s => u \in P
      PROVE  s \in P
  <2>1. CASE s = {}
    <3>1. To(s) = {}
      BY <2>1
    <3> QED BY <2>1, <3>1, SumOfNone, FS_EmptySet
  <2>2. CASE s # {}
    <3>1. PICK a : a \in s
      BY <2>2
    <3> DEFINE u == s \ {a}
    <3>2. u \in P /\ IsFiniteSet(s) /\ IsFiniteSet(u)
      BY <1>1, <3>1, FS_Subset
    <3>3. SumFunctionOnSet(e, s) = e[a] + SumFunctionOnSet(e, u)
      BY <3>1, <3>2, SumWithout
    <3>4. To(s) = To(u) \cup {r[a]} /\ r[a] \notin To(u)
      BY <3>1
    <3>5. IsFiniteSet(To(u)) /\ IsFiniteSet(To(s))
      <4>1. IsFiniteSet(To(u))
        BY <3>2
      <4> HIDE DEF To
      <4>2. IsFiniteSet(To(u) \cup {r[a]})
        BY <4>1, FS_AddElement
      <4> QED BY <3>4, <4>1, <4>2
    <3>6. \A y \in To(u) \cup {r[a]} : f[y] \in Int
      BY <3>1
    <3> HIDE DEF To
    <3>7. SumFunctionOnSet(f, To(u) \cup {r[a]}) = f[r[a]] + SumFunctionOnSet(f, To(u))
      BY <3>4, <3>5, <3>6, SumWith
    <3> HIDE DEF u
    <3> QED BY <3>1, <3>2, <3>3, <3>4, <3>5, <3>7
  <2> QED BY <2>1, <2>2
<1>2. To(S) = T
  OBVIOUS
<1> HIDE DEF P, To
<1>3. \A s \in SUBSET S : s \in P
  BY <1>1, SubsetInduction
<1> QED BY <1>2, <1>3 DEF P

-----------------------------------------------------------------------------
(* Taking an amount from one place after another                           *)

\* "ahead" says which places come before each: a strict total order of S.
Ranked(S, ahead) ==
  /\ \A x \in S : ahead[x] \in SUBSET S /\ x \notin ahead[x]
  /\ \A x, y \in S : x = y \/ x \in ahead[y] \/ y \in ahead[x]
  /\ \A x, y \in S : y \in ahead[x] => ahead[y] \subseteq ahead[x]

\* Such an order has a last place.
LEMMA LastPlace ==
  ASSUME NEW S, IsFiniteSet(S), NEW ahead, Ranked(S, ahead), S # {}
  PROVE  \E m \in S : \A x \in S : x # m => x \in ahead[m]
<1> DEFINE Last(s) == \E m \in s : \A x \in s : x # m => x \in ahead[m]
           P == {s \in SUBSET S : s # {} => Last(s)}
<1>1. ASSUME NEW s \in SUBSET S, \A u \in SUBSET s : u # s => u \in P, s # {}
      PROVE  Last(s)
  <2>1. PICK a : a \in s
    BY <1>1
  <2>2. s \ {a} \in P
    BY <1>1, <2>1
  <2>3. CASE s \ {a} = {}
    BY <2>1, <2>3
  <2>4. CASE s \ {a} # {}
    <3>1. PICK m \in s \ {a} : \A x \in s \ {a} : x # m => x \in ahead[m]
      BY <2>2, <2>4
    <3>2. CASE a \in ahead[m]
      BY <3>1, <3>2
    <3>3. CASE m \in ahead[a]
      <4>1. ahead[m] \subseteq ahead[a]
        BY <2>1, <3>1, <3>3 DEF Ranked
      <4> QED BY <2>1, <3>1, <3>3, <4>1
    <3> QED BY <2>1, <3>1, <3>2, <3>3 DEF Ranked
  <2> QED BY <2>3, <2>4
<1>2. \A s \in SUBSET S : (\A u \in SUBSET s : u # s => u \in P) => s \in P
  BY <1>1
<1> HIDE DEF P
<1>3. \A s \in SUBSET S : s \in P
  BY <1>2, SubsetInduction
<1> QED BY <1>3 DEF P

\* What a place gives of "amount": what it "has", up to what the places ahead of
\* it left uncovered.
Gives(has, ahead, amount, x) ==
  LET before == SumFunctionOnSet(has, ahead[x])
      left   == IF amount <= before THEN 0 ELSE amount - before
  IN  IF has[x] <= left THEN has[x] ELSE left

\* The places of S, ranked by "ahead", give of what they have.
Taking(S, ahead, has, amount, gives) ==
  /\ IsFiniteSet(S) /\ Ranked(S, ahead) /\ amount \in Nat
  /\ \A x \in S : has[x] \in Nat /\ gives[x] = Gives(has, ahead, amount, x)

\* What is taken in all: the amount, or all that is there. So it is for the
\* places of T alone, when none outside T comes before one of them.
LEMMA TakenInAll ==
  ASSUME NEW S, NEW ahead, NEW has, NEW amount, NEW gives, Taking(S, ahead, has, amount, gives),
         NEW T \in SUBSET S, \A x \in T : ahead[x] \subseteq T
  PROVE  /\ SumFunctionOnSet(has, T) \in Nat
         /\ SumFunctionOnSet(gives, T) = IF amount <= SumFunctionOnSet(has, T) THEN amount
                                         ELSE SumFunctionOnSet(has, T)
<1>0. /\ IsFiniteSet(S) /\ Ranked(S, ahead) /\ amount \in Nat
      /\ \A x \in S : has[x] \in Nat /\ gives[x] = Gives(has, ahead, amount, x)
  BY DEF Taking
<1> DEFINE All(s) == SumFunctionOnSet(has, s)
           Sum(s) == SumFunctionOnSet(gives, s)
           Upper(s) == \A x \in s : ahead[x] \subseteq s
           Exact(s) == Sum(s) = IF amount <= All(s) THEN amount ELSE All(s)
           P == {s \in SUBSET S : Upper(s) => Exact(s)}
<1>1. \A s \in SUBSET S : All(s) \in Nat /\ IsFiniteSet(s)
  BY <1>0, FS_Subset, SumNat
<1>2. \A x \in S : ahead[x] \in SUBSET S
  BY <1>0 DEF Ranked
<1>3. \A x \in S : LET left == IF amount <= All(ahead[x]) THEN 0 ELSE amount - All(ahead[x])
                   IN  gives[x] \in Nat /\ gives[x] = IF has[x] <= left THEN has[x] ELSE left
  <2> SUFFICES ASSUME NEW x \in S
               PROVE  LET left == IF amount <= All(ahead[x]) THEN 0 ELSE amount - All(ahead[x])
                      IN  gives[x] \in Nat /\ gives[x] = IF has[x] <= left THEN has[x] ELSE left
    OBVIOUS
  <2>1. gives[x] = Gives(has, ahead, amount, x) /\ All(ahead[x]) \in Nat /\ has[x] \in Nat
    BY <1>0, <1>1, <1>2
  <2> QED BY <1>0, <2>1 DEF Gives
<1>4. ASSUME NEW s \in SUBSET S, \A u \in SUBSET s : u # s => u \in P, Upper(s)
      PROVE  Exact(s)
  <2>1. CASE s = {}
    BY <1>0, <2>1, SumOfNone
  <2>2. CASE s # {}
    <3>1. Ranked(s, ahead)
      BY <1>0, <1>4 DEF Ranked
    <3>2. PICK m \in s : \A x \in s : x # m => x \in ahead[m]
      BY <1>1, <2>2, <3>1, LastPlace
    <3> DEFINE r == ahead[m]
    <3>3. r = s \ {m} /\ r \in SUBSET S
      BY <1>4, <3>1, <3>2 DEF Ranked
    <3>4. Upper(r)
      BY <3>1, <3>2 DEF Ranked
    <3>5. Exact(r)
      BY <1>4, <3>2, <3>3, <3>4
    <3>6. All(s) = has[m] + All(r) /\ Sum(s) = gives[m] + Sum(r)
      <4>1. \A x \in s : has[x] \in Int /\ gives[x] \in Int
        BY <1>0, <1>3
      <4>2. IsFiniteSet(s)
        BY <1>1
      <4> QED BY <3>2, <3>3, <4>1, <4>2, SumWithout
    <3>7. All(r) \in Nat /\ has[m] \in Nat
      BY <1>0, <1>1, <3>3
    <3>8. gives[m] = LET left == IF amount <= All(r) THEN 0 ELSE amount - All(r)
                     IN IF has[m] <= left THEN has[m] ELSE left
      BY <1>3, <3>2
    <3> HIDE DEF All, Sum, r
    <3> QED BY <1>0, <3>5, <3>6, <3>7, <3>8
  <2> QED BY <2>1, <2>2
<1>5. \A s \in SUBSET S : (\A u \in SUBSET s : u # s => u \in P) => s \in P
  BY <1>4
<1> HIDE DEF P
<1>6. \A s \in SUBSET S : s \in P
  BY <1>0, <1>5, SubsetInduction
<1> QED BY <1>1, <1>6 DEF P
=============================================================================
