------------------------------- MODULE SumProofs -------------------------------
(***************************************************************************)
(* Sums of naturals over a finite set, as the models write them with the   *)
(* folds of the community modules: a sum counts units, f[x] of them for    *)
(* every x, and so it does not depend on the order of the fold.            *)
(***************************************************************************)
EXTENDS FiniteSetsExt, FiniteSetTheorems, TLAPS

Units(f, S) == UNION {{x} \X (1 .. f[x]) : x \in S}

Sum(f, S) == SumFunctionOnSet(f, S)

\* The units are finitely many.
LEMMA UnitsFinite ==
  ASSUME NEW S, IsFiniteSet(S), NEW f, \A x \in S : f[x] \in Nat
  PROVE  IsFiniteSet(Units(f, S)) /\ Cardinality(Units(f, S)) \in Nat
<1>1. ASSUME NEW x \in S PROVE IsFiniteSet({x} \X (1 .. f[x]))
  <2>1. IsFiniteSet({x})
    BY FS_Singleton
  <2>2. IsFiniteSet(1 .. f[x])
    BY FS_Interval
  <2> QED BY <2>1, <2>2, FS_Product
<1> DEFINE Part(x) == {x} \X (1 .. f[x])
           Parts == {Part(x) : x \in S}
<1>2. IsFiniteSet(Parts)
  <2>1. [x \in S |-> Part(x)] \in Surjection(S, Parts)
    BY DEF Surjection
  <2> QED BY <2>1, FS_Surjection
<1>3. IsFiniteSet(UNION Parts)
  BY <1>1, <1>2, FS_UNION
<1> QED BY <1>3, FS_CardinalityType DEF Units

\* One element more has its own units.
LEMMA UnitsAdd ==
  ASSUME NEW S, IsFiniteSet(S), NEW x, x \notin S, NEW f,
         \A y \in S \cup {x} : f[y] \in Nat
  PROVE  Cardinality(Units(f, S \cup {x})) = f[x] + Cardinality(Units(f, S))
<1> DEFINE Own == {x} \X (1 .. f[x])
<1>1. Units(f, S \cup {x}) = Units(f, S) \cup Own
  BY DEF Units
<1>2. Units(f, S) \cap Own = {}
  BY DEF Units
<1>3. IsFiniteSet(Own) /\ Cardinality(Own) = f[x]
  <2>1. IsFiniteSet({x}) /\ Cardinality({x}) = 1
    BY FS_Singleton
  <2>2. IsFiniteSet(1 .. f[x]) /\ Cardinality(1 .. f[x]) = f[x]
    BY FS_Interval
  <2> QED BY <2>1, <2>2, FS_Product
<1>4. IsFiniteSet(Units(f, S)) /\ Cardinality(Units(f, S)) \in Nat
  BY UnitsFinite
<1>5. Cardinality(Units(f, S) \cup Own)
        = Cardinality(Units(f, S)) + Cardinality(Own) - Cardinality(Units(f, S) \cap Own)
  BY <1>3, <1>4, FS_Union
<1>6. Cardinality(Units(f, S) \cap Own) = 0
  BY <1>2, FS_EmptySet
<1>7. f[x] \in Nat
  OBVIOUS
<1> HIDE DEF Own
<1> DEFINE n == Cardinality(Units(f, S))
<1>8. Cardinality(Units(f, S) \cup Own) = n + f[x] - 0
  BY <1>3, <1>5, <1>6
<1>9. n + f[x] - 0 = f[x] + n
  <2> HIDE DEF n
  <2>1. n \in Nat
    BY <1>4 DEF n
  <2> QED BY <2>1, <1>7
<1> QED BY <1>1, <1>8, <1>9

LEMMA SumUnits ==
  ASSUME NEW S, IsFiniteSet(S), NEW f, \A x \in S : f[x] \in Nat
  PROVE  Sum(f, S) = Cardinality(Units(f, S))
<1> DEFINE Fold(g) == g = [s \in SUBSET S |->
                              IF s = {} THEN 0
                              ELSE f[CHOOSE x \in s : TRUE] + g[s \ {CHOOSE x \in s : TRUE}]]
           count == [s \in SUBSET S |-> Cardinality(Units(f, s))]
<1>1. Fold(count)
  <2> SUFFICES ASSUME NEW s \in SUBSET S
               PROVE  Cardinality(Units(f, s))
                        = IF s = {} THEN 0
                          ELSE f[CHOOSE x \in s : TRUE]
                                 + Cardinality(Units(f, s \ {CHOOSE x \in s : TRUE}))
    OBVIOUS
  <2>1. CASE s = {}
    BY <2>1, FS_EmptySet DEF Units
  <2>2. CASE s # {}
    <3> DEFINE x == CHOOSE x \in s : TRUE
               t == s \ {x}
    <3>1. x \in s
      BY <2>2
    <3>2. IsFiniteSet(t) /\ s = t \cup {x} /\ x \notin t
      BY <3>1, FS_Subset
    <3>3. \A y \in t \cup {x} : f[y] \in Nat
      BY <3>2
    <3> HIDE DEF x, t
    <3>4. Cardinality(Units(f, t \cup {x})) = f[x] + Cardinality(Units(f, t))
      BY <3>2, <3>3, UnitsAdd
    <3> QED BY <2>2, <3>2, <3>4 DEF x, t
  <2> QED BY <2>1, <2>2
<1>2. ASSUME NEW g, Fold(g) PROVE g[S] = count[S]
  <2> DEFINE Wrong == {s \in SUBSET S : g[s] # count[s]}
  <2>1. ASSUME NEW s \in Wrong PROVE \E t \in Wrong : <<t, s>> \in StrictSubsetOrdering(S)
    <3> DEFINE x == CHOOSE x \in s : TRUE
               t == s \ {x}
    <3>1. s # {}
      BY <1>1, <1>2, <2>1
    <3>2. x \in s /\ t \in SUBSET S
      BY <3>1
    <3>3. g[s] = f[x] + g[t] /\ count[s] = f[x] + count[t]
      BY <1>1, <1>2, <3>1
    <3>4. t \in Wrong
      BY <3>2, <3>3, <2>1
    <3>5. <<t, s>> \in StrictSubsetOrdering(S)
      BY <3>2 DEF StrictSubsetOrdering
    <3> QED BY <3>4, <3>5
  <2>2. IsWellFoundedOn(StrictSubsetOrdering(S), SUBSET S)
    BY FS_StrictSubsetOrderingWellFounded, FS_FiniteSubsetsOfFinite
  <2>3. Wrong = {}
    <3> SUFFICES ASSUME Wrong # {} PROVE FALSE
      OBVIOUS
    <3>1. \E s \in Wrong : \A t \in Wrong : ~(<<t, s>> \in StrictSubsetOrdering(S))
      <4>1. Wrong \subseteq SUBSET S
        OBVIOUS
      <4> HIDE DEF Wrong
      <4> QED BY <2>2, <4>1, WFMin
    <3> QED BY <2>1, <3>1
  <2> QED BY <2>3
<1>3. Sum(f, S) = (CHOOSE g : Fold(g))[S]
  BY DEF Sum, SumFunctionOnSet, FoldFunctionOnSet, MapThenFoldSet
<1> HIDE DEF Fold
<1>4. Fold(CHOOSE g : Fold(g))
  BY <1>1
<1> QED BY <1>2, <1>3, <1>4

-----------------------------------------------------------------------------
(* What the proofs about the models use. *)

LEMMA SumOfFunction ==
  ASSUME NEW f
  PROVE  SumFunction(f) = Sum(f, DOMAIN f)
BY DEF Sum, SumFunction, SumFunctionOnSet, FoldFunction, FoldFunctionOnSet, MapThenFoldSet

LEMMA SumType ==
  ASSUME NEW S, IsFiniteSet(S), NEW f, \A x \in S : f[x] \in Nat
  PROVE  Sum(f, S) \in Nat
BY SumUnits, UnitsFinite

LEMMA SumEmpty ==
  ASSUME NEW f
  PROVE  Sum(f, {}) = 0
<1>1. Units(f, {}) = {}
  BY DEF Units
<1> QED BY <1>1, SumUnits, FS_EmptySet

LEMMA SumAdd ==
  ASSUME NEW S, IsFiniteSet(S), NEW x, x \notin S, NEW f,
         \A y \in S \cup {x} : f[y] \in Nat
  PROVE  Sum(f, S \cup {x}) = f[x] + Sum(f, S)
<1>1. IsFiniteSet(S \cup {x})
  BY FS_AddElement
<1>2. Sum(f, S \cup {x}) = Cardinality(Units(f, S \cup {x})) /\ Sum(f, S) = Cardinality(Units(f, S))
  BY <1>1, SumUnits
<1>3. Cardinality(Units(f, S \cup {x})) = f[x] + Cardinality(Units(f, S))
  BY UnitsAdd
<1> QED BY <1>2, <1>3

LEMMA SumRemove ==
  ASSUME NEW S, IsFiniteSet(S), NEW x \in S, NEW f, \A y \in S : f[y] \in Nat
  PROVE  Sum(f, S) = f[x] + Sum(f, S \ {x})
<1> DEFINE T == S \ {x}
<1>1. IsFiniteSet(T) /\ x \notin T /\ T \cup {x} = S
  BY FS_Subset
<1>2. \A y \in T \cup {x} : f[y] \in Nat
  BY <1>1
<1>3. Sum(f, T \cup {x}) = f[x] + Sum(f, T)
  <2> HIDE DEF T
  <2> QED BY <1>1, <1>2, SumAdd
<1> QED BY <1>1, <1>3

\* The sum only looks at the summands.
LEMMA SumSame ==
  ASSUME NEW S, IsFiniteSet(S), NEW f, NEW g,
         \A x \in S : f[x] \in Nat /\ g[x] = f[x]
  PROVE  Sum(g, S) = Sum(f, S)
<1>1. Units(g, S) = Units(f, S)
  BY DEF Units
<1> QED BY <1>1, SumUnits

\* No summand is negative, so fewer of them add up to no more.
LEMMA SumSubset ==
  ASSUME NEW S, IsFiniteSet(S), NEW T \in SUBSET S, NEW f, \A x \in S : f[x] \in Nat
  PROVE  Sum(f, T) <= Sum(f, S)
<1>1. IsFiniteSet(T)
  BY FS_Subset
<1>2. Units(f, T) \subseteq Units(f, S)
  BY DEF Units
<1>3. Cardinality(Units(f, T)) <= Cardinality(Units(f, S))
  BY <1>2, UnitsFinite, FS_Subset
<1> QED BY <1>1, <1>3, SumUnits

\* Zeros do not count.
LEMMA SumZeros ==
  ASSUME NEW S, IsFiniteSet(S), NEW T \in SUBSET S, NEW f,
         \A x \in S : f[x] \in Nat, \A x \in S \ T : f[x] = 0
  PROVE  Sum(f, T) = Sum(f, S)
<1>1. IsFiniteSet(T)
  BY FS_Subset
<1>2. \A x \in S \ T : 1 .. f[x] = {}
  OBVIOUS
<1>3. Units(f, T) = Units(f, S)
  BY <1>2 DEF Units
<1> QED BY <1>1, <1>3, SumUnits

\* Smaller summands, smaller sum.
LEMMA SumMonotone ==
  ASSUME NEW S, IsFiniteSet(S), NEW f, NEW g,
         \A x \in S : f[x] \in Nat /\ g[x] \in Nat /\ f[x] <= g[x]
  PROVE  Sum(f, S) <= Sum(g, S)
<1>1. Units(f, S) \subseteq Units(g, S)
  BY DEF Units
<1>2. Cardinality(Units(f, S)) <= Cardinality(Units(g, S))
  BY <1>1, UnitsFinite, FS_Subset
<1> QED BY <1>2, SumUnits

\* One summand changes.
LEMMA SumChange ==
  ASSUME NEW S, IsFiniteSet(S), NEW x \in S, NEW f, NEW g,
         \A y \in S : f[y] \in Nat /\ g[y] \in Nat,
         \A y \in S \ {x} : g[y] = f[y]
  PROVE  Sum(g, S) = Sum(f, S) - f[x] + g[x]
<1> DEFINE T == S \ {x}
<1>1. IsFiniteSet(T)
  BY FS_Subset
<1>2. Sum(f, S) = f[x] + Sum(f, T) /\ Sum(g, S) = g[x] + Sum(g, T)
  BY SumRemove
<1>3. Sum(g, T) = Sum(f, T) /\ Sum(f, T) \in Nat
  <2>1. \A y \in T : f[y] \in Nat /\ g[y] = f[y]
    OBVIOUS
  <2> HIDE DEF T
  <2> QED BY <1>1, <2>1, SumSame, SumType
<1> HIDE DEF T
<1>4. f[x] \in Nat /\ g[x] \in Nat
  OBVIOUS
<1> QED BY <1>2, <1>3, <1>4

\* n summands of at most m.
LEMMA SumBounded ==
  ASSUME NEW S, IsFiniteSet(S), NEW m \in Nat, NEW f,
         \A x \in S : f[x] \in Nat /\ f[x] <= m
  PROVE  Sum(f, S) <= Cardinality(S) * m
<1>1. Units(f, S) \subseteq S \X (1 .. m)
  BY DEF Units
<1>2. IsFiniteSet(1 .. m) /\ Cardinality(1 .. m) = m
  BY FS_Interval
<1>3. IsFiniteSet(S \X (1 .. m)) /\ Cardinality(S \X (1 .. m)) = Cardinality(S) * m
  BY <1>2, FS_Product
<1>4. Cardinality(Units(f, S)) <= Cardinality(S \X (1 .. m))
  BY <1>1, <1>3, FS_Subset
<1> QED BY <1>3, <1>4, SumUnits

\* Sums add up pointwise: in a least subset where they did not, take out what
\* CHOOSE takes out.
LEMMA SumPlus ==
  ASSUME NEW S, IsFiniteSet(S), NEW f, NEW g, NEW h,
         \A x \in S : f[x] \in Nat /\ g[x] \in Nat /\ h[x] = f[x] + g[x]
  PROVE  Sum(h, S) = Sum(f, S) + Sum(g, S)
<1> DEFINE Wrong == {s \in SUBSET S : Sum(h, s) # Sum(f, s) + Sum(g, s)}
<1>1. ASSUME NEW s \in Wrong PROVE \E t \in Wrong : <<t, s>> \in StrictSubsetOrdering(S)
  <2>1. s # {}
    <3>1. Sum(f, {}) = 0 /\ Sum(g, {}) = 0 /\ Sum(h, {}) = 0
      BY SumEmpty
    <3>2. Sum(h, {}) = Sum(f, {}) + Sum(g, {})
      BY <3>1
    <3> QED BY <3>2
  <2> PICK x \in s : TRUE
    BY <2>1
  <2> DEFINE t == s \ {x}
  <2>2. IsFiniteSet(s) /\ IsFiniteSet(t) /\ t \in SUBSET S
    BY FS_Subset
  <2>3. \A y \in s : f[y] \in Nat /\ g[y] \in Nat /\ h[y] \in Nat
    OBVIOUS
  <2>4. /\ Sum(f, s) = f[x] + Sum(f, t)
        /\ Sum(g, s) = g[x] + Sum(g, t)
        /\ Sum(h, s) = h[x] + Sum(h, t)
    BY <2>2, <2>3, SumRemove
  <2>5. Sum(f, t) \in Nat /\ Sum(g, t) \in Nat /\ Sum(h, t) \in Nat
    BY <2>2, <2>3, SumType
  <2>6. f[x] \in Nat /\ g[x] \in Nat /\ h[x] = f[x] + g[x]
    OBVIOUS
  <2>7. Sum(h, s) # Sum(f, s) + Sum(g, s)
    OBVIOUS
  <2>8. Sum(h, t) # Sum(f, t) + Sum(g, t)
    <3> HIDE DEF t
    <3> QED BY <2>4, <2>5, <2>6, <2>7
  <2> QED BY <2>2, <2>8 DEF StrictSubsetOrdering
<1>2. IsWellFoundedOn(StrictSubsetOrdering(S), SUBSET S)
  BY FS_StrictSubsetOrderingWellFounded, FS_FiniteSubsetsOfFinite
<1>3. Wrong = {}
  <2> SUFFICES ASSUME Wrong # {} PROVE FALSE
    OBVIOUS
  <2>1. \E s \in Wrong : \A t \in Wrong : ~(<<t, s>> \in StrictSubsetOrdering(S))
    <3>1. Wrong \subseteq SUBSET S
      OBVIOUS
    <3> HIDE DEF Wrong
    <3> QED BY <1>2, <3>1, WFMin
  <2> QED BY <1>1, <2>1
<1> QED BY <1>3
=============================================================================
