-------------------------------- MODULE Sums --------------------------------
(***************************************************************************)
(* Facts about SumFunctionOnSet on finite sets, whatever the sets and the  *)
(* functions: what a sum becomes when one summand is added or changed.     *)
(* Induction is by a least counterexample.                                 *)
(***************************************************************************)
EXTENDS Integers, FiniteSets, Functions, FiniteSetTheorems, TLAPS

Pick(s) == CHOOSE x \in s : TRUE
\* The recursion that defines a sum.
Unrolled(f, g, s) == IF s = {} THEN 0 ELSE f[Pick(s)] + g[s \ {Pick(s)}]
Defines(g, f, S) == g = [s \in SUBSET S |-> Unrolled(f, g, s)]

IntOn(f, S) == \A x \in S : f[x] \in Int

----------------------------------------------------------------------------
(* Least counterexamples *)

\* A set of subsets of a finite set has a minimal element.
LEMMA MinimalSubset ==
  ASSUME NEW S, IsFiniteSet(S), NEW B \in SUBSET SUBSET S, B # {}
  PROVE  \E s \in B : \A t \in B : t \subseteq s => t = s
  <1>1. IsWellFoundedOn(StrictSubsetOrdering(S), SUBSET S)
    BY FS_StrictSubsetOrderingWellFounded, FS_FiniteSubsetsOfFinite
  <1>2. PICK s \in B : \A t \in B : <<t, s>> \notin StrictSubsetOrdering(S)
    BY <1>1, WFMin
  <1>3. \A t \in B : t \subseteq s => t = s
    BY <1>2 DEF StrictSubsetOrdering
  <1> QED BY <1>3

\* A set of naturals has a least element.
LEMMA LeastNatural ==
  ASSUME NEW T \in SUBSET Nat, T # {}
  PROVE  \E n \in T : \A m \in T : n <= m
  <1>1. PICK k \in T : TRUE OBVIOUS
  <1> DEFINE S == 0..k
             B == {0..m : m \in {i \in T : i <= k}}
  <1>2. IsFiniteSet(S) BY FS_Interval
  <1>3. B \in SUBSET SUBSET S BY <1>1
  <1>4. 0..k \in B BY <1>1
  <1> HIDE DEF B, S
  <1>b. B # {} BY <1>4
  <1>5. PICK s \in B : \A t \in B : t \subseteq s => t = s
    BY <1>2, <1>3, <1>b, MinimalSubset
  <1>6. PICK n \in T : n <= k /\ s = 0..n BY <1>5 DEF B
  <1>7. ASSUME NEW m \in T, m < n PROVE FALSE
    <2>1. 0..m \in B BY <1>1, <1>6, <1>7 DEF B
    <2>2. 0..m \subseteq 0..n BY <1>6, <1>7
    <2>3. n \in 0..n /\ n \notin 0..m BY <1>6, <1>7
    <2> QED BY <1>5, <1>6, <2>1, <2>2, <2>3
  <1> QED BY <1>6, <1>7

----------------------------------------------------------------------------
(* The recursion has a solution, and one only *)

LEMMA SumDefined ==
  ASSUME NEW S, IsFiniteSet(S), NEW f, IntOn(f, S)
  PROVE  \E g \in [SUBSET S -> Int] : Defines(g, f, S)
  <1> DEFINE Upto(n, g) == \A s \in SUBSET S : Cardinality(s) <= n => g[s] = Unrolled(f, g, s)
             Bad == {n \in Nat : ~ \E g \in [SUBSET S -> Int] : Upto(n, g)}
  <1>0. \A s \in SUBSET S : /\ IsFiniteSet(s) /\ Cardinality(s) \in Nat
                            /\ Cardinality(s) <= Cardinality(S)
                            /\ Cardinality(s) = 0 => s = {}
    BY FS_Subset, FS_CardinalityType, FS_EmptySet
  <1>1. \A s \in SUBSET S : s # {} =>
          /\ Pick(s) \in s /\ f[Pick(s)] \in Int
          /\ s \ {Pick(s)} \in SUBSET S
          /\ Cardinality(s \ {Pick(s)}) = Cardinality(s) - 1
    BY <1>0, FS_RemoveElement DEF Pick, IntOn
  <1>2. Bad = {}
    <2>1. SUFFICES ASSUME Bad # {} PROVE FALSE OBVIOUS
    <2>2. PICK n \in Bad : \A m \in Bad : n <= m BY <2>1, LeastNatural
    <2>3. CASE n = 0
      <3>1. [s \in SUBSET S |-> 0] \in [SUBSET S -> Int] OBVIOUS
      <3>2. Upto(0, [s \in SUBSET S |-> 0]) BY <1>0 DEF Unrolled
      <3> QED BY <2>2, <2>3, <3>1, <3>2
    <2>4. CASE n # 0
      <3>1. n - 1 \in Nat /\ n - 1 \notin Bad
        <4>1. n \in Nat BY <2>2
        <4> HIDE DEF Bad
        <4> QED BY <2>2, <2>4, <4>1
      <3>2. PICK g \in [SUBSET S -> Int] : Upto(n - 1, g) BY <3>1
      <3> DEFINE h == [s \in SUBSET S |->
                         IF Cardinality(s) = n THEN Unrolled(f, g, s) ELSE g[s]]
      <3>3. ASSUME NEW s \in SUBSET S PROVE Unrolled(f, g, s) \in Int
        <4>1. CASE s = {} BY <4>1 DEF Unrolled
        <4>2. CASE s # {}
          <5>1. f[Pick(s)] \in Int /\ g[s \ {Pick(s)}] \in Int BY <1>1, <4>2
          <5> QED BY <4>2, <5>1 DEF Unrolled
        <4> QED BY <4>1, <4>2
      <3>4. h \in [SUBSET S -> Int] BY <3>3
      <3>5. \A s \in SUBSET S : Cardinality(s) <= n => h[s] = Unrolled(f, g, s)
        BY <1>0, <2>2, <3>2
      <3>6. \A s \in SUBSET S : Cardinality(s) <= n => Unrolled(f, h, s) = Unrolled(f, g, s)
        BY <1>0, <1>1, <2>2 DEF Unrolled
      <3> HIDE DEF h
      <3>7. Upto(n, h) BY <3>5, <3>6
      <3> QED BY <2>2, <3>4, <3>7
    <2> QED BY <2>3, <2>4
  <1>3. PICK g \in [SUBSET S -> Int] : Upto(Cardinality(S), g)
    BY <1>0, <1>2
  <1>4. g = [s \in SUBSET S |-> Unrolled(f, g, s)] BY <1>0, <1>3
  <1> QED BY <1>4 DEF Defines

LEMMA SumUnique ==
  ASSUME NEW S, NEW T, NEW R, IsFiniteSet(R), R \subseteq S, R \subseteq T,
         NEW f, NEW e, \A x \in R : f[x] = e[x],
         NEW g, Defines(g, f, S), NEW h, Defines(h, e, T)
  PROVE  g[R] = h[R]
  <1> DEFINE Bad == {s \in SUBSET R : g[s] # h[s]}
  <1> SUFFICES ASSUME Bad # {} PROVE FALSE OBVIOUS
  <1> Bad \in SUBSET SUBSET R OBVIOUS
  <1>1. PICK s \in Bad : \A t \in Bad : t \subseteq s => t = s
    <2> HIDE DEF Bad
    <2> QED BY MinimalSubset
  <1>2. g[s] = Unrolled(f, g, s) /\ h[s] = Unrolled(e, h, s) BY <1>1 DEF Defines
  <1>3. s # {} BY <1>1, <1>2 DEF Unrolled
  <1>4. Pick(s) \in s BY <1>3 DEF Pick
  <1>5. s \ {Pick(s)} \notin Bad BY <1>1, <1>4
  <1>6. g[s \ {Pick(s)}] = h[s \ {Pick(s)}] BY <1>1, <1>5
  <1> QED BY <1>1, <1>2, <1>3, <1>4, <1>6 DEF Unrolled

----------------------------------------------------------------------------
(* Sums *)

LEMMA SumIsDefined ==
  ASSUME NEW S, IsFiniteSet(S), NEW f, IntOn(f, S)
  PROVE  \E g \in [SUBSET S -> Int] : Defines(g, f, S) /\ SumFunctionOnSet(f, S) = g[S]
  <1> DEFINE G == CHOOSE g : Defines(g, f, S)
  <1>1. SumFunctionOnSet(f, S) = G[S]
    BY DEF SumFunctionOnSet, FoldFunctionOnSet, MapThenFoldSet, Unrolled, Pick, Defines
  <1>2. PICK g \in [SUBSET S -> Int] : Defines(g, f, S) BY SumDefined
  <1>3. Defines(G, f, S) BY <1>2
  <1> HIDE DEF G
  <1>4. G[S] = g[S] BY <1>2, <1>3, SumUnique
  <1> QED BY <1>1, <1>2, <1>4

\* A sum is an integer, and depends on its summands only.
LEMMA SumType ==
  ASSUME NEW S, IsFiniteSet(S), NEW f, IntOn(f, S)
  PROVE  SumFunctionOnSet(f, S) \in Int
  <1>1. PICK g \in [SUBSET S -> Int] : SumFunctionOnSet(f, S) = g[S] BY SumIsDefined
  <1> QED BY <1>1

LEMMA SumSame ==
  ASSUME NEW S, IsFiniteSet(S), NEW f, IntOn(f, S), NEW e, \A x \in S : f[x] = e[x]
  PROVE  SumFunctionOnSet(f, S) = SumFunctionOnSet(e, S)
  <1>1. PICK g \in [SUBSET S -> Int] : Defines(g, f, S) /\ SumFunctionOnSet(f, S) = g[S]
    BY SumIsDefined
  <1>2. IntOn(e, S) BY DEF IntOn
  <1>3. PICK h \in [SUBSET S -> Int] : Defines(h, e, S) /\ SumFunctionOnSet(e, S) = h[S]
    BY <1>2, SumIsDefined
  <1>4. g[S] = h[S] BY <1>1, <1>3, SumUnique
  <1> QED BY <1>1, <1>3, <1>4

LEMMA SumEmpty ==
  ASSUME NEW f
  PROVE  SumFunctionOnSet(f, {}) = 0
  <1>1. IsFiniteSet({}) /\ IntOn(f, {}) BY FS_EmptySet DEF IntOn
  <1>2. PICK g \in [SUBSET {} -> Int] : Defines(g, f, {}) /\ SumFunctionOnSet(f, {}) = g[{}]
    BY <1>1, SumIsDefined
  <1> QED BY <1>2 DEF Defines, Unrolled

\* One summand may be taken out, whichever it is.
LEMMA SumRemove ==
  ASSUME NEW S, IsFiniteSet(S), NEW f, IntOn(f, S), NEW x \in S
  PROVE  SumFunctionOnSet(f, S) = f[x] + SumFunctionOnSet(f, S \ {x})
  <1>1. PICK g \in [SUBSET S -> Int] : Defines(g, f, S) /\ SumFunctionOnSet(f, S) = g[S]
    BY SumIsDefined
  <1>2. ASSUME NEW R \in SUBSET S
        PROVE  SumFunctionOnSet(f, R) = g[R]
    <2>1. IsFiniteSet(R) /\ IntOn(f, R) BY FS_Subset DEF IntOn
    <2>2. PICK h \in [SUBSET R -> Int] : Defines(h, f, R) /\ SumFunctionOnSet(f, R) = h[R]
      BY <2>1, SumIsDefined
    <2>3. h[R] = g[R] BY <1>1, <2>1, <2>2, SumUnique
    <2> QED BY <2>2, <2>3
  <1>3. ASSUME NEW s \in SUBSET S, s # {}
        PROVE  g[s] = f[Pick(s)] + g[s \ {Pick(s)}] /\ Pick(s) \in s
    BY <1>1, <1>3 DEF Defines, Unrolled, Pick
  <1> DEFINE Bad == {s \in SUBSET S : \E z \in s : g[s] # f[z] + g[s \ {z}]}
  <1>4. Bad = {}
    <2>1. SUFFICES ASSUME Bad # {} PROVE FALSE OBVIOUS
    <2>2. Bad \in SUBSET SUBSET S OBVIOUS
    <2>3. PICK s \in Bad : \A t \in Bad : t \subseteq s => t = s
      <3> HIDE DEF Bad
      <3> QED BY <2>1, <2>2, MinimalSubset
    <2>4. PICK z \in s : g[s] # f[z] + g[s \ {z}] BY <2>3
    <2> DEFINE y == Pick(s)
    <2>5. s \in SUBSET S /\ y \in s /\ g[s] = f[y] + g[s \ {y}] BY <1>3, <2>3, <2>4
    <2> HIDE DEF y
    <2>6. y # z BY <2>4, <2>5
    <2>7. s \ {y} \notin Bad /\ s \ {z} \notin Bad BY <2>3, <2>4, <2>5
    <2>8. g[s \ {y}] = f[z] + g[(s \ {y}) \ {z}] BY <2>4, <2>5, <2>6, <2>7
    <2>9. g[s \ {z}] = f[y] + g[(s \ {z}) \ {y}] BY <2>4, <2>5, <2>6, <2>7
    <2>10. (s \ {y}) \ {z} = (s \ {z}) \ {y} OBVIOUS
    <2>11. f[z] \in Int /\ f[y] \in Int /\ g[(s \ {z}) \ {y}] \in Int
      BY <1>1, <2>4, <2>5 DEF IntOn
    <2>12. g[s \ {y}] = f[z] + g[(s \ {z}) \ {y}] BY <2>8, <2>10
    <2> QED BY <2>4, <2>5, <2>9, <2>11, <2>12
  <1>5. S \notin Bad BY <1>4
  <1>6. g[S] = f[x] + g[S \ {x}] BY <1>5
  <1> QED BY <1>1, <1>2, <1>6

\* What becomes of a sum when one summand changes.
LEMMA SumUpdate ==
  ASSUME NEW S, IsFiniteSet(S), NEW f, IntOn(f, S), NEW e, IntOn(e, S), NEW x \in S,
         \A y \in S \ {x} : e[y] = f[y]
  PROVE  SumFunctionOnSet(e, S) = SumFunctionOnSet(f, S) + e[x] - f[x]
  <1>1. IsFiniteSet(S \ {x}) /\ IntOn(f, S \ {x}) BY FS_Subset DEF IntOn
  <1>2. SumFunctionOnSet(f, S \ {x}) = SumFunctionOnSet(e, S \ {x}) BY <1>1, SumSame
  <1>3. /\ SumFunctionOnSet(f, S) = f[x] + SumFunctionOnSet(f, S \ {x})
        /\ SumFunctionOnSet(e, S) = e[x] + SumFunctionOnSet(e, S \ {x})
    BY SumRemove
  <1>4. SumFunctionOnSet(f, S \ {x}) \in Int BY <1>1, SumType
  <1>5. f[x] \in Int /\ e[x] \in Int BY DEF IntOn
  <1> QED BY <1>2, <1>3, <1>4, <1>5

\* A sum is monotonic in its summands.
LEMMA SumMonotonic ==
  ASSUME NEW S, IsFiniteSet(S), NEW f, IntOn(f, S), NEW e, IntOn(e, S),
         \A x \in S : f[x] <= e[x]
  PROVE  SumFunctionOnSet(f, S) <= SumFunctionOnSet(e, S)
  <1> DEFINE F(R) == SumFunctionOnSet(f, R)
             E(R) == SumFunctionOnSet(e, R)
             Bad == {R \in SUBSET S : ~(F(R) <= E(R))}
  <1>1. ASSUME NEW R \in SUBSET S
        PROVE  IsFiniteSet(R) /\ IntOn(f, R) /\ IntOn(e, R) /\ F(R) \in Int /\ E(R) \in Int
    <2>1. IsFiniteSet(R) /\ IntOn(f, R) /\ IntOn(e, R) BY FS_Subset DEF IntOn
    <2> QED BY <2>1, SumType
  <1>2. SUFFICES ASSUME Bad # {} PROVE FALSE
    OBVIOUS
  <1>3. Bad \in SUBSET SUBSET S OBVIOUS
  <1>4. PICK R \in Bad : \A T \in Bad : T \subseteq R => T = R
    <2> HIDE DEF Bad
    <2> QED BY <1>2, <1>3, MinimalSubset
  <1>5. R # {}
    <2>1. F({}) = 0 /\ E({}) = 0 BY SumEmpty
    <2> QED BY <1>4, <2>1
  <1>6. PICK x \in R : TRUE BY <1>5
  <1>7. R \in SUBSET S /\ ~(F(R) <= E(R)) BY <1>4
  <1>8. F(R) = f[x] + F(R \ {x}) /\ E(R) = e[x] + E(R \ {x}) BY <1>1, <1>7, SumRemove
  <1>9. R \ {x} \in SUBSET S /\ R \ {x} \notin Bad BY <1>4, <1>6, <1>7
  <1>10. F(R \ {x}) <= E(R \ {x}) BY <1>9
  <1>11. F(R \ {x}) \in Int /\ E(R \ {x}) \in Int BY <1>1, <1>9
  <1>12. f[x] \in Int /\ e[x] \in Int /\ f[x] <= e[x] BY <1>6, <1>7 DEF IntOn
  <1> HIDE DEF F, E
  <1> QED BY <1>7, <1>8, <1>10, <1>11, <1>12

\* A sum of naturals is a natural, and no smaller than any of its summands.
LEMMA SumNat ==
  ASSUME NEW S, IsFiniteSet(S), NEW f, \A x \in S : f[x] \in Nat
  PROVE  /\ SumFunctionOnSet(f, S) \in Nat
         /\ \A x \in S : f[x] <= SumFunctionOnSet(f, S)
  <1> DEFINE zero == [x \in S |-> 0]
  <1>0. IntOn(f, S) /\ IntOn(zero, S) BY DEF IntOn
  <1>1. ASSUME NEW R \in SUBSET S PROVE SumFunctionOnSet(f, R) \in Nat
    <2>1. IsFiniteSet(R) /\ IntOn(f, R) BY <1>0, FS_Subset DEF IntOn
    <2> DEFINE Bad == {T \in SUBSET R : SumFunctionOnSet(f, T) \notin Nat}
    <2>2. Bad = {}
      <3>1. SUFFICES ASSUME Bad # {} PROVE FALSE OBVIOUS
      <3>2. Bad \in SUBSET SUBSET R OBVIOUS
      <3>3. PICK T \in Bad : \A U \in Bad : U \subseteq T => U = T
        <4> HIDE DEF Bad
        <4> QED BY <2>1, <3>1, <3>2, MinimalSubset
      <3>a. SumFunctionOnSet(f, {}) = 0 BY SumEmpty
      <3>4. T # {} BY <3>3, <3>a
      <3>5. PICK x \in T : TRUE BY <3>4
      <3>6. T \in SUBSET R /\ IsFiniteSet(T) /\ IntOn(f, T)
        BY <2>1, <3>3, FS_Subset DEF IntOn
      <3>7. SumFunctionOnSet(f, T) = f[x] + SumFunctionOnSet(f, T \ {x})
        BY <3>6, SumRemove
      <3>8. SumFunctionOnSet(f, T \ {x}) \in Nat BY <3>3, <3>5, <3>6
      <3> QED BY <3>3, <3>5, <3>6, <3>7, <3>8
    <2> QED BY <2>2
  <1>2. ASSUME NEW x \in S PROVE f[x] <= SumFunctionOnSet(f, S)
    <2>1. SumFunctionOnSet(f, S) = f[x] + SumFunctionOnSet(f, S \ {x})
      BY <1>0, SumRemove
    <2>2. SumFunctionOnSet(f, S \ {x}) \in Nat BY <1>1
    <2> QED BY <2>1, <2>2
  <1> QED BY <1>1, <1>2

\* Summands that are zero may be left out.
LEMMA SumRestrict ==
  ASSUME NEW S, IsFiniteSet(S), NEW f, IntOn(f, S), NEW T \in SUBSET S,
         \A x \in S \ T : f[x] = 0
  PROVE  SumFunctionOnSet(f, S) = SumFunctionOnSet(f, T)
  <1> DEFINE F(R) == SumFunctionOnSet(f, R)
             Bad == {R \in SUBSET S : T \subseteq R /\ F(R) # F(T)}
  <1>1. SUFFICES ASSUME Bad # {} PROVE FALSE
    OBVIOUS
  <1>2. Bad \in SUBSET SUBSET S OBVIOUS
  <1>3. PICK R \in Bad : \A U \in Bad : U \subseteq R => U = R
    <2> HIDE DEF Bad
    <2> QED BY <1>1, <1>2, MinimalSubset
  <1>4. R \in SUBSET S /\ T \subseteq R /\ F(R) # F(T) BY <1>3
  <1>5. PICK x \in R \ T : TRUE BY <1>4
  <1>6. IsFiniteSet(R) /\ IntOn(f, R) /\ IsFiniteSet(R \ {x}) /\ IntOn(f, R \ {x})
    BY <1>4, FS_Subset DEF IntOn
  <1>7. F(R) = f[x] + F(R \ {x}) BY <1>5, <1>6, SumRemove
  <1>8. R \ {x} \in SUBSET S /\ T \subseteq R \ {x} /\ R \ {x} \notin Bad
    BY <1>3, <1>4, <1>5
  <1>9. F(R \ {x}) = F(T) BY <1>8
  <1>10. F(R \ {x}) \in Int BY <1>6, SumType
  <1>11. f[x] = 0 BY <1>4, <1>5
  <1> HIDE DEF F
  <1> QED BY <1>4, <1>7, <1>9, <1>10, <1>11
=============================================================================
