------------------------------ MODULE SumTheorems ------------------------------
(***************************************************************************)
(* What SumFunctionOnSet of the community modules computes: it takes one   *)
(* member of the set after another.  The library defines it by a recursive *)
(* function on the subsets; that there is one is shown here by cardinality,*)
(* and every induction is the choice of a least counterexample.            *)
(***************************************************************************)
EXTENDS Integers, FiniteSetsExt, FiniteSetTheorems, WellFoundedInduction, TLAPS

\* A set of naturals that is not empty has a least element.
LEMMA LeastNat == ASSUME NEW T, T \subseteq Nat, T # {} PROVE \E n \in T : \A m \in T : n <= m
<1>1. PICK n \in T : \A m \in T : ~ (<<m, n>> \in OpToRel(<, Nat))
  BY WFMin, NatLessThanWellFounded
<1>2. \A m \in T : ~ (m < n)
  BY <1>1 DEF OpToRel
<1> QED
  BY <1>2

\* A set of finite sets that is not empty has one of least cardinality.
LEMMA LeastSet ==
    ASSUME NEW T, T # {}, \A s \in T : IsFiniteSet(s)
    PROVE  \E s \in T : \A t \in T : Cardinality(s) <= Cardinality(t)
<1>1. {Cardinality(s) : s \in T} \subseteq Nat
  BY FS_CardinalityType
<1>2. PICK n \in {Cardinality(s) : s \in T} : \A m \in {Cardinality(s) : s \in T} : n <= m
  BY <1>1, LeastNat
<1> QED
  BY <1>2

\* The member the library takes first.
Picked(s) == CHOOSE x \in s : TRUE

\* g[s] is the sum of F over s, for every part s of D.
Sums(F, g, D) ==
    \A s \in SUBSET D : g[s] = IF s = {} THEN 0 ELSE F[Picked(s)] + g[s \ {Picked(s)}]

\* A set without one of its members has one member less.
LEMMA Smaller ==
    ASSUME NEW s, IsFiniteSet(s), s # {}, NEW x \in s
    PROVE  /\ Picked(s) \in s /\ IsFiniteSet(s \ {x})
           /\ Cardinality(s \ {x}) \in Nat /\ Cardinality(s) = Cardinality(s \ {x}) + 1
<1>1. Picked(s) \in s
  BY Zenon DEF Picked
<1>2. IsFiniteSet(s \ {x}) /\ Cardinality(s \ {x}) = Cardinality(s) - 1
  BY FS_RemoveElement
<1> QED
  BY <1>1, <1>2, FS_CardinalityType

\* Without a member the least set of T is no longer in T.
LEMMA PickedSmaller ==
    ASSUME NEW T, NEW s \in T, \A t \in T : Cardinality(s) <= Cardinality(t),
           IsFiniteSet(s), s # {}
    PROVE  Picked(s) \in s /\ s \ {Picked(s)} \notin T
<1>1. Picked(s) \in s
  BY Zenon DEF Picked
<1>2. /\ Cardinality(s \ {Picked(s)}) \in Nat
      /\ Cardinality(s) = Cardinality(s \ {Picked(s)}) + 1
  BY <1>1, Smaller
<1>3. ~(Cardinality(s) <= Cardinality(s \ {Picked(s)}))
  BY <1>2
<1> QED
  BY <1>1, <1>3

\* Two such functions agree where both are defined.
LEMMA SumsUnique ==
    ASSUME NEW F, NEW S, NEW U, U \subseteq S, IsFiniteSet(U),
           NEW g, Sums(F, g, S), NEW h, Sums(F, h, U)
    PROVE  g[U] = h[U]
<1> DEFINE Bad == {s \in SUBSET U : g[s] # h[s]}
<1>1. SUFFICES ASSUME Bad # {} PROVE FALSE
  OBVIOUS
<1>2. \A s \in Bad : IsFiniteSet(s)
  BY FS_Subset
<1>3. PICK s \in Bad : \A t \in Bad : Cardinality(s) <= Cardinality(t)
  BY <1>1, <1>2, LeastSet
<1>4. s \in SUBSET S /\ s \in SUBSET U
  OBVIOUS
<1>5. s # {}
  BY <1>4 DEF Sums
<1>6. Picked(s) \in s /\ s \ {Picked(s)} \notin Bad
  BY <1>2, <1>3, <1>5, PickedSmaller
<1>7. g[s \ {Picked(s)}] = h[s \ {Picked(s)}]
  BY <1>6
<1> QED
  BY <1>4, <1>5, <1>7 DEF Sums

\* There is one, built up from the sets of cardinality n to those of n + 1.
Upto(S, n) == {s \in SUBSET S : Cardinality(s) <= n}

\* The equation by which the library defines its function.
Solves(F, S, g) ==
    g = [s \in SUBSET S |-> IF s = {} THEN 0 ELSE F[Picked(s)] + g[s \ {Picked(s)}]]

LEMMA SumsExist ==
    ASSUME NEW F, NEW S, IsFiniteSet(S)
    PROVE  \E g : Solves(F, S, g)
<1> DEFINE Good(n) ==
             \E g : g = [s \in Upto(S, n) |->
                            IF s = {} THEN 0 ELSE F[Picked(s)] + g[s \ {Picked(s)}]]
           Bad == {n \in Nat : ~Good(n)}
<1>1. Good(0)
  <2>1. \A s \in Upto(S, 0) : s = {}
    BY FS_Subset, FS_EmptySet, FS_CardinalityType DEF Upto
  <2> WITNESS [s \in Upto(S, 0) |-> 0]
  <2> QED
    BY <2>1
<1>2. ASSUME NEW n \in Nat, Good(n) PROVE Good(n + 1)
  <2>1. PICK g : g = [s \in Upto(S, n) |->
                        IF s = {} THEN 0 ELSE F[Picked(s)] + g[s \ {Picked(s)}]]
    BY <1>2
  <2> DEFINE h == [s \in Upto(S, n + 1) |->
                     IF s = {} THEN 0 ELSE F[Picked(s)] + g[s \ {Picked(s)}]]
  <2>2. ASSUME NEW s \in Upto(S, n + 1), s # {}
        PROVE  s \ {Picked(s)} \in Upto(S, n) /\ s \ {Picked(s)} \in Upto(S, n + 1)
    <3>1. IsFiniteSet(s)
      BY FS_Subset DEF Upto
    <3>2. /\ Picked(s) \in s /\ Cardinality(s \ {Picked(s)}) \in Nat
          /\ Cardinality(s) = Cardinality(s \ {Picked(s)}) + 1
      BY <2>2, <3>1, Smaller
    <3> QED
      BY <3>2 DEF Upto
  <2>3. \A s \in Upto(S, n) : s \in Upto(S, n + 1)
    BY FS_Subset, FS_CardinalityType DEF Upto
  <2>4. \A s \in Upto(S, n) : g[s] = h[s]
    BY <2>1, <2>3
  <2>5. h = [s \in Upto(S, n + 1) |-> IF s = {} THEN 0 ELSE F[Picked(s)] + h[s \ {Picked(s)}]]
    BY <2>2, <2>4
  <2> QED
    BY <2>5
<1>3. Bad = {}
  <2> SUFFICES ASSUME Bad # {} PROVE FALSE
    OBVIOUS
  <2>1. PICK n \in Bad : \A m \in Bad : n <= m
    BY LeastNat
  <2> HIDE DEF Good
  <2>2. n \in Nat /\ n # 0
    BY <1>1
  <2>3. n - 1 \in Nat /\ n - 1 \notin Bad
    BY <2>1, <2>2
  <2>4. Good((n - 1) + 1)
    BY <1>2, <2>3
  <2>5. (n - 1) + 1 = n
    BY <2>2
  <2> QED
    BY <2>4, <2>5
<1>4. Upto(S, Cardinality(S)) = SUBSET S
  BY FS_Subset DEF Upto
<1>5. Good(Cardinality(S))
  BY <1>3, FS_CardinalityType
<1> QED
  BY <1>4, <1>5 DEF Solves

\* The sum of the library is the value of such a function.
LEMMA SumUnfold ==
    ASSUME NEW F, NEW S, IsFiniteSet(S)
    PROVE  \E g : Sums(F, g, S) /\ SumFunctionOnSet(F, S) = g[S]
<1> DEFINE it == CHOOSE g : Solves(F, S, g)
<1>1. SumFunctionOnSet(F, S) = it[S]
  BY DEF SumFunctionOnSet, FoldFunctionOnSet, MapThenFoldSet, Picked, Solves
<1>2. Solves(F, S, it)
  BY SumsExist, Zenon
<1>3. Sums(F, it, S)
  <2> HIDE DEF it
  <2> QED
    BY <1>2 DEF Sums, Solves
<1> HIDE DEF it
<1> QED
  BY <1>1, <1>3

\* The sum over no members.
LEMMA SumEmpty == ASSUME NEW F PROVE SumFunctionOnSet(F, {}) = 0
  BY SumUnfold, FS_EmptySet DEF Sums

\* The sum over a part is the same function's value.
LEMMA SumPart ==
    ASSUME NEW F, NEW S, NEW R, R \subseteq S, IsFiniteSet(R), NEW g, Sums(F, g, S)
    PROVE  SumFunctionOnSet(F, R) = g[R]
<1>1. PICK h : Sums(F, h, R) /\ SumFunctionOnSet(F, R) = h[R]
  BY SumUnfold
<1>2. g[R] = h[R]
  BY <1>1, SumsUnique
<1> QED
  BY <1>1, <1>2

\* A sum is the value of the member picked and the sum over the others.
LEMMA SumPicked ==
    ASSUME NEW F, NEW S, IsFiniteSet(S), S # {}
    PROVE  SumFunctionOnSet(F, S) = F[Picked(S)] + SumFunctionOnSet(F, S \ {Picked(S)})
<1>1. Picked(S) \in S /\ IsFiniteSet(S \ {Picked(S)})
  BY Smaller
<1>2. PICK g : Sums(F, g, S) /\ SumFunctionOnSet(F, S) = g[S]
  BY SumUnfold
<1>3. SumFunctionOnSet(F, S \ {Picked(S)}) = g[S \ {Picked(S)}]
  <2>1. S \ {Picked(S)} \subseteq S
    OBVIOUS
  <2> QED
    BY <1>1, <1>2, <2>1, SumPart
<1> QED
  BY <1>2, <1>3 DEF Sums

\* The sum of a function of integers is an integer.
LEMMA SumType ==
    ASSUME NEW F, NEW S, IsFiniteSet(S), \A x \in S : F[x] \in Int
    PROVE  SumFunctionOnSet(F, S) \in Int
<1> DEFINE Bad == {s \in SUBSET S : SumFunctionOnSet(F, s) \notin Int}
<1>1. SUFFICES ASSUME Bad # {} PROVE FALSE
  OBVIOUS
<1>2. \A s \in Bad : IsFiniteSet(s)
  BY FS_Subset
<1>3. PICK s \in Bad : \A t \in Bad : Cardinality(s) <= Cardinality(t)
  BY <1>1, <1>2, LeastSet
<1>4. s # {}
  BY SumEmpty
<1>5. Picked(s) \in s /\ s \ {Picked(s)} \notin Bad
  BY <1>2, <1>3, <1>4, PickedSmaller
<1>6. SumFunctionOnSet(F, s) = F[Picked(s)] + SumFunctionOnSet(F, s \ {Picked(s)})
  BY <1>2, <1>4, SumPicked
<1>7. SumFunctionOnSet(F, s \ {Picked(s)}) \in Int /\ F[Picked(s)] \in Int
  BY <1>5
<1> QED
  BY <1>6, <1>7

\* Where every other value is zero the sum is the one that is not.
LEMMA SumOnly ==
    ASSUME NEW F, NEW S, IsFiniteSet(S), NEW x \in S, F[x] \in Int,
           \A y \in S \ {x} : F[y] = 0
    PROVE  SumFunctionOnSet(F, S) = F[x]
<1> DEFINE Bad == {s \in SUBSET S : SumFunctionOnSet(F, s) # IF x \in s THEN F[x] ELSE 0}
<1>1. SUFFICES ASSUME Bad # {} PROVE FALSE
  OBVIOUS
<1>2. \A s \in Bad : IsFiniteSet(s)
  BY FS_Subset
<1>3. PICK s \in Bad : \A t \in Bad : Cardinality(s) <= Cardinality(t)
  BY <1>1, <1>2, LeastSet
<1>4. s # {}
  BY SumEmpty
<1>5. Picked(s) \in s /\ s \ {Picked(s)} \notin Bad
  BY <1>2, <1>3, <1>4, PickedSmaller
<1>6. SumFunctionOnSet(F, s) = F[Picked(s)] + SumFunctionOnSet(F, s \ {Picked(s)})
  BY <1>2, <1>4, SumPicked
<1>7. SumFunctionOnSet(F, s \ {Picked(s)}) = IF x \in s \ {Picked(s)} THEN F[x] ELSE 0
  BY <1>5
<1>8. CASE Picked(s) = x
  BY <1>5, <1>6, <1>7, <1>8
<1>9. CASE Picked(s) # x
  BY <1>5, <1>6, <1>7, <1>9
<1> QED
  BY <1>8, <1>9
================================================================================
