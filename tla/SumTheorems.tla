---------------------------- MODULE SumTheorems ----------------------------
(***************************************************************************)
(* What the sums of the model add up to: facts about SumFunctionOnSet of   *)
(* the community modules, for integers and finite sets of indices.         *)
(*                                                                         *)
(* The operator is a fold, that is a recursive function on the subsets of  *)
(* the set of indices.  That this function exists, and what it yields, is  *)
(* by induction on those subsets, stated for a set of subsets instead of a *)
(* predicate: the induction rests on FS_StrictSubsetOrderingWellFounded.   *)
(***************************************************************************)
EXTENDS Integers, FiniteSetTheorems, TLAPS

\* A set that holds a subset whenever it holds all smaller ones holds them all.
LEMMA SubsetInduction ==
    ASSUME NEW S, IsFiniteSet(S), NEW Good,
           \A T \in SUBSET S : (\A U \in SUBSET T : U # T => U \in Good) => T \in Good
    PROVE  \A T \in SUBSET S : T \in Good
<1> DEFINE Bad == {T \in SUBSET S : T \notin Good}
<1>1. SUFFICES ASSUME Bad # {} PROVE FALSE
  OBVIOUS
<1>2. IsWellFoundedOn(StrictSubsetOrdering(S), SUBSET S)
  BY FS_StrictSubsetOrderingWellFounded, FS_FiniteSubsetsOfFinite
<1>3. Bad \subseteq SUBSET S
  OBVIOUS
<1> HIDE DEF Bad
<1>4. PICK T \in Bad : \A U \in Bad : ~(<<U, T>> \in StrictSubsetOrdering(S))
  BY <1>1, <1>2, <1>3, WFMin
<1>5. \A U \in SUBSET T : U # T => U \in Good
  <2> SUFFICES ASSUME NEW U \in SUBSET T, U # T, U \notin Good PROVE FALSE
    OBVIOUS
  <2>1. U \in Bad
    BY <1>3 DEF Bad
  <2>2. <<U, T>> \in StrictSubsetOrdering(S)
    BY <1>3 DEF StrictSubsetOrdering
  <2> QED BY <1>4, <2>1, <2>2
<1> QED BY <1>3, <1>4, <1>5 DEF Bad

-----------------------------------------------------------------------------
\* The element the fold takes next, and what defines the function it folds with.
Pick(s) == CHOOSE x \in s : TRUE

Sums(f, S, g) ==
    g = [s \in SUBSET S |-> IF s = {} THEN 0 ELSE f[Pick(s)] + g[s \ {Pick(s)}]]

LEMMA SumIsChosen ==
    ASSUME NEW f, NEW S
    PROVE  SumFunctionOnSet(f, S) = (CHOOSE g : Sums(f, S, g))[S]
  BY DEF SumFunctionOnSet, FoldFunctionOnSet, MapThenFoldSet, Sums, Pick

LEMMA PickIsElement ==
    ASSUME NEW s, s # {}
    PROVE  Pick(s) \in s
  BY DEF Pick

LEMMA SumsUnique ==
    ASSUME NEW f, NEW S, IsFiniteSet(S), NEW g, Sums(f, S, g), NEW h, Sums(f, S, h)
    PROVE  g = h
<1> DEFINE Good == {T \in SUBSET S : g[T] = h[T]}
<1>1. ASSUME NEW T \in SUBSET S, \A U \in SUBSET T : U # T => U \in Good
      PROVE  T \in Good
  <2>1. CASE T = {}
    BY <2>1 DEF Sums
  <2>2. CASE T # {}
    <3>1. Pick(T) \in T
      BY <2>2, PickIsElement
    <3>2. T \ {Pick(T)} \in Good
      BY <1>1, <3>1
    <3>3. /\ g[T] = f[Pick(T)] + g[T \ {Pick(T)}]
          /\ h[T] = f[Pick(T)] + h[T \ {Pick(T)}]
      BY <2>2 DEF Sums
    <3> QED BY <3>2, <3>3
  <2> QED BY <2>1, <2>2
<1>2. \A T \in SUBSET S : T \in Good
  <2> HIDE DEF Good
  <2> QED BY <1>1, SubsetInduction
<1>3. \A T \in SUBSET S : g[T] = h[T]
  BY <1>2
<1>4. g = [s \in SUBSET S |-> g[s]] /\ h = [s \in SUBSET S |-> h[s]]
  BY DEF Sums
<1> QED BY <1>3, <1>4

\* The restriction to a subset of the indices sums up the same.
LEMMA SumsRestrict ==
    ASSUME NEW f, NEW S, NEW g, Sums(f, S, g), NEW U \in SUBSET S
    PROVE  Sums(f, U, [s \in SUBSET U |-> g[s]])
<1> DEFINE h == [s \in SUBSET U |-> g[s]]
<1>1. ASSUME NEW s \in SUBSET U
      PROVE  h[s] = IF s = {} THEN 0 ELSE f[Pick(s)] + h[s \ {Pick(s)}]
  <2>1. g[s] = IF s = {} THEN 0 ELSE f[Pick(s)] + g[s \ {Pick(s)}]
    BY DEF Sums
  <2> QED BY <2>1
<1> QED BY <1>1 DEF Sums

LEMMA SumsExist ==
    ASSUME NEW f, NEW S, IsFiniteSet(S)
    PROVE  \E g : Sums(f, S, g)
<1> DEFINE Good == {T \in SUBSET S : \E g : Sums(f, T, g)}
<1>1. ASSUME NEW T \in SUBSET S, \A U \in SUBSET T : U # T => U \in Good
      PROVE  T \in Good
  <2> DEFINE G(U) == CHOOSE g : Sums(f, U, g)
             p == Pick(T)
             h == [s \in SUBSET T |->
                    IF s # T THEN G(s)[s] ELSE IF T = {} THEN 0 ELSE f[p] + G(T \ {p})[T \ {p}]]
  <2>1. \A U \in SUBSET T : U # T => Sums(f, U, G(U))
    BY <1>1
  <2> HIDE DEF G
  <2>2. \A U \in SUBSET T : U # T =>
            G(U)[U] = IF U = {} THEN 0 ELSE f[Pick(U)] + G(U)[U \ {Pick(U)}]
    BY <2>1 DEF Sums
  <2>3. ASSUME NEW U \in SUBSET T, U # T, NEW V \in SUBSET U
        PROVE  G(U)[V] = G(V)[V]
    <3>1. V # T /\ V \in SUBSET T /\ IsFiniteSet(V)
      BY <2>3, FS_Subset
    <3>2. Sums(f, V, [s \in SUBSET V |-> G(U)[s]])
      BY <2>1, <2>3, SumsRestrict
    <3>3. [s \in SUBSET V |-> G(U)[s]] = G(V)
      BY <2>1, <3>1, <3>2, SumsUnique
    <3> QED BY <3>3
  <2>4. ASSUME NEW s \in SUBSET T
        PROVE  h[s] = IF s = {} THEN 0 ELSE f[Pick(s)] + h[s \ {Pick(s)}]
    <3>1. CASE s = {}
      <4>1. s # T => h[s] = 0
        BY <2>2, <3>1
      <4> QED BY <3>1, <4>1
    <3>2. CASE s # {}
      <4>1. Pick(s) \in s
        BY <3>2, PickIsElement
      <4>2. s \ {Pick(s)} # T /\ s \ {Pick(s)} \in SUBSET T
        BY <4>1
      <4>3. h[s \ {Pick(s)}] = G(s \ {Pick(s)})[s \ {Pick(s)}]
        BY <4>2
      <4>4. CASE s = T
        BY <3>2, <4>3, <4>4
      <4>5. CASE s # T
        <5>1. h[s] = f[Pick(s)] + G(s)[s \ {Pick(s)}]
          BY <2>2, <3>2, <4>5
        <5>2. G(s)[s \ {Pick(s)}] = G(s \ {Pick(s)})[s \ {Pick(s)}]
          BY <2>3, <4>5
        <5> QED BY <3>2, <4>3, <5>1, <5>2
      <4> QED BY <4>4, <4>5
    <3> QED BY <3>1, <3>2
  <2>5. Sums(f, T, h)
    BY <2>4 DEF Sums
  <2> QED BY <2>5
<1>2. \A T \in SUBSET S : T \in Good
  <2> HIDE DEF Good
  <2> QED BY <1>1, SubsetInduction
<1> QED BY <1>2

-----------------------------------------------------------------------------
\* The sum over no index is 0; any other is that over all but the picked one.
LEMMA SumStep ==
    ASSUME NEW f, NEW S, IsFiniteSet(S)
    PROVE  /\ S = {} => SumFunctionOnSet(f, S) = 0
           /\ S # {} => SumFunctionOnSet(f, S) = f[Pick(S)] + SumFunctionOnSet(f, S \ {Pick(S)})
<1> DEFINE G(U) == CHOOSE g : Sums(f, U, g)
           U == S \ {Pick(S)}
<1>1. Sums(f, S, G(S))
  BY SumsExist
<1>2. IsFiniteSet(U)
  BY FS_Subset
<1>3. Sums(f, U, G(U))
  BY <1>2, SumsExist
<1> HIDE DEF G, U
<1>4. SumFunctionOnSet(f, S) = G(S)[S] /\ SumFunctionOnSet(f, U) = G(U)[U]
  BY SumIsChosen DEF G
<1>5. S = {} => G(S)[S] = 0
  BY <1>1 DEF Sums
<1>6. S # {} => G(S)[S] = f[Pick(S)] + G(S)[U]
  BY <1>1 DEF Sums, U
<1>7. G(S)[U] = G(U)[U]
  <2>1. Sums(f, U, [s \in SUBSET U |-> G(S)[s]])
    BY <1>1, SumsRestrict DEF U
  <2>2. [s \in SUBSET U |-> G(S)[s]] = G(U)
    BY <1>2, <1>3, <2>1, SumsUnique
  <2> QED BY <2>2
<1> QED BY <1>4, <1>5, <1>6, <1>7 DEF U

\* Sums of integers are integers, and of naturals naturals.
LEMMA SumType ==
    ASSUME NEW f, NEW S, IsFiniteSet(S)
    PROVE  /\ (\A x \in S : f[x] \in Int) => SumFunctionOnSet(f, S) \in Int
           /\ (\A x \in S : f[x] \in Nat) => SumFunctionOnSet(f, S) \in Nat
<1> DEFINE Good == {T \in SUBSET S :
                /\ (\A x \in S : f[x] \in Int) => SumFunctionOnSet(f, T) \in Int
                /\ (\A x \in S : f[x] \in Nat) => SumFunctionOnSet(f, T) \in Nat}
<1>1. ASSUME NEW T \in SUBSET S, \A U \in SUBSET T : U # T => U \in Good
      PROVE  T \in Good
  <2>1. IsFiniteSet(T)
    BY FS_Subset
  <2>2. CASE T = {}
    <3>1. SumFunctionOnSet(f, T) = 0
      BY <2>1, <2>2, SumStep
    <3> QED BY <3>1
  <2>3. CASE T # {}
    <3>1. Pick(T) \in T /\ T \ {Pick(T)} \in Good
      BY <1>1, <2>3, PickIsElement
    <3>2. SumFunctionOnSet(f, T) = f[Pick(T)] + SumFunctionOnSet(f, T \ {Pick(T)})
      BY <2>1, <2>3, SumStep
    <3> QED BY <3>1, <3>2
  <2> QED BY <2>2, <2>3
<1>2. \A T \in SUBSET S : T \in Good
  <2> HIDE DEF Good
  <2> QED BY <1>1, SubsetInduction
<1> QED BY <1>2

\* Any index can be taken out of a sum first.
LEMMA SumSplit ==
    ASSUME NEW f, NEW S, IsFiniteSet(S), \A x \in S : f[x] \in Int, NEW x \in S
    PROVE  SumFunctionOnSet(f, S) = f[x] + SumFunctionOnSet(f, S \ {x})
<1> DEFINE Good == {T \in SUBSET S : \A y \in T :
                SumFunctionOnSet(f, T) = f[y] + SumFunctionOnSet(f, T \ {y})}
<1>1. ASSUME NEW T \in SUBSET S, \A U \in SUBSET T : U # T => U \in Good
      PROVE  T \in Good
  <2> SUFFICES ASSUME NEW y \in T
               PROVE  SumFunctionOnSet(f, T) = f[y] + SumFunctionOnSet(f, T \ {y})
    OBVIOUS
  <2> DEFINE p == Pick(T)
  <2>1. p \in T
    BY PickIsElement
  <2>2. SumFunctionOnSet(f, T) = f[p] + SumFunctionOnSet(f, T \ {p})
    BY FS_Subset, SumStep
  <2> HIDE DEF p
  <2>3. CASE y = p
    BY <2>2, <2>3
  <2>4. CASE y # p
    <3>1. /\ T \ {p} \in Good /\ y \in T \ {p}
          /\ T \ {y} \in Good /\ p \in T \ {y}
      BY <1>1, <2>1, <2>4
    <3>2. /\ SumFunctionOnSet(f, T \ {p}) = f[y] + SumFunctionOnSet(f, (T \ {p}) \ {y})
          /\ SumFunctionOnSet(f, T \ {y}) = f[p] + SumFunctionOnSet(f, (T \ {y}) \ {p})
      BY <3>1
    <3>3. (T \ {p}) \ {y} = (T \ {y}) \ {p}
      OBVIOUS
    <3>4. SumFunctionOnSet(f, (T \ {y}) \ {p}) \in Int
      <4>1. IsFiniteSet((T \ {y}) \ {p}) /\ \A z \in (T \ {y}) \ {p} : f[z] \in Int
        BY FS_Subset
      <4> QED BY <4>1, SumType
    <3>5. f[p] \in Int /\ f[y] \in Int
      BY <2>1
    <3>6. SumFunctionOnSet(f, T \ {p}) = f[y] + SumFunctionOnSet(f, (T \ {y}) \ {p})
      BY <3>2, <3>3
    <3> QED BY <2>2, <3>2, <3>4, <3>5, <3>6
  <2> QED BY <2>3, <2>4
<1>2. \A T \in SUBSET S : T \in Good
  <2> HIDE DEF Good
  <2> QED BY <1>1, SubsetInduction
<1> QED BY <1>2

\* A sum depends only on the values at its indices.
LEMMA SumAgree ==
    ASSUME NEW f, NEW g, NEW S, IsFiniteSet(S), \A x \in S : f[x] = g[x]
    PROVE  SumFunctionOnSet(f, S) = SumFunctionOnSet(g, S)
<1> DEFINE Good == {T \in SUBSET S : SumFunctionOnSet(f, T) = SumFunctionOnSet(g, T)}
<1>1. ASSUME NEW T \in SUBSET S, \A U \in SUBSET T : U # T => U \in Good
      PROVE  T \in Good
  <2>1. IsFiniteSet(T)
    BY FS_Subset
  <2>2. CASE T = {}
    BY <2>1, <2>2, SumStep
  <2>3. CASE T # {}
    <3>1. Pick(T) \in T /\ T \ {Pick(T)} \in Good
      BY <1>1, <2>3, PickIsElement
    <3> QED BY <2>1, <2>3, <3>1, SumStep
  <2> QED BY <2>2, <2>3
<1>2. \A T \in SUBSET S : T \in Good
  <2> HIDE DEF Good
  <2> QED BY <1>1, SubsetInduction
<1> QED BY <1>2

-----------------------------------------------------------------------------
\* One value changes: the sum changes by as much.
LEMMA SumUpdate ==
    ASSUME NEW f, NEW g, NEW S, IsFiniteSet(S), NEW x \in S,
           \A y \in S : f[y] \in Int /\ g[y] \in Int,
           \A y \in S \ {x} : g[y] = f[y]
    PROVE  SumFunctionOnSet(g, S) = SumFunctionOnSet(f, S) + g[x] - f[x]
<1>1. IsFiniteSet(S \ {x})
  BY FS_Subset
<1>2. /\ SumFunctionOnSet(f, S) = f[x] + SumFunctionOnSet(f, S \ {x})
      /\ SumFunctionOnSet(g, S) = g[x] + SumFunctionOnSet(g, S \ {x})
  BY SumSplit
<1>3. SumFunctionOnSet(g, S \ {x}) = SumFunctionOnSet(f, S \ {x})
  BY <1>1, SumAgree
<1>4. SumFunctionOnSet(f, S \ {x}) \in Int
  BY <1>1, SumType
<1> QED BY <1>2, <1>3, <1>4

\* One more at one index is one more in all.
LEMMA SumCountsOne ==
    ASSUME NEW S, IsFiniteSet(S), NEW f \in [S -> Nat], NEW x \in S
    PROVE  SumFunctionOnSet([f EXCEPT ![x] = f[x] + 1], S) = SumFunctionOnSet(f, S) + 1
<1>1. PICK g : g = [f EXCEPT ![x] = f[x] + 1]
  OBVIOUS
<1>2. /\ \A y \in S : f[y] \in Int /\ g[y] \in Int
      /\ \A y \in S \ {x} : g[y] = f[y]
      /\ g[x] = f[x] + 1
  BY <1>1
<1>3. SumFunctionOnSet(g, S) = SumFunctionOnSet(f, S) + g[x] - f[x]
  BY <1>2, SumUpdate
<1>4. SumFunctionOnSet(f, S) \in Int
  BY <1>2, SumType
<1> QED BY <1>1, <1>2, <1>3, <1>4

\* One index is added, the other values staying as they were.
LEMMA SumInsert ==
    ASSUME NEW f, NEW g, NEW S, IsFiniteSet(S), NEW x, x \notin S, g[x] \in Int,
           \A y \in S : f[y] \in Int /\ g[y] = f[y]
    PROVE  SumFunctionOnSet(g, S \cup {x}) = SumFunctionOnSet(f, S) + g[x]
<1>1. IsFiniteSet(S \cup {x}) /\ (S \cup {x}) \ {x} = S
  BY FS_AddElement
<1>2. SumFunctionOnSet(g, S \cup {x}) = g[x] + SumFunctionOnSet(g, S)
  BY <1>1, SumSplit
<1>3. SumFunctionOnSet(g, S) = SumFunctionOnSet(f, S) /\ SumFunctionOnSet(f, S) \in Int
  BY SumAgree, SumType
<1> QED BY <1>2, <1>3

\* Of naturals, no summand exceeds the sum, and no part of it the whole.
LEMMA SumBound ==
    ASSUME NEW f, NEW S, IsFiniteSet(S), \A x \in S : f[x] \in Nat, NEW x \in S
    PROVE  f[x] <= SumFunctionOnSet(f, S)
<1>1. SumFunctionOnSet(f, S \ {x}) \in Nat
  BY FS_Subset, SumType
<1> QED BY <1>1, SumSplit

\* Only the indices where the value is not zero count.
LEMMA SumSupport ==
    ASSUME NEW f, NEW S, IsFiniteSet(S), NEW T, T \subseteq S,
           \A x \in T : f[x] \in Int, \A x \in S \ T : f[x] = 0
    PROVE  SumFunctionOnSet(f, S) = SumFunctionOnSet(f, T)
<1> DEFINE Good == {U \in SUBSET S : SumFunctionOnSet(f, U) = SumFunctionOnSet(f, U \cap T)}
<1>1. ASSUME NEW U \in SUBSET S, \A V \in SUBSET U : V # U => V \in Good
      PROVE  U \in Good
  <2>1. IsFiniteSet(U) /\ IsFiniteSet(U \cap T)
    BY FS_Subset
  <2>2. CASE U = {}
    <3>1. U \cap T = U
      BY <2>2
    <3> QED BY <3>1
  <2>3. CASE U # {}
    <3> DEFINE p == Pick(U)
               V == U \ {p}
    <3>1. p \in U /\ V \in Good
      BY <1>1, <2>3, PickIsElement
    <3>2. SumFunctionOnSet(f, U) = f[p] + SumFunctionOnSet(f, V)
      BY <2>1, <2>3, SumStep
    <3>3. SumFunctionOnSet(f, V) = SumFunctionOnSet(f, V \cap T)
      BY <3>1
    <3>4. IsFiniteSet(V \cap T) /\ \A x \in V \cap T : f[x] \in Int
      BY <2>1, FS_Subset
    <3>5. SumFunctionOnSet(f, V \cap T) \in Int
      BY <3>4, SumType
    <3> HIDE DEF p
    <3>6. CASE p \in T
      <4>1. p \in U \cap T /\ (U \cap T) \ {p} = V \cap T /\ \A x \in U \cap T : f[x] \in Int
        BY <3>1, <3>6
      <4>2. SumFunctionOnSet(f, U \cap T) = f[p] + SumFunctionOnSet(f, (U \cap T) \ {p})
        BY <2>1, <4>1, SumSplit
      <4> QED BY <3>2, <3>3, <4>1, <4>2
    <3>7. CASE p \notin T
      <4>1. U \cap T = V \cap T /\ f[p] = 0
        BY <3>1, <3>7
      <4>2. SumFunctionOnSet(f, U) = SumFunctionOnSet(f, V)
        <5> HIDE DEF V
        <5> QED BY <3>2, <3>3, <3>5, <4>1
      <4> QED BY <3>3, <4>1, <4>2
    <3> QED BY <3>6, <3>7
  <2> QED BY <2>2, <2>3
<1>2. \A U \in SUBSET S : U \in Good
  <2> HIDE DEF Good
  <2> QED BY <1>1, SubsetInduction
<1>3. SumFunctionOnSet(f, S) = SumFunctionOnSet(f, S \cap T) /\ S \cap T = T
  BY <1>2
<1> QED BY <1>3

\* Sets that differ in one element count differently by that element.
LEMMA CountMoves ==
    ASSUME NEW S, NEW T, IsFiniteSet(S), IsFiniteSet(T), NEW r, S \ {r} = T \ {r}
    PROVE  /\ Cardinality(S) \in Nat /\ Cardinality(T) \in Nat
           /\ Cardinality(T) = Cardinality(S) - (IF r \in S THEN 1 ELSE 0)
                                              + (IF r \in T THEN 1 ELSE 0)
           /\ r \in S => Cardinality(S) > 0
<1> DEFINE Others == S \ {r}
<1>1. /\ IsFiniteSet(Others)
      /\ Cardinality(Others) = IF r \in S THEN Cardinality(S) - 1 ELSE Cardinality(S)
      /\ Cardinality(Others) = IF r \in T THEN Cardinality(T) - 1 ELSE Cardinality(T)
  BY FS_RemoveElement
<1>2. Cardinality(S) \in Nat /\ Cardinality(T) \in Nat /\ Cardinality(Others) \in Nat
  BY <1>1, FS_CardinalityType
<1> HIDE DEF Others
<1> QED BY <1>1, <1>2

\* Nothing but zeros adds up to zero.
LEMMA SumZero ==
    ASSUME NEW f, NEW S, IsFiniteSet(S), \A x \in S : f[x] = 0
    PROVE  SumFunctionOnSet(f, S) = 0
<1> DEFINE Good == {T \in SUBSET S : SumFunctionOnSet(f, T) = 0}
<1>1. ASSUME NEW T \in SUBSET S, \A U \in SUBSET T : U # T => U \in Good
      PROVE  T \in Good
  <2>1. CASE T = {}
    BY <2>1, SumStep, FS_Subset
  <2>2. CASE T # {}
    <3>1. Pick(T) \in T /\ T \ {Pick(T)} \in Good
      BY <1>1, <2>2, PickIsElement
    <3> QED BY <2>2, <3>1, SumStep, FS_Subset
  <2> QED BY <2>1, <2>2
<1>2. \A T \in SUBSET S : T \in Good
  <2> HIDE DEF Good
  <2> QED BY <1>1, SubsetInduction
<1> QED BY <1>2
=============================================================================
