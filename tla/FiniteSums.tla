----------------------------- MODULE FiniteSums -----------------------------
(***************************************************************************)
(* Facts about finite sets and about SumFunctionOnSet of the community     *)
(* modules that the proofs of several components rest on.                  *)
(*                                                                         *)
(* Induction over a finite set is SmallestSet: among the sets for which a  *)
(* claim fails, take one that has none of the others in it.                *)
(***************************************************************************)
EXTENDS Integers, FiniteSets, Functions, FiniteSetTheorems, WellFoundedInduction, TLAPS

\* A family of subsets of a finite set has a member with no smaller one in it.
LEMMA SmallestSet ==
  ASSUME NEW S, IsFiniteSet(S), NEW F, F \subseteq SUBSET S, F # {}
  PROVE  \E T \in F : \A U \in F : U \subseteq T => U = T
<1>1. IsWellFoundedOn(StrictSubsetOrdering(S), FiniteSubsetsOf(S))
  BY FS_StrictSubsetOrderingWellFounded
<1>2. F \subseteq FiniteSubsetsOf(S)
  BY FS_Subset DEF FiniteSubsetsOf
<1>3. PICK T \in F : \A U \in F : ~(<<U, T>> \in StrictSubsetOrdering(S))
  BY <1>1, <1>2, WFMin
<1> QED
  BY <1>3 DEF StrictSubsetOrdering

\* Induction over a finite set: G holds the subsets for which a claim is true.
LEMMA SetInduction ==
  ASSUME NEW S, IsFiniteSet(S), NEW G, {} \in G,
         \A T \in SUBSET S : \A x \in S \ T : T \in G => T \cup {x} \in G
  PROVE  S \in G
<1> DEFINE F == {T \in SUBSET S : T \notin G}
<1> SUFFICES ASSUME S \notin G
             PROVE  FALSE
  OBVIOUS
<1>1. PICK T \in F : \A U \in F : U \subseteq T => U = T
  <2>1. F \subseteq SUBSET S /\ F # {}
    OBVIOUS
  <2> HIDE DEF F
  <2> QED
    BY <2>1, SmallestSet
<1>2. PICK x \in T : TRUE
  BY <1>1
<1>3. T \ {x} \in G /\ T \ {x} \in SUBSET S /\ x \in S \ (T \ {x})
  BY <1>1, <1>2
<1>4. (T \ {x}) \cup {x} = T
  BY <1>2
<1> QED
  BY <1>1, <1>3, <1>4

\* A set of numbers that is not empty has a greatest.
LEMMA HasGreatest ==
  ASSUME NEW S \in SUBSET Int, IsFiniteSet(S), S # {}
  PROVE  \E m \in S : \A x \in S : x <= m
<1> DEFINE G == {T \in SUBSET S : T # {} => \E m \in T : \A x \in T : x <= m}
<1>1. {} \in G
  OBVIOUS
<1>2. ASSUME NEW T \in SUBSET S, NEW x \in S \ T, T \in G
      PROVE  T \cup {x} \in G
  <2>1. CASE T = {}
    BY <2>1
  <2>2. CASE T # {}
    <3>1. PICK m \in T : \A y \in T : y <= m
      BY <1>2, <2>2
    <3>2. (\A y \in T \cup {x} : y <= m) \/ (\A y \in T \cup {x} : y <= x)
      BY <3>1
    <3> QED
      BY <3>1, <3>2
  <2> QED
    BY <2>1, <2>2
<1>3. S \in G
  <2> HIDE DEF G
  <2> QED
    BY <1>1, <1>2, SetInduction
<1> QED
  BY <1>3

-----------------------------------------------------------------------------
(* The sum is well defined *)

\* The element that is added last.
Pick(s) == CHOOSE x \in s : TRUE

\* It is an element.
LEMMA PickIn ==
  ASSUME NEW s, s # {}
  PROVE  Pick(s) \in s
  BY DEF Pick

\* What the definition of the sum asks of its auxiliary function.
Sums(f, S, g) ==
  g = [s \in SUBSET S |-> IF s = {} THEN 0 ELSE f[Pick(s)] + g[s \ {Pick(s)}]]

\* Such a function is what the sum is read from.
LEMMA SumIsChosen ==
  ASSUME NEW f, NEW S
  PROVE  SumFunctionOnSet(f, S) = (CHOOSE g : Sums(f, S, g))[S]
  BY DEF SumFunctionOnSet, FoldFunctionOnSet, MapThenFoldSet, Sums, Pick

\* Its value at each set.
LEMMA SumsAt ==
  ASSUME NEW f, NEW S, NEW g, Sums(f, S, g), NEW s \in SUBSET S
  PROVE  g[s] = IF s = {} THEN 0 ELSE f[Pick(s)] + g[s \ {Pick(s)}]
<1> DEFINE h == [t \in SUBSET S |-> IF t = {} THEN 0 ELSE f[Pick(t)] + g[t \ {Pick(t)}]]
<1>1. g = h
  BY DEF Sums
<1>2. h[s] = IF s = {} THEN 0 ELSE f[Pick(s)] + g[s \ {Pick(s)}]
  OBVIOUS
<1> HIDE DEF h
<1> QED
  BY <1>1, <1>2

\* Two such functions agree where both are defined.
LEMMA SumsAgree ==
  ASSUME NEW f, NEW S, IsFiniteSet(S), NEW R, NEW g, Sums(f, S, g), NEW h, Sums(f, R, h)
  PROVE  \A T \in SUBSET S : T \in SUBSET R => g[T] = h[T]
<1> DEFINE F == {T \in SUBSET S : T \in SUBSET R /\ g[T] # h[T]}
<1> SUFFICES ASSUME NEW V \in SUBSET S, V \in SUBSET R, g[V] # h[V]
             PROVE  FALSE
  OBVIOUS
<1>1. F # {}
  OBVIOUS
<1>2. PICK T \in F : \A U \in F : U \subseteq T => U = T
  <2>1. F \subseteq SUBSET S
    OBVIOUS
  <2> HIDE DEF F
  <2> QED
    BY <1>1, <2>1, SmallestSet
<1>3. /\ g[T] = IF T = {} THEN 0 ELSE f[Pick(T)] + g[T \ {Pick(T)}]
      /\ h[T] = IF T = {} THEN 0 ELSE f[Pick(T)] + h[T \ {Pick(T)}]
  <2>1. T \in SUBSET S /\ T \in SUBSET R
    BY <1>2
  <2> HIDE DEF F
  <2>2. g[T] = IF T = {} THEN 0 ELSE f[Pick(T)] + g[T \ {Pick(T)}]
    BY <2>1, SumsAt
  <2>3. h[T] = IF T = {} THEN 0 ELSE f[Pick(T)] + h[T \ {Pick(T)}]
    BY <2>1, SumsAt
  <2> QED
    BY <2>2, <2>3
<1>4. g[T] # h[T]
  BY <1>2
<1>5. T \ {Pick(T)} \notin F /\ T \ {Pick(T)} \in SUBSET S /\ T \ {Pick(T)} \in SUBSET R
  BY <1>2, <1>3, <1>4, PickIn
<1>6. g[T \ {Pick(T)}] = h[T \ {Pick(T)}]
  BY <1>5
<1> QED
  BY <1>3, <1>4, <1>6

\* One exists when it does for the smaller sets.
LEMMA SumsExtends ==
  ASSUME NEW f, NEW T, IsFiniteSet(T),
         \A U \in SUBSET T : U # T => \E g : Sums(f, U, g)
  PROVE  \E g : Sums(f, T, g)
<1> DEFINE Of(U) == CHOOSE g : Sums(f, U, g)
           Sum(U) == SumFunctionOnSet(f, U)
           g == [s \in SUBSET T |-> IF s = {} THEN 0 ELSE f[Pick(s)] + Sum(s \ {Pick(s)})]
           h == [s \in SUBSET T |-> IF s = {} THEN 0 ELSE f[Pick(s)] + g[s \ {Pick(s)}]]
<1>1. ASSUME NEW U \in SUBSET T, U # T
      PROVE  Sums(f, U, Of(U)) /\ Sum(U) = Of(U)[U] /\ IsFiniteSet(U)
  BY <1>1, SumIsChosen, FS_Subset
<1>2. ASSUME NEW U \in SUBSET T, U # T, U # {}
      PROVE  Sum(U) = f[Pick(U)] + Sum(U \ {Pick(U)})
  <2> DEFINE V == U \ {Pick(U)}
  <2>1. V \in SUBSET T /\ V # T /\ V \in SUBSET U
    BY <1>2
  <2>2. Of(U)[U] = f[Pick(U)] + Of(U)[V]
    BY <1>1, <1>2, SumsAt
  <2>3. Of(U)[V] = Of(V)[V]
    <3>1. /\ Sums(f, U, Of(U)) /\ Sums(f, V, Of(V))
          /\ IsFiniteSet(U) /\ V \in SUBSET U /\ V \in SUBSET V
      BY <1>1, <1>2, <2>1
    <3> HIDE DEF Of, V
    <3> QED
      BY <3>1, SumsAgree
  <2> QED
    BY <1>1, <1>2, <2>1, <2>2, <2>3
<1>3. Sum({}) = 0
  <2>1. CASE T = {}
    <3>1. Sums(f, {}, [s \in SUBSET {} |-> 0])
      BY DEF Sums
    <3>2. Sums(f, {}, Of({}))
      BY <3>1
    <3> QED
      BY <3>2, SumIsChosen, SumsAt
  <2>2. CASE T # {}
    BY <2>2, <1>1, SumsAt
  <2> QED
    BY <2>1, <2>2
<1>4. ASSUME NEW s \in SUBSET T, s # {}
      PROVE  g[s \ {Pick(s)}] = Sum(s \ {Pick(s)})
  <2> DEFINE U == s \ {Pick(s)}
  <2>1. U \in SUBSET T /\ U # T
    BY <1>4, PickIn
  <2>2. g[U] = IF U = {} THEN 0 ELSE f[Pick(U)] + Sum(U \ {Pick(U)})
    BY <2>1
  <2> QED
    BY <1>2, <1>3, <2>1, <2>2
<1>5. g = h
  BY <1>4
<1> QED
  BY <1>5 DEF Sums

\* So there is one for every finite set.
LEMMA SumsExist ==
  ASSUME NEW f, NEW S, IsFiniteSet(S)
  PROVE  \E g : Sums(f, S, g)
<1> DEFINE F == {T \in SUBSET S : ~\E g : Sums(f, T, g)}
<1>1. SUFFICES ASSUME F # {}
               PROVE  FALSE
  BY DEF F
<1>2. PICK T \in F : \A U \in F : U \subseteq T => U = T
  <2>1. F \subseteq SUBSET S
    OBVIOUS
  <2> HIDE DEF F
  <2> QED
    BY <1>1, <2>1, SmallestSet
<1>3. \A U \in SUBSET T : U # T => \E g : Sums(f, U, g)
  BY <1>2
<1>4. IsFiniteSet(T)
  BY FS_Subset
<1> QED
  BY <1>2, <1>3, <1>4, SumsExtends

\* The sum of nothing.
LEMMA SumEmpty == ASSUME NEW f PROVE SumFunctionOnSet(f, {}) = 0
  BY SumsExist, FS_EmptySet, SumIsChosen, SumsAt

\* The element that is added last, and the rest.
LEMMA SumPick ==
  ASSUME NEW f, NEW S, IsFiniteSet(S), S # {}
  PROVE  SumFunctionOnSet(f, S) = f[Pick(S)] + SumFunctionOnSet(f, S \ {Pick(S)})
<1> DEFINE Of(U) == CHOOSE g : Sums(f, U, g)
           U == S \ {Pick(S)}
<1>1. IsFiniteSet(U) /\ U \in SUBSET S
  BY FS_Subset
<1>2. Sums(f, S, Of(S)) /\ Sums(f, U, Of(U))
  BY <1>1, SumsExist
<1>3. Of(S)[S] = f[Pick(S)] + Of(S)[U]
  BY <1>2, SumsAt
<1>4. Of(S)[U] = Of(U)[U]
  <2>1. U \in SUBSET S /\ U \in SUBSET U
    BY <1>1
  <2> HIDE DEF Of, U
  <2> QED
    BY <1>2, <2>1, SumsAgree
<1> QED
  BY <1>3, <1>4, SumIsChosen

-----------------------------------------------------------------------------
(* Sums of integers *)

\* The sum is an integer, and an element may be taken out of it.
LEMMA SumRemove ==
  ASSUME NEW f, NEW S, IsFiniteSet(S), \A x \in S : f[x] \in Int
  PROVE  /\ SumFunctionOnSet(f, S) \in Int
         /\ \A x \in S : SumFunctionOnSet(f, S) = f[x] + SumFunctionOnSet(f, S \ {x})
<1> DEFINE Sum(U) == SumFunctionOnSet(f, U)
           Fine(U) == Sum(U) \in Int /\ \A x \in U : Sum(U) = f[x] + Sum(U \ {x})
           F == {U \in SUBSET S : ~Fine(U)}
<1>1. SUFFICES ASSUME F # {}
               PROVE  FALSE
  BY DEF F
<1>2. PICK T \in F : \A U \in F : U \subseteq T => U = T
  <2>1. F \subseteq SUBSET S
    OBVIOUS
  <2> HIDE DEF F
  <2> QED
    BY <1>1, <2>1, SmallestSet
<1>3. IsFiniteSet(T) /\ T \in SUBSET S /\ ~Fine(T)
  BY <1>2, FS_Subset
<1>4. T # {}
  BY <1>3, SumEmpty
<1> DEFINE p == Pick(T)
<1>5. p \in T /\ Sum(T) = f[p] + Sum(T \ {p})
  BY <1>3, <1>4, PickIn, SumPick
<1>6. ASSUME NEW x \in T
      PROVE  Fine(T \ {x})
  BY <1>2, <1>6
<1>7. Sum(T) \in Int
  BY <1>3, <1>5, <1>6
<1>8. ASSUME NEW x \in T
      PROVE  Sum(T) = f[x] + Sum(T \ {x})
  <2>1. CASE x = p
    BY <1>5, <2>1
  <2>2. CASE x # p
    <3>1. x \in T \ {p} /\ p \in T \ {x} /\ (T \ {p}) \ {x} = (T \ {x}) \ {p}
      BY <1>5, <2>2
    <3>2. Sum(T \ {p}) = f[x] + Sum((T \ {p}) \ {x})
      BY <1>5, <1>6, <3>1
    <3>3. Sum(T \ {x}) = f[p] + Sum((T \ {x}) \ {p})
      BY <1>6, <3>1
    <3>4. Sum(T \ {p}) \in Int /\ Sum(T \ {x}) \in Int /\ f[x] \in Int /\ f[p] \in Int
      BY <1>3, <1>5, <1>6
    <3>5. Sum((T \ {p}) \ {x}) \in Int
      <4>1. (T \ {p}) \ {x} \in SUBSET T /\ (T \ {p}) \ {x} # T
        BY <1>5
      <4> QED
        BY <1>2, <1>3, <4>1
    <3> DEFINE a == Sum(T)
               b == Sum(T \ {p})
               c == Sum(T \ {x})
               d == Sum((T \ {p}) \ {x})
    <3>6. a = f[p] + b /\ b = f[x] + d /\ c = f[p] + d
      BY <1>5, <3>1, <3>2, <3>3
    <3>7. b \in Int /\ c \in Int /\ d \in Int /\ f[x] \in Int /\ f[p] \in Int
      BY <3>4, <3>5
    <3>8. a = f[x] + c
      <4> HIDE DEF a, b, c, d, p
      <4> QED
        BY <3>6, <3>7
    <3> QED
      BY <3>8
  <2> QED
    BY <2>1, <2>2
<1> QED
  BY <1>3, <1>7, <1>8

\* One more element.
LEMMA SumAdd ==
  ASSUME NEW f, NEW S, IsFiniteSet(S), NEW x, x \notin S, \A y \in S \cup {x} : f[y] \in Int
  PROVE  SumFunctionOnSet(f, S \cup {x}) = f[x] + SumFunctionOnSet(f, S)
<1>1. IsFiniteSet(S \cup {x}) /\ (S \cup {x}) \ {x} = S
  BY FS_AddElement
<1> QED
  BY <1>1, SumRemove

\* Only the values on the set count.
LEMMA SumEqual ==
  ASSUME NEW f, NEW g, NEW S, IsFiniteSet(S), \A x \in S : f[x] \in Int /\ f[x] = g[x]
  PROVE  SumFunctionOnSet(f, S) = SumFunctionOnSet(g, S)
<1> DEFINE G == {T \in SUBSET S : SumFunctionOnSet(f, T) = SumFunctionOnSet(g, T)}
<1>1. {} \in G
  BY SumEmpty
<1>2. ASSUME NEW T \in SUBSET S, NEW x \in S \ T, T \in G
      PROVE  T \cup {x} \in G
  <2>1. IsFiniteSet(T)
    BY FS_Subset
  <2>2. SumFunctionOnSet(f, T \cup {x}) = f[x] + SumFunctionOnSet(f, T)
    BY <2>1, SumAdd
  <2>3. SumFunctionOnSet(g, T \cup {x}) = g[x] + SumFunctionOnSet(g, T)
    BY <2>1, SumAdd
  <2> QED
    BY <1>2, <2>2, <2>3
<1>3. S \in G
  <2> HIDE DEF G
  <2> QED
    BY <1>1, <1>2, SetInduction
<1> QED
  BY <1>3

\* Disjoint sets add up.
LEMMA SumUnion ==
  ASSUME NEW f, NEW S, IsFiniteSet(S), NEW R, IsFiniteSet(R), S \cap R = {},
         \A x \in S \cup R : f[x] \in Int
  PROVE  SumFunctionOnSet(f, S \cup R) = SumFunctionOnSet(f, S) + SumFunctionOnSet(f, R)
<1> DEFINE Sum(U) == SumFunctionOnSet(f, U)
           G == {T \in SUBSET R : Sum(S \cup T) = Sum(S) + Sum(T)}
<1>1. \A T \in SUBSET (S \cup R) : IsFiniteSet(T) /\ Sum(T) \in Int
  <2>1. IsFiniteSet(S \cup R)
    BY FS_Union
  <2> QED
    BY <2>1, FS_Subset, SumRemove
<1>2. {} \in G
  <2>1. S \cup {} = S /\ Sum(S) \in Int
    BY <1>1
  <2> QED
    BY <2>1, SumEmpty
<1>3. ASSUME NEW T \in SUBSET R, NEW x \in R \ T, T \in G
      PROVE  T \cup {x} \in G
  <2>1. IsFiniteSet(T) /\ Sum(T \cup {x}) = f[x] + Sum(T)
    BY <1>1, SumAdd
  <2>2. Sum((S \cup T) \cup {x}) = f[x] + Sum(S \cup T)
    <3>1. x \notin S \cup T /\ S \cup T \in SUBSET (S \cup R) /\ x \in S \cup R
      OBVIOUS
    <3>2. IsFiniteSet(S \cup T)
      BY <1>1, <3>1
    <3> QED
      BY <3>1, <3>2, SumAdd
  <2>3. S \cup (T \cup {x}) = (S \cup T) \cup {x}
    OBVIOUS
  <2>4. Sum(T) \in Int /\ Sum(S) \in Int /\ f[x] \in Int
    BY <1>1
  <2>5. Sum(S \cup T) = Sum(S) + Sum(T)
    BY <1>3
  <2>6. Sum(S \cup (T \cup {x})) = Sum(S) + Sum(T \cup {x})
    <3> DEFINE a == Sum(S)
               c == Sum(T)
    <3>1. /\ Sum(S \cup (T \cup {x})) = f[x] + (a + c) /\ Sum(T \cup {x}) = f[x] + c
          /\ a \in Int /\ c \in Int /\ f[x] \in Int
      BY <2>1, <2>2, <2>3, <2>4, <2>5
    <3> HIDE DEF a, c
    <3>2. f[x] + (a + c) = a + (f[x] + c)
      BY <3>1
    <3> QED
      BY <3>1, <3>2 DEF a
  <2> QED
    BY <2>6
<1>4. R \in G
  <2> HIDE DEF G
  <2> QED
    BY <1>2, <1>3, SetInduction
<1> QED
  BY <1>4

\* A part that satisfies a condition, and the rest.
LEMMA SumSplit ==
  ASSUME NEW f, NEW S, IsFiniteSet(S), NEW T \in SUBSET S, \A x \in S : f[x] \in Int
  PROVE  SumFunctionOnSet(f, S) = SumFunctionOnSet(f, T) + SumFunctionOnSet(f, S \ T)
<1>1. IsFiniteSet(T) /\ IsFiniteSet(S \ T) /\ T \cap (S \ T) = {} /\ T \cup (S \ T) = S
  BY FS_Subset
<1> QED
  BY <1>1, SumUnion

\* Order.
LEMMA SumMonotone ==
  ASSUME NEW f, NEW g, NEW S, IsFiniteSet(S),
         \A x \in S : f[x] \in Int /\ g[x] \in Int /\ f[x] <= g[x]
  PROVE  SumFunctionOnSet(f, S) <= SumFunctionOnSet(g, S)
<1> DEFINE G == {T \in SUBSET S : SumFunctionOnSet(f, T) <= SumFunctionOnSet(g, T)}
<1>1. {} \in G
  BY SumEmpty
<1>2. ASSUME NEW T \in SUBSET S, NEW x \in S \ T, T \in G
      PROVE  T \cup {x} \in G
  <2>1. IsFiniteSet(T)
    BY FS_Subset
  <2>2. /\ SumFunctionOnSet(f, T \cup {x}) = f[x] + SumFunctionOnSet(f, T)
        /\ SumFunctionOnSet(f, T) \in Int
    BY <2>1, SumAdd, SumRemove
  <2>3. /\ SumFunctionOnSet(g, T \cup {x}) = g[x] + SumFunctionOnSet(g, T)
        /\ SumFunctionOnSet(g, T) \in Int
    BY <2>1, SumAdd, SumRemove
  <2> QED
    BY <1>2, <2>2, <2>3
<1>3. S \in G
  <2> HIDE DEF G
  <2> QED
    BY <1>1, <1>2, SetInduction
<1> QED
  BY <1>3

\* Zeros add nothing.
LEMMA SumZero ==
  ASSUME NEW f, NEW S, IsFiniteSet(S), \A x \in S : f[x] = 0
  PROVE  SumFunctionOnSet(f, S) = 0
<1> DEFINE G == {T \in SUBSET S : SumFunctionOnSet(f, T) = 0}
<1>1. {} \in G
  BY SumEmpty
<1>2. ASSUME NEW T \in SUBSET S, NEW x \in S \ T, T \in G
      PROVE  T \cup {x} \in G
  <2>1. IsFiniteSet(T)
    BY FS_Subset
  <2>2. SumFunctionOnSet(f, T \cup {x}) = f[x] + SumFunctionOnSet(f, T)
    BY <2>1, SumAdd
  <2> QED
    BY <1>2, <2>2
<1>3. S \in G
  <2> HIDE DEF G
  <2> QED
    BY <1>1, <1>2, SetInduction
<1> QED
  BY <1>3

\* Of sizes, a part adds up to no more than the whole.
LEMMA SumPart ==
  ASSUME NEW f, NEW S, IsFiniteSet(S), NEW T \in SUBSET S, \A x \in S : f[x] \in Nat
  PROVE  /\ SumFunctionOnSet(f, T) \in Nat
         /\ SumFunctionOnSet(f, T) <= SumFunctionOnSet(f, S)
<1> DEFINE z == [x \in S |-> 0]
<1>1. ASSUME NEW U \in SUBSET S
      PROVE  SumFunctionOnSet(f, U) \in Nat
  <2>1. IsFiniteSet(U) /\ SumFunctionOnSet(f, U) \in Int
    BY FS_Subset, SumRemove
  <2>2. SumFunctionOnSet(z, U) = 0
    BY <2>1, SumZero
  <2>3. \A x \in U : z[x] \in Int /\ f[x] \in Int /\ z[x] <= f[x]
    OBVIOUS
  <2>4. SumFunctionOnSet(z, U) <= SumFunctionOnSet(f, U)
    <3> HIDE DEF z
    <3> QED
      BY <2>1, <2>3, SumMonotone
  <2> QED
    BY <2>1, <2>2, <2>4
<1>2. SumFunctionOnSet(f, S) = SumFunctionOnSet(f, T) + SumFunctionOnSet(f, S \ T)
  BY SumSplit
<1> QED
  BY <1>1, <1>2

\* Signs.
LEMMA SumNegative ==
  ASSUME NEW f, NEW g, NEW S, IsFiniteSet(S), \A x \in S : f[x] \in Int /\ g[x] = -f[x]
  PROVE  SumFunctionOnSet(g, S) = -SumFunctionOnSet(f, S)
<1> DEFINE G == {T \in SUBSET S : SumFunctionOnSet(g, T) = -SumFunctionOnSet(f, T)}
<1>1. {} \in G
  BY SumEmpty
<1>2. ASSUME NEW T \in SUBSET S, NEW x \in S \ T, T \in G
      PROVE  T \cup {x} \in G
  <2>1. IsFiniteSet(T)
    BY FS_Subset
  <2>2. /\ SumFunctionOnSet(f, T \cup {x}) = f[x] + SumFunctionOnSet(f, T)
        /\ SumFunctionOnSet(f, T) \in Int
    BY <2>1, SumAdd, SumRemove
  <2>3. SumFunctionOnSet(g, T \cup {x}) = g[x] + SumFunctionOnSet(g, T)
    BY <2>1, SumAdd
  <2> QED
    BY <1>2, <2>2, <2>3
<1>3. S \in G
  <2> HIDE DEF G
  <2> QED
    BY <1>1, <1>2, SetInduction
<1> QED
  BY <1>3

\* The rows of S whose key is one of D.
Keyed(S, k, D) == {x \in S : k[x] \in D}

\* GROUP BY: g has the sum of each group.
Grouped(f, S, k, D, g) == \A d \in D : g[d] = SumFunctionOnSet(f, Keyed(S, k, {d}))

\* Sums of groups: rows S by the key k, over the keys D.
LEMMA SumByKey ==
  ASSUME NEW f, NEW S, IsFiniteSet(S), \A x \in S : f[x] \in Int, NEW k, NEW D, IsFiniteSet(D),
         NEW g, Grouped(f, S, k, D, g)
  PROVE  SumFunctionOnSet(g, D) = SumFunctionOnSet(f, Keyed(S, k, D))
<1> DEFINE Of(E) == Keyed(S, k, E)
           G == {E \in SUBSET D : SumFunctionOnSet(g, E) = SumFunctionOnSet(f, Of(E))}
<1>1. \A T \in SUBSET S : IsFiniteSet(T) /\ SumFunctionOnSet(f, T) \in Int
  BY FS_Subset, SumRemove
<1>2. \A d \in D : g[d] \in Int
  BY <1>1 DEF Grouped, Keyed
<1>3. {} \in G
  <2>1. Of({}) = {}
    BY DEF Keyed
  <2> QED
    BY <2>1, SumEmpty
<1>4. ASSUME NEW E \in SUBSET D, NEW d \in D \ E, E \in G
      PROVE  E \cup {d} \in G
  <2>1. IsFiniteSet(E)
    BY FS_Subset
  <2>2. SumFunctionOnSet(g, E \cup {d}) = g[d] + SumFunctionOnSet(g, E)
    BY <1>2, <2>1, SumAdd
  <2> DEFINE One == Of({d})
  <2>3. Of(E \cup {d}) = Of(E) \cup One /\ Of(E) \cap One = {}
    BY DEF Keyed
  <2>4. Of(E) \in SUBSET S /\ One \in SUBSET S
    BY DEF Keyed
  <2>5. SumFunctionOnSet(f, Of(E) \cup One)
          = SumFunctionOnSet(f, Of(E)) + SumFunctionOnSet(f, One)
    <3>1. IsFiniteSet(Of(E)) /\ IsFiniteSet(One) /\ \A x \in Of(E) \cup One : f[x] \in Int
      BY <1>1, <2>4
    <3> HIDE DEF Of, One
    <3> QED
      BY <2>3, <3>1, SumUnion
  <2>6. SumFunctionOnSet(f, Of(E)) \in Int /\ SumFunctionOnSet(f, One) \in Int
    BY <1>1, <2>4
  <2>7. g[d] = SumFunctionOnSet(f, One) /\ SumFunctionOnSet(g, E) = SumFunctionOnSet(f, Of(E))
    BY <1>4 DEF Grouped
  <2>8. SumFunctionOnSet(g, E \cup {d}) = SumFunctionOnSet(f, Of(E \cup {d}))
    <3> DEFINE a == SumFunctionOnSet(f, Of(E))
               c == SumFunctionOnSet(f, One)
    <3>1. SumFunctionOnSet(g, E \cup {d}) = c + a /\ a \in Int /\ c \in Int
      BY <2>2, <2>6, <2>7
    <3>2. SumFunctionOnSet(f, Of(E \cup {d})) = a + c
      BY <2>3, <2>5
    <3> HIDE DEF a, c, Of
    <3> QED
      BY <3>1, <3>2
  <2> QED
    BY <2>8
<1>5. D \in G
  <2> HIDE DEF G
  <2> QED
    BY <1>3, <1>4, SetInduction
<1> QED
  BY <1>5

\* Rows that stand for others, each for one.
LEMMA SumImage ==
  ASSUME NEW f, NEW S, IsFiniteSet(S), NEW R, NEW b \in Bijection(S, R),
         NEW g, \A x \in S : f[b[x]] \in Int /\ g[x] = f[b[x]]
  PROVE  /\ IsFiniteSet(R)
         /\ SumFunctionOnSet(f, R) = SumFunctionOnSet(g, S)
<1> DEFINE Im(T) == {b[x] : x \in T}
           G == {T \in SUBSET S : /\ IsFiniteSet(Im(T))
                                  /\ SumFunctionOnSet(f, Im(T)) = SumFunctionOnSet(g, T)}
<1>1. Im(S) = R /\ \A x, y \in S : b[x] = b[y] => x = y
  BY DEF Bijection, Injection, IsInjective, Surjection
<1>2. {} \in G
  <2>1. Im({}) = {}
    OBVIOUS
  <2> QED
    BY <2>1, SumEmpty, FS_EmptySet
<1>3. ASSUME NEW T \in SUBSET S, NEW x \in S \ T, T \in G
      PROVE  T \cup {x} \in G
  <2>1. IsFiniteSet(T) /\ IsFiniteSet(Im(T))
    BY <1>3, FS_Subset
  <2>2. Im(T \cup {x}) = Im(T) \cup {b[x]} /\ b[x] \notin Im(T)
    BY <1>1
  <2>3. SumFunctionOnSet(g, T \cup {x}) = g[x] + SumFunctionOnSet(g, T)
    BY <2>1, SumAdd
  <2>4. /\ SumFunctionOnSet(f, Im(T) \cup {b[x]}) = f[b[x]] + SumFunctionOnSet(f, Im(T))
        /\ IsFiniteSet(Im(T) \cup {b[x]})
    <3>1. \A y \in Im(T) \cup {b[x]} : f[y] \in Int
      OBVIOUS
    <3> HIDE DEF Im
    <3> QED
      BY <2>1, <2>2, <3>1, SumAdd, FS_AddElement
  <2> QED
    BY <1>3, <2>2, <2>3, <2>4
<1>4. S \in G
  <2> HIDE DEF G
  <2> QED
    BY <1>2, <1>3, SetInduction
<1> QED
  BY <1>1, <1>4
=============================================================================
