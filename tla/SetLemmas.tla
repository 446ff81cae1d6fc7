------------------------------ MODULE SetLemmas ------------------------------
(***************************************************************************)
(* Facts about finite sets that proofs about the readers rest on: what      *)
(* Sorted makes of a total order, induction over subsets, and sums as       *)
(* MapThenSumSet adds them up.  The claims to be proved by induction are    *)
(* sets, and the summands functions, so that the lemmas can be cited.       *)
(***************************************************************************)
EXTENDS SortedSets, Sequences, FiniteSetsExt, FiniteSetTheorems, WellFoundedInduction, TLAPS

-----------------------------------------------------------------------------
(* Sorting *)

TotallyOrders(before, S) ==
  /\ \A x \in S : <<x, x>> \notin before
  /\ \A x, y \in S : x # y => <<x, y>> \in before \/ <<y, x>> \in before
  /\ \A x, y, z \in S : <<x, y>> \in before /\ <<y, z>> \in before => <<x, z>> \in before

\* An element comes before another one if and only if fewer elements come before it.
LEMMA PositionsFollowOrder ==
  ASSUME NEW S, IsFiniteSet(S), NEW before, TotallyOrders(before, S), NEW x \in S, NEW y \in S
  PROVE  /\ Position(x, S, before) \in 0..(Cardinality(S) - 1)
         /\ <<x, y>> \in before => Position(x, S, before) < Position(y, S, before)
<1> DEFINE Lower(z) == {w \in S : <<w, z>> \in before}
<1>1. \A z \in S : /\ IsFiniteSet(Lower(z)) /\ IsFiniteSet(Lower(z) \cup {z})
                   /\ Cardinality(Lower(z)) \in Nat
                   /\ Cardinality(Lower(z) \cup {z}) = Cardinality(Lower(z)) + 1
                   /\ Cardinality(Lower(z) \cup {z}) <= Cardinality(S)
  <2> SUFFICES ASSUME NEW z \in S
               PROVE  /\ IsFiniteSet(Lower(z)) /\ IsFiniteSet(Lower(z) \cup {z})
                      /\ Cardinality(Lower(z)) \in Nat
                      /\ Cardinality(Lower(z) \cup {z}) = Cardinality(Lower(z)) + 1
                      /\ Cardinality(Lower(z) \cup {z}) <= Cardinality(S)
    OBVIOUS
  <2>1. z \notin Lower(z) /\ Lower(z) \in SUBSET S /\ Lower(z) \cup {z} \in SUBSET S
    BY DEF TotallyOrders
  <2> HIDE DEF Lower
  <2>2. IsFiniteSet(Lower(z)) BY <2>1, FS_Subset
  <2> QED BY <2>1, <2>2, FS_Subset, FS_AddElement, FS_CardinalityType
<1>2. \A z \in S : Position(z, S, before) = Cardinality(Lower(z))
  BY DEF Position
<1>3. ASSUME <<x, y>> \in before PROVE Lower(x) \cup {x} \in SUBSET Lower(y)
  BY <1>3 DEF TotallyOrders
<1>4. Cardinality(S) \in Nat BY FS_CardinalityType
<1> HIDE DEF Lower
<1>5. Position(x, S, before) \in 0..(Cardinality(S) - 1)
  <2>1. Position(x, S, before) = Cardinality(Lower(x)) BY <1>2
  <2>2. Cardinality(Lower(x)) \in Nat /\ Cardinality(Lower(x)) + 1 <= Cardinality(S) BY <1>1
  <2> HIDE DEF Lower
  <2> QED BY <2>1, <2>2, <1>4
<1>6. ASSUME <<x, y>> \in before PROVE Position(x, S, before) < Position(y, S, before)
  <2>1. Cardinality(Lower(x) \cup {x}) <= Cardinality(Lower(y))
    BY <1>1, <1>3, <1>6, FS_Subset
  <2>2. Position(x, S, before) = Cardinality(Lower(x)) /\ Position(y, S, before) = Cardinality(Lower(y))
    BY <1>2
  <2>3. /\ Cardinality(Lower(x)) \in Nat /\ Cardinality(Lower(y)) \in Nat
        /\ Cardinality(Lower(x) \cup {x}) = Cardinality(Lower(x)) + 1
    BY <1>1
  <2> QED BY <2>1, <2>2, <2>3
<1> QED BY <1>5, <1>6

\* The sequence has each element once, at its position.
LEMMA SortedHasEach ==
  ASSUME NEW S, IsFiniteSet(S), NEW before, TotallyOrders(before, S)
  PROVE  /\ \A n \in 1..Cardinality(S) : /\ Sorted(S, before)[n] \in S
                                         /\ Position(Sorted(S, before)[n], S, before) = n - 1
         /\ \A x \in S : Sorted(S, before)[Position(x, S, before) + 1] = x
<1> DEFINE At(x) == Position(x, S, before)
           size == Cardinality(S)
           f == [x \in S |-> At(x) + 1]
<1>1. size \in Nat /\ IsFiniteSet(1..size) /\ Cardinality(1..size) = size
  BY FS_CardinalityType, FS_Interval
<1>2. \A x \in S : At(x) \in 0..(size - 1)
  BY PositionsFollowOrder
<1>3. \A x, y \in S : At(x) = At(y) => x = y
  <2> SUFFICES ASSUME NEW x \in S, NEW y \in S, x # y PROVE At(x) # At(y)
    OBVIOUS
  <2>1. <<x, y>> \in before \/ <<y, x>> \in before BY DEF TotallyOrders
  <2>2. <<x, y>> \in before => At(x) < At(y) BY PositionsFollowOrder
  <2>3. <<y, x>> \in before => At(y) < At(x) BY PositionsFollowOrder
  <2> HIDE DEF At
  <2> QED BY <2>1, <2>2, <2>3, <1>2, <1>1
<1>4. f \in Injection(S, 1..size)
  <2> HIDE DEF At, size
  <2> QED BY <1>1, <1>2, <1>3 DEF Injection, IsInjective
<1>5. f \in Surjection(S, 1..size)
  BY <1>1, <1>4, FS_Injection
<1>6. \A n \in 1..size : \E x \in S : At(x) = n - 1
  <2> SUFFICES ASSUME NEW n \in 1..size PROVE \E x \in S : At(x) = n - 1
    OBVIOUS
  <2>1. PICK x \in S : f[x] = n BY <1>5 DEF Surjection
  <2>2. At(x) + 1 = n BY <2>1
  <2> HIDE DEF At
  <2> QED BY <2>2, <1>1, <1>2
<1>7. \A n \in 1..size : Sorted(S, before)[n] = CHOOSE x \in S : At(x) = n - 1
  BY DEF Sorted
<1>8. \A n \in 1..size : Sorted(S, before)[n] \in S /\ At(Sorted(S, before)[n]) = n - 1
  <2> HIDE DEF At, size
  <2> QED BY <1>6, <1>7
<1>9. \A x \in S : Sorted(S, before)[At(x) + 1] = x
  <2> HIDE DEF At, size
  <2> SUFFICES ASSUME NEW x \in S PROVE Sorted(S, before)[At(x) + 1] = x
    OBVIOUS
  <2>1. At(x) + 1 \in 1..size /\ At(x) \in Nat BY <1>1, <1>2
  <2>2. Sorted(S, before)[At(x) + 1] \in S /\ At(Sorted(S, before)[At(x) + 1]) = At(x)
    BY <2>1, <1>8
  <2> QED BY <2>2, <1>3
<1> QED BY <1>8, <1>9

-----------------------------------------------------------------------------
(* Induction *)

\* Induction over the subsets of a finite set: Q is the set of those for which
\* the claim holds.
LEMMA SubsetInduction ==
  ASSUME NEW S, IsFiniteSet(S), NEW Q, {} \in Q,
         \A U \in SUBSET S : U # {} /\ (\A x \in U : U \ {x} \in Q) => U \in Q
  PROVE  \A U \in SUBSET S : U \in Q
<1> DEFINE Bad == {U \in SUBSET S : U \notin Q}
<1> SUFFICES ASSUME Bad # {} PROVE FALSE
  OBVIOUS
<1>1. Bad \subseteq FiniteSubsetsOf(S)
  BY FS_Subset DEF FiniteSubsetsOf
<1>2. IsWellFoundedOn(StrictSubsetOrdering(S), FiniteSubsetsOf(S))
  BY FS_StrictSubsetOrderingWellFounded
<1>3. PICK U \in Bad : \A V \in Bad : <<V, U>> \notin StrictSubsetOrdering(S)
  BY <1>1, <1>2, WFMin, Zenon
<1>4. \A x \in U : U \ {x} \in Q
  <2> SUFFICES ASSUME NEW x \in U, U \ {x} \notin Q PROVE FALSE
    OBVIOUS
  <2>1. U \ {x} \in Bad /\ U \in SUBSET S /\ U \ {x} \in SUBSET S OBVIOUS
  <2>2. U \ {x} \subseteq U /\ U \ {x} # U OBVIOUS
  <2> QED BY <2>1, <2>2, <1>3 DEF StrictSubsetOrdering
<1> QED BY <1>4

-----------------------------------------------------------------------------
(* Sums *)

First(s) == CHOOSE x \in s : TRUE

\* g gives the sum of f over every subset of S, as MapThenSumSet adds it up.
IsSum(g, f, S) ==
  g = [s \in SUBSET S |-> IF s = {} THEN 0 ELSE f[First(s)] + g[s \ {First(s)}]]

SumOver(f, S) == (CHOOSE g : IsSum(g, f, S))[S]

\* The element that is added first is one of the set.
LEMMA FirstIsElement == \A s : s # {} => First(s) \in s
BY DEF First

\* What such a function gives for a subset.
LEMMA IsSumAt ==
  ASSUME NEW S, NEW f, NEW g, IsSum(g, f, S), NEW s \in SUBSET S
  PROVE  g[s] = IF s = {} THEN 0 ELSE f[First(s)] + g[s \ {First(s)}]
BY DEF IsSum

\* Two of them agree where both are defined.
LEMMA SumsAgree ==
  ASSUME NEW A, NEW B, NEW f, NEW g, NEW h, IsSum(g, f, A), IsSum(h, f, B),
         NEW s \in SUBSET A, s \in SUBSET B, IsFiniteSet(s)
  PROVE  g[s] = h[s]
<1> DEFINE Q == {u \in SUBSET s : g[u] = h[u]}
<1>1. {} \in Q
  <2>1. g[{}] = 0 /\ h[{}] = 0 BY IsSumAt
  <2> QED BY <2>1
<1>2. ASSUME NEW U \in SUBSET s, U # {}, \A x \in U : U \ {x} \in Q
      PROVE  U \in Q
  <2>1. First(U) \in U BY <1>2, FirstIsElement
  <2>2. g[U \ {First(U)}] = h[U \ {First(U)}] BY <1>2, <2>1
  <2>3. U \in SUBSET A /\ U \in SUBSET B OBVIOUS
  <2>4. g[U] = f[First(U)] + g[U \ {First(U)}] BY <1>2, <2>3, IsSumAt
  <2>5. h[U] = f[First(U)] + h[U \ {First(U)}] BY <1>2, <2>3, IsSumAt
  <2> QED BY <2>2, <2>4, <2>5
<1> HIDE DEF Q
<1>3. \A U \in SUBSET s : U \in Q BY <1>1, <1>2, SubsetInduction
<1> QED BY <1>3 DEF Q

\* There is one for every finite set.
LEMMA SumExists ==
  ASSUME NEW S, IsFiniteSet(S), NEW f
  PROVE  \E g : IsSum(g, f, S)
<1> DEFINE Q == {U \in SUBSET S : \A V \in SUBSET U : \E g : IsSum(g, f, V)}
<1>1. {} \in Q
  <2> SUFFICES ASSUME NEW V \in SUBSET {} PROVE \E g : IsSum(g, f, V)
    OBVIOUS
  <2>1. V = {} OBVIOUS
  <2> DEFINE zero == [s \in SUBSET V |-> 0]
  <2>2. zero = [s \in SUBSET V |-> IF s = {} THEN 0 ELSE f[First(s)] + zero[s \ {First(s)}]]
    BY <2>1
  <2>3. IsSum(zero, f, V) BY <2>2 DEF IsSum
  <2> QED BY <2>3
<1>2. ASSUME NEW U \in SUBSET S, U # {}, \A x \in U : U \ {x} \in Q
      PROVE  U \in Q
  <2>1. \A V \in SUBSET U : V # U => \E g : IsSum(g, f, V)
    <3> SUFFICES ASSUME NEW V \in SUBSET U, V # U PROVE \E g : IsSum(g, f, V)
      OBVIOUS
    <3>1. PICK x \in U : x \notin V OBVIOUS
    <3>2. U \ {x} \in Q BY <1>2
    <3> QED BY <3>1, <3>2
  <2> DEFINE h(V) == CHOOSE g : IsSum(g, f, V)
             g == [s \in SUBSET U |-> IF s = {} THEN 0
                                      ELSE f[First(s)] + h(s \ {First(s)})[s \ {First(s)}]]
  <2>2. \A V \in SUBSET U : V # U => IsSum(h(V), f, V)
    BY <2>1
  <2> HIDE DEF h
  <2>3. \A s \in SUBSET U : s # {} => g[s \ {First(s)}] = h(s \ {First(s)})[s \ {First(s)}]
    <3> SUFFICES ASSUME NEW s \in SUBSET U, s # {}
                 PROVE  g[s \ {First(s)}] = h(s \ {First(s)})[s \ {First(s)}]
      OBVIOUS
    <3> DEFINE t == s \ {First(s)}
    <3>1. First(s) \in s BY FirstIsElement
    <3>2. t \in SUBSET U /\ t # U BY <3>1
    <3> HIDE DEF t
    <3>3. IsSum(h(t), f, t) BY <2>2, <3>2
    <3>4. h(t)[t] = IF t = {} THEN 0 ELSE f[First(t)] + h(t)[t \ {First(t)}]
      BY <3>3, IsSumAt
    <3>5. CASE t = {}
      BY <3>4, <3>5, <3>2 DEF t
    <3>6. CASE t # {}
      <4> DEFINE u == t \ {First(t)}
      <4>1. First(t) \in t BY <3>6, FirstIsElement
      <4>2. u \in SUBSET U /\ u # U /\ u \in SUBSET t BY <4>1, <3>2
      <4>3. IsSum(h(u), f, u) BY <2>2, <4>2
      <4>4. IsFiniteSet(u) BY <4>2, FS_Subset
      <4>5. h(t)[u] = h(u)[u]
        <5> HIDE DEF u
        <5> QED BY <3>3, <4>2, <4>3, <4>4, SumsAgree
      <4>6. g[t] = f[First(t)] + h(u)[u] BY <3>2, <3>6
      <4>7. h(t)[t] = f[First(t)] + h(t)[u] BY <3>4, <3>6
      <4>8. g[t] = h(t)[t] BY <4>5, <4>6, <4>7
      <4> QED BY <4>8 DEF t
    <3> QED BY <3>5, <3>6
  <2>4. g = [s \in SUBSET U |-> IF s = {} THEN 0 ELSE f[First(s)] + g[s \ {First(s)}]]
    <3>1. \A s \in SUBSET U :
            (IF s = {} THEN 0 ELSE f[First(s)] + h(s \ {First(s)})[s \ {First(s)}])
              = IF s = {} THEN 0 ELSE f[First(s)] + g[s \ {First(s)}]
      <4> HIDE DEF g
      <4> QED BY <2>3
    <3> QED BY <3>1
  <2>5. \E w : IsSum(w, f, U)
    <3> HIDE DEF g
    <3> QED BY <2>4 DEF IsSum
  <2> QED BY <2>1, <2>5
<1> HIDE DEF Q
<1>3. \A U \in SUBSET S : U \in Q BY <1>1, <1>2, SubsetInduction
<1>4. S \in Q BY <1>3
<1> QED BY <1>4 DEF Q

\* It gives the sum of each of the subsets.
LEMMA FoldIsSum ==
  ASSUME NEW S, IsFiniteSet(S), NEW f, NEW g, NEW A, IsSum(g, f, A), S \in SUBSET A
  PROVE  g[S] = SumOver(f, S)
<1>1. IsSum(CHOOSE h : IsSum(h, f, S), f, S)
  BY SumExists
<1> QED BY <1>1, SumsAgree DEF SumOver

\* The sum, one element at a time.
LEMMA SumUnfolds ==
  ASSUME NEW S, IsFiniteSet(S), NEW f
  PROVE  SumOver(f, S) = IF S = {} THEN 0 ELSE f[First(S)] + SumOver(f, S \ {First(S)})
<1>1. PICK g : IsSum(g, f, S) BY SumExists
<1>2. g[S] = SumOver(f, S) BY <1>1, FoldIsSum
<1>3. S \ {First(S)} \in SUBSET S /\ IsFiniteSet(S \ {First(S)}) BY FS_RemoveElement
<1>4. g[S \ {First(S)}] = SumOver(f, S \ {First(S)}) BY <1>1, <1>3, FoldIsSum
<1>5. g[S] = IF S = {} THEN 0 ELSE f[First(S)] + g[S \ {First(S)}]
  BY <1>1, IsSumAt
<1> QED BY <1>2, <1>4, <1>5

\* A sum of integers is an integer.
LEMMA SumIsInteger ==
  ASSUME NEW S, IsFiniteSet(S), NEW f, \A x \in S : f[x] \in Int
  PROVE  SumOver(f, S) \in Int
<1> DEFINE Q == {U \in SUBSET S : SumOver(f, U) \in Int}
<1>1. {} \in Q
  BY SumUnfolds, FS_EmptySet
<1>2. ASSUME NEW U \in SUBSET S, U # {}, \A x \in U : U \ {x} \in Q
      PROVE  U \in Q
  <2>1. First(U) \in U /\ IsFiniteSet(U) BY <1>2, FirstIsElement, FS_Subset
  <2>2. SumOver(f, U) = f[First(U)] + SumOver(f, U \ {First(U)}) BY <1>2, <2>1, SumUnfolds
  <2>3. SumOver(f, U \ {First(U)}) \in Int /\ f[First(U)] \in Int BY <1>2, <2>1
  <2> QED BY <2>2, <2>3
<1> HIDE DEF Q
<1>3. \A U \in SUBSET S : U \in Q BY <1>1, <1>2, SubsetInduction
<1>4. S \in Q BY <1>3
<1> QED BY <1>4 DEF Q

\* Any element may be added first.
LEMMA SumSplits ==
  ASSUME NEW S, IsFiniteSet(S), NEW f, \A x \in S : f[x] \in Int, NEW x \in S
  PROVE  SumOver(f, S) = f[x] + SumOver(f, S \ {x})
<1> DEFINE Q == {U \in SUBSET S : \A y \in U : SumOver(f, U) = f[y] + SumOver(f, U \ {y})}
<1>1. {} \in Q
  OBVIOUS
<1>2. ASSUME NEW U \in SUBSET S, U # {}, \A y \in U : U \ {y} \in Q
      PROVE  U \in Q
  <2> DEFINE c == First(U)
  <2>1. c \in U /\ IsFiniteSet(U) BY <1>2, FirstIsElement, FS_Subset
  <2>2. SumOver(f, U) = f[c] + SumOver(f, U \ {c}) BY <1>2, <2>1, SumUnfolds
  <2> HIDE DEF c
  <2> SUFFICES ASSUME NEW y \in U PROVE SumOver(f, U) = f[y] + SumOver(f, U \ {y})
    OBVIOUS
  <2>3. CASE y = c
    BY <2>2, <2>3
  <2>4. CASE y # c
    <3>1. y \in U \ {c} /\ c \in U \ {y} BY <2>1, <2>4
    <3>2. SumOver(f, U \ {c}) = f[y] + SumOver(f, (U \ {c}) \ {y})
      BY <1>2, <2>1, <3>1
    <3>3. SumOver(f, U \ {y}) = f[c] + SumOver(f, (U \ {y}) \ {c})
      BY <1>2, <2>1, <3>1
    <3>4. (U \ {c}) \ {y} = (U \ {y}) \ {c} OBVIOUS
    <3>5. IsFiniteSet((U \ {y}) \ {c}) BY <2>1, FS_RemoveElement
    <3>6. SumOver(f, (U \ {y}) \ {c}) \in Int BY <3>5, SumIsInteger
    <3>7. f[y] \in Int /\ f[c] \in Int BY <2>1
    <3> DEFINE rest == SumOver(f, (U \ {y}) \ {c})
    <3>8. /\ SumOver(f, U) = f[c] + SumOver(f, U \ {c}) /\ SumOver(f, U \ {c}) = f[y] + rest
          /\ SumOver(f, U \ {y}) = f[c] + rest /\ rest \in Int
      BY <2>2, <3>2, <3>3, <3>4, <3>6
    <3> HIDE DEF rest
    <3> QED BY <3>7, <3>8
  <2> QED BY <2>3, <2>4
<1> HIDE DEF Q
<1>3. \A U \in SUBSET S : U \in Q BY <1>1, <1>2, SubsetInduction
<1>4. S \in Q BY <1>3
<1> QED BY <1>4 DEF Q

\* What adds nothing may be left out.
LEMMA SumWithoutZeros ==
  ASSUME NEW S, IsFiniteSet(S), NEW f, \A x \in S : f[x] \in Int,
         NEW T \in SUBSET S, \A x \in S \ T : f[x] = 0
  PROVE  SumOver(f, S) = SumOver(f, T)
<1> DEFINE Q == {U \in SUBSET (S \ T) : SumOver(f, T \cup U) = SumOver(f, T)}
<1>1. {} \in Q
  OBVIOUS
<1>2. ASSUME NEW U \in SUBSET (S \ T), U # {}, \A y \in U : U \ {y} \in Q
      PROVE  U \in Q
  <2>1. PICK y \in U : TRUE BY <1>2
  <2>2. y \in T \cup U /\ T \cup U \in SUBSET S /\ (T \cup U) \ {y} = T \cup (U \ {y}) BY <2>1
  <2>3. IsFiniteSet(T \cup U) BY <2>2, FS_Subset
  <2>4. SumOver(f, T \cup U) = f[y] + SumOver(f, (T \cup U) \ {y})
    BY <2>2, <2>3, SumSplits
  <2>5. SumOver(f, T \cup (U \ {y})) = SumOver(f, T) BY <1>2, <2>1
  <2>6. f[y] = 0 BY <2>1
  <2>7. SumOver(f, T) \in Int BY FS_Subset, SumIsInteger
  <2>8. SumOver(f, T \cup U) = 0 + SumOver(f, T) BY <2>2, <2>4, <2>5, <2>6
  <2> QED BY <2>7, <2>8
<1> DEFINE R == S \ T
<1>3. IsFiniteSet(R) BY FS_Difference
<1>4. \A U \in SUBSET (S \ T) : U \in Q
  <2>1. {} \in Q /\ \A U \in SUBSET R : U # {} /\ (\A y \in U : U \ {y} \in Q) => U \in Q
    BY <1>1, <1>2
  <2> SUFFICES \A U \in SUBSET R : U \in Q
    OBVIOUS
  <2> HIDE DEF R, Q
  <2> QED BY <2>1, <1>3, SubsetInduction
<1> HIDE DEF Q
<1>5. S \ T \in Q BY <1>4
<1>6. T \cup (S \ T) = S OBVIOUS
<1> QED BY <1>5, <1>6 DEF Q

\* The sum over the image of an injection, element by element.
LEMMA SumOfImage ==
  ASSUME NEW S, IsFiniteSet(S), NEW h, \A x, y \in S : h[x] = h[y] => x = y,
         NEW f, NEW g, \A x \in S : f[x] \in Int /\ g[h[x]] = f[x]
  PROVE  SumOver(g, {h[x] : x \in S}) = SumOver(f, S)
<1> DEFINE Image(U) == {h[x] : x \in U}
           Q == {U \in SUBSET S : SumOver(g, Image(U)) = SumOver(f, U)}
<1>1. {} \in Q
  <2>1. Image({}) = {} OBVIOUS
  <2>2. SumOver(g, {}) = 0 /\ SumOver(f, {}) = 0 BY SumUnfolds, FS_EmptySet
  <2> QED BY <2>1, <2>2
<1>2. ASSUME NEW U \in SUBSET S, U # {}, \A y \in U : U \ {y} \in Q
      PROVE  U \in Q
  <2>1. PICK y \in U : TRUE BY <1>2
  <2>2. IsFiniteSet(U) BY FS_Subset
  <2>3. SumOver(f, U) = f[y] + SumOver(f, U \ {y}) BY <2>2, SumSplits
  <2>4. SumOver(g, Image(U \ {y})) = SumOver(f, U \ {y}) BY <1>2
  <2>5. IsFiniteSet(Image(U))
    <3>1. [x \in U |-> h[x]] \in Surjection(U, Image(U)) BY DEF Surjection
    <3> QED BY <2>2, <3>1, FS_Surjection
  <2>6. h[y] \in Image(U) OBVIOUS
  <2>7. Image(U) \ {h[y]} = Image(U \ {y}) BY <2>1
  <2>8. \A z \in Image(U) : g[z] \in Int OBVIOUS
  <2> HIDE DEF Image
  <2>9. SumOver(g, Image(U)) = g[h[y]] + SumOver(g, Image(U) \ {h[y]})
    BY <2>5, <2>6, <2>8, SumSplits
  <2>10. g[h[y]] = f[y] OBVIOUS
  <2> QED BY <2>3, <2>4, <2>7, <2>9, <2>10
<1> HIDE DEF Q
<1>3. \A U \in SUBSET S : U \in Q BY <1>1, <1>2, SubsetInduction
<1>4. S \in Q BY <1>3
<1> QED BY <1>4 DEF Q

\* A sum depends on the summands only.
LEMMA SumsOfEquals ==
  ASSUME NEW S, IsFiniteSet(S), NEW f, NEW g, \A x \in S : f[x] = g[x] /\ g[x] \in Int
  PROVE  SumOver(f, S) = SumOver(g, S)
<1> DEFINE h == [x \in S |-> x]
<1>1. {h[x] : x \in S} = S OBVIOUS
<1>2. \A x, y \in S : h[x] = h[y] => x = y OBVIOUS
<1>3. \A x \in S : f[x] \in Int /\ g[h[x]] = f[x] OBVIOUS
<1> HIDE DEF h
<1>4. SumOver(g, {h[x] : x \in S}) = SumOver(f, S) BY <1>2, <1>3, SumOfImage
<1> QED BY <1>1, <1>4

\* The sum over two sets that have nothing in common.
LEMMA SumOfUnion ==
  ASSUME NEW S, IsFiniteSet(S), NEW T, IsFiniteSet(T), S \cap T = {},
         NEW f, \A x \in S \cup T : f[x] \in Int
  PROVE  SumOver(f, S \cup T) = SumOver(f, S) + SumOver(f, T)
<1> DEFINE Q == {U \in SUBSET T : SumOver(f, S \cup U) = SumOver(f, S) + SumOver(f, U)}
<1>1. SumOver(f, S) \in Int
  BY SumIsInteger
<1>2. {} \in Q
  <2>1. SumOver(f, {}) = 0 BY SumUnfolds, FS_EmptySet
  <2>2. S \cup {} = S OBVIOUS
  <2> QED BY <1>1, <2>1, <2>2
<1>3. ASSUME NEW U \in SUBSET T, U # {}, \A x \in U : U \ {x} \in Q
      PROVE  U \in Q
  <2>1. PICK x \in U : TRUE BY <1>3
  <2>2. /\ IsFiniteSet(U) /\ IsFiniteSet(S \cup U) /\ IsFiniteSet(U \ {x})
    BY FS_Subset, FS_Union, FS_RemoveElement
  <2>3. x \in S \cup U /\ (S \cup U) \ {x} = S \cup (U \ {x}) BY <2>1
  <2>4. SumOver(f, S \cup U) = f[x] + SumOver(f, S \cup (U \ {x}))
    <3>1. SumOver(f, S \cup U) = f[x] + SumOver(f, (S \cup U) \ {x})
      BY <2>2, <2>3, SumSplits
    <3> QED BY <2>3, <3>1
  <2>5. SumOver(f, U) = f[x] + SumOver(f, U \ {x}) BY <2>1, <2>2, SumSplits
  <2>6. SumOver(f, S \cup (U \ {x})) = SumOver(f, S) + SumOver(f, U \ {x}) BY <1>3, <2>1
  <2>7. SumOver(f, U \ {x}) \in Int /\ f[x] \in Int BY <2>1, <2>2, SumIsInteger
  <2>8. SumOver(f, S \cup U) = SumOver(f, S) + SumOver(f, U)
    BY <1>1, <2>4, <2>5, <2>6, <2>7
  <2> QED BY <2>8
<1> HIDE DEF Q
<1>4. \A U \in SUBSET T : U \in Q BY <1>2, <1>3, SubsetInduction
<1>5. T \in Q BY <1>4
<1> QED BY <1>5 DEF Q

\* A sum of sums of two summands.
LEMMA SumOfTwo ==
  ASSUME NEW S, IsFiniteSet(S), NEW f, NEW g, NEW h,
         \A x \in S : f[x] \in Int /\ g[x] \in Int /\ h[x] = f[x] + g[x]
  PROVE  SumOver(h, S) = SumOver(f, S) + SumOver(g, S)
<1> DEFINE Q == {U \in SUBSET S : SumOver(h, U) = SumOver(f, U) + SumOver(g, U)}
<1>1. {} \in Q
  <2>1. SumOver(f, {}) = 0 /\ SumOver(g, {}) = 0 /\ SumOver(h, {}) = 0 BY SumUnfolds, FS_EmptySet
  <2> QED BY <2>1
<1>2. ASSUME NEW U \in SUBSET S, U # {}, \A x \in U : U \ {x} \in Q
      PROVE  U \in Q
  <2>1. PICK x \in U : TRUE BY <1>2
  <2>2. IsFiniteSet(U) /\ IsFiniteSet(U \ {x}) BY FS_Subset, FS_RemoveElement
  <2>3. \A y \in S : h[y] \in Int OBVIOUS
  <2>4. SumOver(f, U) = f[x] + SumOver(f, U \ {x}) BY <2>2, SumSplits
  <2>5. SumOver(g, U) = g[x] + SumOver(g, U \ {x}) BY <2>2, SumSplits
  <2>6. SumOver(h, U) = h[x] + SumOver(h, U \ {x}) BY <2>2, <2>3, SumSplits
  <2>7. SumOver(h, U \ {x}) = SumOver(f, U \ {x}) + SumOver(g, U \ {x}) BY <1>2
  <2>8. SumOver(f, U \ {x}) \in Int /\ SumOver(g, U \ {x}) \in Int BY <2>2, SumIsInteger
  <2>9. f[x] \in Int /\ g[x] \in Int /\ h[x] = f[x] + g[x] OBVIOUS
  <2>10. SumOver(h, U) = SumOver(f, U) + SumOver(g, U)
    BY <2>4, <2>5, <2>6, <2>7, <2>8, <2>9
  <2> QED BY <2>10
<1> HIDE DEF Q
<1>3. \A U \in SUBSET S : U \in Q BY <1>1, <1>2, SubsetInduction
<1>4. S \in Q BY <1>3
<1> QED BY <1>4 DEF Q

\* A factor of all summands is one of the sum.
LEMMA SumScaled ==
  ASSUME NEW S, IsFiniteSet(S), NEW f, NEW g, NEW n \in Int,
         \A x \in S : f[x] \in Int /\ g[x] = f[x] * n
  PROVE  SumOver(g, S) = SumOver(f, S) * n
<1> DEFINE Q == {U \in SUBSET S : SumOver(g, U) = SumOver(f, U) * n}
<1>1. {} \in Q
  <2>1. SumOver(f, {}) = 0 /\ SumOver(g, {}) = 0 BY SumUnfolds, FS_EmptySet
  <2> QED BY <2>1
<1>2. ASSUME NEW U \in SUBSET S, U # {}, \A x \in U : U \ {x} \in Q
      PROVE  U \in Q
  <2>1. PICK x \in U : TRUE BY <1>2
  <2>2. IsFiniteSet(U) /\ IsFiniteSet(U \ {x}) BY FS_Subset, FS_RemoveElement
  <2>3. \A y \in S : g[y] \in Int OBVIOUS
  <2>4. SumOver(f, U) = f[x] + SumOver(f, U \ {x}) BY <2>2, SumSplits
  <2>5. SumOver(g, U) = g[x] + SumOver(g, U \ {x}) BY <2>2, <2>3, SumSplits
  <2>6. SumOver(g, U \ {x}) = SumOver(f, U \ {x}) * n BY <1>2
  <2>7. SumOver(f, U \ {x}) \in Int BY <2>2, SumIsInteger
  <2>8. f[x] \in Int /\ g[x] = f[x] * n OBVIOUS
  <2> DEFINE rest == SumOver(f, U \ {x})
  <2>9. \A a, b \in Int : a * n + b * n = (a + b) * n OBVIOUS
  <2>10. SumOver(g, U) = SumOver(f, U) * n
    <3> HIDE DEF rest
    <3>1. SumOver(g, U) = f[x] * n + rest * n BY <2>5, <2>6, <2>8 DEF rest
    <3>2. SumOver(f, U) = f[x] + rest /\ rest \in Int BY <2>4, <2>7 DEF rest
    <3> QED BY <2>8, <2>9, <3>1, <3>2
  <2> QED BY <2>10
<1> HIDE DEF Q
<1>3. \A U \in SUBSET S : U \in Q BY <1>1, <1>2, SubsetInduction
<1>4. S \in Q BY <1>3
<1> QED BY <1>4 DEF Q

\* A column of a table.
Column(f, S, y) == [x \in S |-> f[x][y]]

\* A table adds up by rows as it does by columns.
LEMMA SumsSwap ==
  ASSUME NEW S, IsFiniteSet(S), NEW T, IsFiniteSet(T), NEW f, NEW rows, NEW columns,
         \A x \in S, y \in T : f[x][y] \in Int,
         \A x \in S : rows[x] = SumOver(f[x], T),
         \A y \in T : columns[y] = SumOver(Column(f, S, y), S)
  PROVE  SumOver(rows, S) = SumOver(columns, T)
<1> USE DEF Column
<1> DEFINE column(U) == [y \in T |-> SumOver([x \in S |-> f[x][y]], U)]
           Q == {U \in SUBSET S : SumOver(rows, U) = SumOver(column(U), T)}
<1>1. \A x \in S : rows[x] \in Int
  BY SumIsInteger
<1>2. \A U \in SUBSET S, y \in T : SumOver([x \in S |-> f[x][y]], U) \in Int
  <2> SUFFICES ASSUME NEW U \in SUBSET S, NEW y \in T
               PROVE  SumOver([x \in S |-> f[x][y]], U) \in Int
    OBVIOUS
  <2> DEFINE c == [x \in S |-> f[x][y]]
  <2>1. IsFiniteSet(U) /\ \A x \in U : c[x] \in Int BY FS_Subset
  <2> HIDE DEF c
  <2>2. SumOver(c, U) \in Int BY <2>1, SumIsInteger
  <2> QED BY <2>2 DEF c
<1>3. {} \in Q
  <2>1. \A y \in T : column({})[y] = 0 BY SumUnfolds, FS_EmptySet
  <2> DEFINE zero == column({})
  <2>2. SumOver(zero, T) = SumOver(zero, {})
    <3>1. \A y \in T : zero[y] = 0 BY <2>1
    <3> HIDE DEF zero
    <3> QED BY <3>1, SumWithoutZeros
  <2>3. SumOver(zero, {}) = 0 /\ SumOver(rows, {}) = 0 BY SumUnfolds, FS_EmptySet
  <2> QED BY <2>2, <2>3
<1>4. ASSUME NEW U \in SUBSET S, U # {}, \A x \in U : U \ {x} \in Q
      PROVE  U \in Q
  <2>1. PICK u \in U : TRUE BY <1>4
  <2>2. IsFiniteSet(U) BY FS_Subset
  <2>3. SumOver(rows, U) = rows[u] + SumOver(rows, U \ {u}) BY <1>1, <2>2, SumSplits
  <2>4. SumOver(rows, U \ {u}) = SumOver(column(U \ {u}), T) BY <1>4
  <2>5. \A y \in T : column(U)[y] = f[u][y] + column(U \ {u})[y]
    <3> SUFFICES ASSUME NEW y \in T
                 PROVE  SumOver([x \in S |-> f[x][y]], U)
                          = f[u][y] + SumOver([x \in S |-> f[x][y]], U \ {u})
      OBVIOUS
    <3> DEFINE c == [x \in S |-> f[x][y]]
    <3>1. \A x \in U : c[x] \in Int OBVIOUS
    <3>2. c[u] = f[u][y] OBVIOUS
    <3> HIDE DEF c
    <3>3. SumOver(c, U) = c[u] + SumOver(c, U \ {u}) BY <2>2, <3>1, SumSplits
    <3> QED BY <3>2, <3>3 DEF c
  <2>6. \A y \in T : column(U \ {u})[y] \in Int BY <1>2
  <2> DEFINE whole == column(U)
             rest == column(U \ {u})
             row == f[u]
  <2>7. \A y \in T : row[y] \in Int /\ rest[y] \in Int /\ whole[y] = row[y] + rest[y]
    BY <2>5, <2>6
  <2>8. rows[u] = SumOver(row, T) /\ SumOver(rows, U \ {u}) = SumOver(rest, T) BY <2>4
  <2>9. SumOver(rows, U) = SumOver(whole, T)
    <3> HIDE DEF whole, rest, row
    <3>1. SumOver(whole, T) = SumOver(row, T) + SumOver(rest, T) BY <2>7, SumOfTwo
    <3> QED BY <2>3, <2>8, <3>1
  <2> QED BY <2>9
<1>5. \A U \in SUBSET S : U \in Q
  <2> HIDE DEF Q
  <2> QED BY <1>3, <1>4, SubsetInduction
<1>6. SumOver(rows, S) = SumOver(column(S), T) BY <1>5
<1> DEFINE all == column(S)
<1>7. \A y \in T : columns[y] = all[y] /\ all[y] \in Int BY <1>2
<1>8. SumOver(columns, T) = SumOver(all, T)
  <2> HIDE DEF all
  <2> QED BY <1>7, SumsOfEquals
<1> QED BY <1>6, <1>8

\* What a function makes of a finite set is finite.
LEMMA ImageIsFinite ==
  ASSUME NEW S, IsFiniteSet(S), NEW h
  PROVE  IsFiniteSet({h[x] : x \in S})
<1> DEFINE T == {h[x] : x \in S}
<1>1. [x \in S |-> h[x]] \in Surjection(S, T) BY DEF Surjection
<1> QED BY <1>1, FS_Surjection

\* What has a key.
Keyed(S, key, a) == {x \in S : key[x] = a}

\* The sum over a set is the sum of those over the parts of it that have each key.
LEMMA SumOfParts ==
  ASSUME NEW A, IsFiniteSet(A), NEW S, IsFiniteSet(S), NEW key, NEW f, NEW parts,
         \A x \in S : key[x] \in A /\ f[x] \in Int,
         \A a \in A : parts[a] = SumOver(f, Keyed(S, key, a))
  PROVE  SumOver(parts, A) = SumOver(f, S)
<1> DEFINE Part(U) == {x \in S : key[x] \in U}
           Q == {U \in SUBSET A : SumOver(parts, U) = SumOver(f, Part(U))}
<1>1. \A U : Part(U) \in SUBSET S /\ IsFiniteSet(Part(U))
  BY FS_Subset
<1>2. \A a \in A : parts[a] = SumOver(f, Part({a})) /\ parts[a] \in Int
  <2> SUFFICES ASSUME NEW a \in A
               PROVE  parts[a] = SumOver(f, Part({a})) /\ parts[a] \in Int
    OBVIOUS
  <2>1. Part({a}) = Keyed(S, key, a) BY DEF Keyed
  <2>2. \A x \in Part({a}) : f[x] \in Int OBVIOUS
  <2>3. SumOver(f, Part({a})) \in Int
    <3> HIDE DEF Part
    <3> QED BY <1>1, <2>2, SumIsInteger
  <2> QED BY <2>1, <2>3
<1>3. {} \in Q
  <2>1. Part({}) = {} OBVIOUS
  <2>2. SumOver(parts, {}) = 0 /\ SumOver(f, {}) = 0 BY SumUnfolds, FS_EmptySet
  <2> QED BY <2>1, <2>2
<1>4. ASSUME NEW U \in SUBSET A, U # {}, \A a \in U : U \ {a} \in Q
      PROVE  U \in Q
  <2>1. PICK a \in U : TRUE BY <1>4
  <2>2. IsFiniteSet(U) /\ \A b \in U : parts[b] \in Int BY <1>2, FS_Subset
  <2>3. SumOver(parts, U) = parts[a] + SumOver(parts, U \ {a}) BY <2>2, SumSplits
  <2>4. SumOver(parts, U \ {a}) = SumOver(f, Part(U \ {a})) BY <1>4
  <2>5. /\ Part({a}) \cup Part(U \ {a}) = Part(U) /\ Part({a}) \cap Part(U \ {a}) = {}
        /\ \A x \in Part({a}) \cup Part(U \ {a}) : f[x] \in Int
    OBVIOUS
  <2>6. SumOver(f, Part(U)) = SumOver(f, Part({a})) + SumOver(f, Part(U \ {a}))
    <3>1. IsFiniteSet(Part({a})) /\ IsFiniteSet(Part(U \ {a})) BY <1>1
    <3> DEFINE V == Part({a})
               W == Part(U \ {a})
    <3>2. SumOver(f, V \cup W) = SumOver(f, V) + SumOver(f, W)
      <4>1. V \cap W = {} /\ \A x \in V \cup W : f[x] \in Int BY <2>5
      <4>2. IsFiniteSet(V) /\ IsFiniteSet(W) BY <3>1
      <4> HIDE DEF V, W
      <4> QED BY <4>1, <4>2, SumOfUnion
    <3> QED BY <2>5, <3>2
  <2>7. SumOver(parts, U) = SumOver(f, Part(U))
    <3> HIDE DEF Part, Q
    <3> QED BY <1>2, <2>3, <2>4, <2>6
  <2> QED BY <2>7
<1> HIDE DEF Q
<1>5. A \in Q BY <1>3, <1>4, SubsetInduction
<1>6. SumOver(parts, A) = SumOver(f, Part(A)) BY <1>5 DEF Q
<1>7. Part(A) = S OBVIOUS
<1> QED BY <1>6, <1>7

-----------------------------------------------------------------------------
(* Folds *)

\* Induction up to a number: Q is the set of those for which the claim holds.
LEMMA CountUp ==
  ASSUME NEW N \in Nat, NEW Q, 0 \in Q, \A n \in 1..N : n - 1 \in Q => n \in Q
  PROVE  \A n \in 0..N : n \in Q
<1> DEFINE Bad == {n \in 0..N : n \notin Q}
<1> SUFFICES ASSUME Bad # {} PROVE FALSE
  OBVIOUS
<1>1. Bad \subseteq Nat OBVIOUS
<1>2. PICK n \in Bad : \A m \in Bad : ~(<<m, n>> \in OpToRel(<, Nat))
  <2> HIDE DEF Bad
  <2> QED BY <1>1, NatLessThanWellFounded, WFMin
<1>3. n \in 1..N /\ n - 1 \in 0..N OBVIOUS
<1>4. n - 1 \in Bad BY <1>3
<1>5. <<n - 1, n>> \in OpToRel(<, Nat) BY <1>3 DEF OpToRel
<1> QED BY <1>2, <1>4, <1>5

\* A set of indices has a largest one.
LEMMA MaxOfIndices ==
  ASSUME NEW N \in Nat, NEW s \in SUBSET (1..N), s # {}
  PROVE  Max(s) \in s /\ \A i \in s : i <= Max(s)
<1> DEFINE Q == {n \in 0..N : \A u \in SUBSET (1..n) : u # {} => \E x \in u : \A y \in u : x >= y}
<1>1. 0 \in Q
  <2>1. 1..0 = {} /\ 0 \in 0..N OBVIOUS
  <2>2. \A u \in SUBSET (1..0) : u # {} => \E x \in u : \A y \in u : x >= y
    <3> SUFFICES ASSUME NEW u \in SUBSET (1..0), u # {} PROVE FALSE
      OBVIOUS
    <3> QED BY <2>1
  <2> QED BY <2>1, <2>2
<1>2. ASSUME NEW n \in 1..N, n - 1 \in Q PROVE n \in Q
  <2> SUFFICES ASSUME NEW u \in SUBSET (1..n), u # {} PROVE \E x \in u : \A y \in u : x >= y
    OBVIOUS
  <2>1. CASE n \in u BY <2>1
  <2>2. CASE n \notin u
    <3>1. u \in SUBSET (1..(n - 1)) BY <2>2
    <3> QED BY <1>2, <3>1
  <2> QED BY <2>1, <2>2
<1> HIDE DEF Q
<1>3. N \in Q BY <1>1, <1>2, CountUp
<1>4. \E x \in s : \A y \in s : x >= y BY <1>3 DEF Q
<1>5. Max(s) \in s /\ \A y \in s : Max(s) >= y BY <1>4 DEF Max
<1> QED BY <1>5

\* g gives the fold of step along each subset of the indices of a sequence.
IsFold(g, step, base, seq, n) ==
  g = [s \in SUBSET (1..n) |-> IF s = {} THEN base ELSE step[<<g[s \ {Max(s)}], seq[Max(s)]>>]]

\* Step stays in T when it takes an element of X.
StaysIn(step, T, X) == \A t \in T, x \in X : step[<<t, x>>] \in T

LEMMA FoldExists ==
  ASSUME NEW T, NEW X, NEW base \in T, NEW seq \in Seq(X), NEW step, StaysIn(step, T, X)
  PROVE  \E g \in [SUBSET DOMAIN seq -> T] : IsFold(g, step, base, seq, Len(seq))
<1> DEFINE N == Len(seq)
           Q == {n \in 0..N : \E g \in [SUBSET (1..n) -> T] : IsFold(g, step, base, seq, n)}
<1>1. N \in Nat /\ DOMAIN seq = 1..N /\ \A i \in 1..N : seq[i] \in X OBVIOUS
<1>2. 0 \in Q
  <2>1. 1..0 = {} /\ 0 \in 0..N BY <1>1
  <2> DEFINE g == [s \in SUBSET {} |-> base]
  <2>2. g = [s \in SUBSET {} |-> IF s = {} THEN base ELSE step[<<g[s \ {Max(s)}], seq[Max(s)]>>]]
    OBVIOUS
  <2>3. IsFold(g, step, base, seq, 0) BY <2>1, <2>2 DEF IsFold
  <2>4. g \in [SUBSET (1..0) -> T] BY <2>1
  <2> QED BY <2>1, <2>3, <2>4
<1>3. ASSUME NEW n \in 1..N, n - 1 \in Q PROVE n \in Q
  <2>1. PICK g \in [SUBSET (1..(n - 1)) -> T] : IsFold(g, step, base, seq, n - 1) BY <1>3
  <2> DEFINE h == [s \in SUBSET (1..n) |-> IF n \in s THEN step[<<g[s \ {n}], seq[n]>>] ELSE g[s]]
  <2>2. \A s \in SUBSET (1..n) : /\ n \in s => s \ {n} \in SUBSET (1..(n - 1))
                                 /\ n \notin s => s \in SUBSET (1..(n - 1))
    OBVIOUS
  <2>3. seq[n] \in X BY <1>1
  <2>4. h \in [SUBSET (1..n) -> T] BY <2>2, <2>3 DEF StaysIn
  <2>5. ASSUME NEW s \in SUBSET (1..n)
        PROVE  h[s] = IF s = {} THEN base ELSE step[<<h[s \ {Max(s)}], seq[Max(s)]>>]
    <3>1. CASE n \in s
      <4>1. Max(s) = n
        <5>1. s # {} /\ n \in Nat BY <3>1, <1>1
        <5>2. Max(s) \in s /\ \A i \in s : i <= Max(s) BY <5>1, MaxOfIndices
        <5>3. Max(s) \in 1..n /\ n <= Max(s) BY <3>1, <5>2
        <5> QED BY <5>1, <5>3
      <4>2. n \notin s \ {n} /\ s \ {n} \in SUBSET (1..n) OBVIOUS
      <4>3. h[s \ {n}] = g[s \ {n}] BY <4>2
      <4> QED BY <3>1, <4>1, <4>3
    <3>2. CASE n \notin s
      <4>1. s \in SUBSET (1..(n - 1)) BY <2>2, <3>2
      <4>2. g[s] = IF s = {} THEN base ELSE step[<<g[s \ {Max(s)}], seq[Max(s)]>>]
        BY <2>1, <4>1 DEF IsFold
      <4>3. n \notin s \ {Max(s)} /\ s \ {Max(s)} \in SUBSET (1..n) BY <3>2
      <4>4. h[s] = g[s] /\ h[s \ {Max(s)}] = g[s \ {Max(s)}] BY <3>2, <4>3
      <4> QED BY <4>2, <4>4
    <3> QED BY <3>1, <3>2
  <2>6. h = [s \in SUBSET (1..n) |-> h[s]] OBVIOUS
  <2> HIDE DEF h
  <2>7. IsFold(h, step, base, seq, n) BY <2>5, <2>6 DEF IsFold
  <2> QED BY <2>4, <2>7
<1>4. N \in Q
  <2> HIDE DEF Q, N
  <2> QED BY <1>1, <1>2, <1>3, CountUp
<1> QED BY <1>1, <1>4 DEF Q

\* The states a fold runs through.
Runs(run, T, step, base, seq) ==
  /\ run \in [0..Len(seq) -> T]
  /\ run[0] = base
  /\ \A n \in 1..Len(seq) : run[n] = step[<<run[n - 1], seq[n]>>]

\* h folds by step, as long as it stays in T.
FoldsBy(h, T, step, base, seq) ==
  /\ h[{}] = base
  /\ \A s \in SUBSET DOMAIN seq :
       s # {} /\ h[s \ {Max(s)}] \in T => h[s] = step[<<h[s \ {Max(s)}], seq[Max(s)]>>]

\* What folds by step along prefixes, is a run of it.
LEMMA FoldRuns ==
  ASSUME NEW T, NEW X, NEW base \in T, NEW seq \in Seq(X), NEW step, StaysIn(step, T, X),
         NEW h, FoldsBy(h, T, step, base, seq)
  PROVE  \E run : Runs(run, T, step, base, seq) /\ run[Len(seq)] = h[DOMAIN seq]
<1> DEFINE N == Len(seq)
           Q == {n \in 0..N : h[1..n] \in T /\ (n > 0 => h[1..n] = step[<<h[1..(n - 1)], seq[n]>>])}
           run == [n \in 0..N |-> h[1..n]]
<1>1. N \in Nat /\ DOMAIN seq = 1..N /\ \A i \in 1..N : seq[i] \in X OBVIOUS
<1>2. 1..0 = {} OBVIOUS
<1>3. 0 \in Q BY <1>1, <1>2 DEF FoldsBy
<1>4. ASSUME NEW n \in 1..N, n - 1 \in Q PROVE n \in Q
  <2> USE DEF FoldsBy
  <2> DEFINE first == 1..n
  <2>1. n \in Nat /\ first \in SUBSET DOMAIN seq /\ first \in SUBSET (1..n) /\ first # {} /\ n \in first
    <3>1. n \in 1..n /\ n \in Nat /\ 1..n \subseteq 1..N BY <1>1
    <3> QED BY <3>1, <1>1
  <2>2. Max(1..n) = n
    <3>1. Max(first) \in first /\ \A i \in first : i <= Max(first)
      <4> HIDE DEF first
      <4> QED BY <2>1, MaxOfIndices
    <3> QED BY <3>1, <2>1
  <2>3. (1..n) \ {n} = 1..(n - 1) OBVIOUS
  <2>4. h[1..(n - 1)] \in T BY <1>4
  <2>5. h[1..n] = step[<<h[1..(n - 1)], seq[n]>>] BY <2>1, <2>2, <2>3, <2>4
  <2> QED BY <1>1, <2>4, <2>5 DEF StaysIn
<1> HIDE DEF Q
<1>5. \A n \in 0..N : n \in Q BY <1>1, <1>3, <1>4, CountUp
<1>6. \A n \in 0..N : h[1..n] \in T /\ (n > 0 => h[1..n] = step[<<h[1..(n - 1)], seq[n]>>])
  BY <1>5 DEF Q
<1>7. Runs(run, T, step, base, seq)
  <2>1. run \in [0..N -> T] BY <1>6
  <2>2. run[0] = base BY <1>1, <1>2 DEF FoldsBy
  <2>3. ASSUME NEW n \in 1..N PROVE run[n] = step[<<run[n - 1], seq[n]>>]
    <3>1. n \in 0..N /\ n - 1 \in 0..N /\ n > 0 BY <1>1
    <3> QED BY <1>6, <3>1
  <2> HIDE DEF run
  <2> QED BY <2>1, <2>2, <2>3 DEF Runs
<1>8. run[N] = h[DOMAIN seq] BY <1>1
<1> QED BY <1>7, <1>8
==============================================================================
