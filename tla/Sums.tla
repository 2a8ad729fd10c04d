--------------------------------- MODULE Sums ---------------------------------
(***************************************************************************)
(* Induction over the natural numbers and over the subsets of a finite     *)
(* set, stated with sets in the place of predicates, and with it what the  *)
(* sum of a function's values over a finite set is: SumFunctionOnSet of    *)
(* Functions, whose recursion has a solution, which does not depend on the *)
(* order in which the elements are taken.                                  *)
(***************************************************************************)
EXTENDS Integers, FiniteSets, Functions, FiniteSetTheorems, TLAPS

\* A set of numbers that holds 0 and the successor of each of its members
\* holds them all.
LEMMA NumberInduction ==
    ASSUME NEW G \in SUBSET Nat, 0 \in G, \A n \in G : n + 1 \in G
    PROVE  G = Nat
<1> DEFINE R == OpToRel(<, Nat)
           T == Nat \ G
<1>1. SUFFICES ASSUME T # {}
               PROVE  FALSE
  OBVIOUS
<1>2. PICK m \in T : \A k \in T : <<k, m>> \notin R
  <2>1. T \subseteq Nat
    OBVIOUS
  <2>2. IsWellFoundedOn(R, Nat)
    BY NatLessThanWellFounded
  <2> HIDE DEF R, T
  <2> QED BY <1>1, <2>1, <2>2, WFMin
<1>3. m - 1 \in Nat /\ m - 1 < m
  BY SMT
<1>4. <<m - 1, m>> \in R
  BY <1>3 DEF OpToRel
<1>5. m - 1 \in G
  BY <1>2, <1>3, <1>4
<1>6. (m - 1) + 1 = m
  BY <1>3
<1> QED BY <1>5, <1>6

\* A set of numbers that is not empty has a least.
LEMMA LeastNumber ==
    ASSUME NEW S \in SUBSET Nat, S # {}
    PROVE  \E x \in S : \A y \in S : x <= y
<1> DEFINE R == OpToRel(<, Nat)
<1>1. PICK m \in S : \A k \in S : <<k, m>> \notin R
  <2>1. IsWellFoundedOn(R, Nat)
    BY NatLessThanWellFounded
  <2> HIDE DEF R
  <2> QED BY <2>1, WFMin
<1>2. \A k \in S : m <= k
  <2> SUFFICES ASSUME NEW k \in S, k < m PROVE FALSE
    OBVIOUS
  <2>1. <<k, m>> \in R
    BY DEF OpToRel
  <2> QED BY <1>1, <2>1
<1> QED BY <1>2

\* Seen from its bound a set is one of distances, of which one is the least.
LEMMA GreatestNumber ==
    ASSUME NEW n \in Int, NEW S \in SUBSET Int, S # {}, \A x \in S : x <= n
    PROVE  \E x \in S : \A y \in S : x >= y
<1> DEFINE T == {n - x : x \in S}
<1>1. T \in SUBSET Nat /\ T # {}
  <2>1. \A x \in S : x \in Int /\ n - x \in Nat
    OBVIOUS
  <2>2. T # {}
    OBVIOUS
  <2> QED BY <2>1, <2>2
<1>2. PICK m \in T : \A k \in T : m <= k
  BY <1>1, LeastNumber
<1>3. PICK x \in S : m = n - x
  BY <1>2
<1>4. \A y \in S : n - x <= n - y
  BY <1>2, <1>3
<1> QED BY <1>4

\* A family of subsets of a finite set that holds each subset whose proper
\* subsets it holds is the whole power set.
LEMMA SubsetInduction ==
    ASSUME NEW S, IsFiniteSet(S), NEW G \in SUBSET (SUBSET S),
           \A t \in SUBSET S : (\A u \in SUBSET t : u # t => u \in G) => t \in G
    PROVE  G = SUBSET S
<1> DEFINE R == StrictSubsetOrdering(S)
           T == (SUBSET S) \ G
<1>1. SUFFICES ASSUME T # {}
               PROVE  FALSE
  OBVIOUS
<1>2. PICK t \in T : \A u \in T : <<u, t>> \notin R
  <2>1. T \subseteq SUBSET S
    OBVIOUS
  <2>2. IsWellFoundedOn(R, SUBSET S)
    BY FS_StrictSubsetOrderingWellFounded, FS_FiniteSubsetsOfFinite
  <2> HIDE DEF R, T
  <2> QED BY <1>1, <2>1, <2>2, WFMin
<1>3. ASSUME NEW u \in SUBSET t, u # t
      PROVE  u \in G
  BY <1>2, <1>3 DEF StrictSubsetOrdering
<1> QED BY <1>2, <1>3

\* The element a fold takes next.
Taken(t) == CHOOSE x \in t : TRUE

\* g satisfies the recursion of the sum of f on the family D.
SolvesSum(g, f, D) ==
    g = [t \in D |-> IF t = {} THEN 0 ELSE f[Taken(t)] + g[t \ {Taken(t)}]]

\* The element that is taken from a set is in it.
LEMMA TakenIsIn == \A t : t # {} => Taken(t) \in t
BY DEF Taken

\* The recursion has a solution on the subsets of a finite set: by induction
\* over their size.
LEMMA SumExists ==
    ASSUME NEW f, NEW S, IsFiniteSet(S)
    PROVE  \E g : SolvesSum(g, f, SUBSET S)
<1> DEFINE D(n) == {t \in SUBSET S : Cardinality(t) <= n}
           G == {n \in Nat : \E g : SolvesSum(g, f, D(n))}
<1>1. \A t \in SUBSET S : /\ IsFiniteSet(t) /\ Cardinality(t) \in Nat
                          /\ Cardinality(t) <= Cardinality(S)
                          /\ Cardinality(t) = 0 <=> t = {}
  BY FS_Subset, FS_CardinalityType, FS_EmptySet
<1>2. \A t \in SUBSET S : t # {} => Cardinality(t \ {Taken(t)}) = Cardinality(t) - 1
  BY <1>1, TakenIsIn, FS_RemoveElement
<1>3. 0 \in G
  <2> DEFINE g == [t \in D(0) |-> 0]
  <2>1. \A t \in D(0) : t = {}
    BY <1>1
  <2>2. SolvesSum(g, f, D(0))
    BY <2>1 DEF SolvesSum
  <2> QED BY <2>2
<1>4. ASSUME NEW n \in G
      PROVE  n + 1 \in G
  <2>1. PICK g : SolvesSum(g, f, D(n))
    OBVIOUS
  <2> DEFINE h == [t \in D(n + 1) |-> IF t = {} THEN 0 ELSE f[Taken(t)] + g[t \ {Taken(t)}]]
  <2>2. ASSUME NEW t \in D(n)
        PROVE  h[t] = g[t]
    <3>1. t \in D(n + 1)
      BY <1>1
    <3>2. g[t] = IF t = {} THEN 0 ELSE f[Taken(t)] + g[t \ {Taken(t)}]
      BY <2>1 DEF SolvesSum
    <3> HIDE DEF D
    <3> QED BY <3>1, <3>2
  <2>3. ASSUME NEW t \in D(n + 1), t # {}
        PROVE  t \ {Taken(t)} \in D(n)
    BY <1>1, <1>2, <2>3
  <2>4. \A t \in D(n + 1) :
           h[t] = IF t = {} THEN 0 ELSE f[Taken(t)] + h[t \ {Taken(t)}]
    <3> HIDE DEF D
    <3> QED BY <2>2, <2>3
  <2>5. SolvesSum(h, f, D(n + 1))
    <3>1. h = [t \in D(n + 1) |-> h[t]]
      OBVIOUS
    <3> HIDE DEF h, D
    <3> QED BY <2>4, <3>1 DEF SolvesSum
  <2>6. \E k : SolvesSum(k, f, D(n + 1))
    <3> HIDE DEF h, D
    <3> QED BY <2>5
  <2>7. n + 1 \in Nat
    OBVIOUS
  <2> HIDE DEF D
  <2> QED BY <2>6, <2>7
<1>5. Cardinality(S) \in G
  <2>1. G \in SUBSET Nat
    OBVIOUS
  <2>2. G = Nat
    <3> HIDE DEF G
    <3> QED BY <1>3, <1>4, <2>1, NumberInduction
  <2> HIDE DEF G
  <2> QED BY <1>1, <2>2
<1>6. D(Cardinality(S)) = SUBSET S
  BY <1>1
<1> HIDE DEF D
<1> QED BY <1>5, <1>6

\* Two solutions agree wherever both are defined.
LEMMA SumUnique ==
    ASSUME NEW f, NEW S, IsFiniteSet(S), NEW T \in SUBSET S
    PROVE  \A g, h : SolvesSum(g, f, SUBSET S) /\ SolvesSum(h, f, SUBSET T) => g[T] = h[T]
<1> SUFFICES ASSUME NEW g, NEW h, SolvesSum(g, f, SUBSET S), SolvesSum(h, f, SUBSET T)
             PROVE  \A t \in SUBSET T : g[t] = h[t]
  OBVIOUS
<1> DEFINE G == {t \in SUBSET T : g[t] = h[t]}
<1>1. IsFiniteSet(T)
  BY FS_Subset
<1>2. ASSUME NEW t \in SUBSET T, \A u \in SUBSET t : u # t => u \in G
      PROVE  t \in G
  <2>1. /\ g[t] = IF t = {} THEN 0 ELSE f[Taken(t)] + g[t \ {Taken(t)}]
        /\ h[t] = IF t = {} THEN 0 ELSE f[Taken(t)] + h[t \ {Taken(t)}]
    <3>1. t \in SUBSET S
      OBVIOUS
    <3> QED BY <3>1 DEF SolvesSum
  <2>2. CASE t = {}
    BY <2>1, <2>2
  <2>3. CASE t # {}
    <3>1. t \ {Taken(t)} \in SUBSET t /\ t \ {Taken(t)} # t
      BY <2>3, TakenIsIn
    <3>2. t \ {Taken(t)} \in G
      <4> HIDE DEF G
      <4> QED BY <1>2, <3>1
    <3> QED BY <2>1, <2>3, <3>2
  <2> QED BY <2>2, <2>3
<1>3. G = SUBSET T
  <2>1. G \in SUBSET (SUBSET T)
    OBVIOUS
  <2> HIDE DEF G
  <2> QED BY <1>1, <1>2, <2>1, SubsetInduction
<1> QED BY <1>3

\* The sum over a set is the value of a solution there.
LEMMA SumSolves ==
    ASSUME NEW f, NEW S, IsFiniteSet(S)
    PROVE  \E g : SolvesSum(g, f, SUBSET S) /\ SumFunctionOnSet(f, S) = g[S]
<1>1. \E g : g = [t \in SUBSET S |->
                    IF t = {} THEN 0 ELSE f[CHOOSE x \in t : TRUE] + g[t \ {CHOOSE x \in t : TRUE}]]
  <2>1. PICK g : SolvesSum(g, f, SUBSET S)
    BY SumExists
  <2>2. g = [t \in SUBSET S |->
               IF t = {} THEN 0 ELSE f[CHOOSE x \in t : TRUE] + g[t \ {CHOOSE x \in t : TRUE}]]
    BY <2>1 DEF SolvesSum, Taken
  <2> QED BY <2>2
<1>2. \E g : /\ g = [t \in SUBSET S |->
                    IF t = {} THEN 0 ELSE f[CHOOSE x \in t : TRUE] + g[t \ {CHOOSE x \in t : TRUE}]]
             /\ SumFunctionOnSet(f, S) = g[S]
  BY <1>1 DEF SumFunctionOnSet, FoldFunctionOnSet, MapThenFoldSet
<1> QED BY <1>2 DEF SolvesSum, Taken

\* The recursion of the sum: over the empty set 0, else an element's value
\* and the sum over the others.
LEMMA SumRecursion ==
    ASSUME NEW f, NEW S, IsFiniteSet(S)
    PROVE  SumFunctionOnSet(f, S) =
              IF S = {} THEN 0 ELSE f[Taken(S)] + SumFunctionOnSet(f, S \ {Taken(S)})
<1>1. PICK g : SolvesSum(g, f, SUBSET S) /\ SumFunctionOnSet(f, S) = g[S]
  BY SumSolves
<1>2. g[S] = IF S = {} THEN 0 ELSE f[Taken(S)] + g[S \ {Taken(S)}]
  BY <1>1 DEF SolvesSum
<1> DEFINE T == S \ {Taken(S)}
<1>3. T \in SUBSET S /\ IsFiniteSet(T)
  BY FS_Subset
<1>4. PICK h : SolvesSum(h, f, SUBSET T) /\ SumFunctionOnSet(f, T) = h[T]
  BY <1>3, SumSolves
<1>5. g[T] = h[T]
  <2>1. \A k, l : SolvesSum(k, f, SUBSET S) /\ SolvesSum(l, f, SUBSET T) => k[T] = l[T]
    <3> HIDE DEF T
    <3> QED BY <1>3, SumUnique
  <2> HIDE DEF T
  <2> QED BY <1>1, <1>4, <2>1
<1> QED BY <1>1, <1>2, <1>4, <1>5

\* The sum over no elements.
LEMMA SumEmpty == \A f : SumFunctionOnSet(f, {}) = 0
<1> TAKE f
<1> QED BY SumRecursion, FS_EmptySet

\* The sum of integers is one.
LEMMA SumType ==
    ASSUME NEW f, NEW S, IsFiniteSet(S), \A x \in S : f[x] \in Int
    PROVE  SumFunctionOnSet(f, S) \in Int
<1> DEFINE G == {t \in SUBSET S : SumFunctionOnSet(f, t) \in Int}
<1>1. ASSUME NEW t \in SUBSET S, \A u \in SUBSET t : u # t => u \in G
      PROVE  t \in G
  <2>1. IsFiniteSet(t)
    BY FS_Subset
  <2>2. CASE t = {}
    BY <2>2, SumEmpty
  <2>3. CASE t # {}
    <3>1. Taken(t) \in t
      BY <2>3, TakenIsIn
    <3>2. t \ {Taken(t)} \in G
      <4>1. t \ {Taken(t)} \in SUBSET t /\ t \ {Taken(t)} # t
        BY <3>1
      <4> HIDE DEF G
      <4> QED BY <1>1, <4>1
    <3>3. SumFunctionOnSet(f, t) = f[Taken(t)] + SumFunctionOnSet(f, t \ {Taken(t)})
      BY <2>1, <2>3, SumRecursion
    <3>4. f[Taken(t)] \in Int
      BY <3>1
    <3> QED BY <3>2, <3>3, <3>4
  <2> QED BY <2>2, <2>3
<1>2. G \in SUBSET (SUBSET S)
  OBVIOUS
<1>3. G = SUBSET S
  <2> HIDE DEF G
  <2> QED BY <1>1, <1>2, SubsetInduction
<1> QED BY <1>3

\* Any element may be taken first.
LEMMA SumRemove ==
    ASSUME NEW f, NEW S, IsFiniteSet(S), \A x \in S : f[x] \in Int, NEW x \in S
    PROVE  SumFunctionOnSet(f, S) = f[x] + SumFunctionOnSet(f, S \ {x})
<1> DEFINE Sum(t) == SumFunctionOnSet(f, t)
           G == {t \in SUBSET S : \A y \in t : Sum(t) = f[y] + Sum(t \ {y})}
<1>1. \A t \in SUBSET S : IsFiniteSet(t) /\ Sum(t) \in Int
  <2> TAKE t \in SUBSET S
  <2>1. IsFiniteSet(t)
    BY FS_Subset
  <2> QED BY <2>1, SumType
<1>2. \A t \in SUBSET S : t # {} => Sum(t) = f[Taken(t)] + Sum(t \ {Taken(t)})
  BY <1>1, SumRecursion
<1>3. ASSUME NEW t \in SUBSET S, \A u \in SUBSET t : u # t => u \in G
      PROVE  t \in G
  <2>1. SUFFICES ASSUME NEW y \in t
                 PROVE  Sum(t) = f[y] + Sum(t \ {y})
    OBVIOUS
  <2> DEFINE z == Taken(t)
  <2>2. z \in t /\ Sum(t) = f[z] + Sum(t \ {z})
    <3>1. t # {}
      OBVIOUS
    <3> QED BY <1>2, <3>1, TakenIsIn
  <2>3. CASE y = z
    BY <2>2, <2>3
  <2>4. CASE y # z
    <3> HIDE DEF z, Sum
    <3>1. Sum(t \ {z}) = f[y] + Sum((t \ {z}) \ {y})
      <4>1. t \ {z} \in SUBSET t /\ t \ {z} # t /\ y \in t \ {z}
        BY <2>2, <2>4
      <4>2. t \ {z} \in G
        <5> HIDE DEF G
        <5> QED BY <1>3, <4>1
      <4> QED BY <4>1, <4>2
    <3>2. Sum(t \ {y}) = f[z] + Sum((t \ {y}) \ {z})
      <4>1. t \ {y} \in SUBSET t /\ t \ {y} # t /\ z \in t \ {y}
        BY <2>2, <2>4
      <4>2. t \ {y} \in G
        <5> HIDE DEF G
        <5> QED BY <1>3, <4>1
      <4> QED BY <4>1, <4>2
    <3>3. (t \ {z}) \ {y} = (t \ {y}) \ {z}
      OBVIOUS
    <3>4. f[y] \in Int /\ f[z] \in Int /\ Sum((t \ {y}) \ {z}) \in Int
      BY <1>1, <2>2
    <3> DEFINE rest == Sum((t \ {y}) \ {z})
    <3>5. Sum(t) = f[z] + (f[y] + rest)
      BY <2>2, <3>1, <3>3
    <3>6. Sum(t \ {y}) = f[z] + rest
      BY <3>2
    <3>7. f[y] \in Int /\ f[z] \in Int /\ rest \in Int
      BY <3>4
    <3> HIDE DEF rest
    <3>8. f[z] + (f[y] + rest) = f[y] + (f[z] + rest)
      BY <3>7
    <3> QED BY <3>5, <3>6, <3>8
  <2> QED BY <2>3, <2>4
<1>4. G \in SUBSET (SUBSET S)
  OBVIOUS
<1>5. G = SUBSET S
  <2> HIDE DEF G
  <2> QED BY <1>3, <1>4, SubsetInduction
<1> QED BY <1>5

\* The sum over one element.
LEMMA SumOne == \A f, x : f[x] \in Int => SumFunctionOnSet(f, {x}) = f[x]
<1> SUFFICES ASSUME NEW f, NEW x, f[x] \in Int
             PROVE  SumFunctionOnSet(f, {x}) = f[x]
  OBVIOUS
<1>1. IsFiniteSet({x})
  BY FS_Singleton
<1>2. SumFunctionOnSet(f, {x}) = f[x] + SumFunctionOnSet(f, {x} \ {x})
  BY <1>1, SumRemove
<1>3. {x} \ {x} = {}
  OBVIOUS
<1> QED BY <1>2, <1>3, SumEmpty

\* One element more.
LEMMA SumAdd ==
    ASSUME NEW f, NEW S, IsFiniteSet(S), NEW x, x \notin S,
           \A y \in S \cup {x} : f[y] \in Int
    PROVE  SumFunctionOnSet(f, S \cup {x}) = SumFunctionOnSet(f, S) + f[x]
<1>1. IsFiniteSet(S \cup {x})
  BY FS_AddElement
<1>2. SumFunctionOnSet(f, S \cup {x}) = f[x] + SumFunctionOnSet(f, (S \cup {x}) \ {x})
  BY <1>1, SumRemove
<1>3. (S \cup {x}) \ {x} = S
  OBVIOUS
<1>4. SumFunctionOnSet(f, S) \in Int /\ f[x] \in Int
  BY SumType
<1>5. SumFunctionOnSet(f, (S \cup {x}) \ {x}) = SumFunctionOnSet(f, S)
  BY <1>3, Zenon
<1> QED BY <1>2, <1>4, <1>5

\* The sum of zeros.
LEMMA SumZero ==
    ASSUME NEW f, NEW S, IsFiniteSet(S), \A x \in S : f[x] = 0
    PROVE  SumFunctionOnSet(f, S) = 0
<1> DEFINE G == {t \in SUBSET S : SumFunctionOnSet(f, t) = 0}
<1>1. ASSUME NEW t \in SUBSET S, \A u \in SUBSET t : u # t => u \in G
      PROVE  t \in G
  <2>1. IsFiniteSet(t)
    BY FS_Subset
  <2>2. CASE t = {}
    BY <2>2, SumEmpty
  <2>3. CASE t # {}
    <3>1. Taken(t) \in t
      BY <2>3, TakenIsIn
    <3>2. t \ {Taken(t)} \in G
      <4>1. t \ {Taken(t)} \in SUBSET t /\ t \ {Taken(t)} # t
        BY <3>1
      <4> HIDE DEF G
      <4> QED BY <1>1, <4>1
    <3>3. SumFunctionOnSet(f, t) = f[Taken(t)] + SumFunctionOnSet(f, t \ {Taken(t)})
      BY <2>1, <2>3, SumRecursion
    <3>4. f[Taken(t)] = 0
      BY <3>1
    <3> QED BY <3>2, <3>3, <3>4
  <2> QED BY <2>2, <2>3
<1>2. G \in SUBSET (SUBSET S)
  OBVIOUS
<1>3. G = SUBSET S
  <2> HIDE DEF G
  <2> QED BY <1>1, <1>2, SubsetInduction
<1> QED BY <1>3

\* Only the values on the set matter.
LEMMA SumSame ==
    ASSUME NEW f, NEW h, NEW S, IsFiniteSet(S), \A x \in S : f[x] = h[x]
    PROVE  SumFunctionOnSet(f, S) = SumFunctionOnSet(h, S)
<1> DEFINE G == {t \in SUBSET S : SumFunctionOnSet(f, t) = SumFunctionOnSet(h, t)}
<1>1. ASSUME NEW t \in SUBSET S, \A u \in SUBSET t : u # t => u \in G
      PROVE  t \in G
  <2>1. IsFiniteSet(t)
    BY FS_Subset
  <2>2. CASE t = {}
    BY <2>2, SumEmpty
  <2>3. CASE t # {}
    <3>1. Taken(t) \in t
      BY <2>3, TakenIsIn
    <3>2. t \ {Taken(t)} \in G
      <4>1. t \ {Taken(t)} \in SUBSET t /\ t \ {Taken(t)} # t
        BY <3>1
      <4> HIDE DEF G
      <4> QED BY <1>1, <4>1
    <3>3. /\ SumFunctionOnSet(f, t) = f[Taken(t)] + SumFunctionOnSet(f, t \ {Taken(t)})
          /\ SumFunctionOnSet(h, t) = h[Taken(t)] + SumFunctionOnSet(h, t \ {Taken(t)})
      BY <2>1, <2>3, SumRecursion
    <3>4. f[Taken(t)] = h[Taken(t)]
      BY <3>1
    <3> QED BY <3>2, <3>3, <3>4
  <2> QED BY <2>2, <2>3
<1>2. G \in SUBSET (SUBSET S)
  OBVIOUS
<1>3. G = SUBSET S
  <2> HIDE DEF G
  <2> QED BY <1>1, <1>2, SubsetInduction
<1> QED BY <1>3

\* A change of one value changes the sum by as much.
LEMMA SumChange ==
    ASSUME NEW f, NEW h, NEW S, IsFiniteSet(S), NEW x \in S,
           \A y \in S : f[y] \in Int /\ h[y] \in Int,
           \A y \in S \ {x} : f[y] = h[y]
    PROVE  SumFunctionOnSet(h, S) = SumFunctionOnSet(f, S) - f[x] + h[x]
<1>1. IsFiniteSet(S \ {x})
  BY FS_RemoveElement
<1>2. SumFunctionOnSet(f, S) = f[x] + SumFunctionOnSet(f, S \ {x})
  BY SumRemove
<1>3. SumFunctionOnSet(h, S) = h[x] + SumFunctionOnSet(h, S \ {x})
  BY SumRemove
<1>4. SumFunctionOnSet(f, S \ {x}) = SumFunctionOnSet(h, S \ {x})
  BY <1>1, SumSame
<1>5. SumFunctionOnSet(h, S \ {x}) \in Int
  BY <1>1, SumType
<1> QED BY <1>2, <1>3, <1>4, <1>5

\* The sum of values that are sums.
LEMMA SumPlus ==
    ASSUME NEW f, NEW g, NEW h, NEW S, IsFiniteSet(S),
           \A x \in S : f[x] \in Int /\ g[x] \in Int /\ h[x] = f[x] + g[x]
    PROVE  SumFunctionOnSet(h, S) = SumFunctionOnSet(f, S) + SumFunctionOnSet(g, S)
<1> DEFINE G == {t \in SUBSET S : SumFunctionOnSet(h, t) =
                                    SumFunctionOnSet(f, t) + SumFunctionOnSet(g, t)}
<1>1. ASSUME NEW t \in SUBSET S, \A u \in SUBSET t : u # t => u \in G
      PROVE  t \in G
  <2>1. IsFiniteSet(t)
    BY FS_Subset
  <2>2. CASE t = {}
    BY <2>2, SumEmpty
  <2>3. CASE t # {}
    <3> DEFINE x == Taken(t)
               u == t \ {x}
    <3>1. x \in t
      BY <2>3, TakenIsIn
    <3>2. u \in G
      <4>1. u \in SUBSET t /\ u # t
        BY <3>1
      <4> HIDE DEF G, u
      <4> QED BY <1>1, <4>1
    <3>3. /\ SumFunctionOnSet(f, t) = f[x] + SumFunctionOnSet(f, u)
          /\ SumFunctionOnSet(g, t) = g[x] + SumFunctionOnSet(g, u)
          /\ SumFunctionOnSet(h, t) = h[x] + SumFunctionOnSet(h, u)
      BY <2>1, <2>3, SumRecursion
    <3>4. SumFunctionOnSet(f, u) \in Int /\ SumFunctionOnSet(g, u) \in Int
      <4>1. IsFiniteSet(u) /\ \A y \in u : f[y] \in Int /\ g[y] \in Int
        BY <2>1, FS_Subset
      <4> HIDE DEF u
      <4> QED BY <4>1, SumType
    <3>5. f[x] \in Int /\ g[x] \in Int /\ h[x] = f[x] + g[x]
      BY <3>1
    <3>6. SumFunctionOnSet(h, u) = SumFunctionOnSet(f, u) + SumFunctionOnSet(g, u)
      BY <3>2
    <3>7. SumFunctionOnSet(h, t) = SumFunctionOnSet(f, t) + SumFunctionOnSet(g, t)
      <4> HIDE DEF x, u, G
      <4> QED BY <3>3, <3>4, <3>5, <3>6
    <3> QED BY <3>7
  <2> QED BY <2>2, <2>3
<1>2. G \in SUBSET (SUBSET S)
  OBVIOUS
<1>3. G = SUBSET S
  <2> HIDE DEF G
  <2> QED BY <1>1, <1>2, SubsetInduction
<1> QED BY <1>3
=============================================================================
