---------------------------- MODULE ListingsProofs ----------------------------
(***************************************************************************)
(* Facets, list, export, charts and geo map agree, for any vehicles, any   *)
(* dealers, any prices and any choice of filters: the invariant and the    *)
(* action property of Listings hold of every run.                          *)
(*                                                                         *)
(* The list itself is easy to follow, and so is the invariant: what has    *)
(* been read is the beginning of the list, as long as no ingest commits    *)
(* and no analytics take the brush away. The work is in the operators: a   *)
(* sum does not depend on the order in which it is taken, so the counts of *)
(* groups that do not overlap add up; a strict order of a finite set has   *)
(* one enumeration, so the list has one order and the median is where the  *)
(* ranks say; every value falls into one bar; and a filter on one facet    *)
(* takes out of the list what the facet counts.                            *)
(***************************************************************************)
EXTENDS Listings, FiniteSetTheorems, FunctionTheorems, WellFoundedInduction, TLAPS

-----------------------------------------------------------------------------
(* Induction.  A set of numbers, or of finite sets, stands for what is     *)
(* shown of its members.                                                   *)

\* A set of numbers that is not empty has a least one.
LEMMA Least ==
  ASSUME NEW P \in SUBSET Nat, P # {}
  PROVE  \E n \in P : \A m \in P : n <= m
<1>1. IsWellFoundedOn(OpToRel(<, Nat), Nat)
  BY NatLessThanWellFounded, Zenon
<1>2. \E x \in P : \A y \in P : <<y, x>> \notin OpToRel(<, Nat)
  BY <1>1, WFMin, Zenon
<1>3. PICK x \in P : \A y \in P : <<y, x>> \notin OpToRel(<, Nat)
  BY <1>2
<1>4. \A y \in P : <<y, x>> \in OpToRel(<, Nat) <=> y < x
  BY DEF OpToRel
<1>5. \A y \in P : x \in Nat /\ y \in Nat /\ ~(y < x)
  BY <1>3, <1>4
<1> QED BY <1>5

\* What holds for 0, and for n + 1 when for n, holds for every number.
LEMMA Counting ==
  ASSUME NEW G, 0 \in G, \A n \in Nat : n \in G => n + 1 \in G
  PROVE  Nat \subseteq G
<1> DEFINE P == Nat \ G
<1> SUFFICES ASSUME P # {} PROVE FALSE
  OBVIOUS
<1>1. P \in SUBSET Nat
  OBVIOUS
<1>2. PICK n \in P : \A m \in P : n <= m
  <2> HIDE DEF P
  <2> QED BY <1>1, Least
<1>3. n \in Nat /\ n # 0 /\ n \notin G
  OBVIOUS
<1>4. n - 1 \in Nat /\ (n - 1) + 1 = n /\ ~(n <= n - 1)
  BY <1>3
<1>5. n - 1 \in G
  BY <1>2, <1>4
<1> QED BY <1>3, <1>4, <1>5

\* What holds for the empty set, and for one element more, holds for a finite set.
LEMMA Adding ==
  ASSUME NEW S, IsFiniteSet(S), NEW G, {} \in G,
         \A T \in SUBSET S : \A x \in S \ T : T \in G => T \cup {x} \in G
  PROVE  S \in G
<1> SUFFICES ASSUME S \notin G PROVE FALSE
  OBVIOUS
<1> DEFINE B == {T \in SUBSET S : T \notin G}
<1>1. B \subseteq FiniteSubsetsOf(S)
  BY FS_Subset DEF FiniteSubsetsOf
<1>2. B # {}
  OBVIOUS
<1>3. IsWellFoundedOn(StrictSubsetOrdering(S), FiniteSubsetsOf(S))
  BY FS_StrictSubsetOrderingWellFounded, Zenon
<1>4. PICK T \in B : \A U \in B : <<U, T>> \notin StrictSubsetOrdering(S)
  <2> HIDE DEF B
  <2> QED BY <1>1, <1>2, <1>3, WFMin, Zenon
<1>5. PICK x \in T : TRUE
  OBVIOUS
<1>6. T \in SUBSET S /\ (T \ {x}) \cup {x} = T /\ T \ {x} \in SUBSET S /\ x \in S \ (T \ {x})
  BY <1>5
<1>7. T \ {x} \notin G
  BY <1>6
<1>8. T \ {x} \in B
  BY <1>6, <1>7
<1>9. <<T \ {x}, T>> \in StrictSubsetOrdering(S)
  BY <1>5, <1>6, Zenon DEF StrictSubsetOrdering
<1> QED BY <1>4, <1>8, <1>9

-----------------------------------------------------------------------------
(* Sums.  SumFunction adds up in an order that CHOOSE picks; h is the sum  *)
(* of f over each set of arguments.                                        *)

AddsUp(h, f, D) == /\ h \in [SUBSET D -> Int] /\ h[{}] = 0
                   /\ \A T \in SUBSET D : \A x \in T : h[T] = f[x] + h[T \ {x}]

First(T) == CHOOSE x \in T : TRUE

Recursive(g, f, E) == \A T \in E : g[T] = IF T = {} THEN 0 ELSE f[First(T)] + g[T \ {First(T)}]

\* The function by which SumFunction adds up exists.
LEMMA RecursionHasAnswer ==
  ASSUME NEW D, IsFiniteSet(D), NEW f \in [D -> Int]
  PROVE  \E g \in [SUBSET D -> Int] : Recursive(g, f, SUBSET D)
<1> DEFINE Small(n) == {T \in SUBSET D : Cardinality(T) <= n}
           G == {n \in Nat : \E g \in [Small(n) -> Int] : Recursive(g, f, Small(n))}
<1>1. \A T \in SUBSET D : IsFiniteSet(T) /\ Cardinality(T) \in Nat /\ Cardinality(T) <= Cardinality(D)
  BY FS_Subset, FS_CardinalityType
<1>2. 0 \in G
  <2>1. Small(0) = {{}}
    <3>1. \A T \in SUBSET D : Cardinality(T) <= 0 <=> T = {}
      <4>1. \A T \in SUBSET D : Cardinality(T) = 0 <=> T = {}
        BY <1>1, FS_EmptySet
      <4>2. \A T \in SUBSET D : Cardinality(T) \in Nat
        BY <1>1
      <4> QED BY <4>1, <4>2
    <3> QED BY <3>1
  <2> DEFINE g == [T \in Small(0) |-> 0]
  <2>2. g \in [Small(0) -> Int] /\ Recursive(g, f, Small(0))
    BY <2>1 DEF Recursive
  <2> QED BY <2>2
<1>3. ASSUME NEW n \in Nat, n \in G PROVE n + 1 \in G
  <2>1. PICK g \in [Small(n) -> Int] : Recursive(g, f, Small(n))
    BY <1>3
  <2> DEFINE e == [T \in Small(n + 1) |-> IF T = {} THEN 0 ELSE f[First(T)] + g[T \ {First(T)}]]
  <2>2. \A T \in Small(n + 1) : T # {} => /\ First(T) \in T /\ First(T) \in D
                                          /\ T \ {First(T)} \in Small(n) /\ T \ {First(T)} \in Small(n + 1)
    <3> SUFFICES ASSUME NEW T \in Small(n + 1), T # {}
                 PROVE  /\ First(T) \in T /\ First(T) \in D
                        /\ T \ {First(T)} \in Small(n) /\ T \ {First(T)} \in Small(n + 1)
      OBVIOUS
    <3>1. First(T) \in T
      BY DEF First
    <3> DEFINE x == First(T)
    <3> HIDE DEF x
    <3>2. x \in T
      BY <3>1 DEF x
    <3>3. T \in SUBSET D /\ Cardinality(T) <= n + 1 /\ T \ {x} \in SUBSET D
      OBVIOUS
    <3>4. Cardinality(T \ {x}) = Cardinality(T) - 1
      BY <1>1, <3>2, <3>3, FS_RemoveElement
    <3>5. Cardinality(T \ {x}) <= n /\ Cardinality(T \ {x}) <= n + 1
      BY <1>1, <3>3, <3>4
    <3> QED BY <3>2, <3>3, <3>5 DEF x
  <2>3. \A T \in Small(n + 1) : T # {} => f[First(T)] \in Int /\ g[T \ {First(T)}] \in Int
    BY <2>1, <2>2
  <2>4. e \in [Small(n + 1) -> Int]
    BY <2>3
  <2>5. \A T \in Small(n) : T \in Small(n + 1) => e[T] = g[T]
    BY <2>1 DEF Recursive
  <2>6. Recursive(e, f, Small(n + 1))
    <3> HIDE DEF Small
    <3>1. \A T \in Small(n + 1) : e[T] = IF T = {} THEN 0 ELSE f[First(T)] + g[T \ {First(T)}]
      OBVIOUS
    <3>2. \A T \in Small(n + 1) : T # {} => e[T \ {First(T)}] = g[T \ {First(T)}]
      BY <2>2, <2>5
    <3> HIDE DEF e
    <3> QED BY <3>1, <3>2 DEF Recursive
  <2>7. n + 1 \in Nat
    OBVIOUS
  <2> HIDE DEF Small
  <2> QED BY <2>4, <2>6, <2>7
<1>4. Nat \subseteq G
  <2> HIDE DEF G
  <2> QED BY <1>2, <1>3, Counting
<1>5. Cardinality(D) \in G
  BY <1>1, <1>4
<1>6. Small(Cardinality(D)) = SUBSET D
  BY <1>1
<1> QED BY <1>5, <1>6

\* It adds up in any order.
LEMMA AnyOrder ==
  ASSUME NEW D, IsFiniteSet(D), NEW f \in [D -> Int], NEW g, Recursive(g, f, SUBSET D), DOMAIN g = SUBSET D,
         g = [T \in SUBSET D |-> g[T]]
  PROVE  AddsUp(g, f, D)
<1> DEFINE G == {T \in SUBSET D : g[T] \in Int /\ \A x \in T : g[T] = f[x] + g[T \ {x}]}
           Small(n) == {T \in SUBSET D : Cardinality(T) <= n}
           N == {n \in Nat : Small(n) \subseteq G}
<1>1. \A T \in SUBSET D : IsFiniteSet(T) /\ Cardinality(T) \in Nat /\ (Cardinality(T) = 0 <=> T = {})
  BY FS_Subset, FS_CardinalityType, FS_EmptySet
<1>2. g[{}] = 0
  BY DEF Recursive
<1>3. 0 \in N
  <2>1. \A T \in Small(0) : T = {}
    BY <1>1
  <2>2. {} \in G
    BY <1>2
  <2> QED BY <2>1, <2>2
<1>4. ASSUME NEW n \in Nat, n \in N PROVE n + 1 \in N
  <2>1. Small(n) \subseteq G
    BY <1>4
  <2>2. \A T \in SUBSET D : \A x \in T : Cardinality(T) <= n + 1 => T \ {x} \in Small(n)
    <3> SUFFICES ASSUME NEW T \in SUBSET D, NEW x \in T, Cardinality(T) <= n + 1 PROVE T \ {x} \in Small(n)
      OBVIOUS
    <3>1. Cardinality(T \ {x}) = Cardinality(T) - 1
      BY <1>1, FS_RemoveElement
    <3>2. Cardinality(T \ {x}) <= n
      BY <1>1, <3>1
    <3> QED BY <3>2
  <2>3. ASSUME NEW T \in SUBSET D, T # {}, Cardinality(T) <= n + 1 PROVE T \in G
    <3> DEFINE c == First(T)
               R == T \ {c}
    <3>1. c \in T
      BY <2>3 DEF First
    <3>2. g[T] = f[c] + g[R]
      BY <2>3 DEF Recursive
    <3> HIDE DEF c, G
    <3>3. R \in G
      BY <2>1, <2>2, <2>3, <3>1
    <3>4. g[T] \in Int
      <4>1. g[R] \in Int
        BY <3>3 DEF G
      <4>2. f[c] \in Int
        BY <3>1
      <4> HIDE DEF R
      <4> QED BY <3>2, <4>1, <4>2
    <3>5. ASSUME NEW x \in T PROVE g[T] = f[x] + g[T \ {x}]
      <4>1. CASE x = c
        BY <3>2, <4>1
      <4>2. CASE x # c
        <5> DEFINE Q == T \ {x}
                   B == Q \ {c}
        <5>1. x \in R /\ c \in Q /\ R \ {x} = B /\ B \in SUBSET D
          BY <3>1, <4>2
        <5>2. Q \in G
          BY <2>1, <2>2, <2>3
        <5>3. g[R] = f[x] + g[B]
          BY <3>3, <5>1 DEF G
        <5>4. g[Q] = f[c] + g[B]
          BY <5>1, <5>2 DEF G
        <5>5. B \in G
          <6>1. Cardinality(Q) <= n /\ Cardinality(Q) \in Nat /\ Cardinality(Q) <= n + 1
            BY <1>1, <2>2, <2>3
          <6>2. B \in Small(n)
            BY <2>2, <5>1, <6>1
          <6> QED BY <2>1, <6>2
        <5>6. g[B] \in Int
          BY <5>5 DEF G
        <5>7. f[x] \in Int /\ f[c] \in Int
          BY <3>1
        <5> HIDE DEF Q, B, R
        <5> QED BY <3>2, <5>3, <5>4, <5>6, <5>7 DEF Q
      <4> QED BY <4>1, <4>2
    <3> QED BY <3>4, <3>5 DEF G
  <2>4. {} \in G
    BY <1>2
  <2>5. n + 1 \in Nat
    OBVIOUS
  <2> HIDE DEF G
  <2> QED BY <2>3, <2>4, <2>5
<1>5. Nat \subseteq N
  <2> HIDE DEF N
  <2> QED BY <1>3, <1>4, Counting
<1>6. \A T \in SUBSET D : T \in G
  <2> SUFFICES ASSUME NEW T \in SUBSET D PROVE T \in G
    OBVIOUS
  <2>1. Cardinality(T) \in N
    BY <1>1, <1>5
  <2>2. Cardinality(T) <= Cardinality(T)
    BY <1>1
  <2> HIDE DEF G
  <2> QED BY <2>1, <2>2
<1>7. g \in [SUBSET D -> Int]
  BY <1>6
<1> QED BY <1>2, <1>6, <1>7 DEF AddsUp

\* So the sum of a function is that of AddsUp for its whole domain.
LEMMA SumOver ==
  ASSUME NEW D, IsFiniteSet(D), NEW f \in [D -> Int]
  PROVE  \E h : AddsUp(h, f, D) /\ SumFunction(f) = h[D]
<1> DEFINE Answer(g) == g = [s \in SUBSET DOMAIN f |->
                               IF s = {} THEN 0 ELSE f[CHOOSE x \in s : TRUE] + g[s \ {CHOOSE x \in s : TRUE}]]
           iter == CHOOSE g : Answer(g)
<1>1. SumFunction(f) = iter[DOMAIN f]
  BY DEF SumFunction, SumFunctionOnSet, FoldFunctionOnSet, MapThenFoldSet
<1>2. DOMAIN f = D
  OBVIOUS
<1>3. PICK g \in [SUBSET D -> Int] : Recursive(g, f, SUBSET D)
  BY RecursionHasAnswer
<1>4. Answer(g)
  <2>1. g = [T \in SUBSET D |-> g[T]]
    OBVIOUS
  <2>2. \A T \in SUBSET D : g[T] = IF T = {} THEN 0 ELSE f[CHOOSE x \in T : TRUE] + g[T \ {CHOOSE x \in T : TRUE}]
    BY <1>3, Zenon DEF Recursive, First
  <2> QED BY <2>1, <2>2, <1>2, Zenon
<1>5. Answer(iter)
  <2> HIDE DEF Answer
  <2> QED BY <1>4, Zenon
<1> HIDE DEF iter
<1>6. DOMAIN iter = SUBSET D /\ iter = [T \in SUBSET D |-> iter[T]]
  BY <1>2, <1>5
<1>7. Recursive(iter, f, SUBSET D)
  BY <1>2, <1>5, Zenon DEF Recursive, First
<1>8. AddsUp(iter, f, D)
  BY <1>6, <1>7, AnyOrder
<1> QED BY <1>1, <1>2, <1>8

\* Whatever adds up to 0 for no argument and grows by f[x] with x, is the sum.
LEMMA SumIs ==
  ASSUME NEW D, IsFiniteSet(D), NEW f \in [D -> Int],
         NEW h, h[{}] = 0, \A T \in SUBSET D : \A x \in D \ T : h[T \cup {x}] = h[T] + f[x]
  PROVE  SumFunction(f) = h[D]
<1>1. PICK g : AddsUp(g, f, D) /\ SumFunction(f) = g[D]
  BY SumOver
<1> DEFINE G == {T \in SUBSET D : g[T] = h[T]}
<1>2. {} \in G
  BY <1>1 DEF AddsUp
<1>3. ASSUME NEW T \in SUBSET D, NEW x \in D \ T, T \in G PROVE T \cup {x} \in G
  <2>1. T \cup {x} \in SUBSET D /\ (T \cup {x}) \ {x} = T /\ x \in T \cup {x}
    OBVIOUS
  <2>2. g[T \cup {x}] = f[x] + g[T]
    <3>1. \A U \in SUBSET D : \A y \in U : g[U] = f[y] + g[U \ {y}]
      BY <1>1, Zenon DEF AddsUp
    <3>2. PICK U \in SUBSET D : U = T \cup {x} /\ U \ {x} = T /\ x \in U
      BY <2>1
    <3>3. g[U] = f[x] + g[U \ {x}]
      BY <3>1, <3>2
    <3> QED BY <3>2, <3>3
  <2>3. g[T] \in Int /\ f[x] \in Int
    BY <1>1 DEF AddsUp
  <2>4. h[T \cup {x}] = g[T] + f[x]
    BY <1>3
  <2>5. g[T \cup {x}] = h[T \cup {x}]
    BY <2>2, <2>3, <2>4
  <2> QED BY <2>1, <2>5
<1>4. D \in G
  <2> HIDE DEF G
  <2> QED BY <1>2, <1>3, Adding
<1> QED BY <1>1, <1>4

\* The sums over parts of the domain.
LEMMA SumOfParts ==
  ASSUME NEW D, IsFiniteSet(D), NEW f \in [D -> Int]
  PROVE  \E h : AddsUp(h, f, D) /\ \A S \in SUBSET D : SumFunction([v \in S |-> f[v]]) = h[S]
<1>1. PICK h : AddsUp(h, f, D) /\ SumFunction(f) = h[D]
  BY SumOver
<1>2. ASSUME NEW S \in SUBSET D PROVE SumFunction([v \in S |-> f[v]]) = h[S]
  <2> DEFINE e == [v \in S |-> f[v]]
  <2>1. IsFiniteSet(S) /\ e \in [S -> Int]
    BY FS_Subset
  <2>2. h[{}] = 0
    BY <1>1 DEF AddsUp
  <2>3. ASSUME NEW T \in SUBSET S, NEW x \in S \ T PROVE h[T \cup {x}] = h[T] + e[x]
    <3>1. T \cup {x} \in SUBSET D /\ (T \cup {x}) \ {x} = T /\ x \in T \cup {x} /\ T \in SUBSET D
      OBVIOUS
    <3>2. h[T \cup {x}] = f[x] + h[T]
      <4>1. \A U \in SUBSET D : \A y \in U : h[U] = f[y] + h[U \ {y}]
        BY <1>1, Zenon DEF AddsUp
      <4>2. PICK U \in SUBSET D : U = T \cup {x} /\ U \ {x} = T /\ x \in U
        BY <3>1
      <4>3. h[U] = f[x] + h[U \ {x}]
        BY <4>1, <4>2
      <4> QED BY <4>2, <4>3
    <3>3. h[T] \in Int /\ f[x] \in Int
      BY <1>1, <3>1 DEF AddsUp
    <3> QED BY <3>2, <3>3
  <2> HIDE DEF e
  <2>4. SumFunction(e) = h[S]
    BY <2>1, <2>2, <2>3, SumIs
  <2> QED BY <2>4 DEF e
<1> QED BY <1>1, <1>2

\* The sum over two disjoint sets.
LEMMA SumOfTwo ==
  ASSUME NEW D, IsFiniteSet(D), NEW f \in [D -> Int], NEW h, AddsUp(h, f, D),
         NEW S \in SUBSET D, NEW R \in SUBSET D, S \cap R = {}
  PROVE  h[S \cup R] = h[S] + h[R]
<1> DEFINE G == {T \in SUBSET R : h[S \cup T] = h[S] + h[T]}
<1>1. {} \in G
  <2>1. h[{}] = 0 /\ h[S] \in Int /\ S \cup {} = S
    BY DEF AddsUp
  <2> QED BY <2>1
<1>2. ASSUME NEW T \in SUBSET R, NEW x \in R \ T, T \in G PROVE T \cup {x} \in G
  <2>1. /\ T \cup {x} \in SUBSET D /\ (T \cup {x}) \ {x} = T /\ x \in T \cup {x} /\ T \in SUBSET D
        /\ S \cup (T \cup {x}) \in SUBSET D /\ (S \cup (T \cup {x})) \ {x} = S \cup T /\ x \in S \cup (T \cup {x})
    OBVIOUS
  <2>2. h[T \cup {x}] = f[x] + h[T] /\ h[S \cup (T \cup {x})] = f[x] + h[S \cup T]
    <3>1. \A U \in SUBSET D : \A y \in U : h[U] = f[y] + h[U \ {y}]
      BY Zenon DEF AddsUp
    <3>2. PICK U \in SUBSET D : U = T \cup {x} /\ U \ {x} = T /\ x \in U
      BY <2>1
    <3>3. PICK V \in SUBSET D : V = S \cup (T \cup {x}) /\ V \ {x} = S \cup T /\ x \in V
      BY <2>1
    <3>4. h[U] = f[x] + h[U \ {x}]
      BY <3>1, <3>2
    <3>5. h[V] = f[x] + h[V \ {x}]
      BY <3>1, <3>3
    <3> QED BY <3>2, <3>3, <3>4, <3>5
  <2>3. h[T] \in Int /\ f[x] \in Int /\ h[S] \in Int
    BY <2>1 DEF AddsUp
  <2>4. h[S \cup T] = h[S] + h[T]
    BY <1>2
  <2>5. h[S \cup (T \cup {x})] = h[S] + h[T \cup {x}]
    BY <2>2, <2>3, <2>4
  <2> QED BY <2>5
<1>3. IsFiniteSet(R)
  BY FS_Subset
<1>4. R \in G
  <2> HIDE DEF G
  <2> QED BY <1>1, <1>2, <1>3, Adding
<1> QED BY <1>4

\* So what is left of a sum is the sum of what is left.
LEMMA SumOfRest ==
  ASSUME NEW D, IsFiniteSet(D), NEW f \in [D -> Int], NEW W, NEW V, W \cap V = {}, W \cup V = D,
         NEW with, with = [v \in W |-> f[v]], NEW rest, rest = [v \in V |-> f[v]]
  PROVE  SumFunction(f) - SumFunction(with) = SumFunction(rest)
<1>1. PICK h : AddsUp(h, f, D) /\ \A S \in SUBSET D : SumFunction([v \in S |-> f[v]]) = h[S]
  BY SumOfParts
<1>2. W \in SUBSET D /\ V \in SUBSET D /\ D \in SUBSET D
  OBVIOUS
<1>3. h[W \cup V] = h[W] + h[V]
  BY <1>1, <1>2, SumOfTwo
<1>4. h[W] \in Int /\ h[V] \in Int
  BY <1>1, <1>2 DEF AddsUp
<1>5. SumFunction(with) = h[W] /\ SumFunction(rest) = h[V]
  BY <1>1, <1>2
<1>6. SumFunction(f) = h[D]
  <2>1. f = [v \in D |-> f[v]]
    OBVIOUS
  <2>2. SumFunction([v \in D |-> f[v]]) = h[D]
    BY <1>1, <1>2
  <2> QED BY <2>1, <2>2, Zenon
<1>7. h[D] - h[W] = h[V]
  <2>1. h[D] = h[W] + h[V]
    BY <1>3, Zenon
  <2> QED BY <1>4, <2>1
<1> QED BY <1>5, <1>6, <1>7, Zenon

\* The sizes of the groups that a key forms add up to the number of those that are
\* in one of them.
LEMMA SumOfGroups ==
  ASSUME NEW S, IsFiniteSet(S), NEW K, IsFiniteSet(K), NEW key,
         NEW size, size = [k \in K |-> Cardinality({v \in S : key[v] = k})]
  PROVE  SumFunction(size) = Cardinality({v \in S : key[v] \in K})
<1> DEFINE h == [T \in SUBSET K |-> Cardinality({v \in S : key[v] \in T})]
<1>1. size \in [K -> Int]
  <2>1. \A k \in K : IsFiniteSet({v \in S : key[v] = k})
    BY FS_Subset
  <2>2. \A k \in K : Cardinality({v \in S : key[v] = k}) \in Nat
    BY <2>1, FS_CardinalityType
  <2> QED BY <2>2
<1>2. h[{}] = 0
  <2>1. {v \in S : key[v] \in {}} = {}
    OBVIOUS
  <2> QED BY <2>1, FS_EmptySet
<1>3. ASSUME NEW T \in SUBSET K, NEW x \in K \ T PROVE h[T \cup {x}] = h[T] + size[x]
  <2> DEFINE A == {v \in S : key[v] \in T}
             B == {v \in S : key[v] = x}
             C == {v \in S : key[v] \in T \cup {x}}
  <2>1. C = A \cup B /\ A \cap B = {}
    OBVIOUS
  <2>2. IsFiniteSet(A) /\ IsFiniteSet(B)
    BY FS_Subset
  <2>3. h[T \cup {x}] = Cardinality(C) /\ h[T] = Cardinality(A) /\ size[x] = Cardinality(B)
    OBVIOUS
  <2> HIDE DEF A, B, C, h
  <2>4. Cardinality(C) = Cardinality(A) + Cardinality(B) - Cardinality({})
    BY <2>1, <2>2, FS_Union
  <2>5. Cardinality({}) = 0 /\ Cardinality(A) \in Nat /\ Cardinality(B) \in Nat
    BY <2>2, FS_EmptySet, FS_CardinalityType
  <2> QED BY <2>3, <2>4, <2>5
<1>4. h[K] = Cardinality({v \in S : key[v] \in K})
  OBVIOUS
<1> HIDE DEF h
<1>5. SumFunction(size) = h[K]
  BY <1>1, <1>2, <1>3, SumIs
<1> QED BY <1>4, <1>5

-----------------------------------------------------------------------------
(* Orders.  R is the set of pairs <<v, w>> with v ahead of w.              *)

StrictOrder(R, S) ==
  /\ \A v \in S : <<v, v>> \notin R
  /\ \A u, v, w \in S : <<u, v>> \in R /\ <<v, w>> \in R => <<u, w>> \in R
  /\ \A v, w \in S : v # w => <<v, w>> \in R \/ <<w, v>> \in R

Ahead(R, S, v) == {w \in S : <<w, v>> \in R}

\* Who is ahead of another has fewer ahead of it.
LEMMA AheadGrows ==
  ASSUME NEW S, IsFiniteSet(S), NEW R, StrictOrder(R, S), NEW v \in S, NEW w \in S, <<v, w>> \in R
  PROVE  Cardinality(Ahead(R, S, v)) < Cardinality(Ahead(R, S, w))
<1>1. Ahead(R, S, v) \in SUBSET Ahead(R, S, w) /\ v \in Ahead(R, S, w) /\ v \notin Ahead(R, S, v)
  BY DEF StrictOrder, Ahead
<1>2. IsFiniteSet(Ahead(R, S, w)) /\ IsFiniteSet(Ahead(R, S, v))
  BY FS_Subset DEF Ahead
<1>3. /\ Cardinality(Ahead(R, S, v)) <= Cardinality(Ahead(R, S, w))
      /\ Cardinality(Ahead(R, S, w)) = Cardinality(Ahead(R, S, v)) => Ahead(R, S, w) = Ahead(R, S, v)
  BY <1>1, <1>2, FS_Subset, Zenon
<1>4. Cardinality(Ahead(R, S, w)) \in Nat /\ Cardinality(Ahead(R, S, v)) \in Nat
  BY <1>2, FS_CardinalityType
<1> QED BY <1>1, <1>3, <1>4

\* Every place in the order is that of one element.
LEMMA Ranks ==
  ASSUME NEW S, IsFiniteSet(S), NEW R, StrictOrder(R, S)
  PROVE  /\ Cardinality(S) \in Nat
         /\ {Cardinality(Ahead(R, S, v)) : v \in S} = 0 .. Cardinality(S) - 1
         /\ \A v, w \in S : Cardinality(Ahead(R, S, v)) = Cardinality(Ahead(R, S, w)) => v = w
<1> DEFINE n == Cardinality(S)
           rank == [v \in S |-> Cardinality(Ahead(R, S, v))]
<1>1. n \in Nat
  BY FS_CardinalityType
<1>2. ASSUME NEW v \in S PROVE Cardinality(Ahead(R, S, v)) \in 0 .. n - 1
  <2>1. Ahead(R, S, v) \in SUBSET S /\ Ahead(R, S, v) # S
    BY DEF Ahead, StrictOrder
  <2>2. /\ IsFiniteSet(Ahead(R, S, v)) /\ Cardinality(Ahead(R, S, v)) <= n
        /\ n = Cardinality(Ahead(R, S, v)) => S = Ahead(R, S, v)
    BY <2>1, FS_Subset, Zenon
  <2>3. Cardinality(Ahead(R, S, v)) \in Nat
    BY <2>2, FS_CardinalityType
  <2> QED BY <1>1, <2>1, <2>2, <2>3
<1>3. ASSUME NEW v \in S, NEW w \in S, Cardinality(Ahead(R, S, v)) = Cardinality(Ahead(R, S, w)) PROVE v = w
  <2>1. Cardinality(Ahead(R, S, v)) \in Nat /\ Cardinality(Ahead(R, S, w)) \in Nat
    BY <1>1, <1>2
  <2>2. <<v, w>> \notin R /\ <<w, v>> \notin R
    BY <1>3, <2>1, AheadGrows
  <2> QED BY <2>2 DEF StrictOrder
<1>4. rank \in Injection(S, 0 .. n - 1)
  <2>1. rank \in [S -> 0 .. n - 1]
    BY <1>2
  <2>2. \A a, b \in S : rank[a] = rank[b] => a = b
    BY <1>3
  <2> HIDE DEF rank
  <2> QED BY <2>1, <2>2, Fun_IsInj, Zenon
<1>5. IsFiniteSet(0 .. n - 1) /\ Cardinality(0 .. n - 1) = n
  <2>1. 0 \in Int /\ n - 1 \in Int
    BY <1>1
  <2>2. IsFiniteSet(0 .. n - 1) /\ Cardinality(0 .. n - 1) = IF 0 > n - 1 THEN 0 ELSE n - 1 - 0 + 1
    BY <2>1, FS_Interval, Zenon
  <2> QED BY <1>1, <2>2
<1>6. rank \in Surjection(S, 0 .. n - 1)
  <2> HIDE DEF rank
  <2> QED BY <1>4, <1>5, FS_Injection, Zenon
<1>7. \A k \in 0 .. n - 1 : \E v \in S : rank[v] = k
  <2> HIDE DEF rank
  <2> QED BY <1>6 DEF Surjection
<1> QED BY <1>1, <1>2, <1>3, <1>7

\* The places in the order are the numbers from 0.
LEMMA RanksTaken ==
  ASSUME NEW S, IsFiniteSet(S), NEW R, StrictOrder(R, S)
  PROVE  {Cardinality(Ahead(R, S, v)) : v \in S} = 0 .. Cardinality(S) - 1
BY Ranks

\* So many numbers follow b.
LEMMA Stretch ==
  ASSUME NEW b \in Nat, NEW n \in Nat
  PROVE  IsFiniteSet(b + 1 .. b + n) /\ Cardinality(b + 1 .. b + n) = n
<1>1. PICK x \in Int : x = b + 1
  OBVIOUS
<1>2. PICK y \in Int : y = b + n
  OBVIOUS
<1>3. IsFiniteSet(x .. y) /\ Cardinality(x .. y) = IF x > y THEN 0 ELSE y - x + 1
  BY FS_Interval
<1> QED BY <1>1, <1>2, <1>3

\* A function that tells I's elements apart has as many values.
LEMMA ImageSize ==
  ASSUME NEW I, IsFiniteSet(I), NEW p, \A i, j \in I : p[i] = p[j] => i = j
  PROVE  IsFiniteSet({p[i] : i \in I}) /\ Cardinality({p[i] : i \in I}) = Cardinality(I)
<1> DEFINE f == [i \in I |-> p[i]]
           T == {p[i] : i \in I}
<1>1. f \in [I -> T] /\ (\A t \in T : \E i \in I : f[i] = t) /\ \A i, j \in I : f[i] = f[j] => i = j
  OBVIOUS
<1>2. f \in Surjection(I, T) /\ f \in Injection(I, T)
  <2> HIDE DEF f, T
  <2> QED BY <1>1, Fun_IsSurj, Fun_IsInj, Zenon
<1>3. IsFiniteSet(T) /\ Cardinality(T) = Cardinality(I)
  <2> HIDE DEF f, T
  <2> QED BY <1>2, FS_Surjection, Zenon
<1> QED BY <1>3

\* The values of a function are finitely many.
LEMMA ImageFinite ==
  ASSUME NEW I, IsFiniteSet(I), NEW p
  PROVE  IsFiniteSet({p[i] : i \in I}) /\ Cardinality({p[i] : i \in I}) <= Cardinality(I)
<1> DEFINE f == [i \in I |-> p[i]]
           T == {p[i] : i \in I}
<1>1. f \in [I -> T] /\ \A t \in T : \E i \in I : f[i] = t
  OBVIOUS
<1>2. f \in Surjection(I, T)
  <2> HIDE DEF f, T
  <2> QED BY <1>1, Fun_IsSurj, Zenon
<1>3. IsFiniteSet(T) /\ Cardinality(T) <= Cardinality(I)
  <2> HIDE DEF f, T
  <2> QED BY <1>2, FS_Surjection, Zenon
<1> QED BY <1>3

\* s has all elements of S, each once, none behind one that it is ahead of.
Sorted(s, R, S) == s \in SetToSeqs(S) /\ \A i, j \in DOMAIN s : i < j => <<s[j], s[i]>> \notin R

\* In such a sequence an element's place is the number of those ahead of it.
LEMMA PlaceIsRank ==
  ASSUME NEW S, IsFiniteSet(S), NEW R, StrictOrder(R, S), NEW s, Sorted(s, R, S), NEW i \in 1 .. Cardinality(S)
  PROVE  s[i] \in S /\ Cardinality(Ahead(R, S, s[i])) = i - 1
<1> DEFINE n == Cardinality(S)
<1>1. n \in Nat /\ s \in [1 .. n -> S] /\ (\A j, k \in 1 .. n : j # k => s[j] # s[k]) /\ DOMAIN s = 1 .. n
  BY FS_CardinalityType, Zenon DEF Sorted, SetToSeqs
<1>2. IsFiniteSet(1 .. n) /\ Cardinality(1 .. n) = n
  BY <1>1, FS_Interval
<1>3. s \in Injection(1 .. n, S)
  BY <1>1, Fun_IsInj, Zenon
<1>4. s \in Surjection(1 .. n, S)
  BY <1>2, <1>3, FS_Injection, Zenon
<1>5. \A w \in S : \E j \in 1 .. n : s[j] = w
  BY <1>4 DEF Surjection
<1>6. ASSUME NEW j \in 1 .. n, NEW k \in 1 .. n PROVE <<s[j], s[k]>> \in R <=> j < k
  <2>1. s[j] \in S /\ s[k] \in S
    BY <1>1
  <2>2. j < k => <<s[k], s[j]>> \notin R /\ s[j] # s[k]
    BY <1>1 DEF Sorted
  <2>3. k < j => <<s[j], s[k]>> \notin R
    BY <1>1 DEF Sorted
  <2>4. j < k => <<s[j], s[k]>> \in R
    BY <2>1, <2>2 DEF StrictOrder
  <2>5. j = k => <<s[j], s[k]>> \notin R
    BY <2>1 DEF StrictOrder
  <2>6. j \in Nat /\ k \in Nat
    BY <1>1
  <2> QED BY <2>3, <2>4, <2>5, <2>6
<1> DEFINE I == 1 .. i - 1
<1>7. i \in Nat /\ I \subseteq 1 .. n /\ i \in 1 .. n
  BY <1>1
<1>8. Ahead(R, S, s[i]) = {s[j] : j \in I}
  <2>1. ASSUME NEW w \in Ahead(R, S, s[i]) PROVE w \in {s[j] : j \in I}
    <3>1. w \in S /\ <<w, s[i]>> \in R
      BY DEF Ahead
    <3>2. PICK j \in 1 .. n : s[j] = w
      BY <1>5, <3>1
    <3>3. j < i
      BY <1>6, <1>7, <3>1, <3>2
    <3>4. j \in I
      BY <1>7, <3>3
    <3> QED BY <3>2, <3>4
  <2>2. ASSUME NEW j \in I PROVE s[j] \in Ahead(R, S, s[i])
    <3>1. j \in 1 .. n /\ j < i
      BY <1>7
    <3>2. <<s[j], s[i]>> \in R /\ s[j] \in S
      BY <1>1, <1>6, <1>7, <3>1
    <3> QED BY <3>2 DEF Ahead
  <2> QED BY <2>1, <2>2
<1>9. IsFiniteSet(I) /\ Cardinality(I) = i - 1
  <2>1. i - 1 \in Nat /\ 1 \in Int /\ i - 1 \in Int
    BY <1>7
  <2>2. Cardinality(I) = (IF 1 > i - 1 THEN 0 ELSE i - 1 - 1 + 1) /\ IsFiniteSet(I)
    BY <2>1, FS_Interval, Zenon
  <2> QED BY <2>1, <2>2
<1>10. \A j, k \in I : s[j] = s[k] => j = k
  BY <1>1, <1>7
<1>11. Cardinality({s[j] : j \in I}) = i - 1
  <2> HIDE DEF I
  <2> QED BY <1>9, <1>10, ImageSize
<1>12. s[i] \in S
  BY <1>1, <1>7
<1> QED BY <1>8, <1>11, <1>12

\* So there is one such sequence.
LEMMA OneOrder ==
  ASSUME NEW S, IsFiniteSet(S), NEW R, StrictOrder(R, S)
  PROVE  \E s : Sorted(s, R, S) /\ \A t : Sorted(t, R, S) => t = s
<1> DEFINE n == Cardinality(S)
           s == [i \in 1 .. n |-> CHOOSE v \in S : Cardinality(Ahead(R, S, v)) = i - 1]
<1>1. n \in Nat
  BY FS_CardinalityType
<1>2. \A i \in 1 .. n : s[i] \in S /\ Cardinality(Ahead(R, S, s[i])) = i - 1
  <2> SUFFICES ASSUME NEW i \in 1 .. n PROVE s[i] \in S /\ Cardinality(Ahead(R, S, s[i])) = i - 1
    OBVIOUS
  <2>1. i - 1 \in 0 .. n - 1
    BY <1>1
  <2>2. \E v \in S : Cardinality(Ahead(R, S, v)) = i - 1
    BY <2>1, Ranks
  <2>3. s[i] = CHOOSE v \in S : Cardinality(Ahead(R, S, v)) = i - 1
    OBVIOUS
  <2> HIDE DEF s
  <2> QED BY <2>2, <2>3
<1>3. DOMAIN s = 1 .. n /\ s = [i \in 1 .. n |-> s[i]]
  OBVIOUS
<1> HIDE DEF s
<1>4. Sorted(s, R, S)
  <2>1. s \in [1 .. n -> S]
    BY <1>2, <1>3
  <2>2. \A i, j \in 1 .. n : i # j => s[i] # s[j]
    BY <1>1, <1>2
  <2>3. \A i, j \in 1 .. n : <<s[j], s[i]>> \in R => j - 1 < i - 1
    <3> SUFFICES ASSUME NEW i \in 1 .. n, NEW j \in 1 .. n, <<s[j], s[i]>> \in R PROVE j - 1 < i - 1
      OBVIOUS
    <3>1. Cardinality(Ahead(R, S, s[j])) < Cardinality(Ahead(R, S, s[i]))
      BY <1>2, AheadGrows
    <3> QED BY <1>2, <3>1
  <2>4. \A i, j \in 1 .. n : i < j => <<s[j], s[i]>> \notin R
    BY <1>1, <2>3
  <2>5. s \in SetToSeqs(S)
    BY <2>1, <2>2, Zenon DEF SetToSeqs
  <2> QED BY <1>3, <2>4, <2>5 DEF Sorted
<1>5. ASSUME NEW t, Sorted(t, R, S) PROVE t = s
  <2>1. t \in [1 .. n -> S]
    BY <1>5, Zenon DEF Sorted, SetToSeqs
  <2>2. \A i \in 1 .. n : t[i] \in S /\ Cardinality(Ahead(R, S, t[i])) = i - 1
    BY <1>5, PlaceIsRank
  <2>3. \A i \in 1 .. n : t[i] = s[i]
    BY <1>2, <2>2, Ranks
  <2> QED BY <1>3, <2>1, <2>3
<1> QED BY <1>4, <1>5

-----------------------------------------------------------------------------
(* Medians.                                                                *)

\* Ascending(f) has every value of f, each as often as f has it, in ascending order:
\* p says whose it is.
LEMMA AscendingIs ==
  ASSUME NEW D \in SUBSET Nat, IsFiniteSet(D), NEW f \in [D -> Nat]
  PROVE  /\ Cardinality(D) \in Nat /\ Len(Ascending(f)) = Cardinality(D)
         /\ \E p \in [1 .. Cardinality(D) -> D] :
              /\ \A i, j \in 1 .. Cardinality(D) : p[i] = p[j] => i = j
              /\ \A i \in 1 .. Cardinality(D) : Ascending(f)[i] = f[p[i]]
              /\ \A i, j \in 1 .. Cardinality(D) : i < j => f[p[i]] <= f[p[j]]
<1> DEFINE n == Cardinality(D)
           p == [i \in 1 .. n |-> CHOOSE v \in D : Cardinality({w \in D : Lower(f, w, v)}) = i - 1]
<1>1. n \in Nat /\ DOMAIN f = D
  BY FS_CardinalityType
<1>2. Ascending(f) = [i \in 1 .. n |-> f[CHOOSE v \in D : Cardinality({w \in D : Lower(f, w, v)}) = i - 1]]
  BY <1>1 DEF Ascending
<1>3. DOMAIN p = 1 .. n /\ \A i \in 1 .. n : Ascending(f)[i] = f[p[i]]
  BY <1>2
<1>4. Len(Ascending(f)) = n
  BY <1>1, <1>2
<1>5. PICK R : \A v, w \in D : <<v, w>> \in R <=> Lower(f, v, w)
  <2> WITNESS {q \in D \X D : Lower(f, q[1], q[2])}
  <2> QED OBVIOUS
<1>6. StrictOrder(R, D)
  <2>1. \A v \in D : f[v] \in Nat /\ v \in Nat
    OBVIOUS
  <2>2. \A v \in D : ~Lower(f, v, v)
    BY <2>1 DEF Lower
  <2>3. \A u, v, w \in D : Lower(f, u, v) /\ Lower(f, v, w) => Lower(f, u, w)
    BY <2>1 DEF Lower
  <2>4. \A v, w \in D : v # w => Lower(f, v, w) \/ Lower(f, w, v)
    BY <2>1 DEF Lower
  <2> QED BY <1>5, <2>2, <2>3, <2>4 DEF StrictOrder
<1>7. \A v \in D : Ahead(R, D, v) = {w \in D : Lower(f, w, v)}
  <2> QED BY <1>5 DEF Ahead
<1>8. \A i \in 1 .. n : p[i] \in D /\ Cardinality(Ahead(R, D, p[i])) = i - 1
  <2> SUFFICES ASSUME NEW i \in 1 .. n PROVE p[i] \in D /\ Cardinality(Ahead(R, D, p[i])) = i - 1
    OBVIOUS
  <2>1. i - 1 \in 0 .. n - 1
    BY <1>1
  <2>2. \E v \in D : Cardinality(Ahead(R, D, v)) = i - 1
    <3> HIDE DEF p
    <3>1. {Cardinality(Ahead(R, D, v)) : v \in D} = 0 .. Cardinality(D) - 1
      BY <1>6, RanksTaken, Zenon
    <3> QED BY <2>1, <3>1
  <2>3. \E v \in D : Cardinality({w \in D : Lower(f, w, v)}) = i - 1
    <3> HIDE DEF p
    <3> QED BY <1>7, <2>2
  <2>4. p[i] \in D /\ Cardinality({w \in D : Lower(f, w, p[i])}) = i - 1
    BY <2>3
  <2> HIDE DEF p
  <2> QED BY <1>7, <2>4
<1> HIDE DEF p
<1>9. p \in [1 .. n -> D]
  <2>1. p = [i \in 1 .. n |-> p[i]]
    BY DEF p
  <2> QED BY <1>8, <2>1
<1>10. \A i, j \in 1 .. n : p[i] = p[j] => i = j
  <2> QED BY <1>1, <1>8
<1>11. \A i, j \in 1 .. n : i < j => f[p[i]] <= f[p[j]]
  <2> SUFFICES ASSUME NEW i \in 1 .. n, NEW j \in 1 .. n, i < j PROVE f[p[i]] <= f[p[j]]
    OBVIOUS
  <2>1. p[i] \in D /\ p[j] \in D /\ f[p[i]] \in Nat /\ f[p[j]] \in Nat
    BY <1>9
  <2>2. CASE <<p[j], p[i]>> \in R
    <3>1. Cardinality(Ahead(R, D, p[j])) < Cardinality(Ahead(R, D, p[i]))
      <4> QED BY <1>6, <2>1, <2>2, AheadGrows
    <3>2. j - 1 < i - 1
      BY <1>8, <3>1
    <3> QED BY <1>1, <3>2
  <2>3. CASE <<p[j], p[i]>> \notin R
    <3>1. ~Lower(f, p[j], p[i])
      BY <1>5, <2>1, <2>3
    <3> QED BY <2>1, <3>1 DEF Lower
  <2> QED BY <2>2, <2>3
<1> QED BY <1>1, <1>3, <1>4, <1>9, <1>10, <1>11

\* At least half of the values are at most the median, at least half at least it.
LEMMA MedianHalves ==
  ASSUME NEW D \in SUBSET Nat, IsFiniteSet(D), D # {}, NEW f \in [D -> Nat]
  PROVE  /\ TwiceMedian(f) \in Nat
         /\ 2 * Cardinality({v \in D : 2 * f[v] <= TwiceMedian(f)}) >= Cardinality(D)
         /\ 2 * Cardinality({v \in D : 2 * f[v] >= TwiceMedian(f)}) >= Cardinality(D)
<1> DEFINE s == Ascending(f)
<1>1. PICK n \in Nat : n = Cardinality(D)
  BY FS_CardinalityType
<1>2. n # 0
  BY <1>1, FS_EmptySet
<1>3. Len(s) = n
  BY <1>1, AscendingIs
<1>4. PICK p \in [1 .. n -> D] : /\ \A i, j \in 1 .. n : p[i] = p[j] => i = j
                                 /\ \A i \in 1 .. n : s[i] = f[p[i]]
                                 /\ \A i, j \in 1 .. n : i < j => f[p[i]] <= f[p[j]]
  BY <1>1, AscendingIs
<1> DEFINE k == n \div 2
           m == (n + 1) \div 2
<1>5. /\ k \in Nat /\ m \in Nat /\ m >= 1 /\ m <= n /\ 2 * m >= n /\ n = k + m
      /\ n % 2 = 0 => k = m
      /\ n % 2 # 0 => m = k + 1
  BY <1>2
<1>6. TwiceMedian(f) = IF n % 2 = 0 THEN s[k] + s[k + 1] ELSE 2 * s[k + 1]
  BY <1>3 DEF TwiceMedian
<1> HIDE DEF s, k, m
<1>7. \A i \in 1 .. n : s[i] \in Nat /\ p[i] \in D /\ s[i] = f[p[i]]
  BY <1>4
<1>8. \A i, j \in 1 .. n : i <= j => s[i] <= s[j]
  <2>1. \A i, j \in 1 .. n : i <= j => i = j \/ i < j
    BY <1>1
  <2>2. \A i, j \in 1 .. n : i < j => s[i] <= s[j]
    BY <1>4
  <2>3. \A i \in 1 .. n : s[i] <= s[i]
    BY <1>7
  <2> QED BY <2>1, <2>2, <2>3
<1>9. k + 1 \in 1 .. n /\ m \in 1 .. n
  BY <1>5
<1>10. /\ TwiceMedian(f) \in Nat
       /\ \A i \in 1 .. n : i <= m => 2 * s[i] <= TwiceMedian(f)
       /\ \A i \in 1 .. n : i >= k + 1 => 2 * s[i] >= TwiceMedian(f)
  <2>1. CASE n % 2 = 0
    <3>1. k = m /\ TwiceMedian(f) = s[m] + s[k + 1]
      BY <1>5, <1>6, <2>1
    <3>2. s[m] <= s[k + 1] /\ s[m] \in Nat /\ s[k + 1] \in Nat
      BY <1>5, <1>7, <1>8, <1>9, <3>1
    <3>3. ASSUME NEW i \in 1 .. n, i <= m PROVE 2 * s[i] <= TwiceMedian(f)
      <4>1. s[i] <= s[m] /\ s[i] \in Nat
        BY <1>7, <1>8, <1>9, <3>3
      <4> QED BY <3>1, <3>2, <4>1
    <3>4. ASSUME NEW i \in 1 .. n, i >= k + 1 PROVE 2 * s[i] >= TwiceMedian(f)
      <4>1. k + 1 <= i
        BY <1>5, <3>4
      <4>2. s[k + 1] <= s[i] /\ s[i] \in Nat
        BY <1>7, <1>8, <1>9, <4>1
      <4> QED BY <3>1, <3>2, <4>2
    <3> QED BY <3>1, <3>2, <3>3, <3>4
  <2>2. CASE n % 2 # 0
    <3>1. m = k + 1 /\ TwiceMedian(f) = 2 * s[m]
      BY <1>5, <1>6, <2>2
    <3>2. s[m] \in Nat
      BY <1>7, <1>9
    <3>3. ASSUME NEW i \in 1 .. n, i <= m PROVE 2 * s[i] <= TwiceMedian(f)
      <4>1. s[i] <= s[m] /\ s[i] \in Nat
        BY <1>7, <1>8, <1>9, <3>3
      <4> QED BY <3>1, <3>2, <4>1
    <3>4. ASSUME NEW i \in 1 .. n, i >= k + 1 PROVE 2 * s[i] >= TwiceMedian(f)
      <4>1. m <= i
        BY <1>5, <3>1, <3>4
      <4>2. s[m] <= s[i] /\ s[i] \in Nat
        BY <1>7, <1>8, <1>9, <4>1
      <4> QED BY <3>1, <3>2, <4>2
    <3> QED BY <3>1, <3>2, <3>3, <3>4
  <2> QED BY <2>1, <2>2
<1>11. ASSUME NEW b \in Nat, b + m <= n, NEW T \in SUBSET D, \A i \in b + 1 .. b + m : p[i] \in T
       PROVE  2 * Cardinality(T) >= n
  <2> DEFINE I == b + 1 .. b + m
             Q == {p[i] : i \in I}
  <2>1. I \subseteq 1 .. n
    BY <1>5, <1>11
  <2>2. IsFiniteSet(I) /\ Cardinality(I) = m
    BY <1>5, Stretch
  <2>3. \A i, j \in I : p[i] = p[j] => i = j
    BY <1>4, <2>1
  <2>4. Q \in SUBSET T
    BY <1>11
  <2>5. IsFiniteSet(T) /\ Cardinality(T) \in Nat
    BY FS_Subset, FS_CardinalityType
  <2>6. Cardinality(Q) = m
    <3> HIDE DEF I
    <3> QED BY <2>2, <2>3, ImageSize
  <2>7. Cardinality(Q) <= Cardinality(T)
    <3> HIDE DEF Q
    <3> QED BY <2>4, <2>5, FS_Subset, Zenon
  <2> HIDE DEF Q
  <2> QED BY <1>5, <2>5, <2>6, <2>7
<1>12. 2 * Cardinality({v \in D : 2 * f[v] <= TwiceMedian(f)}) >= n
  <2>1. \A i \in 0 + 1 .. 0 + m : p[i] \in {v \in D : 2 * f[v] <= TwiceMedian(f)}
    <3> SUFFICES ASSUME NEW i \in 0 + 1 .. 0 + m PROVE p[i] \in {v \in D : 2 * f[v] <= TwiceMedian(f)}
      OBVIOUS
    <3>1. i \in 1 .. n /\ i <= m
      BY <1>5
    <3> QED BY <1>7, <1>10, <3>1
  <2>2. 0 + m <= n
    BY <1>5
  <2> QED BY <1>11, <2>1, <2>2
<1>13. 2 * Cardinality({v \in D : 2 * f[v] >= TwiceMedian(f)}) >= n
  <2>1. \A i \in k + 1 .. k + m : p[i] \in {v \in D : 2 * f[v] >= TwiceMedian(f)}
    <3> SUFFICES ASSUME NEW i \in k + 1 .. k + m PROVE p[i] \in {v \in D : 2 * f[v] >= TwiceMedian(f)}
      OBVIOUS
    <3>1. i \in 1 .. n /\ i >= k + 1
      BY <1>5
    <3> QED BY <1>7, <1>10, <3>1
  <2>2. k + m <= n /\ k \in Nat
    BY <1>5
  <2> QED BY <1>11, <2>1, <2>2
<1> QED BY <1>1, <1>10, <1>12, <1>13

-----------------------------------------------------------------------------
(* Least and greatest values, and the bars of the histogram.               *)

\* A finite set of numbers has a greatest and a least one.
LEMMA Extremes ==
  ASSUME NEW S, S \subseteq Nat, IsFiniteSet(S), S # {}
  PROVE  /\ Max(S) \in S /\ Min(S) \in S
         /\ \A x \in S : Min(S) <= x /\ x <= Max(S)
<1> DEFINE G == {T \in SUBSET S : T = {} \/ \E m \in T : \A x \in T : m >= x}
<1>1. ASSUME NEW T \in SUBSET S, NEW y \in S \ T, T \in G PROVE T \cup {y} \in G
  <2>1. y \in Nat /\ T \subseteq Nat /\ T \cup {y} \in SUBSET S
    OBVIOUS
  <2>2. CASE T = {}
    <3>1. \A x \in T \cup {y} : y >= x
      BY <2>1, <2>2
    <3> QED BY <2>1, <3>1
  <2>3. CASE T # {}
    <3>1. PICK m \in T : \A x \in T : m >= x
      BY <1>1, <2>3
    <3>2. m \in Nat
      BY <2>1
    <3>3. CASE m >= y
      <4>1. \A x \in T \cup {y} : m >= x
        BY <3>1, <3>3
      <4> QED BY <2>1, <4>1
    <3>4. CASE ~(m >= y)
      <4>1. \A x \in T \cup {y} : y >= x
        BY <2>1, <3>1, <3>2, <3>4
      <4> QED BY <2>1, <4>1
    <3> QED BY <3>3, <3>4
  <2> QED BY <2>2, <2>3
<1>2. S \in G
  <2>1. {} \in G
    OBVIOUS
  <2> HIDE DEF G
  <2> QED BY <1>1, <2>1, Adding
<1>3. \E m \in S : \A x \in S : m >= x
  BY <1>2
<1>4. Max(S) \in S /\ \A x \in S : Max(S) >= x
  BY <1>3, Zenon DEF Max
<1>5. \E m \in S : \A x \in S : m =< x
  BY Least
<1>6. Min(S) \in S /\ \A x \in S : Min(S) =< x
  BY <1>5, Zenon DEF Min
<1>7. \A x \in S : Max(S) \in Nat /\ x \in Nat
  BY <1>4
<1> QED BY <1>4, <1>6, <1>7

\* The greater and the lesser of two numbers.
LEMMA OfTwo ==
  ASSUME NEW a \in Int, NEW b \in Int
  PROVE  /\ Max({a, b}) = IF a >= b THEN a ELSE b
         /\ Min({a, b}) = IF a <= b THEN a ELSE b
<1>1. PICK m \in {a, b} : (m = IF a >= b THEN a ELSE b) /\ \A x \in {a, b} : m >= x
  OBVIOUS
<1>2. Max({a, b}) \in {a, b} /\ \A x \in {a, b} : Max({a, b}) >= x
  BY <1>1, Zenon DEF Max
<1>3. PICK n \in {a, b} : (n = IF a <= b THEN a ELSE b) /\ \A x \in {a, b} : n =< x
  OBVIOUS
<1>4. Min({a, b}) \in {a, b} /\ \A x \in {a, b} : Min({a, b}) =< x
  BY <1>3, Zenon DEF Min
<1>5. Max({a, b}) = IF a >= b THEN a ELSE b
  BY <1>2
<1>6. Min({a, b}) = IF a <= b THEN a ELSE b
  BY <1>4
<1> QED BY <1>5, <1>6

\* Multiplication keeps the order.
LEMMA Times ==
  ASSUME NEW a \in Nat, NEW b \in Nat, NEW c \in Nat, a <= b
  PROVE  c * a <= c * b /\ c * a \in Nat /\ c * b \in Nat
<1>1. PICK d \in Nat : b = a + d
  <2>1. b - a \in Nat /\ b = a + (b - a)
    OBVIOUS
  <2> QED BY <2>1
<1>2. c * b = c * a + c * d /\ c * d \in Nat /\ c * a \in Nat /\ c * b \in Nat
  BY <1>1
<1> QED BY <1>2

\* The values of a function of numbers.
LEMMA ValuesBetween ==
  ASSUME NEW D, IsFiniteSet(D), D # {}, NEW f \in [D -> Nat]
  PROVE  /\ Min(Range(f)) \in Nat /\ Max(Range(f)) \in Nat /\ Min(Range(f)) <= Max(Range(f))
         /\ \A v \in D : f[v] \in Nat /\ Min(Range(f)) <= f[v] /\ f[v] <= Max(Range(f))
         /\ Width(f) \in Nat \ {0}
<1>1. Range(f) = {f[v] : v \in D}
  BY DEF Range
<1>2. IsFiniteSet(Range(f)) /\ Range(f) \subseteq Nat /\ Range(f) # {}
  BY <1>1, ImageFinite
<1>3. /\ Max(Range(f)) \in Nat /\ Min(Range(f)) \in Nat
      /\ \A x \in Range(f) : Min(Range(f)) <= x /\ x <= Max(Range(f))
  BY <1>2, Extremes
<1>4. \A v \in D : f[v] \in Range(f) /\ f[v] \in Nat
  BY <1>1
<1>5. PICK v \in D : TRUE
  OBVIOUS
<1>6. Min(Range(f)) <= f[v] /\ f[v] <= Max(Range(f)) /\ f[v] \in Nat
  BY <1>3, <1>4
<1>7. Min(Range(f)) <= Max(Range(f))
  BY <1>3, <1>6
<1>8. Width(f) \in Nat \ {0}
  <2>1. PICK d \in Int : d = Max(Range(f)) - Min(Range(f))
    BY <1>3
  <2>2. Max({d, 1}) = IF d >= 1 THEN d ELSE 1
    BY OfTwo
  <2> QED BY <2>1, <2>2 DEF Width
<1> QED BY <1>3, <1>4, <1>7, <1>8

\* Every value lies in its bar.
LEMMA BarHolds ==
  ASSUME NEW D, IsFiniteSet(D), D # {}, NEW f \in [D -> Nat], NEW v \in D
  PROVE  /\ BarOf(f, f[v]) \in 1 .. Bars
         /\ f[v] * Bars \in Histogram(f)[BarOf(f, f[v])].start .. Histogram(f)[BarOf(f, f[v])].end
<1>1. Bars \in Nat \ {0}
  BY PriceAssumption
<1>2. PICK lo \in Nat : lo = Min(Range(f))
  BY ValuesBetween
<1>3. PICK hi \in Nat : hi = Max(Range(f))
  BY ValuesBetween
<1>4. PICK w \in Nat \ {0} : w = Width(f)
  BY ValuesBetween
<1>5. lo <= f[v] /\ f[v] <= hi /\ f[v] \in Nat
  BY <1>2, <1>3, ValuesBetween
<1>6. PICK d \in Nat : f[v] = lo + d /\ d = f[v] - lo
  <2>1. f[v] - lo \in Nat /\ f[v] = lo + (f[v] - lo)
    BY <1>5
  <2> QED BY <2>1
<1>7. PICK e \in Nat : e = d * Bars
  BY <1>1
<1>8. PICK q \in Nat : q = e \div w /\ w * q <= e /\ e < w * (q + 1)
  BY <1>4
<1>9. BarOf(f, f[v]) = Min({Bars, q + 1})
  BY <1>2, <1>4, <1>6, <1>7, <1>8 DEF BarOf
<1>10. PICK b \in 1 .. Bars : b = BarOf(f, f[v]) /\ b = IF Bars <= q + 1 THEN Bars ELSE q + 1
  BY <1>1, <1>8, <1>9, OfTwo
<1>11. PICK c \in Nat : b = c + 1 /\ c = b - 1 /\ c <= q
  <2>1. b - 1 \in Nat /\ b = (b - 1) + 1 /\ b - 1 <= q
    BY <1>1, <1>8, <1>10
  <2> QED BY <2>1
<1>12. PICK l \in Nat : l = lo * Bars
  BY <1>1
<1>13. f[v] * Bars = l + e
  <2>1. (lo + d) * Bars = lo * Bars + d * Bars
    BY <1>1
  <2> QED BY <1>6, <1>7, <1>12, <2>1
<1>14. /\ Histogram(f)[b].start = l + c * w
       /\ Histogram(f)[b].end = IF b = Bars THEN hi * Bars ELSE l + b * w
  BY <1>2, <1>3, <1>4, <1>10, <1>11, <1>12 DEF Histogram
<1>15. PICK cw \in Nat : cw = c * w /\ cw <= e
  <2>1. w * c <= w * q /\ w * c \in Nat /\ w * q \in Nat
    BY <1>11, Times
  <2>2. w * c = c * w
    OBVIOUS
  <2> QED BY <1>8, <2>1, <2>2
<1>16. CASE b = Bars
  <2>1. Bars * f[v] <= Bars * hi /\ Bars * f[v] \in Nat /\ Bars * hi \in Nat
    BY <1>1, <1>5, Times
  <2>2. f[v] * Bars = Bars * f[v] /\ hi * Bars = Bars * hi
    BY <1>1, <1>5
  <2>3. PICK end \in Nat : end = Histogram(f)[b].end /\ l + e <= end
    BY <1>13, <1>14, <1>16, <2>1, <2>2
  <2>4. Histogram(f)[b].start = l + cw
    BY <1>14, <1>15
  <2>5. l + e \in l + cw .. end
    BY <1>15, <2>3
  <2> QED BY <1>10, <1>13, <2>3, <2>4, <2>5
<1>17. CASE b # Bars
  <2>1. b = q + 1 /\ q + 1 \in Nat
    BY <1>1, <1>8, <1>10, <1>17
  <2>2. PICK bw \in Nat : bw = b * w /\ e <= bw
    <3>1. w * (q + 1) = (q + 1) * w /\ w * (q + 1) \in Nat
      OBVIOUS
    <3> QED BY <1>8, <2>1, <3>1
  <2>3. Histogram(f)[b].start = l + cw /\ Histogram(f)[b].end = l + bw
    BY <1>14, <1>15, <1>17, <2>2
  <2>4. l + e \in l + cw .. l + bw
    BY <1>15, <2>2
  <2> QED BY <1>10, <1>13, <2>3, <2>4
<1> QED BY <1>16, <1>17

\* A number within a bar is between the least and the greatest value.
LEMMA BarWithin ==
  ASSUME NEW D, IsFiniteSet(D), D # {}, NEW f \in [D -> Nat], NEW i \in 1 .. Bars, NEW x \in Nat,
         x * Bars \in Histogram(f)[i].start .. Histogram(f)[i].end
  PROVE  Min(Range(f)) <= x /\ x <= Max(Range(f))
<1>1. PICK B \in Nat \ {0} : B = Bars
  BY PriceAssumption
<1>2. PICK lo \in Nat : lo = Min(Range(f))
  BY ValuesBetween
<1>3. PICK hi \in Nat : hi = Max(Range(f)) /\ lo <= hi
  BY <1>2, ValuesBetween
<1>4. PICK w \in Nat \ {0} : w = Width(f)
  BY ValuesBetween
<1>5. w = IF hi - lo >= 1 THEN hi - lo ELSE 1
  <2>1. PICK d \in Int : d = hi - lo
    OBVIOUS
  <2>2. Max({d, 1}) = IF d >= 1 THEN d ELSE 1
    BY OfTwo
  <2> QED BY <1>2, <1>3, <1>4, <2>1, <2>2 DEF Width
<1>6. PICK c \in Nat : c = i - 1 /\ i \in Nat /\ i <= B
  <2>1. i - 1 \in Nat /\ i \in Nat /\ i <= B
    BY <1>1
  <2> QED BY <2>1
<1>7. PICK bl \in Nat : bl = B * lo /\ bl = lo * B
  BY <1>1
<1>8. PICK bh \in Nat : bh = B * hi /\ bh = hi * B
  BY <1>1
<1>9. PICK bx \in Nat : bx = B * x /\ bx = x * B
  BY <1>1
<1>10. PICK cw \in Nat : cw = c * w
  OBVIOUS
<1>11. PICK iw \in Nat : iw = i * w /\ iw = w * i
  BY <1>6
<1>12. /\ Histogram(f)[i].start = bl + cw
       /\ Histogram(f)[i].end = IF i = B THEN bh ELSE bl + iw
  BY <1>1, <1>2, <1>3, <1>4, <1>6, <1>7, <1>8, <1>10, <1>11 DEF Histogram
<1>13. bl <= bx /\ (i = B => bx <= bh) /\ (i # B => bx <= bl + iw)
  BY <1>1, <1>9, <1>12
<1>14. lo <= x
  <2> SUFFICES ASSUME x + 1 <= lo PROVE FALSE
    OBVIOUS
  <2>1. B * (x + 1) <= B * lo /\ B * (x + 1) = bx + B
    BY <1>1, <1>9, Times
  <2> QED BY <1>7, <1>13, <2>1
<1>15. x <= hi
  <2> SUFFICES ASSUME hi + 1 <= x PROVE FALSE
    OBVIOUS
  <2>1. bh + B <= bx
    <3>1. B * (hi + 1) <= B * x /\ B * (hi + 1) = bh + B
      BY <1>1, <1>8, Times
    <3> QED BY <1>9, <3>1
  <2>2. i # B /\ i + 1 <= B
    BY <1>6, <1>13, <2>1
  <2>3. bl + iw < bh + B
    <3>1. CASE hi - lo >= 1
      <4>1. w = hi - lo
        BY <1>5, <3>1
      <4>2. w * i <= w * B
        BY <1>1, <1>6, Times
      <4>3. w * B = bh - bl
        <5>1. (hi - lo) * B = hi * B - lo * B
          BY <1>1
        <5> QED BY <1>7, <1>8, <4>1, <5>1
      <4> QED BY <1>7, <1>8, <1>11, <4>2, <4>3
    <3>2. CASE ~(hi - lo >= 1)
      <4>1. w = 1 /\ hi = lo
        BY <1>3, <1>5, <3>2
      <4>2. iw = i /\ bl = bh
        BY <1>6, <1>7, <1>8, <1>11, <4>1
      <4> QED BY <2>2, <4>2
    <3> QED BY <3>1, <3>2
  <2> QED BY <1>13, <2>1, <2>2, <2>3
<1> QED BY <1>2, <1>3, <1>14, <1>15

\* What holds of all values' multiples holds of a number between the values.
LEMMA BetweenValues ==
  ASSUME NEW D, IsFiniteSet(D), D # {}, NEW f \in [D -> Nat], NEW x \in Nat,
         Min(Range(f)) <= x, x <= Max(Range(f)), NEW a \in Int, NEW b \in Int,
         \A v \in D : f[v] * Bars \in a .. b
  PROVE  x * Bars \in a .. b
<1>1. PICK B \in Nat : B = Bars
  BY PriceAssumption
<1>2. Range(f) = {f[v] : v \in D}
  BY DEF Range
<1>3. IsFiniteSet(Range(f)) /\ Range(f) \subseteq Nat /\ Range(f) # {}
  BY <1>2, ImageFinite
<1>4. Max(Range(f)) \in Range(f) /\ Min(Range(f)) \in Range(f)
  BY <1>3, Extremes
<1>5. PICK v \in D : f[v] = Min(Range(f))
  BY <1>2, <1>4
<1>6. PICK w \in D : f[w] = Max(Range(f))
  BY <1>2, <1>4
<1>7. f[v] * B \in Int /\ a <= f[v] * B /\ f[w] * B <= b /\ f[v] * B \in a .. b
  BY <1>1
<1>8. B * f[v] <= B * x /\ B * x <= B * f[w]
  BY <1>5, <1>6, Times
<1>9. B * f[v] = f[v] * B /\ B * x = x * B /\ B * f[w] = f[w] * B /\ x * B \in Int
  OBVIOUS
<1>10. f[v] * B <= x * B /\ x * B <= f[w] * B
  BY <1>8, <1>9
<1> QED BY <1>1, <1>7, <1>9, <1>10

-----------------------------------------------------------------------------
(* The vehicles listed, and their prices.                                  *)

\* The vehicles shown, and so those listed, are finitely many numbers.
LEMMA ListedFinite ==
  ASSUME TypeOK
  PROVE  /\ fleet \subseteq Vehicles
         /\ \A c, b : Listed(c, b) \subseteq fleet
         /\ \A S : S \subseteq fleet => S \subseteq Vehicles /\ S \subseteq Nat /\ IsFiniteSet(S)
<1>1. Fleets \in Seq(SUBSET Vehicles) /\ ingests \in 0 .. Len(Fleets) - 1
  BY ListingsAssumption DEF TypeOK
<1>2. ingests + 1 \in 1 .. Len(Fleets)
  BY <1>1
<1>3. fleet \subseteq Vehicles
  BY <1>1, <1>2 DEF fleet
<1>4. Vehicles \subseteq Nat /\ IsFiniteSet(Vehicles)
  BY ListingsAssumption
<1>5. ASSUME NEW c, NEW b PROVE Listed(c, b) \subseteq fleet
  BY DEF Listed
<1>6. ASSUME NEW S, S \subseteq fleet PROVE S \subseteq Vehicles /\ S \subseteq Nat /\ IsFiniteSet(S)
  <2>1. S \in SUBSET Vehicles
    BY <1>3, <1>6
  <2> QED BY <1>4, <2>1, FS_Subset
<1> QED BY <1>3, <1>5, <1>6

\* A price or an MSRP that is there is a number.
LEMMA PriceFacts ==
  ASSUME NEW v \in Vehicles
  PROVE  /\ Car[v].price \in PriceRow
         /\ Price(Car[v].price) # NoPrice => Price(Car[v].price) \in Nat
         /\ Msrp(Car[v].price) # NoPrice => Msrp(Car[v].price) \in Nat
<1>1. Car[v].price \in PriceRow
  BY ListingsAssumption
<1> QED BY <1>1 DEF PriceRow, Price, Msrp, Coalesce, NoPrice

Priced(f, S) == \E D \in SUBSET S : f \in [D -> Nat]

\* The charts are drawn of functions from listed vehicles to numbers.
LEMMA ChartsOfNumbers ==
  ASSUME NEW S, S \subseteq Vehicles
  PROVE  /\ Priced(PricesOf(S), S) /\ Priced(MsrpsOf(S), S)
         /\ MetricsOf(S) \in {PricesOf(S), MsrpsOf(S)}
<1>1. Priced(PricesOf(S), S)
  <2> DEFINE D == {v \in S : Price(Car[v].price) # NoPrice}
  <2>1. \A v \in D : Price(Car[v].price) \in Nat
    BY PriceFacts
  <2>2. PricesOf(S) \in [D -> Nat]
    BY <2>1 DEF PricesOf
  <2>3. D \in SUBSET S
    OBVIOUS
  <2> HIDE DEF D
  <2> QED BY <2>2, <2>3 DEF Priced
<1>2. Priced(MsrpsOf(S), S)
  <2> DEFINE D == {v \in S : Msrp(Car[v].price) # NoPrice}
  <2>1. \A v \in D : Msrp(Car[v].price) \in Nat
    BY PriceFacts
  <2>2. MsrpsOf(S) \in [D -> Nat]
    BY <2>1 DEF MsrpsOf
  <2>3. D \in SUBSET S
    OBVIOUS
  <2> HIDE DEF D
  <2> QED BY <2>2, <2>3 DEF Priced
<1>3. MetricsOf(S) \in {PricesOf(S), MsrpsOf(S)}
  BY DEF MetricsOf
<1> QED BY <1>1, <1>2, <1>3

-----------------------------------------------------------------------------
(* The charts and insights.                                                *)

\* MedianSplits, for one function.
MedianSplitsOf(f) ==
  LET below(S) == {v \in S : 2 * f[v] < TwiceMedian(f)}
      above(S) == {v \in S : 2 * f[v] > TwiceMedian(f)}
      AtLeastHalf(S, T) == 2 * Cardinality(S) >= Cardinality(T)
      with(k)  == {v \in DOMAIN f : Car[v].trim = k}
  IN  /\ AtLeastHalf(DOMAIN f \ above(DOMAIN f), DOMAIN f)
      /\ AtLeastHalf(DOMAIN f \ below(DOMAIN f), DOMAIN f)
      /\ \A g \in GroupStats(f, TrimOf, MinSamples) :
           /\ g.delta2 < 0 => AtLeastHalf(below(with(g.key)), with(g.key))
           /\ g.delta2 > 0 => AtLeastHalf(above(with(g.key)), with(g.key))

\* A group's stats are of the vehicles with its trim, which are MinSamples at least.
LEMMA Groups ==
  ASSUME NEW D, D \subseteq Vehicles, NEW f \in [D -> Nat], NEW g \in GroupStats(f, TrimOf, MinSamples)
  PROVE  LET G == {v \in D : Car[v].trim = g.key}
         IN  /\ g.delta2 = TwiceMedian([v \in G |-> f[v]]) - TwiceMedian(f)
             /\ Cardinality(G) >= MinSamples
<1> DEFINE group(k) == Part(f, {v \in DOMAIN f : TrimOf[v] = k})
<1>1. PICK k : /\ g = [key |-> k, stats |-> Stats(group(k)), delta2 |-> TwiceMedian(group(k)) - TwiceMedian(f)]
               /\ Cardinality(DOMAIN group(k)) >= MinSamples
  BY Zenon DEF GroupStats
<1>2. g.key = k /\ g.delta2 = TwiceMedian(group(k)) - TwiceMedian(f)
  <2> HIDE DEF group
  <2> QED BY <1>1
<1> DEFINE G == {v \in D : Car[v].trim = k}
<1>3. {v \in DOMAIN f : TrimOf[v] = k} = G
  BY DEF TrimOf
<1>4. DOMAIN f \cap G = G
  OBVIOUS
<1>5. group(k) = [v \in G |-> f[v]]
  BY <1>3, <1>4, Zenon DEF Part
<1>6. DOMAIN group(k) = G
  BY <1>5
<1> HIDE DEF group
<1> QED BY <1>1, <1>2, <1>5, <1>6

\* The median lies where it should, and groups on the side that they are shown on.
LEMMA SplitByMedian ==
  ASSUME NEW D, D \subseteq Vehicles, D \subseteq Nat, IsFiniteSet(D), D # {}, NEW f \in [D -> Nat]
  PROVE  MedianSplitsOf(f)
<1>1. PICK m \in Nat : m = TwiceMedian(f)
  BY MedianHalves
<1>2. DOMAIN f = D /\ \A v \in D : f[v] \in Nat
  OBVIOUS
<1>3. /\ 2 * Cardinality({v \in D : 2 * f[v] <= m}) >= Cardinality(D)
      /\ 2 * Cardinality({v \in D : 2 * f[v] >= m}) >= Cardinality(D)
  BY <1>1, MedianHalves
<1>4. /\ D \ {v \in D : 2 * f[v] > m} = {v \in D : 2 * f[v] <= m}
      /\ D \ {v \in D : 2 * f[v] < m} = {v \in D : 2 * f[v] >= m}
  <2>1. \A v \in D : (2 * f[v] <= m <=> ~(2 * f[v] > m)) /\ (2 * f[v] >= m <=> ~(2 * f[v] < m))
    BY <1>2
  <2>2. D \ {v \in D : 2 * f[v] > m} = {v \in D : 2 * f[v] <= m}
    BY <2>1, Zenon
  <2>3. D \ {v \in D : 2 * f[v] < m} = {v \in D : 2 * f[v] >= m}
    BY <2>1, Zenon
  <2> QED BY <2>2, <2>3
<1>5. ASSUME NEW g \in GroupStats(f, TrimOf, MinSamples)
      PROVE  LET G == {v \in D : Car[v].trim = g.key}
             IN  /\ g.delta2 < 0 => 2 * Cardinality({v \in G : 2 * f[v] < m}) >= Cardinality(G)
                 /\ g.delta2 > 0 => 2 * Cardinality({v \in G : 2 * f[v] > m}) >= Cardinality(G)
  <2> DEFINE G == {v \in D : Car[v].trim = g.key}
             e == [v \in G |-> f[v]]
  <2>1. g.delta2 = TwiceMedian(e) - m /\ Cardinality(G) >= MinSamples
    BY <1>1, Groups
  <2>2. G \in SUBSET D
    OBVIOUS
  <2>3. e \in [G -> Nat] /\ \A v \in G : e[v] = f[v] /\ f[v] \in Nat
    BY <1>2
  <2> HIDE DEF G, e
  <2>4. IsFiniteSet(G) /\ G \in SUBSET Nat /\ Cardinality(G) \in Nat
    BY <2>2, FS_Subset, FS_CardinalityType
  <2>5. G # {}
    BY <2>1, FS_EmptySet, PriceAssumption
  <2>6. /\ TwiceMedian(e) \in Nat
        /\ 2 * Cardinality({v \in G : 2 * e[v] <= TwiceMedian(e)}) >= Cardinality(G)
        /\ 2 * Cardinality({v \in G : 2 * e[v] >= TwiceMedian(e)}) >= Cardinality(G)
    BY <2>3, <2>4, <2>5, MedianHalves
  <2>7. PICK c \in Nat : c = TwiceMedian(e)
    BY <2>6
  <2>8. ASSUME NEW A, NEW B, B \in SUBSET G, A \in SUBSET B, 2 * Cardinality(A) >= Cardinality(G)
        PROVE  2 * Cardinality(B) >= Cardinality(G)
    <3>1. IsFiniteSet(A) /\ IsFiniteSet(B) /\ Cardinality(A) <= Cardinality(B)
      BY <2>4, <2>8, FS_Subset, Zenon
    <3>2. Cardinality(A) \in Nat /\ Cardinality(B) \in Nat
      BY <3>1, FS_CardinalityType
    <3> QED BY <2>4, <2>8, <3>1, <3>2
  <2>9. g.delta2 < 0 => 2 * Cardinality({v \in G : 2 * f[v] < m}) >= Cardinality(G)
    <3> SUFFICES ASSUME g.delta2 < 0 PROVE 2 * Cardinality({v \in G : 2 * f[v] < m}) >= Cardinality(G)
      OBVIOUS
    <3>1. c < m
      BY <2>1, <2>7
    <3>2. {v \in G : 2 * e[v] <= c} \subseteq {v \in G : 2 * f[v] < m}
      BY <2>3, <3>1
    <3> QED BY <2>6, <2>7, <2>8, <3>2
  <2>10. g.delta2 > 0 => 2 * Cardinality({v \in G : 2 * f[v] > m}) >= Cardinality(G)
    <3> SUFFICES ASSUME g.delta2 > 0 PROVE 2 * Cardinality({v \in G : 2 * f[v] > m}) >= Cardinality(G)
      OBVIOUS
    <3>1. m < c
      BY <2>1, <2>7
    <3>2. {v \in G : 2 * e[v] >= c} \subseteq {v \in G : 2 * f[v] > m}
      BY <2>3, <3>1
    <3> QED BY <2>6, <2>7, <2>8, <3>2
  <2> QED BY <2>9, <2>10 DEF G
<1> QED BY <1>1, <1>2, <1>3, <1>4, <1>5, Zenon DEF MedianSplitsOf

\* Half of the prices of the vehicles listed lie on either side of the median.
LEMMA MediansSplit == TypeOK => MedianSplits
<1> SUFFICES ASSUME TypeOK PROVE MedianSplits
  OBVIOUS
<1>1. Now \subseteq Vehicles /\ \A S : S \subseteq Now => S \subseteq Vehicles /\ S \subseteq Nat /\ IsFiniteSet(S)
  BY ListedFinite DEF Now
<1>2. ASSUME NEW f \in {PricesOf(Now), MsrpsOf(Now)}, DOMAIN f # {} PROVE MedianSplitsOf(f)
  <2>1. Priced(f, Now)
    BY <1>1, ChartsOfNumbers
  <2>2. PICK D \in SUBSET Now : f \in [D -> Nat]
    BY <2>1 DEF Priced
  <2>3. D # {} /\ D \subseteq Vehicles /\ D \subseteq Nat /\ IsFiniteSet(D)
    BY <1>1, <1>2, <2>2
  <2> QED BY <2>2, <2>3, SplitByMedian
<1> QED BY <1>2, Zenon DEF MedianSplits, MedianSplitsOf

\* A function that draws a histogram.
LEMMA HistogramOfNumbers ==
  ASSUME NEW S, S \subseteq Vehicles, IsFiniteSet(S)
  PROVE  \E D \in SUBSET S : /\ MetricsOf(S) \in [D -> Nat] /\ IsFiniteSet(D)
                             /\ HasHistogram(S) => D # {}
<1>1. Priced(MetricsOf(S), S)
  BY ChartsOfNumbers
<1>2. PICK D \in SUBSET S : MetricsOf(S) \in [D -> Nat]
  BY <1>1 DEF Priced
<1>3. IsFiniteSet(D)
  BY FS_Subset
<1>4. ASSUME HasHistogram(S) PROVE D # {}
  <2>1. Cardinality(D) >= MinSamples /\ MinSamples \in Nat \ {0}
    BY <1>2, <1>4, PriceAssumption DEF HasHistogram
  <2>2. Cardinality({}) = 0
    BY FS_EmptySet
  <2> QED BY <2>1, <2>2
<1> QED BY <1>2, <1>3, <1>4

\* The bars together hold every value.
LEMMA BarsComplete ==
  ASSUME NEW D, IsFiniteSet(D), D # {}, NEW f \in [D -> Nat]
  PROVE  SumFunction([i \in 1 .. Bars |-> Histogram(f)[i].count]) = Cardinality(DOMAIN f)
<1> DEFINE K == 1 .. Bars
<1>0. PICK key : key = [v \in D |-> BarOf(f, f[v])]
  OBVIOUS
<1>1. IsFiniteSet(K)
  BY PriceAssumption, FS_Interval
<1>2. \A k \in K : Histogram(f)[k].count = Cardinality({v \in D : key[v] = k})
  <2> SUFFICES ASSUME NEW k \in K PROVE Histogram(f)[k].count = Cardinality({v \in D : key[v] = k})
    OBVIOUS
  <2>1. {v \in DOMAIN f : BarOf(f, f[v]) = k} = {v \in D : key[v] = k}
    BY <1>0
  <2>2. Histogram(f)[k].count = Cardinality({v \in DOMAIN f : BarOf(f, f[v]) = k})
    BY DEF Histogram
  <2> QED BY <2>1, <2>2, Zenon
<1>3. \A v \in D : key[v] \in K
  BY <1>0, BarHolds
<1>4. {v \in D : key[v] \in K} = D
  BY <1>3
<1>5. [k \in K |-> Histogram(f)[k].count] = [k \in K |-> Cardinality({v \in D : key[v] = k})]
  BY <1>2, Zenon
<1>6. DOMAIN f = D
  OBVIOUS
<1> HIDE DEF K
<1>7. PICK size : size = [k \in K |-> Histogram(f)[k].count] /\ size = [k \in K |-> Cardinality({v \in D : key[v] = k})]
  BY <1>5
<1>8. SumFunction(size) = Cardinality(DOMAIN f)
  BY <1>1, <1>4, <1>6, <1>7, SumOfGroups
<1>9. SumFunction([k \in K |-> Histogram(f)[k].count]) = Cardinality(DOMAIN f)
  BY <1>7, <1>8, Zenon
<1> QED BY <1>9 DEF K

\* So the histogram of the vehicles listed is complete.
LEMMA HistogramsComplete == TypeOK => HistogramIsComplete
<1> SUFFICES ASSUME TypeOK, HasHistogram(Now)
             PROVE  /\ SumFunction([i \in 1 .. Bars |-> Histogram(MetricsOf(Now))[i].count])
                         = Cardinality(DOMAIN MetricsOf(Now))
                    /\ \A v \in DOMAIN MetricsOf(Now) :
                         LET f == MetricsOf(Now)
                         IN  f[v] * Bars \in Histogram(f)[BarOf(f, f[v])].start .. Histogram(f)[BarOf(f, f[v])].end
  BY Zenon DEF HistogramIsComplete
<1>1. Now \subseteq Vehicles /\ IsFiniteSet(Now)
  BY ListedFinite DEF Now
<1>2. PICK D \in SUBSET Now : MetricsOf(Now) \in [D -> Nat] /\ IsFiniteSet(D) /\ D # {}
  BY <1>1, HistogramOfNumbers
<1>3. PICK f \in [D -> Nat] : f = MetricsOf(Now)
  BY <1>2
<1>4. SumFunction([i \in 1 .. Bars |-> Histogram(f)[i].count]) = Cardinality(DOMAIN f)
  BY <1>2, BarsComplete
<1>5. \A v \in D : f[v] * Bars \in Histogram(f)[BarOf(f, f[v])].start .. Histogram(f)[BarOf(f, f[v])].end
  BY <1>2, BarHolds
<1>6. DOMAIN f = D
  OBVIOUS
<1> QED BY <1>3, <1>4, <1>5, <1>6, Zenon

\* Those with an option and those without are all, and so are their prices.
LEMMA ImpactsTrue == TypeOK => ImpactIsTrue
<1> SUFFICES ASSUME TypeOK, NEW o \in ShownOptions(MetricsOf(Now), Having(Now))
             PROVE  LET f    == MetricsOf(Now)
                        n    == Impact(f, Having(Now)[o])
                        rest == Part(f, {v \in Now : o \notin Car[v].options})
                    IN  n.without = Cardinality(DOMAIN rest) /\ n.sumWithout = Sum(rest)
  BY Zenon DEF ImpactIsTrue
<1>1. Now \subseteq Vehicles /\ IsFiniteSet(Now)
  BY ListedFinite DEF Now
<1>2. PICK D \in SUBSET Now : MetricsOf(Now) \in [D -> Nat] /\ IsFiniteSet(D)
  BY <1>1, HistogramOfNumbers
<1>3. PICK f \in [D -> Nat] : f = MetricsOf(Now)
  BY <1>2
<1>4. Having(Now)[o] = {v \in Now : o \in Car[v].options}
  <2>1. o \in Options
    BY DEF ShownOptions, Having
  <2> QED BY <2>1 DEF Having
<1> DEFINE W == {v \in D : o \in Car[v].options}
           V == {v \in D : o \notin Car[v].options}
<1>5. W \in SUBSET D /\ V \in SUBSET D /\ W \cap V = {} /\ W \cup V = D /\ D \cap W = W
  OBVIOUS
<1>6. DOMAIN f \cap Having(Now)[o] = W /\ DOMAIN f \cap {v \in Now : o \notin Car[v].options} = V
  BY <1>4
<1> HIDE DEF W, V
<1>7. /\ Part(f, Having(Now)[o]) = [v \in W |-> f[v]]
      /\ Part(f, {v \in Now : o \notin Car[v].options}) = [v \in V |-> f[v]]
  BY <1>6, Zenon DEF Part
<1> DEFINE with == [v \in W |-> f[v]]
           rest == [v \in V |-> f[v]]
<1>8. DOMAIN with = W /\ DOMAIN rest = V /\ DOMAIN f = D /\ f = [v \in D |-> f[v]] /\ f \in [D -> Int]
  OBVIOUS
<1>9. Sum(f) - Sum(with) = Sum(rest)
  <2>1. PICK a : a = with
    OBVIOUS
  <2>2. PICK b : b = rest
    OBVIOUS
  <2>3. SumFunction(f) - SumFunction(a) = SumFunction(b)
    <3>1. IsFiniteSet(D) /\ W \cap V = {} /\ W \cup V = D
      BY <1>2, <1>5
    <3>2. f \in [D -> Int] /\ a = [v \in W |-> f[v]] /\ b = [v \in V |-> f[v]]
      BY <1>8, <2>1, <2>2
    <3> HIDE DEF with, rest
    <3> QED BY <3>1, <3>2, SumOfRest
  <2> QED BY <2>1, <2>2, <2>3, Zenon DEF Sum
<1>10. Cardinality(D) - Cardinality(W) = Cardinality(V)
  <2>1. IsFiniteSet(W) /\ IsFiniteSet(V)
    BY <1>2, <1>5, FS_Subset
  <2>2. Cardinality(D) = Cardinality(W) + Cardinality(V) - Cardinality({})
    BY <1>5, <2>1, FS_Union
  <2>3. Cardinality({}) = 0 /\ Cardinality(W) \in Nat /\ Cardinality(V) \in Nat
    BY <2>1, FS_EmptySet, FS_CardinalityType
  <2> QED BY <2>2, <2>3
<1> DEFINE n == Impact(f, Having(Now)[o])
<1>11. n.without = Cardinality(D) - Cardinality(W) /\ n.sumWithout = Sum(f) - Sum(with)
  <2>1. n = [with |-> Cardinality(DOMAIN with), sumWith |-> Sum(with),
             without |-> Cardinality(DOMAIN f) - Cardinality(DOMAIN with), sumWithout |-> Sum(f) - Sum(with)]
    BY <1>7, Zenon DEF Impact
  <2> HIDE DEF n, with
  <2>2. n.without = Cardinality(DOMAIN f) - Cardinality(DOMAIN with) /\ n.sumWithout = Sum(f) - Sum(with)
    BY <2>1
  <2> QED BY <1>8, <2>2
<1>12. n.without = Cardinality(DOMAIN rest) /\ n.sumWithout = Sum(rest)
  <2> HIDE DEF n, with, rest
  <2> QED BY <1>8, <1>9, <1>10, <1>11
<1> HIDE DEF rest
<1>13. Part(f, {v \in Now : o \notin Car[v].options}) = rest
  BY <1>7 DEF rest
<1> QED BY <1>3, <1>12, <1>13, Zenon

-----------------------------------------------------------------------------
(* The comparisons with the MSRP.                                          *)

\* The rules that choose prices agree where they overlap.
LEMMA RulesAgree ==
  ASSUME NEW r \in PriceRow, NEW view \in Views, Compared(view, r)
  PROVE  /\ Compared("map", r)
         /\ SaleIn(view, r) = SaleIn("map", r) /\ MsrpIn(view, r) = MsrpIn("map", r)
         /\ Delta(view, r) \in Int /\ Delta("map", r) = Delta(view, r)
<1>1. /\ r.adv \in Nat \cup {-1} /\ r.nonsp \in Nat \cup {-1}
      /\ r.total \in Nat \cup {-1} /\ r.base \in Nat \cup {-1}
  BY DEF PriceRow, NoPrice
<1>2. view \in {"map", "insights", "endpoint"}
  BY DEF Views
<1>3. SaleIn(view, r) # -1 /\ MsrpIn(view, r) # -1
  BY DEF Compared, NoPrice
<1>4. /\ SaleIn("map", r) # -1 /\ SaleIn(view, r) = SaleIn("map", r) /\ SaleIn(view, r) \in Int
  BY <1>1, <1>2, <1>3 DEF SaleIn, Price, Coalesce, Positive, NoPrice
<1>5. /\ MsrpIn("map", r) # -1 /\ MsrpIn(view, r) = MsrpIn("map", r) /\ MsrpIn(view, r) \in Int
  BY <1>1, <1>2, <1>3 DEF MsrpIn, Msrp, Coalesce, Positive, NoPrice
<1> QED BY <1>4, <1>5 DEF Compared, Delta, NoPrice

\* So the three places agree on the vehicles listed.
LEMMA AgreeViews == TypeOK => ViewsAgree
<1>1. TypeOK => Now \subseteq Vehicles
  BY ListedFinite DEF Now
<1>2. \A v \in Vehicles : Car[v].price \in PriceRow
  BY ListingsAssumption
<1> QED BY <1>1, <1>2, RulesAgree DEF ViewsAgree

\* Below, at and above the MSRP add up, if the prices are finitely many.
LEMMA SidesAddUp ==
  ASSUME NEW D, IsFiniteSet(D), NEW e \in [D -> Int]
  PROVE  /\ Sides(e).count = Cardinality(D)
         /\ Sides(e).below = Cardinality({v \in D : e[v] < -Tolerance})
         /\ Sides(e).above = Cardinality({v \in D : e[v] > Tolerance})
         /\ Sides(e).below + Sides(e).at + Sides(e).above = Sides(e).count
         /\ Sides(e).at >= Cardinality({v \in D : e[v] \in -Tolerance .. Tolerance})
<1> DEFINE B == {v \in D : e[v] < -Tolerance}
           A == {v \in D : e[v] > Tolerance}
           M == {v \in D : e[v] \in -Tolerance .. Tolerance}
<1>1. Tolerance \in Nat /\ DOMAIN e = D
  BY PriceAssumption
<1>2. /\ Sides(e).count = Cardinality(D) /\ Sides(e).below = Cardinality(B) /\ Sides(e).above = Cardinality(A)
      /\ Sides(e).at = Max({0, Cardinality(D) - Cardinality(B) - Cardinality(A)})
  BY <1>1 DEF Sides
<1>3. IsFiniteSet(B) /\ IsFiniteSet(A) /\ IsFiniteSet(M) /\ IsFiniteSet(B \cup A)
  BY FS_Subset, FS_Union
<1>4. B \cap A = {} /\ (B \cup A) \cap M = {} /\ (B \cup A) \cup M = D
  <2>1. \A v \in D : e[v] \in Int
    OBVIOUS
  <2> QED BY <1>1, <2>1
<1> HIDE DEF B, A, M
<1>5. Cardinality(B \cup A) = Cardinality(B) + Cardinality(A) - Cardinality({})
  BY <1>3, <1>4, FS_Union
<1>6. Cardinality(D) = Cardinality(B \cup A) + Cardinality(M) - Cardinality({})
  BY <1>3, <1>4, FS_Union
<1>7. /\ Cardinality({}) = 0 /\ Cardinality(B) \in Nat /\ Cardinality(A) \in Nat /\ Cardinality(M) \in Nat
      /\ Cardinality(B \cup A) \in Nat
  BY <1>3, FS_EmptySet, FS_CardinalityType
<1>8. PICK b \in Nat : b = Cardinality(B)
  BY <1>7
<1>9. PICK a \in Nat : a = Cardinality(A)
  BY <1>7
<1>10. PICK m \in Nat : m = Cardinality(M)
  BY <1>7
<1>11. Cardinality(D) = b + a + m
  BY <1>5, <1>6, <1>7, <1>8, <1>9, <1>10
<1>12. Sides(e).at = m
  <2>1. Cardinality(D) - Cardinality(B) - Cardinality(A) = m
    BY <1>8, <1>9, <1>11
  <2>2. Max({0, m}) = m
    BY OfTwo
  <2> QED BY <1>2, <2>1, <2>2
<1>13. Sides(e).below + Sides(e).at + Sides(e).above = Sides(e).count
  BY <1>2, <1>8, <1>9, <1>11, <1>12
<1>14. Sides(e).at >= Cardinality(M)
  BY <1>10, <1>12
<1> QED BY <1>2, <1>13, <1>14 DEF B, A, M

\* The vehicles compared, and the differences.
LEMMA Differences ==
  ASSUME NEW S, S \subseteq Vehicles, NEW view \in Views
  PROVE  LET D == {v \in S : Compared(view, Car[v].price)}
         IN  /\ DeltasOf(view, S) \in [D -> Int]
             /\ D \subseteq DOMAIN DeltasOf("map", S)
             /\ \A v \in D : DeltasOf(view, S)[v] = DeltasOf("map", S)[v]
<1> DEFINE D == {v \in S : Compared(view, Car[v].price)}
<1>1. \A v \in S : Car[v].price \in PriceRow
  BY ListingsAssumption
<1>2. \A v \in D : /\ Delta(view, Car[v].price) \in Int /\ Compared("map", Car[v].price)
                   /\ Delta("map", Car[v].price) = Delta(view, Car[v].price)
  BY <1>1, RulesAgree
<1>3. DeltasOf(view, S) = [v \in D |-> Delta(view, Car[v].price)]
  BY DEF DeltasOf
<1>4. DeltasOf(view, S) \in [D -> Int] /\ \A v \in D : DeltasOf(view, S)[v] = Delta(view, Car[v].price)
  BY <1>2, <1>3
<1>5. \A v \in D : v \in DOMAIN DeltasOf("map", S) /\ DeltasOf("map", S)[v] = Delta("map", Car[v].price)
  BY <1>2 DEF DeltasOf
<1> QED BY <1>2, <1>4, <1>5

BelowIn(e, k) == {v \in DOMAIN e : e[v] < -Tolerance /\ TrimOf[v] = k}

\* A trim's sides are those of its vehicles.
LEMMA TrimSides ==
  ASSUME NEW D, IsFiniteSet(D), D \subseteq Vehicles, NEW e \in [D -> Int], NEW t \in Trims(e, TrimOf)
  PROVE  /\ t.key \in {TrimOf[v] : v \in D}
         /\ t.sides.below + t.sides.at + t.sides.above = t.sides.count
         /\ t.sides.below = Cardinality(BelowIn(e, t.key))
<1> DEFINE of(k) == Sides(Part(e, {v \in DOMAIN e : TrimOf[v] = k}))
<1>1. PICK k \in {TrimOf[v] : v \in DOMAIN e} : t = [key |-> k, sides |-> of(k)]
  BY Zenon DEF Trims
<1>2. t.key = k /\ t.sides = of(k) /\ DOMAIN e = D
  <2> HIDE DEF of
  <2> QED BY <1>1
<1> DEFINE G == {v \in D : TrimOf[v] = k}
           g == [v \in G |-> e[v]]
<1>3. Part(e, {v \in DOMAIN e : TrimOf[v] = k}) = g
  <2>1. {v \in DOMAIN e : TrimOf[v] = k} = G /\ DOMAIN e \cap G = G
    OBVIOUS
  <2> QED BY <2>1, Zenon DEF Part
<1>4. IsFiniteSet(G) /\ g \in [G -> Int]
  BY FS_Subset
<1>5. of(k) = Sides(g)
  BY <1>3, Zenon
<1>6. {v \in G : g[v] < -Tolerance} = BelowIn(e, k)
  BY DEF BelowIn
<1> HIDE DEF G, g, of
<1>7. /\ Sides(g).below = Cardinality({v \in G : g[v] < -Tolerance})
      /\ Sides(g).below + Sides(g).at + Sides(g).above = Sides(g).count
  BY <1>4, SidesAddUp
<1> QED BY <1>1, <1>2, <1>5, <1>6, <1>7

\* No more vehicles of the listed trims are below the MSRP than of all.
LEMMA TrimsBelow ==
  ASSUME NEW D, IsFiniteSet(D), D \subseteq Vehicles, NEW e \in [D -> Int]
  PROVE  SumFunction([k \in {t.key : t \in Trims(e, TrimOf)} |->
                       (CHOOSE t \in Trims(e, TrimOf) : t.key = k).sides.below]) <= Sides(e).below
<1> DEFINE T == Trims(e, TrimOf)
           K == {t.key : t \in T}
           B == {v \in D : e[v] < -Tolerance}
           size == [k \in K |-> (CHOOSE t \in T : t.key = k).sides.below]
<1>1. IsFiniteSet(K)
  <2>1. IsFiniteSet({TrimOf[v] : v \in D})
    BY ImageFinite
  <2>2. K \in SUBSET {TrimOf[v] : v \in D}
    BY TrimSides
  <2> QED BY <2>1, <2>2, FS_Subset
<1>2. \A k \in K : size[k] = Cardinality({v \in B : TrimOf[v] = k})
  <2> SUFFICES ASSUME NEW k \in K PROVE size[k] = Cardinality({v \in B : TrimOf[v] = k})
    OBVIOUS
  <2>1. \E t \in T : t.key = k
    OBVIOUS
  <2>2. PICK t : t \in T /\ t.key = k /\ t = CHOOSE u \in T : u.key = k
    BY <2>1
  <2>3. size[k] = t.sides.below
    BY <2>2
  <2>4. t.sides.below = Cardinality(BelowIn(e, t.key))
    <3> HIDE DEF B, size
    <3> QED BY <2>2, TrimSides
  <2>5. BelowIn(e, t.key) = {v \in B : TrimOf[v] = t.key}
    BY DEF BelowIn
  <2> HIDE DEF size, B
  <2> QED BY <2>2, <2>3, <2>4, <2>5
<1>3. PICK s : s = size /\ s = [k \in K |-> Cardinality({v \in B : TrimOf[v] = k})]
  BY <1>2
<1>4. PICK C : C = {v \in B : TrimOf[v] \in K}
  OBVIOUS
<1>5. IsFiniteSet(B) /\ C \in SUBSET B
  BY <1>4, FS_Subset
<1>6. SumFunction(s) = Cardinality(C)
  <2> HIDE DEF B, K, size
  <2> QED BY <1>1, <1>3, <1>4, <1>5, SumOfGroups
<1>7. Cardinality(C) <= Cardinality(B)
  <2> HIDE DEF B
  <2> QED BY <1>5, FS_Subset
<1>8. Sides(e).below = Cardinality(B)
  BY SidesAddUp
<1> HIDE DEF B
<1>9. SumFunction(size) <= Sides(e).below
  <2> HIDE DEF size
  <2> QED BY <1>3, <1>6, <1>7, <1>8
<1> QED BY <1>9

\* ComparisonAddsUp, for one view.
ComparisonAddsUpOf(deltas) ==
  LET all   == Sides(deltas)
      trims == Trims(deltas, TrimOf)
  IN  /\ all.below + all.at + all.above = all.count
      /\ all.at >= Cardinality({v \in DOMAIN deltas : deltas[v] \in -Tolerance .. Tolerance})
      /\ all.below <= Cardinality(GeoMap(Now).below) /\ all.above <= Cardinality(GeoMap(Now).above)
      /\ \A t \in trims : t.sides.below + t.sides.at + t.sides.above = t.sides.count
      /\ SumFunction([k \in {t.key : t \in trims} |-> (CHOOSE t \in trims : t.key = k).sides.below]) <= all.below

\* So the comparison adds up.
LEMMA ComparisonsAddUp == TypeOK => ComparisonAddsUp
<1> SUFFICES ASSUME TypeOK, NEW view \in {"insights", "endpoint"} PROVE ComparisonAddsUpOf(DeltasOf(view, Now))
  BY Zenon DEF ComparisonAddsUp, ComparisonAddsUpOf
<1>1. Now \subseteq Vehicles /\ IsFiniteSet(Now)
  BY ListedFinite DEF Now
<1>2. view \in Views /\ "map" \in Views
  BY DEF Views
<1>3. PICK D \in SUBSET Now : /\ DeltasOf(view, Now) \in [D -> Int] /\ D \subseteq DOMAIN DeltasOf("map", Now)
                              /\ \A v \in D : DeltasOf(view, Now)[v] = DeltasOf("map", Now)[v]
  BY <1>1, <1>2, Differences
<1>4. PICK m, E : m = DeltasOf("map", Now) /\ E \in SUBSET Now /\ m \in [E -> Int]
  BY <1>1, <1>2, Differences
<1>5. PICK e \in [D -> Int] : e = DeltasOf(view, Now)
  BY <1>3
<1>6. D \subseteq E /\ (\A v \in D : e[v] = m[v] /\ e[v] \in Int) /\ DOMAIN e = D /\ DOMAIN m = E
  BY <1>3, <1>4, <1>5
<1>7. IsFiniteSet(D) /\ IsFiniteSet(E) /\ D \subseteq Vehicles
  BY <1>1, <1>3, <1>4, FS_Subset
<1>8. GeoMap(Now).below = {v \in E : m[v] < 0} /\ GeoMap(Now).above = {v \in E : m[v] > 0}
  BY <1>4, <1>6 DEF GeoMap
<1>9. /\ Sides(e).below = Cardinality({v \in D : e[v] < -Tolerance})
      /\ Sides(e).above = Cardinality({v \in D : e[v] > Tolerance})
      /\ Sides(e).below + Sides(e).at + Sides(e).above = Sides(e).count
      /\ Sides(e).at >= Cardinality({v \in D : e[v] \in -Tolerance .. Tolerance})
  BY <1>7, SidesAddUp
<1>10. Tolerance \in Nat
  BY PriceAssumption
<1>11. Sides(e).below <= Cardinality(GeoMap(Now).below)
  <2>1. {v \in D : e[v] < -Tolerance} \in SUBSET {v \in E : m[v] < 0} /\ IsFiniteSet({v \in E : m[v] < 0})
    BY <1>6, <1>7, <1>10, FS_Subset
  <2>2. Cardinality({v \in D : e[v] < -Tolerance}) <= Cardinality({v \in E : m[v] < 0})
    BY <2>1, FS_Subset, Zenon
  <2> QED BY <1>8, <1>9, <2>2, Zenon
<1>12. Sides(e).above <= Cardinality(GeoMap(Now).above)
  <2>1. {v \in D : e[v] > Tolerance} \in SUBSET {v \in E : m[v] > 0} /\ IsFiniteSet({v \in E : m[v] > 0})
    BY <1>6, <1>7, <1>10, FS_Subset
  <2>2. Cardinality({v \in D : e[v] > Tolerance}) <= Cardinality({v \in E : m[v] > 0})
    BY <2>1, FS_Subset, Zenon
  <2> QED BY <1>8, <1>9, <2>2, Zenon
<1>13. \A t \in Trims(e, TrimOf) : t.sides.below + t.sides.at + t.sides.above = t.sides.count
  BY <1>7, TrimSides
<1>14. SumFunction([k \in {t.key : t \in Trims(e, TrimOf)} |->
                     (CHOOSE t \in Trims(e, TrimOf) : t.key = k).sides.below]) <= Sides(e).below
  BY <1>7, TrimsBelow, Zenon
<1>15. DOMAIN e = D
  BY <1>6
<1>16. ComparisonAddsUpOf(e)
  BY <1>9, <1>11, <1>12, <1>13, <1>14, <1>15, Zenon DEF ComparisonAddsUpOf
<1> QED BY <1>5, <1>16

-----------------------------------------------------------------------------
(* Facets, list and map.                                                   *)

\* No facet has a name that Scope uses for another exclusion.
LEMMA FacetNames ==
  /\ Facets \ {"none"} = Facets /\ Facets \ {"series"} = Facets /\ Facets \ {"state"} = Facets
  /\ \A f \in Facets : f # "none" /\ f # "series" /\ f # "option" /\ f # "state"
BY ListingsAssumption

\* The vehicles with a name that MySQL takes for x.
Alike(f, v, x) == Known(f, v) # Null /\ Class(Known(f, v)) = Class(x)

\* One value without comma selects the vehicles that have it in any spelling.
LEMMA FitsPlain ==
  ASSUME NEW f, NEW v, NEW x
  PROVE  Fits(v, f, {}) /\ (Plain(x) => (Fits(v, f, {x}) <=> Alike(f, v, x)))
<1>1. Sent({}) = {}
  BY DEF Sent
<1>2. Sent({x}) = Meant(x)
  BY DEF Sent
<1>3. Fits(v, f, {})
  BY <1>1 DEF Fits
<1>4. ASSUME Plain(x) PROVE Fits(v, f, {x}) <=> Alike(f, v, x)
  <2>1. Sent({x}) = {Class(x)}
    BY <1>2, <1>4 DEF Plain
  <2> QED BY <2>1 DEF Fits, Alike
<1> QED BY <1>3, <1>4

\* The facets' statement and that of the list select the same, but for rows of prices.
LEMMA ScopeIsList ==
  ASSUME NEW c, c.options = {}
  PROVE  Listed(c, NoBrush) = {v \in Scope(c, "none") : Car[v].priced}
<1>1. \A v : Brushed(v, NoBrush)
  BY DEF Brushed
<1>2. \A v : c.options \subseteq Car[v].options
  OBVIOUS
<1> QED BY <1>1, <1>2, FacetNames DEF Scope, Listed

\* With the series alone, only they and the status count.
LEMMA SeriesAlone ==
  ASSUME NEW c
  PROVE  Scope(SeriesOnly(c), "none") = {v \in fleet : /\ c.series # {} => Car[v].series \in c.series
                                                       /\ c.active => Car[v].active}
<1>1. /\ SeriesOnly(c).series = c.series /\ SeriesOnly(c).active = c.active /\ SeriesOnly(c).options = {}
      /\ SeriesOnly(c).states = {} /\ SeriesOnly(c).zip = "none" /\ \A f \in Facets : SeriesOnly(c).sel[f] = {}
  BY DEF SeriesOnly, Anything
<1>2. Expand({}) = {}
  BY DEF Expand
<1>3. \A v : Located(v, SeriesOnly(c))
  BY <1>1, <1>2 DEF Located
<1>4. \A v : \A f \in Facets : Fits(v, f, SeriesOnly(c).sel[f])
  BY <1>1, FitsPlain
<1> QED BY <1>1, <1>3, <1>4, FacetNames DEF Scope

\* The vehicles that a facet is about.
Named(c, f) == {v \in Scope(SeriesOnly(c), "none") : Known(f, v) # Null}

Says(i, c, f, v) ==
  /\ i.value = Known(f, v) /\ i.group = Group(f, v)
  /\ i.count = Cardinality({w \in Named(c, f) : Group(f, w) = Group(f, v)})
  /\ i.available \in Offers(Scope(c, f), f, Known(f, v))

\* What an item of a facet says.
LEMMA ItemSays ==
  ASSUME NEW c, NEW f, NEW i \in FacetItems(c, f)
  PROVE  \E v \in Named(c, f) : Says(i, c, f, v)
<1>1. PICK N : N = Named(c, f)
  OBVIOUS
<1> DEFINE item(v, a) == [value |-> Known(f, v), group |-> Group(f, v),
                          count |-> Cardinality({w \in N : Group(f, w) = Group(f, v)}), available |-> a]
<1>2. PICK v \in N : i \in {item(v, a) : a \in Offers(Scope(c, f), f, Known(f, v))}
  BY <1>1, Zenon DEF FacetItems, Named
<1>3. PICK a \in Offers(Scope(c, f), f, Known(f, v)) : i = item(v, a)
  BY <1>2
<1>4. /\ i.value = Known(f, v) /\ i.group = Group(f, v)
      /\ i.count = Cardinality({w \in N : Group(f, w) = Group(f, v)}) /\ i.available = a
  BY <1>3, Zenon
<1>5. Says(i, c, f, v)
  BY <1>1, <1>3, <1>4, Zenon DEF Says
<1> QED BY <1>1, <1>5

\* Every value that a vehicle has is an item.
LEMMA ItemFor ==
  ASSUME NEW c, NEW f, NEW v \in Named(c, f)
  PROVE  \E i \in FacetItems(c, f) : Says(i, c, f, v)
<1>1. PICK N : N = Named(c, f)
  OBVIOUS
<1>2. PICK a : a \in Offers(Scope(c, f), f, Known(f, v))
  <2> DEFINE found == {Known(f, w) : w \in {w \in Scope(c, f) : Known(f, w) # Null /\ Class(Known(f, w)) = Class(Known(f, v))}}
  <2>1. Offers(Scope(c, f), f, Known(f, v)) = IF found = {} THEN {FALSE} ELSE {Known(f, v) = y : y \in found}
    BY Zenon DEF Offers
  <2> HIDE DEF found
  <2>2. CASE found = {}
    BY <2>1, <2>2
  <2>3. CASE found # {}
    <3>1. PICK y \in found : TRUE
      BY <2>3
    <3>2. (Known(f, v) = y) \in Offers(Scope(c, f), f, Known(f, v))
      BY <2>1, <2>3, <3>1, Zenon
    <3> QED BY <3>2
  <2> QED BY <2>2, <2>3
<1> DEFINE item(w, b) == [value |-> Known(f, w), group |-> Group(f, w),
                          count |-> Cardinality({u \in N : Group(f, u) = Group(f, w)}), available |-> b]
<1>3. item(v, a) \in {item(v, b) : b \in Offers(Scope(c, f), f, Known(f, v))}
  BY <1>2, Zenon
<1>4. item(v, a) \in FacetItems(c, f)
  <2> DEFINE itemOf(w, b) == [value |-> Known(f, w), group |-> Group(f, w),
                              count |-> Cardinality({u \in Named(c, f) : Group(f, u) = Group(f, w)}), available |-> b]
             part(w) == {itemOf(w, b) : b \in Offers(Scope(c, f), f, Known(f, w))}
  <2>1. FacetItems(c, f) = UNION {part(w) : w \in Named(c, f)}
    BY Zenon DEF FacetItems, Named
  <2>2. item(v, a) \in part(v)
    BY <1>1, <1>3
  <2> HIDE DEF item, itemOf, part
  <2>3. part(v) \in {part(w) : w \in Named(c, f)}
    BY Zenon
  <2> QED BY <2>1, <2>2, <2>3, Zenon
<1>5. Says(item(v, a), c, f, v)
  BY <1>1, <1>2, Zenon DEF Says
<1> QED BY <1>4, <1>5, Zenon

Truly(a, S, f, x) ==
  /\ a => \E v \in S : Alike(f, v, x)
  /\ (\E v \in S : Alike(f, v, x)) /\ (\A v \in S : Alike(f, v, x) => Known(f, v) = x) => a

\* A value shown as available is one of a vehicle; and in one spelling it is
\* available if a vehicle has it.
LEMMA OfferSays ==
  ASSUME NEW S, NEW f, NEW x, NEW a \in Offers(S, f, x)
  PROVE  Truly(a, S, f, x)
<1> DEFINE found == {Known(f, v) : v \in {v \in S : Known(f, v) # Null /\ Class(Known(f, v)) = Class(x)}}
<1>1. a \in IF found = {} THEN {FALSE} ELSE {x = y : y \in found}
  BY Zenon DEF Offers
<1>2. \A y : y \in found <=> \E v \in S : Alike(f, v, x) /\ y = Known(f, v)
  BY DEF Alike
<1> HIDE DEF found
<1>3. CASE found = {}
  <2>1. ~a
    BY <1>1, <1>3
  <2>2. ~\E v \in S : Alike(f, v, x)
    BY <1>2, <1>3
  <2> QED BY <2>1, <2>2 DEF Truly
<1>4. CASE found # {}
  <2>1. PICK y \in found : a = (x = y)
    BY <1>1, <1>4, Zenon
  <2>2. PICK v \in S : Alike(f, v, x) /\ y = Known(f, v)
    BY <1>2, <2>1
  <2> QED BY <2>1, <2>2 DEF Truly
<1> QED BY <1>3, <1>4

\* The list for one value of a facet, in place of those chosen.
LEMMA ListFor ==
  ASSUME NEW c, NEW Z, c \in [series : SUBSET Series, sel : [Facets -> Z], options : SUBSET Options,
                              states : SUBSET {Code(s) : s \in States}, zip : {"none", "lost", "found"},
                              near : SUBSET {"min", "max"}, active : BOOLEAN],
         c.options = {}, NEW f \in Facets, NEW x, Plain(x)
  PROVE  Listed([c EXCEPT !.sel[f] = {x}], NoBrush) = {v \in Scope(c, f) : Car[v].priced /\ Alike(f, v, x)}
<1>1. PICK d : d = [c EXCEPT !.sel[f] = {x}]
  OBVIOUS
<1>2. /\ d.series = c.series /\ d.active = c.active /\ d.states = c.states /\ d.zip = c.zip /\ d.near = c.near
      /\ d.sel[f] = {x} /\ \A g \in Facets \ {f} : d.sel[g] = c.sel[g]
  BY <1>1
<1>3. \A v : Located(v, d) <=> Located(v, c)
  BY <1>2 DEF Located
<1>4. \A v : (\A g \in Facets : Fits(v, g, d.sel[g])) <=> Alike(f, v, x) /\ \A g \in Facets \ {f} : Fits(v, g, c.sel[g])
  <2>1. \A v : Fits(v, f, d.sel[f]) <=> Alike(f, v, x)
    BY <1>2, FitsPlain
  <2>2. \A v : \A g \in Facets \ {f} : Fits(v, g, d.sel[g]) <=> Fits(v, g, c.sel[g])
    BY <1>2
  <2> QED BY <2>1, <2>2
<1>5. f # "series" /\ f # "option" /\ f # "state"
  BY FacetNames
<1>6. \A v : Brushed(v, NoBrush) /\ c.options \subseteq Car[v].options
  BY DEF Brushed
<1>7. Listed(d, NoBrush) = {v \in Scope(c, f) : Car[v].priced /\ Alike(f, v, x)}
  BY <1>2, <1>3, <1>4, <1>5, <1>6 DEF Listed, Scope
<1> QED BY <1>1, <1>7

FacetLeads(f, items) ==
  /\ \A i \in items : Plain(i.value) =>
       LET list == Listed([chosen EXCEPT !.sel[f] = {i.value}], NoBrush)
       IN  /\ i.available /\ Whole => list # {}
           /\ list # {} /\ OneSpelling(f, i.value) => i.available
  /\ \A v \in Now : Known(f, v) # Null => \E i \in items : Class(i.value) = Class(Known(f, v))

SeriesLead ==
  \A i \in SeriesItems(chosen) :
    LET list == Listed([chosen EXCEPT !.series = {i.value}], NoBrush)
    IN  /\ i.available /\ Whole => list # {}
        /\ list # {} => i.available

\* The facets lead on.
LEMMA FacetsLead == TypeOK => FacetsLeadOn
<1> SUFFICES ASSUME TypeOK, chosen.options = {}
             PROVE  (\A f \in Facets : FacetLeads(f, FacetItems(chosen, f))) /\ SeriesLead
  BY Zenon DEF FacetsLeadOn, Refused, FacetLeads, SeriesLead
<1>1. fleet \subseteq Vehicles
  BY ListedFinite
<1>2. PICK c : c = chosen
  OBVIOUS
<1>3. PICK Z : c \in [series : SUBSET Series, sel : [Facets -> Z], options : SUBSET Options,
                      states : SUBSET {Code(s) : s \in States}, zip : {"none", "lost", "found"},
                      near : SUBSET {"min", "max"}, active : BOOLEAN]
  <2>1. c \in [series : SUBSET Series, sel : [Facets -> SUBSET UNION {ValuesOf(f) : f \in Facets}],
               options : SUBSET Options, states : SUBSET {Code(s) : s \in States},
               zip : {"none", "lost", "found"}, near : SUBSET {"min", "max"}, active : BOOLEAN]
    BY <1>2 DEF TypeOK
  <2> QED BY <2>1, Zenon
<1>4. ASSUME NEW f \in Facets, NEW i \in FacetItems(c, f), Plain(i.value),
             NEW list, list = Listed([c EXCEPT !.sel[f] = {i.value}], NoBrush)
      PROVE  /\ i.available /\ Whole => list # {}
             /\ list # {} /\ OneSpelling(f, i.value) => i.available
  <2>1. PICK x : x = i.value
    OBVIOUS
  <2>2. list = {v \in Scope(c, f) : Car[v].priced /\ Alike(f, v, x)}
    <3>1. c.options = {}
      BY <1>2
    <3>2. Listed([c EXCEPT !.sel[f] = {i.value}], NoBrush) = {v \in Scope(c, f) : Car[v].priced /\ Alike(f, v, i.value)}
      BY <1>3, <1>4, <3>1, ListFor
    <3> QED BY <1>4, <2>1, <3>2
  <2>3. i.available \in Offers(Scope(c, f), f, x)
    <3>1. PICK v \in Named(c, f) : Says(i, c, f, v)
      BY ItemSays
    <3> QED BY <2>1, <3>1 DEF Says
  <2>4. /\ i.available => \E v \in Scope(c, f) : Alike(f, v, x)
        /\ (\E v \in Scope(c, f) : Alike(f, v, x)) /\ (\A v \in Scope(c, f) : Alike(f, v, x) => Known(f, v) = x)
             => i.available
    BY <2>3, OfferSays DEF Truly
  <2>5. Scope(c, f) \subseteq fleet
    BY DEF Scope
  <2>6. Whole => \A v \in Scope(c, f) : Car[v].priced
    BY <2>5 DEF Whole
  <2>7. OneSpelling(f, x) => \A v \in Scope(c, f) : Alike(f, v, x) => Known(f, v) = x
    BY <2>5 DEF OneSpelling, Alike
  <2>8. i.available /\ Whole => list # {}
    BY <2>2, <2>4, <2>6
  <2>9. list # {} /\ OneSpelling(f, x) => i.available
    BY <2>2, <2>4, <2>7
  <2> QED BY <2>1, <2>8, <2>9
<1>5. ASSUME NEW f \in Facets, NEW v \in Now, Known(f, v) # Null
      PROVE  \E i \in FacetItems(c, f) : Class(i.value) = Class(Known(f, v))
  <2>1. v \in fleet /\ (c.series # {} => Car[v].series \in c.series) /\ (c.active => Car[v].active)
    BY <1>2 DEF Now, Listed
  <2>2. v \in Named(c, f)
    BY <1>5, <2>1, SeriesAlone DEF Named
  <2>3. PICK i \in FacetItems(c, f) : Says(i, c, f, v)
    BY <2>2, ItemFor
  <2>4. i.value = Known(f, v)
    BY <2>3 DEF Says
  <2> QED BY <2>4
<1>6. ASSUME NEW i \in SeriesItems(c), NEW list, list = Listed([c EXCEPT !.series = {i.value}], NoBrush)
      PROVE  /\ i.available /\ Whole => list # {}
             /\ list # {} => i.available
  <2>1. PICK s : s = i.value /\ (i.available <=> \E v \in Scope(c, "series") : Car[v].series = s)
    <3>1. PICK all : all = Scope([Anything EXCEPT !.active = c.active], "none")
      OBVIOUS
    <3>2. PICK s : i = [value |-> s, count |-> Cardinality({v \in all : Car[v].series = s}),
                        available |-> \E v \in Scope(c, "series") : Car[v].series = s]
      BY <3>1, Zenon DEF SeriesItems
    <3>3. i.value = s
      BY <3>2, Zenon
    <3>4. i.available = \E v \in Scope(c, "series") : Car[v].series = s
      BY <3>2, Zenon
    <3> QED BY <3>3, <3>4
  <2>2. PICK d : d = [c EXCEPT !.series = {s}]
    OBVIOUS
  <2>3. /\ d.series = {s} /\ d.active = c.active /\ d.states = c.states /\ d.zip = c.zip /\ d.near = c.near
        /\ d.sel = c.sel
    BY <1>3, <2>2
  <2>4. \A v : Located(v, d) <=> Located(v, c)
    BY <2>3 DEF Located
  <2>5. \A v : Brushed(v, NoBrush) /\ c.options \subseteq Car[v].options
    BY <1>2 DEF Brushed
  <2>6. Listed(d, NoBrush) = {v \in Scope(c, "series") : Car[v].priced /\ Car[v].series = s}
    BY <2>3, <2>4, <2>5, FacetNames DEF Listed, Scope
  <2>7. list = {v \in Scope(c, "series") : Car[v].priced /\ Car[v].series = s}
    BY <1>6, <2>1, <2>2, <2>6
  <2>8. Whole => \A v \in Scope(c, "series") : Car[v].priced
    BY DEF Whole, Scope
  <2> QED BY <2>1, <2>7, <2>8
<1>7. ASSUME NEW f \in Facets PROVE FacetLeads(f, FacetItems(c, f))
  BY <1>2, <1>4, <1>5, <1>7 DEF FacetLeads
<1>8. SeriesLead
  BY <1>2, <1>6 DEF SeriesLead
<1> QED BY <1>2, <1>7, <1>8

\* A state's two names stand for one another.
LEMMA StateNames ==
  ASSUME NEW s \in States, NEW t \in States, LeadsBack(Code(s))
  PROVE  t \in Expand({Code(s)}) <=> Code(t) = Code(s)
<1>1. /\ \A u \in States : Code(Code(u)) = Code(u)
      /\ \A u \in States : Code(u) # u => Code(u) \in DOMAIN FullName /\ FullName[Code(u)] = u
      /\ Code(s) \in DOMAIN FullName /\ FullName[Code(s)] \in States => Code(FullName[Code(s)]) = Code(s)
  BY ListingsAssumption DEF StatesAssumption, LeadsBack
<1>2. PICK x : x = Code(s)
  OBVIOUS
<1>3. Code(x) = x
  BY <1>1, <1>2
<1>4. Expand({x}) = {x} \cup {FullName[c] : c \in {x} \cap DOMAIN FullName}
  <2>1. {Code(y) : y \in {x}} = {x}
    BY <1>3
  <2> QED BY <2>1, Zenon DEF Expand
<1>5. t \in Expand({x}) <=> t = x \/ (x \in DOMAIN FullName /\ t = FullName[x])
  BY <1>4
<1>6. Code(t) = x => t = x \/ (x \in DOMAIN FullName /\ t = FullName[x])
  BY <1>1
<1>7. t = x => Code(t) = x
  BY <1>3
<1>8. x \in DOMAIN FullName /\ t = FullName[x] => Code(t) = x
  BY <1>1, <1>2
<1> QED BY <1>2, <1>5, <1>6, <1>7, <1>8

\* Nobody is in a state without name.
LEMMA StatesNamed ==
  ASSUME NEW s \in States
  PROVE  Expand({Code(s)}) # {} /\ NoState \notin Expand({Code(s)})
<1>1. /\ Code(Code(s)) = Code(s) /\ Code(s) # NoState
      /\ \A c \in DOMAIN FullName : FullName[c] # NoState
  BY ListingsAssumption DEF StatesAssumption
<1>2. Code(Code(s)) \in Expand({Code(s)})
  BY DEF Expand
<1>3. {Code(y) : y \in {Code(s)}} = {Code(s)}
  BY <1>1
<1>4. Expand({Code(s)}) = {Code(s)} \cup {FullName[c] : c \in {Code(s)} \cap DOMAIN FullName}
  BY <1>3, Zenon DEF Expand
<1> QED BY <1>1, <1>2, <1>4

\* A vehicle with a dealer whose state is known is in one of the states.
LEMMA StateKnown ==
  ASSUME NEW v \in Vehicles
  PROVE  StateOf(v) = NoState \/ StateOf(v) \in States
<1>1. Car[v].attr["dealer"] \in DOMAIN Dealer \cup {Null}
  BY ListingsAssumption
<1> QED BY <1>1 DEF StateOf, DealerOf, States

\* Vehicles of one group have one name, as MySQL compares it.
LEMMA GroupAlike ==
  ASSUME NEW f, NEW v, NEW w, Group(f, v) = Group(f, w)
  PROVE  Class(Known(f, v)) = Class(Known(f, w))
<1>1. CASE f = "stage"
  BY <1>1 DEF Group
<1>2. CASE f # "stage"
  BY <1>2 DEF Group
<1> QED BY <1>1, <1>2

\* The numbers next to a value, added up, are the vehicles that have it.
LEMMA CountOfIs ==
  ASSUME NEW c, NEW f, IsFiniteSet(Named(c, f)), NEW x
  PROVE  CountOf(FacetItems(c, f), x) = Cardinality({v \in Named(c, f) : Alike(f, v, x)})
<1>1. PICK N : N = Named(c, f)
  OBVIOUS
<1> DEFINE same == {i \in FacetItems(c, f) : Class(i.value) = Class(x)}
           K    == {i.group : i \in same}
           pick(g) == CHOOSE i \in same : i.group = g
<1>2. CountOf(FacetItems(c, f), x) = SumFunction([g \in K |-> pick(g).count])
  BY Zenon DEF CountOf
<1>3. \A i : i \in same <=> i \in FacetItems(c, f) /\ Class(i.value) = Class(x)
  OBVIOUS
<1>4. \A g : (g \in K <=> \E i \in same : i.group = g) /\ (g \in K => pick(g) \in same /\ pick(g).group = g)
  <2> HIDE DEF same
  <2>1. \A g : g \in K <=> \E i \in same : i.group = g
    OBVIOUS
  <2> QED BY <2>1, Zenon
<1> HIDE DEF same, K, pick
<1>5. PICK key : key = [v \in N |-> Group(f, v)]
  OBVIOUS
<1>6. ASSUME NEW i \in same
      PROVE  /\ \E v \in N : i.group = key[v] /\ Class(Known(f, v)) = Class(x)
             /\ i.count = Cardinality({w \in N : key[w] = i.group})
  <2>1. i \in FacetItems(c, f) /\ Class(i.value) = Class(x)
    BY <1>3
  <2>2. PICK v \in N : Says(i, c, f, v)
    BY <1>1, <2>1, ItemSays
  <2>3. i.value = Known(f, v) /\ i.group = Group(f, v)
        /\ i.count = Cardinality({w \in N : Group(f, w) = Group(f, v)})
    BY <1>1, <2>2 DEF Says
  <2>4. {w \in N : Group(f, w) = Group(f, v)} = {w \in N : key[w] = i.group}
    BY <1>5, <2>3
  <2> QED BY <1>5, <2>1, <2>3, <2>4
<1>7. PICK size : size = [g \in K |-> Cardinality({w \in N : key[w] = g})]
  OBVIOUS
<1>8. \A g \in K : pick(g).count = size[g]
  BY <1>4, <1>6, <1>7
<1>9. CountOf(FacetItems(c, f), x) = SumFunction(size)
  <2>1. [g \in K |-> pick(g).count] = size
    BY <1>7, <1>8
  <2> QED BY <1>2, <2>1
<1>10. IsFiniteSet(K)
  <2>1. IsFiniteSet({key[v] : v \in N})
    BY <1>1, ImageFinite
  <2>2. K \subseteq {key[v] : v \in N}
    BY <1>4, <1>6
  <2> QED BY <2>1, <2>2, FS_Subset
<1>11. SumFunction(size) = Cardinality({v \in N : key[v] \in K})
  BY <1>1, <1>7, <1>10, SumOfGroups
<1>12. ASSUME NEW v \in N PROVE key[v] \in K <=> Alike(f, v, x)
  <2>1. Known(f, v) # Null /\ key[v] = Group(f, v)
    BY <1>1, <1>5 DEF Named
  <2>2. ASSUME key[v] \in K PROVE Class(Known(f, v)) = Class(x)
    <3>1. PICK w \in N : key[v] = key[w] /\ Class(Known(f, w)) = Class(x)
      BY <1>4, <1>6, <2>2
    <3>2. Group(f, v) = Group(f, w)
      BY <1>5, <3>1
    <3> QED BY <3>1, <3>2, GroupAlike
  <2>3. ASSUME Class(Known(f, v)) = Class(x) PROVE key[v] \in K
    <3>1. PICK i \in FacetItems(c, f) : Says(i, c, f, v)
      BY <1>1, ItemFor
    <3>2. i.value = Known(f, v) /\ i.group = Group(f, v)
      BY <3>1 DEF Says
    <3>3. i \in same
      BY <1>3, <2>3, <3>2
    <3> QED BY <1>4, <2>1, <3>2, <3>3
  <2> QED BY <2>1, <2>2, <2>3 DEF Alike
<1>13. {v \in N : key[v] \in K} = {v \in N : Alike(f, v, x)}
  BY <1>12
<1> QED BY <1>1, <1>11, <1>13, <1>9

\* The list is as long as what is counted, or shorter by the vehicles without prices.
LEMMA Uncounted ==
  ASSUME TypeOK, NEW S, S \subseteq fleet
  PROVE  LET list == {v \in S : Car[v].priced}
         IN  Cardinality(list) <= Cardinality(S) /\ (Whole => Cardinality(list) = Cardinality(S))
<1>1. PICK list : list = {v \in S : Car[v].priced}
  OBVIOUS
<1>2. IsFiniteSet(S) /\ list \in SUBSET S
  BY <1>1, ListedFinite
<1>3. Cardinality(list) <= Cardinality(S)
  BY <1>2, FS_Subset
<1>4. Whole => list = S
  BY <1>1 DEF Whole
<1> QED BY <1>1, <1>3, <1>4

\* The counts are those of the list.
LEMMA CountsTrue == TypeOK => CountsAreTrue
<1> SUFFICES ASSUME TypeOK PROVE CountsAreTrue
  OBVIOUS
<1>1. fleet \subseteq Vehicles
  BY ListedFinite
<1>2. PICK c : c = chosen
  OBVIOUS
<1>3. PICK e : /\ e = SeriesOnly(c)
               /\ e \in [series : {c.series}, sel : [Facets -> {{}}], options : {{}}, states : {{}},
                         zip : {"none"}, near : {{}}, active : {c.active}]
  <2>1. SeriesOnly(c) \in [series : {c.series}, sel : [Facets -> {{}}], options : {{}}, states : {{}},
                           zip : {"none"}, near : {{}}, active : {c.active}]
    BY DEF SeriesOnly, Anything
  <2> QED BY <2>1
<1>4. PICK U : U = Scope(e, "none")
  OBVIOUS
<1>5. U = {v \in fleet : (c.series # {} => Car[v].series \in c.series) /\ (c.active => Car[v].active)}
  BY <1>3, <1>4, SeriesAlone
<1>6. \A v : Brushed(v, NoBrush)
  BY DEF Brushed
<1>7. Expand({}) = {}
  BY DEF Expand
<1>8. ASSUME NEW f \in Facets, NEW i \in FacetItems(c, f), Plain(i.value),
             NEW list, list = Listed([e EXCEPT !.sel[f] = {i.value}], NoBrush)
      PROVE  /\ Cardinality(list) <= CountOf(FacetItems(c, f), i.value)
             /\ Whole => Cardinality(list) = CountOf(FacetItems(c, f), i.value)
  <2>1. PICK x : x = i.value
    OBVIOUS
  <2>2. PICK d : d = [e EXCEPT !.sel[f] = {x}]
    OBVIOUS
  <2>3. /\ d.series = c.series /\ d.active = c.active /\ d.states = {} /\ d.zip = "none"
        /\ \A g \in Facets : d.sel[g] = IF g = f THEN {x} ELSE {}
    BY <1>3, <2>2
  <2>4. \A v : Located(v, d)
    BY <1>7, <2>3 DEF Located
  <2>5. \A v : (\A g \in Facets : Fits(v, g, d.sel[g])) <=> Alike(f, v, x)
    <3>1. \A v : Fits(v, f, d.sel[f]) <=> Alike(f, v, x)
      BY <1>8, <2>1, <2>3, FitsPlain
    <3>2. ASSUME NEW v, NEW g \in Facets \ {f} PROVE Fits(v, g, d.sel[g])
      <4>1. d.sel[g] = {}
        BY <2>3
      <4>2. Fits(v, g, {})
        BY FitsPlain
      <4> QED BY <4>1, <4>2
    <3> QED BY <3>1, <3>2
  <2>6. PICK S : S = {v \in Named(c, f) : Alike(f, v, x)}
    OBVIOUS
  <2>7. S = {v \in U : Alike(f, v, x)}
    BY <1>3, <1>4, <2>6 DEF Named, Alike
  <2>8. Listed(d, NoBrush) = {v \in S : Car[v].priced}
    BY <1>5, <1>6, <2>3, <2>4, <2>5, <2>7 DEF Listed
  <2>9. list = {v \in S : Car[v].priced}
    BY <1>8, <2>1, <2>2, <2>8
  <2>10. S \subseteq fleet
    BY <1>5, <2>7
  <2>11. Cardinality(list) <= Cardinality(S) /\ (Whole => Cardinality(list) = Cardinality(S))
    BY <2>9, <2>10, Uncounted
  <2>12. CountOf(FacetItems(c, f), x) = Cardinality(S)
    <3>1. Named(c, f) \subseteq fleet
      BY <1>3, <1>4, <1>5 DEF Named
    <3>2. IsFiniteSet(Named(c, f))
      BY <3>1, ListedFinite
    <3> QED BY <2>6, <3>2, CountOfIs
  <2> QED BY <2>1, <2>11, <2>12
<1>9. ASSUME NEW i \in StateItems(c), LeadsBack(i.value),
             NEW list, list = Listed([e EXCEPT !.states = {i.value}], NoBrush)
      PROVE  Cardinality(list) <= i.count /\ (Whole => Cardinality(list) = i.count)
  <2>1. PICK P : P = {v \in U : StateOf(v) # NoState}
    OBVIOUS
  <2>2. PICK x \in {Code(StateOf(v)) : v \in P} :
          i = [value |-> x, count |-> Cardinality({v \in P : Code(StateOf(v)) = x})]
    BY <1>3, <1>4, <1>9, <2>1, Zenon DEF StateItems
  <2>3. x = i.value /\ i.count = Cardinality({v \in P : Code(StateOf(v)) = x})
    BY <2>2, Zenon
  <2>4. PICK d : d = [e EXCEPT !.states = {x}]
    OBVIOUS
  <2>5. /\ d.series = c.series /\ d.active = c.active /\ d.states = {x}
        /\ \A g \in Facets : d.sel[g] = {}
    BY <1>3, <2>4
  <2>6. U \subseteq Vehicles
    BY <1>1, <1>5
  <2>7. PICK s \in States : x = Code(s)
    <3>1. PICK v \in P : x = Code(StateOf(v))
      BY <2>2
    <3> QED BY <2>1, <2>6, <3>1, StateKnown
  <2>8. ASSUME NEW v \in U PROVE StateOf(v) \in Expand({x}) <=> v \in P /\ Code(StateOf(v)) = x
    <3>1. CASE StateOf(v) = NoState
      <4>1. NoState \notin Expand({x})
        BY <2>7, StatesNamed
      <4> QED BY <2>1, <3>1, <4>1
    <3>2. CASE StateOf(v) # NoState
      <4>1. StateOf(v) \in States
        BY <2>6, <3>2, StateKnown
      <4>2. StateOf(v) \in Expand({x}) <=> Code(StateOf(v)) = x
        BY <1>9, <2>3, <2>7, <4>1, StateNames
      <4> QED BY <2>1, <3>2, <4>2
    <3> QED BY <3>1, <3>2
  <2>9. Expand({x}) # {}
    BY <2>7, StatesNamed
  <2>10. \A v : Located(v, d) <=> StateOf(v) \in Expand({x})
    BY <2>5, <2>9 DEF Located
  <2>11. \A v : \A g \in Facets : Fits(v, g, d.sel[g])
    BY <2>5, FitsPlain
  <2>12. PICK S : S = {v \in P : Code(StateOf(v)) = x}
    OBVIOUS
  <2>13. \A v : v \in Listed(d, NoBrush) <=> v \in U /\ Car[v].priced /\ StateOf(v) \in Expand({x})
    BY <1>5, <1>6, <2>5, <2>10, <2>11 DEF Listed
  <2>14. list = {v \in S : Car[v].priced}
    <3>1. list = Listed(d, NoBrush)
      BY <1>9, <2>3, <2>4
    <3>2. \A v : v \in list <=> v \in S /\ Car[v].priced
      BY <2>1, <2>8, <2>12, <2>13, <3>1
    <3> QED BY <3>1, <3>2 DEF Listed
  <2>15. S \subseteq fleet
    BY <1>5, <2>1, <2>12
  <2> QED BY <2>3, <2>12, <2>14, <2>15, Uncounted
<1>10. \A f \in Facets :
         LET items == FacetItems(chosen, f)
         IN  \A i \in items : Plain(i.value) =>
               LET list == Listed([SeriesOnly(chosen) EXCEPT !.sel[f] = {i.value}], NoBrush)
               IN  /\ Cardinality(list) <= CountOf(items, i.value)
                   /\ Whole => Cardinality(list) = CountOf(items, i.value)
  BY <1>2, <1>3, <1>8
<1>11. \A i \in StateItems(chosen) : LeadsBack(i.value) =>
         LET list == Listed([SeriesOnly(chosen) EXCEPT !.states = {i.value}], NoBrush)
         IN  Cardinality(list) <= i.count /\ (Whole => Cardinality(list) = i.count)
  BY <1>2, <1>3, <1>9
<1> QED BY <1>10, <1>11, Zenon DEF CountsAreTrue

\* The markers stand for all vehicles with coordinates, if there is room for all dealers.
LEMMA MarkersCount ==
  ASSUME NEW S, IsFiniteSet(S), Cardinality({DealerOf(v) : v \in S}) <= MaxMarkers
  PROVE  SumFunction(GeoMap(S).markers) = GeoMap(S).mapped
<1> DEFINE mapped     == {v \in S : MilesTo(v) # NoCoords}
           at(d)      == Cardinality({v \in mapped : DealerOf(v) = d})
           dealers    == {DealerOf(v) : v \in mapped}
           ahead(d, e) == at(d) > at(e) \/ (at(d) = at(e) /\ Name[d] < Name[e])
           Good(T)    == /\ Cardinality(T) = Min({Cardinality(dealers), MaxMarkers})
                         /\ \A d \in T : \A e \in dealers \ T : ~ahead(e, d)
           first      == CHOOSE T \in SUBSET dealers : Good(T)
<1>1. GeoMap(S).mapped = Cardinality(mapped) /\ GeoMap(S).markers = [d \in first |-> at(d)]
  BY DEF GeoMap
<1>2. PICK key : key = [v \in S |-> DealerOf(v)]
  OBVIOUS
<1>3. IsFiniteSet(mapped) /\ mapped \in SUBSET S
  BY FS_Subset
<1>4. IsFiniteSet(dealers) /\ Cardinality(dealers) <= MaxMarkers /\ Cardinality(dealers) \in Nat
  <2>1. {DealerOf(v) : v \in S} = {key[v] : v \in S}
    BY <1>2
  <2>2. IsFiniteSet({DealerOf(v) : v \in S})
    BY <2>1, ImageFinite
  <2>3. dealers \in SUBSET {DealerOf(v) : v \in S}
    OBVIOUS
  <2> HIDE DEF dealers
  <2>4. IsFiniteSet(dealers) /\ Cardinality(dealers) <= Cardinality({DealerOf(v) : v \in S})
    BY <2>2, <2>3, FS_Subset, Zenon
  <2>5. Cardinality(dealers) \in Nat /\ Cardinality({DealerOf(v) : v \in S}) \in Nat /\ MaxMarkers \in Nat
    BY <2>2, <2>4, FS_CardinalityType, ListingsAssumption
  <2> QED BY <2>4, <2>5
<1>5. first = dealers
  <2>1. MaxMarkers \in Nat
    BY ListingsAssumption
  <2> HIDE DEF dealers, ahead
  <2>2. Min({Cardinality(dealers), MaxMarkers}) = Cardinality(dealers)
    <3>1. PICK n \in Nat : n = Cardinality(dealers)
      BY <1>4
    <3>2. PICK m \in Nat : m = MaxMarkers
      BY <2>1
    <3>3. n <= m
      BY <1>4, <3>1, <3>2
    <3>4. n \in Int /\ m \in Int
      OBVIOUS
    <3>5. Min({n, m}) = IF n <= m THEN n ELSE m
      BY <3>4, OfTwo
    <3> QED BY <3>1, <3>2, <3>3, <3>5
  <2>3. Good(dealers)
    BY <2>2
  <2>4. first \in SUBSET dealers /\ Good(first)
    <3> HIDE DEF Good
    <3> QED BY <2>3, Zenon
  <2>5. Cardinality(first) = Cardinality(dealers)
    BY <2>2, <2>4
  <2> HIDE DEF first
  <2> QED BY <1>4, <2>4, <2>5, FS_Subset, Zenon
<1>6. PICK size : /\ size = [d \in dealers |-> at(d)]
                  /\ size = [d \in dealers |-> Cardinality({v \in mapped : key[v] = d})]
  <2>1. \A d : {v \in mapped : DealerOf(v) = d} = {v \in mapped : key[v] = d}
    BY <1>2
  <2>2. \A d : at(d) = Cardinality({v \in mapped : key[v] = d})
    BY <2>1, Zenon
  <2> HIDE DEF at, dealers, mapped
  <2> QED BY <2>2, Zenon
<1>7. {v \in mapped : key[v] \in dealers} = mapped
  BY <1>2
<1>8. GeoMap(S).markers = size
  <2> HIDE DEF first, at, dealers
  <2> QED BY <1>1, <1>5, <1>6, Zenon
<1> HIDE DEF first, at, dealers, mapped
<1>9. SumFunction(size) = Cardinality({v \in mapped : key[v] \in dealers})
  BY <1>3, <1>4, <1>6, SumOfGroups
<1> QED BY <1>1, <1>7, <1>8, <1>9, Zenon

\* Facets, list and map count the same.
LEMMA CountersAgree == TypeOK => CountsAgree
<1> SUFFICES ASSUME TypeOK, chosen.options = {}
             PROVE  /\ Cardinality(Now) <= ContextCount(chosen)
                    /\ brush = NoBrush /\ Whole => ContextCount(chosen) = Cardinality(Now)
                    /\ GeoMap(Now).mapped + GeoMap(Now).unmapped = Cardinality(Now)
                    /\ Cardinality({DealerOf(v) : v \in Now}) <= MaxMarkers
                         => SumFunction(GeoMap(Now).markers) = GeoMap(Now).mapped
  BY Zenon DEF CountsAgree, Refused
<1>1. IsFiniteSet(Now)
  BY ListedFinite DEF Now
<1>2. /\ Cardinality(Now) <= ContextCount(chosen)
      /\ brush = NoBrush /\ Whole => ContextCount(chosen) = Cardinality(Now)
  <2>1. PICK S : S = Scope(chosen, "none")
    OBVIOUS
  <2>2. PICK all : all = Listed(chosen, NoBrush) /\ all = {v \in S : Car[v].priced}
    BY <2>1, ScopeIsList
  <2>3. S \subseteq fleet
    BY <2>1 DEF Scope
  <2>4. Cardinality(all) <= Cardinality(S) /\ (Whole => Cardinality(all) = Cardinality(S))
    BY <2>2, <2>3, Uncounted
  <2>5. Now \in SUBSET all
    BY <2>2 DEF Now, Listed, Brushed
  <2>6. IsFiniteSet(all) /\ IsFiniteSet(S)
    BY <2>2, <2>3, ListedFinite
  <2>7. Cardinality(Now) <= Cardinality(all)
    BY <2>5, <2>6, FS_Subset
  <2>8. Cardinality(Now) \in Nat /\ Cardinality(all) \in Nat /\ Cardinality(S) \in Nat
    BY <1>1, <2>6, FS_CardinalityType
  <2>9. ContextCount(chosen) = Cardinality(S)
    BY <2>1 DEF ContextCount
  <2>10. brush = NoBrush => Now = all
    BY <2>2 DEF Now
  <2> QED BY <2>4, <2>7, <2>8, <2>9, <2>10
<1>3. GeoMap(Now).mapped + GeoMap(Now).unmapped = Cardinality(Now)
  <2> DEFINE M == {v \in Now : MilesTo(v) # NoCoords}
  <2>1. GeoMap(Now).mapped = Cardinality(M) /\ GeoMap(Now).unmapped = Max({0, Cardinality(Now) - Cardinality(M)})
    BY DEF GeoMap
  <2>2. M \in SUBSET Now
    OBVIOUS
  <2> HIDE DEF M
  <2>3. IsFiniteSet(M) /\ Cardinality(M) <= Cardinality(Now)
    BY <1>1, <2>2, FS_Subset, Zenon
  <2>4. PICK m \in Nat : m = Cardinality(M)
    BY <2>3, FS_CardinalityType
  <2>5. PICK n \in Nat : n = Cardinality(Now)
    BY <1>1, FS_CardinalityType
  <2>6. m <= n /\ n - m \in Int
    BY <2>3, <2>4, <2>5
  <2>7. Max({0, n - m}) = n - m
    BY <2>6, OfTwo
  <2> QED BY <2>1, <2>4, <2>5, <2>6, <2>7
<1> QED BY <1>1, <1>2, <1>3, MarkersCount

-----------------------------------------------------------------------------
(* Pages.                                                                  *)

\* The order of the list is strict and total: the VIN breaks ties.
LEMMA OrderIs ==
  ASSUME TypeOK, NEW S, S \subseteq fleet
  PROVE  \E s \in [1 .. Cardinality(S) -> S] : Orders(S) = {s}
<1>1. S \subseteq Vehicles /\ S \subseteq Nat /\ IsFiniteSet(S)
  BY ListedFinite
<1>2. PICK R : \A v, w \in S : <<v, w>> \in R <=> Before(v, w)
  <2> WITNESS {q \in S \X S : Before(q[1], q[2])}
  <2> QED OBVIOUS
<1>3. \A v \in S : SortValue(v) \in Nat \cup {-1} /\ v \in Nat
  <2> SUFFICES ASSUME NEW v \in S PROVE SortValue(v) \in Nat \cup {-1} /\ v \in Nat
    OBVIOUS
  <2>1. v \in Vehicles /\ v \in Nat
    BY <1>1
  <2>2. Price(Car[v].price) \in Nat \cup {-1} /\ Msrp(Car[v].price) \in Nat \cup {-1}
    BY <2>1, PriceFacts DEF NoPrice
  <2> QED BY <2>1, <2>2 DEF SortValue
<1>4. StrictOrder(R, S)
  <2>1. \A v \in S : ~Before(v, v)
    BY <1>3 DEF Before, NoPrice
  <2>2. ASSUME NEW u \in S, NEW v \in S, NEW w \in S, Before(u, v), Before(v, w) PROVE Before(u, w)
    <3>1. /\ SortValue(u) \in Nat \cup {-1} /\ SortValue(v) \in Nat \cup {-1} /\ SortValue(w) \in Nat \cup {-1}
          /\ u \in Nat /\ v \in Nat /\ w \in Nat
      BY <1>3
    <3>2. PICK a : a = SortValue(u)
      OBVIOUS
    <3>3. PICK b : b = SortValue(v)
      OBVIOUS
    <3>4. PICK c : c = SortValue(w)
      OBVIOUS
    <3> QED BY <2>2, <3>1, <3>2, <3>3, <3>4 DEF Before, NoPrice
  <2>3. \A v, w \in S : v # w => Before(v, w) \/ Before(w, v)
    <3> SUFFICES ASSUME NEW v \in S, NEW w \in S, v # w PROVE Before(v, w) \/ Before(w, v)
      OBVIOUS
    <3>1. /\ SortValue(v) \in Nat \cup {-1} /\ SortValue(w) \in Nat \cup {-1} /\ v \in Nat /\ w \in Nat
      BY <1>3
    <3> QED BY <3>1 DEF Before, NoPrice
  <2> QED BY <1>2, <2>1, <2>2, <2>3 DEF StrictOrder
<1>5. \A s : Sorted(s, R, S) <=> s \in Orders(S)
  <2> SUFFICES ASSUME NEW s, s \in SetToSeqs(S)
               PROVE  (\A i, j \in DOMAIN s : i < j => <<s[j], s[i]>> \notin R)
                      <=> \A i, j \in DOMAIN s : i < j => ~Before(s[j], s[i])
    BY DEF Sorted, Orders
  <2>1. s \in [1 .. Cardinality(S) -> S]
    BY Zenon DEF SetToSeqs
  <2>2. \A i \in DOMAIN s : s[i] \in S
    BY <2>1
  <2> QED BY <1>2, <2>2
<1>6. PICK s : Sorted(s, R, S) /\ \A t : Sorted(t, R, S) => t = s
  BY <1>1, <1>4, OneOrder
<1>7. s \in [1 .. Cardinality(S) -> S]
  BY <1>6, Zenon DEF Sorted, SetToSeqs
<1>8. Orders(S) = {s}
  BY <1>5, <1>6
<1> QED BY <1>7, <1>8

\* How many pages there are.
LEMMA LastPage ==
  ASSUME NEW n \in Nat, NEW p \in Nat
  PROVE  /\ PageCount(n) \in Nat /\ PageCount(0) = 0
         /\ p * PageSize \in Nat /\ (p + 1) * PageSize = p * PageSize + PageSize
         /\ p < PageCount(n) => p * PageSize < n
         /\ p >= PageCount(n) => n <= p * PageSize
<1>1. PICK d \in Nat \ {0} : d = PageSize
  BY ListingsAssumption
<1>2. PICK q \in Nat : q = (n + d - 1) \div d /\ d * q <= n + d - 1 /\ n + d - 1 < d * (q + 1)
  OBVIOUS
<1>3. PageCount(n) = q
  BY <1>1, <1>2 DEF PageCount
<1>4. PageCount(0) = 0
  <2>1. (0 + d - 1) \div d = 0
    OBVIOUS
  <2> QED BY <1>1, <2>1 DEF PageCount
<1>5. PICK k \in Nat : k = p * d /\ (p + 1) * d = k + d /\ d * p = k /\ d * (p + 1) = k + d
  OBVIOUS
<1>6. PICK l \in Nat : l = d * q /\ d * (q + 1) = l + d
  OBVIOUS
<1>7. p < q => k < n
  <2> SUFFICES ASSUME p + 1 <= q PROVE k < n
    OBVIOUS
  <2>1. d * (p + 1) <= d * q
    BY Times
  <2> QED BY <1>2, <1>5, <1>6, <2>1
<1>8. p >= q => n <= k
  <2> SUFFICES ASSUME q <= p PROVE n <= k
    OBVIOUS
  <2>1. d * q <= d * p
    BY Times
  <2> QED BY <1>2, <1>5, <1>6, <2>1
<1> QED BY <1>1, <1>3, <1>4, <1>5, <1>7, <1>8

\* Two stretches that follow one another make one.
LEMMA StretchesJoin ==
  ASSUME NEW T, NEW s \in Seq(T), NEW a \in Nat, NEW b \in Nat, a <= b, b <= Len(s)
  PROVE  /\ SubSeq(s, 1, a) \o SubSeq(s, a + 1, b) = SubSeq(s, 1, b)
         /\ SubSeq(s, 1, b) \in Seq(T) /\ Len(SubSeq(s, 1, b)) = b
         /\ SubSeq(s, 1, 0) = <<>> /\ SubSeq(s, 1, Len(s)) = s
OBVIOUS

\* One page more of a list that stays.
LEMMA NextPageOf ==
  ASSUME NEW n \in Nat, NEW s \in Seq(Vehicles), Len(s) = n, NEW p \in Nat, p = 0 \/ p < PageCount(n)
  PROVE  /\ SubSeq(s, 1, Min({n, p * PageSize})) \o PageOf(s, p + 1) = SubSeq(s, 1, Min({n, (p + 1) * PageSize}))
         /\ Len(SubSeq(s, 1, Min({n, (p + 1) * PageSize}))) = Min({n, (p + 1) * PageSize})
         /\ p = 0 => SubSeq(s, 1, Min({n, p * PageSize})) = <<>>
<1>1. PICK d \in Nat \ {0} : d = PageSize
  BY ListingsAssumption
<1>2. PICK k \in Nat : k = p * PageSize /\ (p + 1) * PageSize = k + d /\ k <= n /\ (p = 0 => k = 0)
  <2>1. p * PageSize \in Nat /\ (p + 1) * PageSize = p * PageSize + d
    BY <1>1, LastPage
  <2>2. p = 0 => p * PageSize = 0
    BY <1>1
  <2>3. PICK k \in Nat : k = p * PageSize
    BY <2>1
  <2>4. p < PageCount(n) => k < n
    BY <2>3, LastPage
  <2>5. k <= n
    BY <2>2, <2>3, <2>4
  <2> QED BY <2>1, <2>2, <2>3, <2>5
<1>3. Min({n, k}) = k
  <2>1. k <= n /\ k \in Int /\ n \in Int
    BY <1>2
  <2>2. Min({n, k}) = IF n <= k THEN n ELSE k
    BY <2>1, OfTwo
  <2> QED BY <2>1, <2>2
<1>4. PICK m \in Nat : m = Min({n, k + d}) /\ k <= m /\ m <= n
  <2>1. k + d \in Int /\ n \in Int
    BY <1>2
  <2>2. Min({n, k + d}) = IF n <= k + d THEN n ELSE k + d
    BY <2>1, OfTwo
  <2> QED BY <1>2, <2>2
<1>5. (p + 1) - 1 = p
  OBVIOUS
<1>6. PageOf(s, p + 1) = SubSeq(s, k + 1, m)
  BY <1>2, <1>4, <1>5 DEF PageOf
<1>7. SubSeq(s, 1, k) \o SubSeq(s, k + 1, m) = SubSeq(s, 1, m) /\ Len(SubSeq(s, 1, m)) = m /\ SubSeq(s, 1, 0) = <<>>
  <2>1. k \in Nat /\ m \in Nat /\ k <= m /\ m <= Len(s)
    BY <1>2, <1>4
  <2> QED BY <2>1, StretchesJoin
<1>8. Min({n, p * PageSize}) = k /\ Min({n, (p + 1) * PageSize}) = m
  BY <1>2, <1>3, <1>4
<1> QED BY <1>2, <1>6, <1>7, <1>8

\* A stretch is no longer than its bounds say.
LEMMA StretchFits ==
  ASSUME NEW T, NEW s \in Seq(T), NEW a \in Nat, NEW b \in Nat, NEW d \in Nat, b <= Len(s), b <= a + d
  PROVE  SubSeq(s, a + 1, b) \in Seq(T) /\ Len(SubSeq(s, a + 1, b)) <= d
OBVIOUS

\* A page holds PageSize vehicles at most.
LEMMA PageFits ==
  ASSUME NEW s \in Seq(Vehicles), NEW p \in Nat
  PROVE  PageOf(s, p + 1) \in Seq(Vehicles) /\ Len(PageOf(s, p + 1)) <= PageSize
<1>1. PICK d \in Nat \ {0} : d = PageSize
  BY ListingsAssumption
<1>2. PICK k \in Nat : k = p * PageSize /\ (p + 1) * PageSize = k + d
  BY <1>1, LastPage
<1>3. PICK n \in Nat : n = Len(s)
  OBVIOUS
<1>4. PICK m \in Nat : m = Min({n, k + d}) /\ m <= n /\ m <= k + d
  <2>1. k + d \in Int /\ n \in Int
    OBVIOUS
  <2>2. Min({n, k + d}) = IF n <= k + d THEN n ELSE k + d
    BY <2>1, OfTwo
  <2> QED BY <2>2
<1>5. (p + 1) - 1 = p
  OBVIOUS
<1>6. PageOf(s, p + 1) = SubSeq(s, k + 1, m)
  BY <1>2, <1>3, <1>4, <1>5 DEF PageOf
<1>7. SubSeq(s, k + 1, m) \in Seq(Vehicles) /\ Len(SubSeq(s, k + 1, m)) <= d
  <2>1. m <= Len(s) /\ m <= k + d
    BY <1>3, <1>4
  <2> QED BY <2>1, StretchFits
<1> QED BY <1>1, <1>6, <1>7

\* What has been read of the list: its first pages.
PagesRead ==
  /\ answer # "rows" => page = 0 /\ total = 0 /\ shown = <<>>
  /\ answer = "rows" => page # 0 /\ ~Refused(chosen)
  /\ answer = "rows" /\ still => /\ total = Cardinality(Now)
                                 /\ \A s \in Orders(Now) : shown = SubSeq(s, 1, Min({total, page * PageSize}))

\* The brush is of the metric that the chart shows; the ends of both are numbers.
Charted ==
  /\ brush # NoBrush => brush.metric = chart.metric
  /\ brush.start \in Int /\ brush.end \in Int
  /\ \A i \in DOMAIN chart.bars : chart.bars[i].start \in Int /\ chart.bars[i].end \in Int

ListingsIInv == TypeOK /\ PagesRead /\ Charted

\* So the pages, when all are read, are the export.
LEMMA PagesAreAll == ListingsIInv => PagesAreTheExport
<1> SUFFICES ASSUME ListingsIInv, answer = "rows", still, page >= PageCount(total) PROVE Orders(Now) = {shown}
  BY DEF PagesAreTheExport
<1>1. TypeOK /\ PagesRead /\ Charted
  BY DEF ListingsIInv
<1>2. Now \subseteq fleet /\ IsFiniteSet(Now) /\ Now \subseteq Vehicles
  BY <1>1, ListedFinite DEF Now
<1>3. PICK n \in Nat : n = Cardinality(Now)
  BY <1>2, FS_CardinalityType
<1>4. PICK s \in [1 .. n -> Now] : Orders(Now) = {s}
  BY <1>1, <1>2, <1>3, OrderIs
<1>5. s \in Seq(Vehicles) /\ Len(s) = n
  BY <1>2
<1>6. total = n /\ shown = SubSeq(s, 1, Min({n, page * PageSize})) /\ page \in Nat
  BY <1>1, <1>3, <1>4 DEF PagesRead, TypeOK
<1>7. PICK k \in Nat : k = page * PageSize /\ n <= k
  BY <1>6, LastPage
<1>8. Min({n, k}) = n
  <2>1. n <= k /\ k \in Int /\ n \in Int
    BY <1>7
  <2>2. Min({n, k}) = IF n <= k THEN n ELSE k
    BY <2>1, OfTwo
  <2> QED BY <2>1, <2>2
<1>9. SubSeq(s, 1, n) = s
  BY <1>5, StretchesJoin
<1> QED BY <1>4, <1>6, <1>7, <1>8, <1>9

-----------------------------------------------------------------------------
(* The invariant.                                                          *)

\* The page begins without filters and without rows.
LEMMA InitInv == Init => ListingsIInv
<1> SUFFICES ASSUME Init PROVE ListingsIInv
  OBVIOUS
<1>1. ingests \in 0 .. Len(Fleets) - 1
  <2>1. Fleets \in Seq(SUBSET Vehicles) /\ Fleets # <<>>
    BY ListingsAssumption
  <2>2. Len(Fleets) \in Nat /\ Len(Fleets) # 0
    BY <2>1
  <2> QED BY <2>2 DEF Init
<1>2. /\ chosen \in [series : SUBSET Series, sel : [Facets -> SUBSET UNION {ValuesOf(f) : f \in Facets}],
                     options : SUBSET Options, states : SUBSET {Code(s) : s \in States},
                     zip : {"none", "lost", "found"}, near : SUBSET {"min", "max"}, active : BOOLEAN]
      /\ \A f \in Facets : chosen.sel[f] \subseteq ValuesOf(f)
  BY DEF Init, Anything
<1>3. sort \in [key : {"advertized_price", "total_msrp"}, desc : BOOLEAN]
  BY DEF Init, FirstSort
<1>4. answer = "none" /\ page = 0 /\ total = 0 /\ still = TRUE /\ shown = <<>>
  BY DEF Init
<1>5. Len(shown) <= page * PageSize /\ shown \in Seq(Vehicles)
  <2>1. 0 * PageSize = 0
    BY ListingsAssumption
  <2> QED BY <1>4, <2>1
<1>6. Charted
  BY DEF Init, Charted, NoBrush, NoChart
<1> QED BY <1>1, <1>2, <1>3, <1>4, <1>5, <1>6 DEF ListingsIInv, TypeOK, PagesRead

\* What the facets offer are values of the vehicles.
LEMMA Offered ==
  ASSUME TypeOK, NEW c
  PROVE  /\ \A i \in SeriesItems(c) : i.value \in Series
         /\ \A f \in Facets : \A i \in FacetItems(c, f) : i.value \in ValuesOf(f)
         /\ \A i \in OptionItems(c) : i.value \in Options
         /\ \A i \in StateItems(c) : i.value \in {Code(s) : s \in States}
<1>1. fleet \subseteq Vehicles
  BY ListedFinite
<1>2. \A d, own : Scope(d, own) \subseteq Vehicles
  BY <1>1 DEF Scope
<1>3. ASSUME NEW i \in SeriesItems(c) PROVE i.value \in Series
  <2>1. PICK all : all = Scope([Anything EXCEPT !.active = c.active], "none")
    OBVIOUS
  <2>2. PICK s \in {Car[v].series : v \in all} \ {Null} :
          i = [value |-> s, count |-> Cardinality({v \in all : Car[v].series = s}),
               available |-> \E v \in Scope(c, "series") : Car[v].series = s]
    BY <2>1, Zenon DEF SeriesItems
  <2>3. i.value = s
    BY <2>2, Zenon
  <2>4. all \subseteq Vehicles
    BY <1>2, <2>1
  <2> QED BY <2>2, <2>3, <2>4 DEF Series
<1>4. ASSUME NEW f \in Facets, NEW i \in FacetItems(c, f) PROVE i.value \in ValuesOf(f)
  <2>1. PICK v \in Named(c, f) : Says(i, c, f, v)
    BY ItemSays
  <2>2. i.value = Known(f, v)
    BY <2>1 DEF Says
  <2>3. v \in Vehicles /\ Known(f, v) # Null
    BY <1>2 DEF Named
  <2> QED BY <2>2, <2>3 DEF ValuesOf
<1>5. ASSUME NEW i \in OptionItems(c) PROVE i.value \in Options
  <2>1. PICK all : all = Scope(SeriesOnly(c), "none")
    OBVIOUS
  <2>2. PICK o \in UNION {Car[v].options : v \in all} :
          i = [value |-> o, count |-> Cardinality({v \in all : o \in Car[v].options}),
               available |-> \E v \in Scope(c, "option") : o \in Car[v].options]
    BY <2>1, Zenon DEF OptionItems
  <2>3. all \subseteq Vehicles
    BY <1>2, <2>1
  <2>4. i.value = o
    BY <2>2
  <2> QED BY <2>2, <2>3, <2>4 DEF Options
<1>6. ASSUME NEW i \in StateItems(c) PROVE i.value \in {Code(s) : s \in States}
  <2>1. PICK P : P = {v \in Scope(SeriesOnly(c), "none") : StateOf(v) # NoState}
    OBVIOUS
  <2>2. PICK x \in {Code(StateOf(v)) : v \in P} :
          i = [value |-> x, count |-> Cardinality({v \in P : Code(StateOf(v)) = x})]
    BY <2>1, Zenon DEF StateItems
  <2>3. i.value = x
    BY <2>2, Zenon
  <2>4. PICK v \in P : x = Code(StateOf(v))
    BY <2>2
  <2>5. v \in Vehicles /\ StateOf(v) # NoState
    BY <1>2, <2>1
  <2> QED BY <2>3, <2>4, <2>5, StateKnown
<1> QED BY <1>3, <1>4, <1>5, <1>6

\* What the filters may be.
Filterings ==
  {c \in [series : SUBSET Series, sel : [Facets -> SUBSET UNION {ValuesOf(f) : f \in Facets}],
          options : SUBSET Options, states : SUBSET {Code(s) : s \in States},
          zip : {"none", "lost", "found"}, near : SUBSET {"min", "max"}, active : BOOLEAN] :
     \A f \in Facets : c.sel[f] \subseteq ValuesOf(f)}

\* A choice, made or taken back, stays among what there is to choose.
LEMMA ToggledIn ==
  ASSUME NEW T, NEW S \in SUBSET T, NEW x \in T
  PROVE  Toggled(S, x) \in SUBSET T
BY DEF Toggled

\* A click chooses among what there is to choose.
LEMMA ClicksChoose == ASSUME TypeOK, NEW x \in Filterings, NEW c \in Clicks(x) PROVE c \in Filterings
<1>1. /\ x \in [series : SUBSET Series, sel : [Facets -> SUBSET UNION {ValuesOf(f) : f \in Facets}],
                     options : SUBSET Options, states : SUBSET {Code(s) : s \in States},
                     zip : {"none", "lost", "found"}, near : SUBSET {"min", "max"}, active : BOOLEAN]
      /\ \A f \in Facets : x.sel[f] \subseteq ValuesOf(f)
  BY DEF Filterings
<1>2. ASSUME NEW i \in SeriesItems(x), c = [x EXCEPT !.series = Toggled(@, i.value)] PROVE c \in Filterings
  <2>1. Toggled(x.series, i.value) \in SUBSET Series
    <3>1. i.value \in Series /\ x.series \in SUBSET Series
      BY <1>1, Offered
    <3> QED BY <3>1, ToggledIn
  <2> QED BY <1>1, <1>2, <2>1 DEF Filterings
<1>3. ASSUME NEW f \in Facets, NEW i \in FacetItems(x, f), c = [x EXCEPT !.sel[f] = Toggled(@, i.value)]
      PROVE  c \in Filterings
  <2>1. Toggled(x.sel[f], i.value) \in SUBSET ValuesOf(f)
    <3>1. i.value \in ValuesOf(f)
      BY Offered
    <3>2. x.sel[f] \in SUBSET ValuesOf(f)
      BY <1>1
    <3> QED BY <3>1, <3>2, ToggledIn
  <2>2. PICK T : T = Toggled(x.sel[f], i.value)
    OBVIOUS
  <2>3. T \in SUBSET UNION {ValuesOf(g) : g \in Facets}
    BY <2>1, <2>2
  <2>4. PICK sel : sel = [x.sel EXCEPT ![f] = T]
    OBVIOUS
  <2>5. /\ sel \in [Facets -> SUBSET UNION {ValuesOf(g) : g \in Facets}]
        /\ \A g \in Facets : sel[g] \subseteq ValuesOf(g)
    BY <1>1, <2>1, <2>2, <2>3, <2>4
  <2>6. c = [x EXCEPT !.sel = sel]
    BY <1>3, <2>2, <2>4
  <2> QED BY <1>1, <2>5, <2>6 DEF Filterings
<1>4. ASSUME NEW i \in OptionItems(x), c = [x EXCEPT !.options = Toggled(@, i.value)] PROVE c \in Filterings
  <2>1. Toggled(x.options, i.value) \in SUBSET Options
    <3>1. i.value \in Options /\ x.options \in SUBSET Options
      BY <1>1, Offered
    <3> QED BY <3>1, ToggledIn
  <2> QED BY <1>1, <1>4, <2>1 DEF Filterings
<1>5. ASSUME NEW i \in StateItems(x), c = [x EXCEPT !.states = Toggled(@, i.value)] PROVE c \in Filterings
  <2>1. PICK T : T = {Code(s) : s \in States}
    OBVIOUS
  <2>2. i.value \in T /\ x.states \in SUBSET T
    BY <1>1, <2>1, Offered
  <2>3. Toggled(x.states, i.value) \in SUBSET T
    BY <2>2, ToggledIn
  <2> QED BY <1>1, <1>5, <2>1, <2>3 DEF Filterings
<1>6. ASSUME NEW n \in {"min", "max"}, c = [x EXCEPT !.near = Toggled(@, n)] PROVE c \in Filterings
  <2>1. PICK T : T = {"min", "max"}
    OBVIOUS
  <2>2. n \in T /\ x.near \in SUBSET T
    BY <1>1, <2>1
  <2>3. Toggled(x.near, n) \in SUBSET T
    BY <2>2, ToggledIn
  <2> QED BY <1>1, <1>6, <2>1, <2>3 DEF Filterings
<1>7. ASSUME NEW z \in {"none", "lost", "found"}, c = [x EXCEPT !.zip = z] PROVE c \in Filterings
  BY <1>1, <1>7 DEF Filterings
<1>8. ASSUME c = [x EXCEPT !.active = ~@] PROVE c \in Filterings
  BY <1>1, <1>8 DEF Filterings
<1>9. \/ \E i \in SeriesItems(x) : c = [x EXCEPT !.series = Toggled(@, i.value)]
      \/ \E f \in Facets : \E i \in FacetItems(x, f) : c = [x EXCEPT !.sel[f] = Toggled(@, i.value)]
      \/ \E i \in OptionItems(x) : c = [x EXCEPT !.options = Toggled(@, i.value)]
      \/ \E i \in StateItems(x) : c = [x EXCEPT !.states = Toggled(@, i.value)]
      \/ \E n \in {"min", "max"} : c = [x EXCEPT !.near = Toggled(@, n)]
      \/ \E z \in {"none", "lost", "found"} : c = [x EXCEPT !.zip = z]
      \/ c = [x EXCEPT !.active = ~@]
  <2> DEFINE bySeries == {[x EXCEPT !.series = Toggled(@, i.value)] : i \in SeriesItems(x)}
             byFacet == UNION {{[x EXCEPT !.sel[f] = Toggled(@, i.value)] : i \in FacetItems(x, f)} : f \in Facets}
             byOption == {[x EXCEPT !.options = Toggled(@, i.value)] : i \in OptionItems(x)}
             byState == {[x EXCEPT !.states = Toggled(@, i.value)] : i \in StateItems(x)}
             byMiles == {[x EXCEPT !.near = Toggled(@, n)] : n \in {"min", "max"}}
             byZip == {[x EXCEPT !.zip = z] : z \in {"none", "lost", "found"}}
             byActive == {[x EXCEPT !.active = ~@]}
  <2>1. Clicks(x) = bySeries \cup byFacet \cup byOption \cup byState \cup byMiles \cup byZip \cup byActive
    BY Zenon DEF Clicks
  <2>2. c \in bySeries => \E i \in SeriesItems(x) : c = [x EXCEPT !.series = Toggled(@, i.value)]
    OBVIOUS
  <2>3. c \in byFacet => \E f \in Facets : \E i \in FacetItems(x, f) : c = [x EXCEPT !.sel[f] = Toggled(@, i.value)]
    OBVIOUS
  <2>4. c \in byOption => \E i \in OptionItems(x) : c = [x EXCEPT !.options = Toggled(@, i.value)]
    OBVIOUS
  <2>5. c \in byState => \E i \in StateItems(x) : c = [x EXCEPT !.states = Toggled(@, i.value)]
    OBVIOUS
  <2>6. c \in byMiles => \E n \in {"min", "max"} : c = [x EXCEPT !.near = Toggled(@, n)]
    OBVIOUS
  <2>7. c \in byZip => \E z \in {"none", "lost", "found"} : c = [x EXCEPT !.zip = z]
    OBVIOUS
  <2>8. c \in byActive => c = [x EXCEPT !.active = ~@]
    OBVIOUS
  <2> HIDE DEF bySeries, byFacet, byOption, byState, byMiles, byZip, byActive
  <2>9. c \in bySeries \/ c \in byFacet \/ c \in byOption \/ c \in byState \/ c \in byMiles \/ c \in byZip \/ c \in byActive
    BY <2>1
  <2> QED BY <2>2, <2>3, <2>4, <2>5, <2>6, <2>7, <2>8, <2>9
<1> QED BY <1>2, <1>3, <1>4, <1>5, <1>6, <1>7, <1>8, <1>9

\* After a choice, nothing is read.
LEMMA UnreadHolds ==
  ASSUME Unread, ingests' \in 0 .. Len(Fleets) - 1, chosen' \in Filterings,
         sort' \in [key : {"advertized_price", "total_msrp"}, desc : BOOLEAN], Charted'
  PROVE  ListingsIInv'
<1>1. answer' = "none" /\ page' = 0 /\ total' = 0 /\ still' = TRUE /\ shown' = <<>>
  BY DEF Unread
<1>2. Len(shown') <= page' * PageSize /\ shown' \in Seq(Vehicles)
  <2>1. 0 * PageSize = 0
    BY ListingsAssumption
  <2> QED BY <1>1, <2>1
<1>3. TypeOK'
  BY <1>1, <1>2 DEF TypeOK, Filterings
<1>4. PagesRead'
  BY <1>1 DEF PagesRead
<1> QED BY <1>3, <1>4 DEF ListingsIInv

\* The list is the same as long as neither the filters nor the ingests change.
LEMMA SameList ==
  ASSUME UNCHANGED <<ingests, chosen, brush, sort>>
  PROVE  Now' = Now /\ Orders(Now)' = Orders(Now) /\ Refused(chosen)' = Refused(chosen)
<1>1. Now' = Now
  BY DEF Now, Listed, fleet, Located, Brushed, Column
<1>2. \A v, w : Before(v, w)' = Before(v, w)
  BY DEF Before, SortValue
<1>3. Orders(Now)' = Orders(Now)
  BY <1>1, <1>2 DEF Orders
<1> QED BY <1>1, <1>3 DEF Refused

\* Reading a page: the database refuses, or the list goes on where it was.
LEMMA ReadHolds == ASSUME ListingsIInv, ReadPage PROVE ListingsIInv'
<1>1. TypeOK /\ PagesRead /\ Charted
  BY DEF ListingsIInv
<1>2. /\ UNCHANGED <<ingests, chosen, brush, sort, still>>
      /\ ingests \in 0 .. Len(Fleets) - 1 /\ chosen \in Filterings
      /\ sort \in [key : {"advertized_price", "total_msrp"}, desc : BOOLEAN]
      /\ answer \in {"none", "rows", "error"} /\ page \in Nat /\ total \in Nat /\ still \in BOOLEAN
      /\ shown \in Seq(Vehicles) /\ Len(shown) <= page * PageSize
      /\ still /\ answer = "rows" => page <= Max({1, PageCount(total)}) /\ Len(shown) = Min({total, page * PageSize})
  BY <1>1 DEF TypeOK, Filterings, ReadPage, asked
<1> Charted'
  BY <1>1 DEF Charted, ReadPage, asked
<1>3. /\ answer # "rows" => page = 0 /\ total = 0 /\ shown = <<>>
      /\ answer = "rows" => page # 0 /\ ~Refused(chosen)
      /\ answer = "rows" /\ still => /\ total = Cardinality(Now)
                                     /\ \A s \in Orders(Now) : shown = SubSeq(s, 1, Min({total, page * PageSize}))
  BY <1>1 DEF PagesRead
<1>4. Now' = Now /\ Orders(Now)' = Orders(Now) /\ Refused(chosen)' = Refused(chosen)
  BY <1>2, SameList
<1>5. CASE Refused(chosen)
  <2>1. answer' = "error" /\ UNCHANGED <<page, total, shown>>
    BY <1>5 DEF ReadPage
  <2>2. page = 0 /\ total = 0 /\ shown = <<>>
    BY <1>3, <1>5
  <2>3. TypeOK'
    BY <1>2, <2>1 DEF TypeOK, Filterings
  <2>4. PagesRead'
    BY <2>1, <2>2 DEF PagesRead
  <2> QED BY <2>3, <2>4 DEF ListingsIInv
<1>6. CASE ~Refused(chosen)
  <2>1. Now \subseteq fleet /\ IsFiniteSet(Now) /\ Now \subseteq Vehicles
    BY <1>1, ListedFinite DEF Now
  <2>2. PICK n \in Nat : n = Cardinality(Now)
    BY <2>1, FS_CardinalityType
  <2>3. PICK s \in [1 .. n -> Now] : Orders(Now) = {s}
    BY <1>1, <2>1, <2>2, OrderIs
  <2>4. s \in Seq(Vehicles) /\ Len(s) = n
    BY <2>1
  <2>5. /\ answer' = "rows" /\ page' = page + 1 /\ total' = n
        /\ shown' = shown \o PageOf(s, page + 1)
        /\ answer = "none" \/ page < PageCount(total)
    BY <1>6, <2>2, <2>3 DEF ReadPage, Now
  <2>6. shown' \in Seq(Vehicles) /\ Len(shown') <= page' * PageSize
    <3>1. PICK d \in Nat : d = PageSize
      BY ListingsAssumption
    <3>2. PICK q \in Seq(Vehicles) : q = PageOf(s, page + 1) /\ Len(q) <= d
      BY <1>2, <2>4, <3>1, PageFits
    <3>3. PICK k \in Nat : k = page * PageSize /\ (page + 1) * PageSize = k + d
      BY <1>2, <3>1, LastPage
    <3>4. shown \o q \in Seq(Vehicles) /\ Len(shown \o q) = Len(shown) + Len(q)
      BY <1>2
    <3>5. Len(shown) <= k
      BY <1>2, <3>3
    <3> QED BY <2>5, <3>2, <3>3, <3>4, <3>5
  <2>7. ASSUME still
        PROVE  /\ shown' = SubSeq(s, 1, Min({n, page' * PageSize})) /\ Len(shown') = Min({n, page' * PageSize})
               /\ page' <= Max({1, PageCount(n)})
    <3>1. page = 0 \/ page < PageCount(n)
      <4>1. CASE answer = "rows"
        BY <1>3, <2>2, <2>5, <2>7, <4>1
      <4>2. CASE answer # "rows"
        BY <1>3, <4>2
      <4> QED BY <4>1, <4>2
    <3>2. /\ SubSeq(s, 1, Min({n, page * PageSize})) \o PageOf(s, page + 1) = SubSeq(s, 1, Min({n, (page + 1) * PageSize}))
          /\ Len(SubSeq(s, 1, Min({n, (page + 1) * PageSize}))) = Min({n, (page + 1) * PageSize})
          /\ page = 0 => SubSeq(s, 1, Min({n, page * PageSize})) = <<>>
      BY <1>2, <2>4, <3>1, NextPageOf
    <3>3. shown = SubSeq(s, 1, Min({n, page * PageSize}))
      <4>1. CASE answer = "rows"
        BY <1>3, <2>2, <2>3, <2>7, <4>1
      <4>2. CASE answer # "rows"
        BY <1>3, <3>2, <4>2
      <4> QED BY <4>1, <4>2
    <3>4. page + 1 <= Max({1, PageCount(n)})
      <4>1. PICK m \in Nat : m = PageCount(n)
        BY LastPage
      <4>2. Max({1, m}) = IF 1 >= m THEN 1 ELSE m
        BY OfTwo
      <4> QED BY <1>2, <3>1, <4>1, <4>2
    <3> QED BY <2>5, <3>2, <3>3, <3>4
  <2>8. answer' = "rows" /\ page' \in Nat /\ page' # 0 /\ total' \in Nat
    BY <1>2, <2>5
  <2>9. TypeOK'
    BY <1>2, <2>5, <2>6, <2>7, <2>8 DEF TypeOK, Filterings
  <2>10. Orders(Now)' = {s} /\ Now' = Now
    BY <1>4, <2>3
  <2>11. PagesRead'
    <3>1. (answer = "rows" => page # 0 /\ ~Refused(chosen))'
      BY <1>4, <1>6, <2>8
    <3>2. (answer = "rows" /\ still =>
             /\ total = Cardinality(Now)
             /\ \A t \in Orders(Now) : shown = SubSeq(t, 1, Min({total, page * PageSize})))'
      <4>1. total' = Cardinality(Now')
        BY <2>2, <2>5, <2>10
      <4>2. still' => shown' = SubSeq(s, 1, Min({total', page' * PageSize}))
        BY <1>2, <2>5, <2>7
      <4> QED BY <2>10, <4>1, <4>2
    <3> QED BY <2>8, <3>1, <3>2 DEF PagesRead
  <2> QED BY <2>9, <2>11 DEF ListingsIInv
<1> QED BY <1>5, <1>6

\* After an ingest, the pages read before it may be of another list.
LEMMA IngestHolds == ASSUME ListingsIInv, Ingest PROVE ListingsIInv'
<1>1. TypeOK /\ PagesRead /\ Charted
  BY DEF ListingsIInv
<1>2. /\ ingests + 1 < Len(Fleets) /\ ingests' = ingests + 1 /\ still' = (page = 0)
      /\ UNCHANGED <<chosen, brush, sort, page, answer, total, shown>>
  BY DEF Ingest, asked, read
<1>3. Len(Fleets) \in Nat
  BY ListingsAssumption
<1>4. answer = "rows" => ~still'
  BY <1>1, <1>2 DEF PagesRead
<1>5. ingests' \in 0 .. Len(Fleets) - 1
  BY <1>1, <1>2, <1>3 DEF TypeOK
<1>6. TypeOK'
  BY <1>1, <1>2, <1>4, <1>5 DEF TypeOK
<1>7. PagesRead'
  <2>1. Refused(chosen)' = Refused(chosen)
    BY <1>2 DEF Refused
  <2> QED BY <1>1, <1>2, <1>4, <2>1 DEF PagesRead
<1>8. Charted'
  BY <1>1 DEF Charted, Ingest, asked
<1> QED BY <1>6, <1>7, <1>8 DEF ListingsIInv

\* The ends of the bars of a list's histogram are numbers.
LEMMA BarsOfList ==
  ASSUME TypeOK, NEW S, S = Now, HasHistogram(S), NEW i \in DOMAIN Histogram(MetricsOf(S))
  PROVE  Histogram(MetricsOf(S))[i].start \in Int /\ Histogram(MetricsOf(S))[i].end \in Int
<1>1. PICK f : f = MetricsOf(S)
  OBVIOUS
<1>2. S \subseteq Vehicles /\ \A T : T \subseteq S => IsFiniteSet(T)
  BY ListedFinite DEF Now
<1>3. DOMAIN f \subseteq S /\ f \in [DOMAIN f -> Nat] /\ IsFiniteSet(DOMAIN f)
  BY <1>1, <1>2, ChartsOfNumbers DEF Priced
<1>4. DOMAIN f # {}
  <2>1. Cardinality(DOMAIN f) >= MinSamples
    BY <1>1 DEF HasHistogram
  <2>2. Cardinality({}) = 0 /\ MinSamples \in Nat \ {0}
    BY FS_EmptySet, PriceAssumption
  <2> QED BY <2>1, <2>2
<1>5. PICK lo \in Nat : lo = Min(Range(f))
  BY <1>3, <1>4, ValuesBetween
<1>6. PICK hi \in Nat : hi = Max(Range(f))
  BY <1>3, <1>4, ValuesBetween
<1>7. PICK w \in Nat : w = Width(f)
  BY <1>3, <1>4, ValuesBetween
<1>8. PICK B \in Nat : B = Bars
  BY PriceAssumption
<1>9. i \in 1 .. B
  BY <1>1, <1>8 DEF Histogram
<1>10. /\ Histogram(f)[i].start = lo * B + (i - 1) * w
       /\ Histogram(f)[i].end = IF i = B THEN hi * B ELSE lo * B + i * w
  BY <1>5, <1>6, <1>7, <1>8, <1>9 DEF Histogram
<1>11. lo * B \in Int /\ (i - 1) * w \in Int /\ hi * B \in Int /\ i * w \in Int
  BY <1>9
<1> QED BY <1>1, <1>10, <1>11

\* When the analytics take the brush away, the pages read are of another list.
LEMMA AnalyseHolds == ASSUME ListingsIInv, Analyse PROVE ListingsIInv'
<1>1. TypeOK /\ PagesRead /\ Charted
  BY DEF ListingsIInv
<1>2. /\ still' = (page = 0 \/ (still /\ brush' = brush))
      /\ UNCHANGED <<ingests, chosen, sort, page, answer, total, shown>>
  BY DEF Analyse, read
<1>3. answer = "rows" /\ still' => still /\ brush' = brush
  BY <1>1, <1>2 DEF PagesRead
<1>4. TypeOK'
  <2>1. still' \in BOOLEAN
    BY <1>2
  <2> QED BY <1>1, <1>2, <1>3, <2>1 DEF TypeOK
<1>5. PagesRead'
  <2>1. Refused(chosen)' = Refused(chosen)
    BY <1>2 DEF Refused
  <2>2. CASE answer = "rows" /\ still'
    <3>1. Now' = Now /\ Orders(Now)' = Orders(Now)
      BY <1>2, <1>3, <2>2, SameList
    <3> QED BY <1>1, <1>2, <1>3, <2>1, <2>2, <3>1 DEF PagesRead
  <2>3. CASE ~(answer = "rows" /\ still')
    BY <1>1, <1>2, <2>1, <2>3 DEF PagesRead
  <2> QED BY <2>2, <2>3
<1>6. Charted'
  <2>1. CASE /\ HasHistogram(Listed(chosen, brush)) /\ chart' = ChartOf(Listed(chosen, brush))
             /\ brush' = IF brush.metric = Metric(Listed(chosen, brush)) THEN brush ELSE NoBrush
    <3>1. chart'.metric = Metric(Listed(chosen, brush)) /\ chart'.bars = Histogram(MetricsOf(Listed(chosen, brush)))
      BY <2>1 DEF ChartOf
    <3>2. \A i \in DOMAIN chart'.bars : chart'.bars[i].start \in Int /\ chart'.bars[i].end \in Int
      <4>1. PICK S : S = Listed(chosen, brush)
        OBVIOUS
      <4>2. \A i \in DOMAIN Histogram(MetricsOf(S)) : /\ Histogram(MetricsOf(S))[i].start \in Int
                                                     /\ Histogram(MetricsOf(S))[i].end \in Int
        BY <1>1, <2>1, <4>1, BarsOfList DEF Now
      <4> QED BY <3>1, <4>1, <4>2
    <3> QED BY <1>1, <2>1, <3>1, <3>2 DEF Charted, NoBrush
  <2>2. CASE chart' = NoChart /\ brush' = NoBrush
    BY <2>2 DEF Charted, NoBrush, NoChart
  <2> QED BY <2>1, <2>2 DEF Analyse
<1> QED BY <1>4, <1>5, <1>6 DEF ListingsIInv

\* Every step keeps the invariant.
LEMMA StepInv == ListingsIInv /\ [Next]_vars => ListingsIInv'
<1> SUFFICES ASSUME ListingsIInv, [Next]_vars PROVE ListingsIInv'
  OBVIOUS
<1>1. TypeOK /\ PagesRead /\ Charted
  BY DEF ListingsIInv
<1>2. ingests \in 0 .. Len(Fleets) - 1 /\ chosen \in Filterings
      /\ sort \in [key : {"advertized_price", "total_msrp"}, desc : BOOLEAN]
  BY <1>1 DEF TypeOK, Filterings
<1>3. CASE Choose
  <2>1. chosen' \in Clicks(chosen) /\ Unread /\ UNCHANGED <<ingests, brush, sort>> /\ Charted'
    BY <1>1, <1>3 DEF Choose, Charted
  <2>2. chosen' \in Filterings
    BY <1>1, <1>2, <2>1, ClicksChoose
  <2> QED BY <1>2, <2>1, <2>2, UnreadHolds
<1>4. CASE Sort
  <2>1. Unread /\ UNCHANGED <<ingests, chosen, brush>> /\ Charted'
        /\ sort' \in [key : {"advertized_price", "total_msrp"}, desc : BOOLEAN]
    BY <1>1, <1>4 DEF Sort, Charted
  <2> QED BY <1>2, <2>1, UnreadHolds
<1>5. CASE Brush
  <2>1. Unread /\ UNCHANGED <<ingests, chosen, sort>>
    BY <1>5 DEF Brush
  <2>2. Charted'
    BY <1>1, <1>5 DEF Brush, BrushOf, Charted, NoBrush
  <2> QED BY <1>2, <2>1, <2>2, UnreadHolds
<1>6. CASE Unbrush
  <2>1. Unread /\ UNCHANGED <<ingests, chosen, sort>> /\ Charted'
    BY <1>1, <1>6 DEF Unbrush, Charted, NoBrush
  <2> QED BY <1>2, <2>1, UnreadHolds
<1>7. CASE Analyse
  BY <1>7, AnalyseHolds
<1>8. CASE ReadPage
  BY <1>8, ReadHolds
<1>9. CASE Ingest
  BY <1>9, IngestHolds
<1>10. CASE UNCHANGED vars
  <2>1. UNCHANGED <<ingests, chosen, brush, chart, sort, page, answer, total, shown, still>>
    BY <1>10 DEF vars, asked, read
  <2>2. Now' = Now /\ Orders(Now)' = Orders(Now) /\ Refused(chosen)' = Refused(chosen)
    BY <2>1, SameList
  <2>3. TypeOK'
    BY <1>1, <2>1 DEF TypeOK
  <2>4. PagesRead'
    BY <1>1, <2>1, <2>2 DEF PagesRead
  <2>5. Charted'
    BY <1>1, <2>1 DEF Charted
  <2> QED BY <2>3, <2>4, <2>5 DEF ListingsIInv
<1> QED BY <1>3, <1>4, <1>5, <1>6, <1>7, <1>8, <1>9, <1>10 DEF Next

-----------------------------------------------------------------------------
(* A bar picked.                                                           *)

\* The column that the filter compares has the value that the histogram shows, unless
\* another column fills in.
LEMMA ColumnShown ==
  ASSUME NEW S, S \subseteq Vehicles, NEW v \in S, Column(v, Metric(S)) # NoPrice
  PROVE  v \in DOMAIN MetricsOf(S) /\ MetricsOf(S)[v] = Column(v, Metric(S))
<1>1. Car[v].price \in PriceRow
  BY ListingsAssumption
<1>2. CASE Metric(S) = "total_msrp"
  <2>1. Msrp(Car[v].price) = Column(v, Metric(S))
    BY <1>2 DEF Column, Msrp, Coalesce
  <2>2. v \in DOMAIN MsrpsOf(S) /\ MsrpsOf(S)[v] = Column(v, Metric(S))
    BY <2>1 DEF MsrpsOf
  <2> QED BY <1>2, <2>2 DEF MetricsOf
<1>3. CASE Metric(S) # "total_msrp"
  <2>1. Price(Car[v].price) = Column(v, Metric(S))
    BY <1>3 DEF Column, Price, Coalesce
  <2>2. v \in DOMAIN PricesOf(S) /\ PricesOf(S)[v] = Column(v, Metric(S))
    BY <2>1 DEF PricesOf
  <2> QED BY <1>3, <2>2 DEF MetricsOf
<1> QED BY <1>2, <1>3

\* The vehicles in the range of a brush.
BarPicked(i) ==
  LET f == MetricsOf(Now)
  IN  /\ \A v \in DOMAIN f : BarOf(f, f[v]) = i => (v \in Now' <=> Column(v, chart.metric) # NoPrice)
      /\ Now' \subseteq DOMAIN f
      /\ \A v \in Now' : f[v] * Bars \in chart.bars[i].start .. chart.bars[i].end

\* Picking a bar lists its vehicles, but for those whose price fills in, and no others.
LEMMA BrushStep ==
  ASSUME ListingsIInv, [Next]_vars, NEW i \in DOMAIN chart.bars, UpToDate,
         brush' = BrushOf(chart.metric, chart.bars[i]), brush' # brush
  PROVE  BarPicked(i)
<1>1. TypeOK /\ Charted
  BY DEF ListingsIInv
<1>2. PICK S : S = Now
  OBVIOUS
<1>3. PICK f : f = MetricsOf(S)
  OBVIOUS
<1>4. PICK m : m = Metric(S)
  OBVIOUS
<1>5. PICK bar : bar = Histogram(f)[i]
  OBVIOUS
<1>6. chart.metric = m /\ chart.bars = Histogram(f) /\ HasHistogram(S)
  BY <1>2, <1>3, <1>4 DEF UpToDate, ChartOf
<1>7. i \in 1 .. Bars
  BY <1>6 DEF Histogram
<1>8. PICK b : b = brush'
  OBVIOUS
<1>9. b.metric = m /\ b.start = bar.start /\ b.end = bar.end
  BY <1>5, <1>6, <1>8 DEF BrushOf
<1>10. m # "none"
  BY <1>4 DEF Metric, MetricOf
<1>11. b # NoBrush
  BY <1>9, <1>10 DEF NoBrush
<1>12. ingests' = ingests /\ chosen' = chosen
  <2>1. Brush
    BY <1>8, <1>11 DEF Next, vars, asked, Choose, Sort, Analyse, Unbrush, ReadPage, Ingest
  <2> QED BY <2>1 DEF Brush
<1>13. PICK A : A = Listed(chosen, NoBrush)
  OBVIOUS
<1>14. \A v : v \in Now' <=> v \in A /\ Brushed(v, b)
  <2>1. \A v : v \in Now' <=> v \in Listed(chosen, b)
    BY <1>8, <1>12 DEF Now, Listed, fleet, Located, Brushed, Column
  <2> QED BY <1>13, <2>1 DEF Listed, Brushed
<1>15. \A v : v \in S <=> v \in A /\ Brushed(v, brush)
  BY <1>2, <1>13 DEF Now, Listed, Brushed
<1>16. S \subseteq Vehicles /\ A \subseteq Vehicles /\ \A T : T \subseteq S => IsFiniteSet(T)
  BY <1>1, <1>2, <1>13, ListedFinite DEF Now
<1>17. Priced(f, S)
  BY <1>3, <1>16, ChartsOfNumbers
<1>18. DOMAIN f \subseteq S /\ f \in [DOMAIN f -> Nat] /\ IsFiniteSet(DOMAIN f)
  BY <1>16, <1>17 DEF Priced
<1>19. DOMAIN f # {}
  <2>1. Cardinality(DOMAIN f) >= MinSamples
    BY <1>3, <1>6 DEF HasHistogram
  <2>2. Cardinality({}) = 0 /\ MinSamples \in Nat \ {0}
    BY FS_EmptySet, PriceAssumption
  <2> QED BY <2>1, <2>2
<1>20. \A v \in S : Column(v, m) # NoPrice => v \in DOMAIN f /\ f[v] = Column(v, m)
  BY <1>3, <1>4, <1>16, ColumnShown
<1>21. \A v : Brushed(v, b) <=> Column(v, m) # NoPrice /\ Column(v, m) * Bars \in bar.start .. bar.end
  BY <1>9, <1>11 DEF Brushed
<1>22. ASSUME NEW v \in A, Brushed(v, b) PROVE v \in S
  <2>1. CASE brush = NoBrush
    BY <1>15, <2>1 DEF Brushed
  <2>2. CASE brush # NoBrush
    <3>1. brush.metric = m
      BY <1>1, <1>6, <2>2 DEF Charted
    <3>2. \A w : Brushed(w, brush) <=> Column(w, m) # NoPrice /\ Column(w, m) * Bars \in brush.start .. brush.end
      BY <2>2, <3>1 DEF Brushed
    <3>3. PICK x \in Nat : x = Column(v, m)
      <4>1. Car[v].price \in PriceRow /\ Column(v, m) # NoPrice
        BY <1>16, <1>21, <1>22, ListingsAssumption
      <4> QED BY <4>1 DEF PriceRow, Column
    <3>4. x * Bars \in bar.start .. bar.end
      BY <1>21, <1>22, <3>3
    <3>5. Min(Range(f)) <= x /\ x <= Max(Range(f))
      BY <1>5, <1>7, <1>18, <1>19, <3>4, BarWithin
    <3>6. \A w \in DOMAIN f : f[w] * Bars \in brush.start .. brush.end
      BY <1>15, <1>18, <1>20, <3>2
    <3>7. x * Bars \in brush.start .. brush.end
      BY <1>1, <1>18, <1>19, <3>3, <3>5, <3>6, BetweenValues DEF Charted
    <3>8. Brushed(v, brush)
      BY <1>21, <1>22, <3>2, <3>3, <3>7
    <3> QED BY <1>15, <3>8
  <2> QED BY <2>1, <2>2
<1>23. ASSUME NEW v \in DOMAIN f, BarOf(f, f[v]) = i PROVE v \in Now' <=> Column(v, m) # NoPrice
  <2>1. v \in S /\ v \in A
    BY <1>15, <1>18
  <2>2. f[v] * Bars \in bar.start .. bar.end
    BY <1>5, <1>18, <1>19, <1>23, BarHolds
  <2>3. Column(v, m) # NoPrice => Brushed(v, b)
    BY <1>20, <1>21, <2>1, <2>2
  <2> QED BY <1>14, <1>21, <2>1, <2>3
<1>24. ASSUME NEW v, v \in Now' PROVE v \in DOMAIN f /\ f[v] * Bars \in bar.start .. bar.end
  <2>1. v \in A /\ Brushed(v, b)
    BY <1>14, <1>24
  <2>2. v \in S
    BY <1>22, <2>1
  <2>3. Column(v, m) # NoPrice /\ Column(v, m) * Bars \in bar.start .. bar.end
    BY <1>21, <2>1
  <2> QED BY <1>20, <2>2, <2>3
<1>25. chart.bars[i] = bar
  BY <1>5, <1>6
<1> QED BY <1>2, <1>3, <1>6, <1>23, <1>24, <1>25 DEF BarPicked

-----------------------------------------------------------------------------
(* What holds of every run.                                                *)

\* The invariant: TypeOK, and what has been read is the beginning of the list.
THEOREM ListingsAlways == Spec => []ListingsIInv
<1>1. Init => ListingsIInv
  BY InitInv
<1>2. ListingsIInv /\ [Next]_vars => ListingsIInv'
  BY StepInv
<1> QED BY <1>1, <1>2, PTL DEF Spec

\* Facets, list and map tell the same story: choosing a value without comma that a facet
\* shows as available leads to vehicles, choosing one that is not and has one spelling does
\* not, the numbers next to the values are those of the list, and the three counters agree;
\* where rows of prices are missing, the list has no more vehicles than that.
THEOREM FacetsAreTrueKept == Spec => []FacetsAreTrue
<1>1. ListingsIInv => FacetsAreTrue
  BY FacetsLead, CountsTrue, CountersAgree DEF ListingsIInv, FacetsAreTrue
<1> QED BY <1>1, ListingsAlways, PTL

\* The pages, one after the other, are the export, if meanwhile no ingest commits and no
\* analytics take the brush away.
THEOREM PagesAreTheExportKept == Spec => []PagesAreTheExport
<1>1. ListingsIInv => PagesAreTheExport
  BY PagesAreAll
<1> QED BY <1>1, ListingsAlways, PTL

\* The geo map, the insights and the endpoint compare a vehicle at the same price and
\* MSRP, and what they count below, at and above it adds up.
THEOREM PricesAgreeKept == Spec => []PricesAgree
<1>1. ListingsIInv => PricesAgree
  BY AgreeViews, ComparisonsAddUp DEF ListingsIInv, PricesAgree
<1> QED BY <1>1, ListingsAlways, PTL

\* The medians split the prices in halves, the bars hold every price, and the effect
\* of an option counts every vehicle on one side.
THEOREM StatisticsAreTrueKept == Spec => []StatisticsAreTrue
<1>1. ListingsIInv => StatisticsAreTrue
  BY MediansSplit, HistogramsComplete, ImpactsTrue DEF ListingsIInv, StatisticsAreTrue
<1> QED BY <1>1, ListingsAlways, PTL

\* Picking a bar of an up-to-date histogram lists the vehicles that the bar counts, but
\* for those whose price is not in the column compared, and none outside the bar.
THEOREM BrushListsKept == Spec => BrushLists
<1>1. ListingsIInv /\ [Next]_vars =>
        [\A i \in DOMAIN chart.bars :
           brush' # brush /\ brush' = BrushOf(chart.metric, chart.bars[i]) /\ UpToDate => BarPicked(i)]_vars
  BY BrushStep
<1> QED BY <1>1, ListingsAlways, PTL DEF Spec, BrushLists, BarPicked

===============================================================================
