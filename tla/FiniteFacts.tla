----------------------------- MODULE FiniteFacts -----------------------------
(***************************************************************************)
(* Induction over numbers and finite sets and recursion over numbers,      *)
(* stated of sets and functions so that they can be cited, and what        *)
(* follows from them for sums over finite sets and for filters.            *)
(***************************************************************************)
EXTENDS Integers, Sequences, FiniteSets, Filters,
        FiniteSetTheorems, SequenceTheorems, WellFoundedInduction, TLAPS

-----------------------------------------------------------------------------
(* Induction *)

\* A set of naturals that has a member has a least one.
LEMMA LeastNatural ==
    ASSUME NEW T \in SUBSET Nat, T # {}
    PROVE  \E x \in T : \A y \in T : x <= y
<1>1. \E x \in T : \A y \in T : ~(<<y, x>> \in OpToRel(<, Nat))
  BY NatLessThanWellFounded, WFMin, Zenon
<1>2. ASSUME NEW x \in T, NEW y \in T, ~(<<y, x>> \in OpToRel(<, Nat)) PROVE x <= y
  <2>1. x \in Nat /\ y \in Nat
    OBVIOUS
  <2>2. ~(y < x)
    BY <1>2, <2>1 DEF OpToRel
  <2>3. QED
    BY <2>1, <2>2
<1>3. QED
  BY <1>1, <1>2

\* A set of naturals closed under successor from 0 is Nat.
LEMMA NaturalInduction ==
    ASSUME NEW I \in SUBSET Nat, 0 \in I, \A n \in I : n + 1 \in I
    PROVE  I = Nat
<1> SUFFICES ASSUME Nat \ I # {} PROVE FALSE
  OBVIOUS
<1>1. PICK x \in Nat \ I : \A y \in Nat \ I : x <= y
  BY LeastNatural
<1>2. x - 1 \in Nat /\ x - 1 \in I
  BY <1>1
<1>3. QED
  BY <1>1, <1>2

\* Among subsets of a finite set one contains no other.
LEMMA LeastSubset ==
    ASSUME NEW S, IsFiniteSet(S), NEW T \in SUBSET (SUBSET S), T # {}
    PROVE  \E x \in T : \A y \in T : y \subseteq x => y = x
<1>1. IsWellFoundedOn(StrictSubsetOrdering(S), SUBSET S)
  BY FS_StrictSubsetOrderingWellFounded, FS_FiniteSubsetsOfFinite, Zenon
<1>2. \E x \in T : \A y \in T : ~(<<y, x>> \in StrictSubsetOrdering(S))
  BY <1>1, WFMin, Zenon
<1>3. QED
  BY <1>2 DEF StrictSubsetOrdering

\* A family that has the empty set and grows by single elements has every subset.
LEMMA SubsetInduction ==
    ASSUME NEW S, IsFiniteSet(S), NEW F \in SUBSET (SUBSET S), {} \in F,
           \A s \in F : \A x \in S \ s : s \cup {x} \in F
    PROVE  F = SUBSET S
<1> SUFFICES ASSUME (SUBSET S) \ F # {} PROVE FALSE
  OBVIOUS
<1> DEFINE N == (SUBSET S) \ F
<1>0. N \in SUBSET (SUBSET S) /\ N # {}
  OBVIOUS
<1>1. PICK s \in N : \A t \in N : t \subseteq s => t = s
  <2> HIDE DEF N
  <2> QED
    BY <1>0, LeastSubset
<1>2. PICK x \in s : TRUE
  BY <1>1
<1>3. s \ {x} \in F
  BY <1>1, <1>2
<1>4. (s \ {x}) \cup {x} = s
  BY <1>2
<1>5. QED
  BY <1>1, <1>2, <1>3, <1>4

\* A finite set of integers that has a member has a least one.
LEMMA LeastInteger ==
    ASSUME NEW S \in SUBSET Int, IsFiniteSet(S), S # {}
    PROVE  \E x \in S : \A y \in S : x <= y
<1> DEFINE F == {s \in SUBSET S : s = {} \/ \E x \in s : \A y \in s : x <= y}
<1>1. {} \in F
  OBVIOUS
<1>2. ASSUME NEW s \in F, NEW z \in S \ s PROVE s \cup {z} \in F
  <2>1. CASE s = {}
    <3>1. s \cup {z} = {z} /\ z <= z
      BY <2>1
    <3>2. QED
      BY <3>1
  <2>2. ASSUME NEW x \in s, \A y \in s : x <= y PROVE s \cup {z} \in F
    <3>1. CASE x <= z
      BY <2>2, <3>1
    <3>2. CASE ~(x <= z)
      <4>1. z <= z /\ \A y \in s : z <= y
        BY <2>2, <3>2
      <4>2. QED
        BY <4>1
    <3>3. QED
      BY <3>1, <3>2
  <2>3. QED
    BY <2>1, <2>2
<1>3. F = SUBSET S
  <2>1. F \in SUBSET (SUBSET S)
    OBVIOUS
  <2> HIDE DEF F
  <2>2. QED
    BY <1>1, <1>2, <2>1, SubsetInduction
<1>4. QED
  BY <1>3

-----------------------------------------------------------------------------
(* Sums *)

\* g maps the subsets of S to the sums of their weights.
IsSum(g, S, w) ==
    /\ g \in [SUBSET S -> Nat]
    /\ g[{}] = 0
    /\ \A s \in SUBSET S : \A x \in s : g[s] = w[x] + g[s \ {x}]

\* What the recursion of MapThenSumSet computes.
Iterates(g, S, w) ==
    g = [s \in SUBSET S |-> IF s = {} THEN 0
            ELSE w[CHOOSE x \in s : TRUE] + g[s \ {CHOOSE x \in s : TRUE}]]

\* g follows the recursion on the subsets of at most n elements.
IteratesTo(g, S, w, n) ==
    \A s \in SUBSET S : Cardinality(s) <= n =>
        g[s] = IF s = {} THEN 0
               ELSE w[CHOOSE x \in s : TRUE] + g[s \ {CHOOSE x \in s : TRUE}]

\* The recursion has a solution.
LEMMA IterationExists ==
    ASSUME NEW S, IsFiniteSet(S), NEW w \in [S -> Nat]
    PROVE  \E g \in [SUBSET S -> Nat] : Iterates(g, S, w)
<1> DEFINE I == {n \in Nat : \E g \in [SUBSET S -> Nat] : IteratesTo(g, S, w, n)}
<1>0. \A s \in SUBSET S : IsFiniteSet(s) /\ Cardinality(s) \in Nat /\ Cardinality(s) <= Cardinality(S)
  BY FS_Subset, FS_CardinalityType
<1>1. 0 \in I
  <2>1. \A s \in SUBSET S : Cardinality(s) <= 0 => s = {}
    BY <1>0, FS_EmptySet
  <2>2. IteratesTo([s \in SUBSET S |-> 0], S, w, 0)
    BY <2>1 DEF IteratesTo
  <2>3. QED
    BY <2>2
<1>2. ASSUME NEW n \in I PROVE n + 1 \in I
  <2>1. PICK g \in [SUBSET S -> Nat] : IteratesTo(g, S, w, n)
    OBVIOUS
  <2> DEFINE x(s) == CHOOSE x \in s : TRUE
  <2> DEFINE h == [s \in SUBSET S |-> IF s = {} THEN 0 ELSE w[x(s)] + g[s \ {x(s)}]]
  <2>2. \A s \in SUBSET S : s # {} => x(s) \in s /\ x(s) \in S /\ s \ {x(s)} \in SUBSET S
    OBVIOUS
  <2>3. h \in [SUBSET S -> Nat]
    BY <2>2
  <2>4. \A s \in SUBSET S : Cardinality(s) <= n => h[s] = g[s]
    BY <2>1, <2>2 DEF IteratesTo
  <2>5. \A s \in SUBSET S : s # {} /\ Cardinality(s) <= n + 1 => Cardinality(s \ {x(s)}) <= n
    <3> SUFFICES ASSUME NEW s \in SUBSET S, s # {}, Cardinality(s) <= n + 1
                 PROVE  Cardinality(s \ {x(s)}) <= n
      OBVIOUS
    <3>1. x(s) \in s /\ IsFiniteSet(s) /\ Cardinality(s) \in Nat
      BY <2>2, <1>0
    <3> HIDE DEF x
    <3>2. Cardinality(s \ {x(s)}) = Cardinality(s) - 1
      BY <3>1, FS_RemoveElement
    <3>3. n \in Nat
      OBVIOUS
    <3>4. QED
      BY <3>1, <3>2, <3>3
  <2>6. IteratesTo(h, S, w, n + 1)
    <3> SUFFICES ASSUME NEW s \in SUBSET S, Cardinality(s) <= n + 1
                 PROVE  h[s] = IF s = {} THEN 0 ELSE w[x(s)] + h[s \ {x(s)}]
      BY DEF IteratesTo
    <3>1. CASE s = {}
      BY <3>1
    <3>2. CASE s # {}
      <4>1. h[s \ {x(s)}] = g[s \ {x(s)}]
        BY <3>2, <2>2, <2>4, <2>5
      <4>2. h[s] = w[x(s)] + g[s \ {x(s)}]
        BY <3>2
      <4>3. QED
        BY <4>1, <4>2, <3>2
    <3>3. QED
      BY <3>1, <3>2
  <2> HIDE DEF h
  <2>7. n + 1 \in Nat
    OBVIOUS
  <2>8. QED
    BY <2>3, <2>6, <2>7
<1>3. I = Nat
  BY <1>1, <1>2, NaturalInduction
<1>4. PICK g \in [SUBSET S -> Nat] : IteratesTo(g, S, w, Cardinality(S))
  BY <1>0, <1>3
<1>5. Iterates(g, S, w)
  BY <1>0, <1>4 DEF Iterates, IteratesTo
<1>6. QED
  BY <1>5

\* Every solution of the recursion has natural values.
LEMMA IterationType ==
    ASSUME NEW S, IsFiniteSet(S), NEW w \in [S -> Nat], NEW g, Iterates(g, S, w)
    PROVE  g \in [SUBSET S -> Nat]
<1> DEFINE c(s) == CHOOSE x \in s : TRUE
           Bad == {s \in SUBSET S : g[s] \notin Nat}
<1>1. g = [s \in SUBSET S |-> g[s]]
  BY DEF Iterates
<1>2. g[{}] = 0
  BY DEF Iterates
<1>3. \A s \in SUBSET S : s # {} => c(s) \in s /\ g[s] = w[c(s)] + g[s \ {c(s)}]
  BY DEF Iterates
<1>4. ASSUME Bad # {} PROVE FALSE
  <2>1. Bad \in SUBSET (SUBSET S)
    OBVIOUS
  <2>2. PICK t \in Bad : \A s \in Bad : s \subseteq t => s = t
    <3> HIDE DEF Bad
    <3> QED
      BY <1>4, <2>1, LeastSubset
  <2>3. t \in SUBSET S /\ t # {}
    BY <1>2
  <2>4. PICK z \in t : g[t] = w[z] + g[t \ {z}]
    BY <2>3, <1>3
  <2>5. t \ {z} \in SUBSET S /\ t \ {z} \subseteq t /\ t \ {z} # t
    BY <2>3
  <2>6. g[t \ {z}] \in Nat
    BY <2>2, <2>5
  <2>7. w[z] \in Nat
    BY <2>3
  <2>8. QED
    BY <2>4, <2>6, <2>7
<1>5. \A s \in SUBSET S : g[s] \in Nat
  BY <1>4
<1> HIDE DEF c, Bad
<1>6. QED
  BY <1>1, <1>5

\* A solution of the recursion does not depend on the order of the elements.
LEMMA IterationIsSum ==
    ASSUME NEW S, IsFiniteSet(S), NEW w \in [S -> Nat], NEW g, Iterates(g, S, w)
    PROVE  IsSum(g, S, w)
<1>0. g \in [SUBSET S -> Nat]
  BY IterationType
<1> DEFINE c(s) == CHOOSE x \in s : TRUE
<1> DEFINE Bad == {t \in SUBSET S : \E x \in t : g[t] # w[x] + g[t \ {x}]}
<1>1. g[{}] = 0
  BY DEF Iterates
<1>2. \A s \in SUBSET S : s # {} => c(s) \in s /\ g[s] = w[c(s)] + g[s \ {c(s)}]
  BY DEF Iterates
<1>3. ASSUME Bad # {} PROVE FALSE
  <2>0. Bad \in SUBSET (SUBSET S)
    OBVIOUS
  <2>1. PICK t \in Bad : \A s \in Bad : s \subseteq t => s = t
    <3> HIDE DEF Bad
    <3> QED
      BY <1>3, <2>0, LeastSubset
  <2>2. t \in SUBSET S
    OBVIOUS
  <2>3. PICK x \in t : g[t] # w[x] + g[t \ {x}]
    OBVIOUS
  <2>4. PICK z \in t : g[t] = w[z] + g[t \ {z}]
    BY <2>2, <2>3, <1>2
  <2>5. x # z
    BY <2>3, <2>4
  <2>6. g[t \ {z}] = w[x] + g[(t \ {z}) \ {x}]
    <3>1. t \ {z} \subseteq t /\ t \ {z} # t /\ x \in t \ {z} /\ t \ {z} \in SUBSET S
      BY <2>2, <2>5
    <3>2. t \ {z} \notin Bad
      BY <3>1, <2>1
    <3>3. QED
      BY <3>1, <3>2
  <2>7. g[t \ {x}] = w[z] + g[(t \ {x}) \ {z}]
    <3>1. t \ {x} \subseteq t /\ t \ {x} # t /\ z \in t \ {x} /\ t \ {x} \in SUBSET S
      BY <2>2, <2>5
    <3>2. t \ {x} \notin Bad
      BY <3>1, <2>1
    <3>3. QED
      BY <3>1, <3>2
  <2>8. (t \ {x}) \ {z} = (t \ {z}) \ {x}
    OBVIOUS
  <2>9. w[x] \in Nat /\ w[z] \in Nat /\ g[(t \ {z}) \ {x}] \in Nat
    BY <1>0, <2>2
  <2>10. w[z] + (w[x] + g[(t \ {z}) \ {x}]) = w[x] + (w[z] + g[(t \ {z}) \ {x}])
    BY <2>9
  <2>11. g[t] = w[x] + g[t \ {x}]
    BY <2>4, <2>6, <2>7, <2>8, <2>10, Zenon
  <2>12. QED
    BY <2>3, <2>11
<1>4. QED
  BY <1>0, <1>1, <1>3 DEF IsSum

\* A part weighs no more than the whole.
LEMMA SumMonotone ==
    ASSUME NEW S, IsFiniteSet(S), NEW w \in [S -> Nat], NEW g, IsSum(g, S, w),
           NEW s \in SUBSET S, NEW t \in SUBSET s
    PROVE  g[t] <= g[s]
<1> DEFINE F == {u \in SUBSET S : g[t] <= g[t \cup u]}
<1>1. {} \in F
  <2>1. t \in SUBSET S /\ t \cup {} = t
    OBVIOUS
  <2>2. g[t] \in Nat
    BY <2>1 DEF IsSum
  <2>3. QED
    BY <2>1, <2>2
<1>2. ASSUME NEW u \in F, NEW x \in S \ u PROVE u \cup {x} \in F
  <2>1. CASE x \in t
    <3>1. t \cup (u \cup {x}) = t \cup u
      BY <2>1
    <3>2. QED
      BY <3>1
  <2>2. CASE x \notin t
    <3> DEFINE v == t \cup (u \cup {x})
    <3>1. v \in SUBSET S /\ x \in v /\ v \ {x} = t \cup u
      BY <2>2
    <3>2. g[v] = w[x] + g[t \cup u]
      BY <3>1 DEF IsSum
    <3>3. t \in SUBSET S /\ t \cup u \in SUBSET S
      OBVIOUS
    <3>4. w[x] \in Nat /\ g[t \cup u] \in Nat /\ g[t] \in Nat
      BY <3>3 DEF IsSum
    <3>5. QED
      BY <3>1, <3>2, <3>4
  <2>3. QED
    BY <2>1, <2>2
<1>3. F = SUBSET S
  <2>1. F \in SUBSET (SUBSET S)
    OBVIOUS
  <2> HIDE DEF F
  <2>2. QED
    BY <1>1, <1>2, <2>1, SubsetInduction
<1>4. t \cup s = s
  OBVIOUS
<1>5. QED
  BY <1>3, <1>4

\* Sums agree where the weights do.
LEMMA SumAgrees ==
    ASSUME NEW S, NEW w, NEW g, IsSum(g, S, w),
           NEW T, NEW v, NEW h, IsSum(h, T, v),
           NEW U, IsFiniteSet(U), U \subseteq S, U \subseteq T, \A x \in U : w[x] = v[x]
    PROVE  g[U] = h[U]
<1> DEFINE F == {u \in SUBSET U : g[u] = h[u]}
<1>1. {} \in F
  BY DEF IsSum
<1>2. ASSUME NEW u \in F, NEW x \in U \ u PROVE u \cup {x} \in F
  <2>1. u \cup {x} \in SUBSET S /\ u \cup {x} \in SUBSET T /\ x \in u \cup {x} /\ (u \cup {x}) \ {x} = u
    OBVIOUS
  <2>2. g[u \cup {x}] = w[x] + g[u]
    BY <2>1 DEF IsSum
  <2>3. h[u \cup {x}] = v[x] + h[u]
    BY <2>1 DEF IsSum
  <2>4. QED
    BY <2>2, <2>3
<1>3. F = SUBSET U
  <2>1. F \in SUBSET (SUBSET U)
    OBVIOUS
  <2> HIDE DEF F
  <2>2. QED
    BY <1>1, <1>2, <2>1, SubsetInduction
<1>4. QED
  BY <1>3

-----------------------------------------------------------------------------
(* Recursion over numbers *)

\* g follows F from v up to n.
Follows(g, v, F, n) == g[0] = v /\ \A m \in 1..n : g[m] = F[m][g[m - 1]]

\* A function can be defined by recursion over 0..N.
LEMMA RecursionExists ==
    ASSUME NEW V, NEW v \in V, NEW N \in Nat, NEW F \in [1..N -> [V -> V]]
    PROVE  \E g \in [0..N -> V] : Follows(g, v, F, N)
<1> DEFINE I == {n \in Nat : n <= N => \E g \in [0..n -> V] : Follows(g, v, F, n)}
<1>1. 0 \in I
  <2> DEFINE g == [m \in 0..0 |-> v]
  <2>1. g \in [0..0 -> V] /\ Follows(g, v, F, 0)
    BY DEF Follows
  <2> HIDE DEF g
  <2>2. QED
    BY <2>1
<1>2. ASSUME NEW n \in I PROVE n + 1 \in I
  <2>1. n \in Nat /\ n + 1 \in Nat
    OBVIOUS
  <2>2. ASSUME n + 1 <= N PROVE \E g \in [0..(n + 1) -> V] : Follows(g, v, F, n + 1)
    <3>1. PICK g \in [0..n -> V] : Follows(g, v, F, n)
      BY <2>1, <2>2
    <3> DEFINE w == F[n + 1][g[n]]
               h == [m \in 0..(n + 1) |-> IF m = n + 1 THEN w ELSE g[m]]
    <3>2. w \in V
      BY <2>1, <2>2
    <3> HIDE DEF w
    <3>3. \A m \in 0..(n + 1) : (IF m = n + 1 THEN w ELSE g[m]) \in V
      BY <2>1, <3>2
    <3>4. h \in [0..(n + 1) -> V]
      BY <3>3
    <3>5. h[n + 1] = w /\ \A m \in 0..n : h[m] = g[m]
      BY <2>1
    <3> HIDE DEF h
    <3>6. h[0] = v
      BY <2>1, <3>1, <3>5 DEF Follows
    <3>7. ASSUME NEW m \in 1..(n + 1) PROVE h[m] = F[m][h[m - 1]]
      <4>1. CASE m = n + 1
        <5>1. m - 1 = n /\ n \in 0..n
          BY <2>1, <4>1
        <5>2. QED
          BY <3>5, <4>1, <5>1 DEF w
      <4>2. CASE m # n + 1
        <5>1. m \in 1..n /\ m \in 0..n /\ m - 1 \in 0..n
          BY <2>1, <4>2
        <5>2. QED
          BY <3>1, <3>5, <5>1 DEF Follows
      <4>3. QED
        BY <4>1, <4>2
    <3>8. QED
      BY <3>4, <3>6, <3>7 DEF Follows
  <2>3. QED
    BY <2>1, <2>2
<1>3. I = Nat
  <2>1. I \in SUBSET Nat
    OBVIOUS
  <2> HIDE DEF I
  <2>2. QED
    BY <1>1, <1>2, <2>1, NaturalInduction
<1>4. QED
  BY <1>3

-----------------------------------------------------------------------------
(* Filters *)

\* g solves the recursion of Filter(s, keep).
SolvesFilter(g, s, keep) ==
    g = [n \in 0..Len(s) |->
            IF n = 0 THEN <<>>
            ELSE IF s[n] \in keep THEN Append(g[n - 1], s[n])
            ELSE g[n - 1]]

\* The recursion has a solution.
LEMMA FilterExists ==
    ASSUME NEW S, NEW s \in Seq(S), NEW keep
    PROVE  \E g : SolvesFilter(g, s, keep)
<1> DEFINE N == Len(s)
           V == Seq(S)
           F == [m \in 1..N |-> [t \in V |-> IF s[m] \in keep THEN Append(t, s[m]) ELSE t]]
<1>1. N \in Nat /\ <<>> \in V
  OBVIOUS
<1>2. F \in [1..N -> [V -> V]]
  <2>1. \A m \in 1..N : \A t \in V : (IF s[m] \in keep THEN Append(t, s[m]) ELSE t) \in V
    BY AppendProperties
  <2> HIDE DEF V, N
  <2>2. QED
    BY <2>1
<1>3. PICK g \in [0..N -> V] : g[0] = <<>> /\ \A m \in 1..N : g[m] = F[m][g[m - 1]]
  <2> DEFINE e == <<>>
  <2>1. e \in V
    BY <1>1
  <2> HIDE DEF V, N, F, e
  <2>2. N \in Nat
    BY <1>1
  <2>3. \E g \in [0..N -> V] : Follows(g, e, F, N)
    BY <1>2, <2>1, <2>2, RecursionExists
  <2>4. QED
    BY <2>3 DEF e, Follows
<1>4. \A m \in 1..N : m - 1 \in 0..N /\ m # 0
  BY <1>1
<1>5. \A m \in 1..N : g[m] = IF s[m] \in keep THEN Append(g[m - 1], s[m]) ELSE g[m - 1]
  <2> HIDE DEF V, N
  <2>1. QED
    BY <1>3, <1>4
<1> HIDE DEF V, N, F
<1>6. \A m \in 0..N : m = 0 \/ m \in 1..N
  BY <1>1
<1>7. g = [m \in 0..N |-> IF m = 0 THEN <<>>
                          ELSE IF s[m] \in keep THEN Append(g[m - 1], s[m])
                          ELSE g[m - 1]]
  BY <1>3, <1>4, <1>5, <1>6
<1>8. QED
  BY <1>7 DEF SolvesFilter, N

\* t lists, in their order, the elements among the first n of s that keep has;
\* h tells where they are in s.
ListsAt(h, t, s, keep, n) ==
    /\ h \in [1..Len(t) -> 1..n]
    /\ \A j \in 1..Len(t) : t[j] = s[h[j]] /\ t[j] \in keep
    /\ \A j, k \in 1..Len(t) : j < k => h[j] < h[k]
    /\ \A i \in 1..n : s[i] \in keep => \E j \in 1..Len(t) : h[j] = i

Lists(t, s, keep, n) == \E h : ListsAt(h, t, s, keep, n)

\* One more element.
LEMMA ListsOneMore ==
    ASSUME NEW S, NEW s \in Seq(S), NEW keep, NEW n \in Nat, n + 1 <= Len(s),
           NEW t \in Seq(S), Lists(t, s, keep, n),
           NEW u, u = IF s[n + 1] \in keep THEN Append(t, s[n + 1]) ELSE t
    PROVE  u \in Seq(S) /\ Lists(u, s, keep, n + 1)
<1>0. PICK h : ListsAt(h, t, s, keep, n)
  BY DEF Lists
<1>1. /\ h \in [1..Len(t) -> 1..n]
      /\ \A j \in 1..Len(t) : t[j] = s[h[j]] /\ t[j] \in keep
      /\ \A j, k \in 1..Len(t) : j < k => h[j] < h[k]
      /\ \A i \in 1..n : s[i] \in keep => \E j \in 1..Len(t) : h[j] = i
  BY <1>0 DEF ListsAt
<1> DEFINE l == Len(t)
           x == s[n + 1]
           g == [j \in 1..(l + 1) |-> IF j = l + 1 THEN n + 1 ELSE h[j]]
<1>2. l \in Nat /\ x \in S
  OBVIOUS
<1>a. \A i \in 1..(n + 1) : i \in 1..n \/ i = n + 1
  OBVIOUS
<1>3. CASE x \notin keep
  <2>1. u = t
    BY <1>3
  <2>2. h \in [1..Len(t) -> 1..(n + 1)]
    BY <1>1
  <2>3. ListsAt(h, t, s, keep, n + 1)
    BY <1>1, <1>3, <1>a, <2>2 DEF ListsAt
  <2>4. QED
    BY <2>1, <2>3 DEF Lists
<1>4. CASE x \in keep
  <2>1. /\ u \in Seq(S) /\ Len(u) = l + 1
        /\ \A j \in 1..l : u[j] = t[j]
        /\ u[l + 1] = x
    BY <1>2, <1>4, AppendProperties
  <2> HIDE DEF x, l
  <2>2. \A j \in 1..(l + 1) : j \in 1..l \/ j = l + 1
    BY <1>2
  <2>3. /\ g \in [1..(l + 1) -> 1..(n + 1)]
        /\ \A j \in 1..l : g[j] = h[j] /\ g[j] \in 1..n
        /\ g[l + 1] = n + 1
    <3>1. \A j \in 1..l : h[j] \in 1..n
      BY <1>1 DEF l
    <3>2. \A j \in 1..(l + 1) : (IF j = l + 1 THEN n + 1 ELSE h[j]) \in 1..(n + 1)
      BY <2>2, <3>1
    <3>3. g \in [1..(l + 1) -> 1..(n + 1)]
      BY <3>2
    <3>4. \A j \in 1..l : j \in 1..(l + 1) /\ j # l + 1
      BY <1>2
    <3>5. l + 1 \in 1..(l + 1)
      BY <1>2
    <3>6. QED
      BY <3>1, <3>3, <3>4, <3>5
  <2> HIDE DEF g
  <2>4. \A j \in 1..(l + 1) : u[j] = s[g[j]] /\ u[j] \in keep
    BY <1>1, <1>4, <2>1, <2>2, <2>3 DEF x, l
  <2>5. ASSUME NEW j \in 1..(l + 1), NEW k \in 1..(l + 1), j < k PROVE g[j] < g[k]
    <3>1. j \in 1..l
      BY <1>2, <2>5
    <3>2. CASE k = l + 1
      BY <2>3, <3>1, <3>2
    <3>3. CASE k \in 1..l
      BY <1>1, <2>3, <2>5, <3>1, <3>3 DEF l
    <3>4. QED
      BY <2>2, <3>2, <3>3
  <2>6. \A i \in 1..(n + 1) : s[i] \in keep => \E j \in 1..(l + 1) : g[j] = i
    <3>1. l + 1 \in 1..(l + 1) /\ \A j \in 1..l : j \in 1..(l + 1)
      BY <1>2
    <3>2. QED
      BY <1>1, <1>a, <2>3, <3>1 DEF l
  <2>7. Lists(u, s, keep, n + 1)
    <3>1. ListsAt(g, u, s, keep, n + 1)
      BY <2>1, <2>3, <2>4, <2>5, <2>6 DEF ListsAt
    <3>2. QED
      BY <3>1 DEF Lists
  <2>8. QED
    BY <2>1, <2>7
<1>5. QED
  BY <1>3, <1>4

\* What Filter returns.
LEMMA FilterLists ==
    ASSUME NEW S, NEW s \in Seq(S), NEW keep
    PROVE  Filter(s, keep) \in Seq(S) /\ Lists(Filter(s, keep), s, keep, Len(s))
<1> DEFINE N == Len(s)
           g == CHOOSE f : SolvesFilter(f, s, keep)
           I == {n \in Nat : n <= N => g[n] \in Seq(S) /\ Lists(g[n], s, keep, n)}
<1>0. N \in Nat
  OBVIOUS
<1>1. SolvesFilter(g, s, keep)
  BY FilterExists
<1>2. Filter(s, keep) = g[N]
  BY DEF Filter, SolvesFilter
<1> HIDE DEF g
<1>3. \A n \in 0..N : g[n] = IF n = 0 THEN <<>>
                             ELSE IF s[n] \in keep THEN Append(g[n - 1], s[n])
                             ELSE g[n - 1]
  BY <1>1 DEF SolvesFilter
<1>4. 0 \in I
  <2>1. g[0] = <<>>
    BY <1>0, <1>3
  <2>2. <<>> \in Seq(S) /\ Len(<<>>) = 0
    OBVIOUS
  <2> DEFINE e == [j \in 1..0 |-> 0]
  <2>3. e \in [1..0 -> 1..0]
    OBVIOUS
  <2> HIDE DEF e
  <2>4. Lists(<<>>, s, keep, 0)
    <3>1. ListsAt(e, <<>>, s, keep, 0)
      <4>1. \A j \in 1..0 : FALSE
        OBVIOUS
      <4>2. QED
        BY <2>2, <2>3, <4>1 DEF ListsAt
    <3>2. QED
      BY <3>1 DEF Lists
  <2>5. QED
    BY <2>1, <2>2, <2>4
<1>5. ASSUME NEW n \in I PROVE n + 1 \in I
  <2>1. n \in Nat /\ n + 1 \in Nat
    OBVIOUS
  <2>2. ASSUME n + 1 <= N PROVE g[n + 1] \in Seq(S) /\ Lists(g[n + 1], s, keep, n + 1)
    <3>1. g[n] \in Seq(S) /\ Lists(g[n], s, keep, n)
      BY <1>0, <2>1, <2>2
    <3>2. n + 1 \in 0..N /\ n + 1 # 0 /\ (n + 1) - 1 = n
      BY <1>0, <2>1, <2>2
    <3>3. g[n + 1] = IF s[n + 1] \in keep THEN Append(g[n], s[n + 1]) ELSE g[n]
      BY <1>3, <3>2
    <3>4. QED
      BY <2>1, <2>2, <3>1, <3>3, ListsOneMore
  <2> HIDE DEF N
  <2>3. QED
    BY <2>1, <2>2
<1>6. I = Nat
  <2>1. I \in SUBSET Nat
    OBVIOUS
  <2> HIDE DEF I
  <2>2. QED
    BY <1>4, <1>5, <2>1, NaturalInduction
<1>7. g[N] \in Seq(S) /\ Lists(g[N], s, keep, N)
  BY <1>0, <1>6
<1>8. QED
  BY <1>2, <1>7

\* The elements of a sequence that repeats none are as many as it is long.
LEMMA DistinctElements ==
    ASSUME NEW E, NEW n \in Nat, NEW f \in [1..n -> E],
           \A i, j \in 1..n : f[i] = f[j] => i = j,
           \A x \in E : \E i \in 1..n : f[i] = x
    PROVE  IsFiniteSet(E) /\ Cardinality(E) = n
<1>1. IsFiniteSet(1..n) /\ Cardinality(1..n) = n
  <2>1. Cardinality(1..n) = IF 1 > n THEN 0 ELSE n - 1 + 1
    BY FS_Interval
  <2>2. IsFiniteSet(1..n)
    BY FS_Interval
  <2>3. QED
    BY <2>1, <2>2
<1>2. f \in Bijection(1..n, E)
  BY DEF Bijection, Injection, Surjection, IsInjective
<1>3. ExistsBijection(1..n, E)
  BY <1>2 DEF ExistsBijection
<1>4. QED
  BY <1>1, <1>3, FS_Bijection

-----------------------------------------------------------------------------
(* What is in a sequence, and in which order *)

Has(s, x) == \E k \in 1..Len(s) : s[k] = x
Ahead(s, x, y) == \E k, l \in 1..Len(s) : k < l /\ s[k] = x /\ s[l] = y

\* A filter keeps some of the elements, in their order.
LEMMA FilterKeeps ==
    ASSUME NEW S, NEW s \in Seq(S), NEW keep
    PROVE  /\ Filter(s, keep) \in Seq(S) /\ Len(Filter(s, keep)) <= Len(s)
           /\ \A x : Has(Filter(s, keep), x) <=> Has(s, x) /\ x \in keep
           /\ \A x, y : Ahead(Filter(s, keep), x, y) => Ahead(s, x, y)
<1> DEFINE f == Filter(s, keep)
           n == Len(s)
           m == Len(f)
<1>1. n \in Nat
  OBVIOUS
<1>2. f \in Seq(S) /\ Lists(f, s, keep, n)
  BY FilterLists
<1> HIDE DEF f
<1>3. m \in Nat
  BY <1>2
<1>4. PICK h : ListsAt(h, f, s, keep, n)
  BY <1>2 DEF Lists
<1>5. /\ h \in [1..m -> 1..n]
      /\ \A j \in 1..m : f[j] = s[h[j]] /\ f[j] \in keep
      /\ \A j, k \in 1..m : j < k => h[j] < h[k]
      /\ \A i \in 1..n : s[i] \in keep => \E j \in 1..m : h[j] = i
  BY <1>4 DEF ListsAt
<1> HIDE DEF n, m
<1>6. ASSUME NEW j \in 1..m, NEW k \in 1..m, h[j] = h[k] PROVE j = k
  <2>1. j \in Nat /\ k \in Nat /\ h[j] \in Nat /\ h[k] \in Nat
    BY <1>5
  <2>2. ~(j < k) /\ ~(k < j)
    BY <1>5, <1>6, <2>1
  <2>3. QED
    BY <2>1, <2>2
<1>7. m <= n
  <2>1. h \in Injection(1..m, 1..n)
    BY <1>5, <1>6 DEF Injection, IsInjective
  <2>2. IsFiniteSet(1..n)
    BY <1>1, FS_Interval
  <2>3. IsFiniteSet(1..m) /\ Cardinality(1..m) <= Cardinality(1..n)
    BY <2>1, <2>2, FS_Injection
  <2>4. Cardinality(1..m) = m /\ Cardinality(1..n) = n
    <3>1. Cardinality(1..m) = IF 1 > m THEN 0 ELSE m - 1 + 1
      BY <1>3, FS_Interval
    <3>2. Cardinality(1..n) = IF 1 > n THEN 0 ELSE n - 1 + 1
      BY <1>1, FS_Interval
    <3>3. QED
      BY <1>1, <1>3, <3>1, <3>2
  <2>5. QED
    BY <2>3, <2>4
<1>8. ASSUME NEW x, Has(f, x) PROVE Has(s, x) /\ x \in keep
  <2>1. PICK j \in 1..m : f[j] = x
    BY <1>8 DEF Has, m
  <2>2. QED
    BY <1>5, <2>1 DEF Has, n
<1>9. ASSUME NEW x, Has(s, x), x \in keep PROVE Has(f, x)
  <2>1. PICK k \in 1..n : s[k] = x
    BY <1>9 DEF Has, n
  <2>2. PICK j \in 1..m : h[j] = k
    BY <1>5, <1>9, <2>1
  <2>3. f[j] = x
    BY <1>5, <2>1, <2>2
  <2>4. QED
    BY <2>3 DEF Has, m
<1>10. ASSUME NEW x, NEW y, Ahead(f, x, y) PROVE Ahead(s, x, y)
  <2>1. PICK j \in 1..m, k \in 1..m : j < k /\ f[j] = x /\ f[k] = y
    BY <1>10 DEF Ahead, m
  <2>2. h[j] \in 1..n /\ h[k] \in 1..n /\ h[j] < h[k] /\ s[h[j]] = x /\ s[h[k]] = y
    BY <1>5, <2>1
  <2>3. QED
    BY <2>2 DEF Ahead, n
<1>11. QED
  BY <1>2, <1>7, <1>8, <1>9, <1>10 DEF f, m, n

\* One more element is behind all others.
LEMMA AppendKeeps ==
    ASSUME NEW S, NEW s \in Seq(S), NEW e \in S
    PROVE  /\ Append(s, e) \in Seq(S) /\ Len(Append(s, e)) = Len(s) + 1
           /\ Append(s, e)[Len(s) + 1] = e
           /\ \A k \in 1..Len(s) : Append(s, e)[k] = s[k]
           /\ \A x : Has(Append(s, e), x) <=> Has(s, x) \/ x = e
           /\ \A x, y : Ahead(Append(s, e), x, y) => Ahead(s, x, y) \/ (Has(s, x) /\ y = e)
<1> DEFINE p == Append(s, e)
           n == Len(s)
<1>1. n \in Nat
  OBVIOUS
<1>2. p \in Seq(S) /\ Len(p) = n + 1 /\ p[n + 1] = e /\ \A k \in 1..n : p[k] = s[k]
  BY AppendProperties
<1>3. \A k \in 1..n : Has(s, s[k])
  BY DEF Has
<1> HIDE DEF p, n
<1>4. (\A k \in 1..(n + 1) : k \in 1..n \/ k = n + 1) /\ n + 1 \in 1..(n + 1)
      /\ \A k \in 1..n : k \in 1..(n + 1)
  BY <1>1
<1>5. ASSUME NEW x, Has(p, x) PROVE Has(s, x) \/ x = e
  <2>1. PICK k \in 1..(n + 1) : p[k] = x
    BY <1>2, <1>5 DEF Has
  <2>2. QED
    BY <1>2, <1>3, <1>4, <2>1
<1>6. ASSUME NEW x, Has(s, x) PROVE Has(p, x)
  <2>1. PICK k \in 1..n : s[k] = x
    BY <1>6 DEF Has, n
  <2>2. k \in 1..(n + 1) /\ p[k] = x
    BY <1>2, <1>4, <2>1
  <2>3. QED
    BY <1>2, <2>2 DEF Has
<1>7. Has(p, e)
  BY <1>2, <1>4 DEF Has
<1>8. ASSUME NEW x, NEW y, Ahead(p, x, y) PROVE Ahead(s, x, y) \/ (Has(s, x) /\ y = e)
  <2>1. PICK j \in 1..(n + 1), k \in 1..(n + 1) : j < k /\ p[j] = x /\ p[k] = y
    BY <1>2, <1>8 DEF Ahead
  <2>2. j \in 1..n
    BY <1>1, <2>1
  <2>3. CASE k = n + 1
    BY <1>2, <1>3, <2>1, <2>2, <2>3
  <2>4. CASE k \in 1..n
    <3>1. s[j] = x /\ s[k] = y
      BY <1>2, <2>1, <2>2, <2>4
    <3>2. QED
      BY <2>1, <2>2, <2>4, <3>1 DEF Ahead, n
  <2>5. QED
    BY <1>4, <2>3, <2>4
<1>9. QED
  BY <1>2, <1>5, <1>6, <1>7, <1>8 DEF p, n

\* Without its first element.
LEMMA DropFirst ==
    ASSUME NEW S, NEW s \in Seq(S), s # <<>>
    PROVE  /\ SubSeq(s, 2, Len(s)) \in Seq(S) /\ Len(SubSeq(s, 2, Len(s))) = Len(s) - 1
           /\ \A x : Has(SubSeq(s, 2, Len(s)), x) => Has(s, x) /\ Ahead(s, s[1], x)
           /\ \A x : Has(s, x) /\ x # s[1] => Has(SubSeq(s, 2, Len(s)), x)
           /\ \A x, y : Ahead(SubSeq(s, 2, Len(s)), x, y) => Ahead(s, x, y)
<1> DEFINE t == SubSeq(s, 2, Len(s))
           n == Len(s)
<1>1. n \in Nat /\ n >= 1
  OBVIOUS
<1>2. t \in Seq(S) /\ Len(t) = n - 1 /\ \A i \in 1..(n - 1) : t[i] = s[i + 1]
  <2>1. 2 \in Int /\ n \in Int /\ \A i \in 2..n : s[i] \in S
    BY <1>1
  <2>2. /\ t \in Seq(S)
        /\ Len(t) = IF 2 <= n THEN n - 2 + 1 ELSE 0
        /\ \A i \in 1..(n - 2 + 1) : t[i] = s[2 + i - 1]
    BY <1>1, <2>1, SubSeqProperties
  <2> HIDE DEF t, n
  <2>3. Len(t) = n - 1 /\ n - 2 + 1 = n - 1
    BY <1>1, <2>2
  <2>4. \A i \in 1..(n - 1) : 2 + i - 1 = i + 1
    BY <1>1
  <2>5. QED
    BY <2>2, <2>3, <2>4
<1> HIDE DEF t, n
<1>3. \A i \in 1..(n - 1) : i + 1 \in 1..n /\ 1 < i + 1
  BY <1>1
<1>4. \A k \in 1..n : k = 1 \/ (k - 1 \in 1..(n - 1) /\ (k - 1) + 1 = k)
  BY <1>1
<1>5. 1 \in 1..n
  BY <1>1
<1>6. ASSUME NEW x, Has(t, x) PROVE Has(s, x) /\ Ahead(s, s[1], x)
  <2>1. PICK i \in 1..(n - 1) : t[i] = x
    BY <1>2, <1>6 DEF Has
  <2>2. i + 1 \in 1..n /\ 1 < i + 1 /\ s[i + 1] = x
    BY <1>2, <1>3, <2>1
  <2>3. QED
    BY <1>5, <2>2 DEF Has, Ahead, n
<1>7. ASSUME NEW x, Has(s, x), x # s[1] PROVE Has(t, x)
  <2>1. PICK k \in 1..n : s[k] = x
    BY <1>7 DEF Has, n
  <2>2. k - 1 \in 1..(n - 1) /\ (k - 1) + 1 = k
    BY <1>4, <1>7, <2>1
  <2>3. t[k - 1] = x
    BY <1>2, <2>1, <2>2
  <2>4. QED
    BY <1>2, <2>2, <2>3 DEF Has
<1>8. ASSUME NEW x, NEW y, Ahead(t, x, y) PROVE Ahead(s, x, y)
  <2>1. PICK j \in 1..(n - 1), k \in 1..(n - 1) : j < k /\ t[j] = x /\ t[k] = y
    BY <1>2, <1>8 DEF Ahead
  <2>2. j + 1 \in 1..n /\ k + 1 \in 1..n /\ s[j + 1] = x /\ s[k + 1] = y
    BY <1>2, <1>3, <2>1
  <2>3. j + 1 < k + 1
    BY <1>1, <2>1
  <2>4. QED
    BY <2>2, <2>3 DEF Ahead, n
<1>9. QED
  BY <1>2, <1>6, <1>7, <1>8 DEF t, n
=============================================================================
