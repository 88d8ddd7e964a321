---------------------------- MODULE SupplyProofs ----------------------------
(***************************************************************************)
(* Tokens are neither created nor destroyed, for every set of transactions *)
(* that is ever submitted, and the ledger implements Coins.  With it, the  *)
(* parser without context takes every transaction that the ledger accepts. *)
(*                                                                         *)
(* The sums of the specifications are folds over sets and recursive        *)
(* functions over sequences.  What they compute is proved here from the    *)
(* well-foundedness of < : a counterexample of least size does not exist.  *)
(***************************************************************************)
EXTENDS LedgerCoins, TxParse, TxBuilder, LedgerProofs, FiniteSetTheorems

-----------------------------------------------------------------------------
(***************************************************************************)
(* Sums over finite sets.  MapThenSumSet is a recursive function g over    *)
(* the subsets of S, which takes one element of a set after the other.     *)
(***************************************************************************)
Pick(s) == CHOOSE x \in s : TRUE

AddsUp(g, w, D) ==
    g = [s \in D |-> IF s = {} THEN 0 ELSE w[Pick(s)] + g[s \ {Pick(s)}]]

TakesAnyOrder(g, w, S) ==
    \A s \in SUBSET S : g[s] \in Int /\ \A x \in s : g[s] = w[x] + g[s \ {x}]

Members(e, n) == {e[k] : k \in 1 .. n}

\* f are the running totals of the weights of n different elements.
Accumulates(f, w, e, n) ==
    /\ \A k, l \in 1 .. n : e[k] = e[l] => k = l
    /\ \A k \in 1 .. n : w[e[k]] \in Int
    /\ f[0] = 0
    /\ \A k \in 1 .. n : f[k] = f[k - 1] + w[e[k]]

SumOver(w, S) == MapThenSumSet(LAMBDA x : w[x], S)

\* CHOOSE finds an element of a nonempty set.
LEMMA PickIn == \A s : s # {} => Pick(s) \in s
  BY DEF Pick

\* The recursive function exists: it is built up by the size of the subsets.
LEMMA SumExists ==
    ASSUME NEW S, IsFiniteSet(S), NEW w
    PROVE  \E g : AddsUp(g, w, SUBSET S)
  <1> DEFINE Small(n) == {s \in SUBSET S : Cardinality(s) <= n}
             Bad == {n \in Nat : ~ \E g : AddsUp(g, w, Small(n))}
  <1>1. \A s \in SUBSET S : IsFiniteSet(s) /\ Cardinality(s) \in Nat
    BY FS_Subset, FS_CardinalityType
  <1>2. Bad = {}
    <2> SUFFICES ASSUME Bad # {} PROVE FALSE
      OBVIOUS
    <2>1. Bad \subseteq Nat
      OBVIOUS
    <2>2. PICK n \in Bad : \A m \in Bad : ~ (m < n)
      BY <2>1, LeastNumber
    <2>3. n \in Nat /\ ~ \E g : AddsUp(g, w, Small(n))
      BY <2>2
    <2>4. CASE n = 0
      <3>1. \A s \in Small(0) : s = {}
        BY <1>1, FS_EmptySet
      <3> DEFINE g == [s \in Small(0) |-> 0]
      <3>2. AddsUp(g, w, Small(0))
        BY <3>1 DEF AddsUp
      <3> QED
        BY <2>3, <2>4, <3>2
    <2>5. CASE n # 0
      <3>1. n - 1 \in Nat /\ n - 1 < n
        BY <2>3, <2>5
      <3>2. PICK g : AddsUp(g, w, Small(n - 1))
        BY <2>2, <3>1
      <3> DEFINE h == [s \in Small(n) |-> IF s = {} THEN 0 ELSE w[Pick(s)] + g[s \ {Pick(s)}]]
      <3>3. ASSUME NEW s \in Small(n), s # {}
            PROVE  h[s \ {Pick(s)}] = g[s \ {Pick(s)}]
        <4> DEFINE t == s \ {Pick(s)}
        <4>1. Pick(s) \in s
          BY <3>3, PickIn
        <4>2. t \in SUBSET S /\ Cardinality(t) = Cardinality(s) - 1
          BY <1>1, <3>3, <4>1, FS_RemoveElement
        <4>3. t \in Small(n - 1) /\ t \in Small(n)
          BY <1>1, <2>3, <3>1, <3>3, <4>2
        <4>4. h[t] = IF t = {} THEN 0 ELSE w[Pick(t)] + g[t \ {Pick(t)}]
          BY <4>3
        <4>5. g[t] = IF t = {} THEN 0 ELSE w[Pick(t)] + g[t \ {Pick(t)}]
          BY <3>2, <4>3 DEF AddsUp
        <4> QED
          BY <4>4, <4>5
      <3>4. AddsUp(h, w, Small(n))
        BY <3>3 DEF AddsUp
      <3> QED
        BY <2>3, <3>4
    <2> QED
      BY <2>4, <2>5
  <1>3. Cardinality(S) \in Nat /\ Small(Cardinality(S)) = SUBSET S
    BY FS_Subset, FS_CardinalityType
  <1> QED
    BY <1>2, <1>3

\* g and h are sums, over S and over a set T around it, of the same summands.
SumSame(g, w, S, h, v, T) ==
    /\ IsFiniteSet(S) /\ S \subseteq T
    /\ AddsUp(g, w, SUBSET S) /\ AddsUp(h, v, SUBSET T)
    /\ \A x \in S : w[x] = v[x]

\* A recursive sum depends only on the summands.
LEMMA SumUnique ==
    ASSUME NEW S, NEW T, NEW w, NEW v, NEW g, NEW h, SumSame(g, w, S, h, v, T)
    PROVE  \A s \in SUBSET S : g[s] = h[s]
  <1> USE DEF SumSame
  <1> DEFINE Bad == {n \in Nat : \E s \in SUBSET S : Cardinality(s) = n /\ g[s] # h[s]}
  <1>1. \A s \in SUBSET S : IsFiniteSet(s) /\ Cardinality(s) \in Nat
    BY FS_Subset, FS_CardinalityType
  <1>2. Bad = {}
    <2> SUFFICES ASSUME Bad # {} PROVE FALSE
      OBVIOUS
    <2>1. Bad \subseteq Nat
      OBVIOUS
    <2>2. PICK n \in Bad : \A m \in Bad : ~ (m < n)
      BY <2>1, LeastNumber
    <2>3. PICK s \in SUBSET S : Cardinality(s) = n /\ g[s] # h[s]
      BY <2>2
    <2>4. g[s] = IF s = {} THEN 0 ELSE w[Pick(s)] + g[s \ {Pick(s)}]
      BY DEF AddsUp
    <2>5. h[s] = IF s = {} THEN 0 ELSE v[Pick(s)] + h[s \ {Pick(s)}]
      BY DEF AddsUp
    <2>6. s # {} /\ Pick(s) \in s
      BY <2>3, <2>4, <2>5, PickIn
    <2> DEFINE t == s \ {Pick(s)}
    <2>7. t \in SUBSET S /\ Cardinality(t) \in Nat /\ Cardinality(t) < n
      <3>1. t \in SUBSET S /\ IsFiniteSet(s) /\ n \in Nat
        BY <1>1, <2>3
      <3>2. Cardinality(t) = Cardinality(s) - 1
        BY <2>6, <3>1, FS_RemoveElement
      <3> QED
        BY <1>1, <2>3, <3>1, <3>2
    <2>8. g[t] = h[t]
      BY <2>2, <2>7
    <2> QED
      BY <2>3, <2>4, <2>5, <2>6, <2>8
  <1> QED
    BY <1>1, <1>2

\* The order in which elements are taken does not matter.
LEMMA SumAnyOrder ==
    ASSUME NEW S, IsFiniteSet(S), NEW w, \A x \in S : w[x] \in Int,
           NEW g, AddsUp(g, w, SUBSET S)
    PROVE  TakesAnyOrder(g, w, S)
  <1> DEFINE Right(s) == g[s] \in Int /\ \A x \in s : g[s] = w[x] + g[s \ {x}]
             Bad == {n \in Nat : \E s \in SUBSET S : Cardinality(s) = n /\ ~ Right(s)}
  <1>1. \A s \in SUBSET S : IsFiniteSet(s) /\ Cardinality(s) \in Nat
    BY FS_Subset, FS_CardinalityType
  <1>2. Bad = {}
    <2> SUFFICES ASSUME Bad # {} PROVE FALSE
      OBVIOUS
    <2>1. Bad \subseteq Nat
      OBVIOUS
    <2>2. PICK n \in Bad : \A m \in Bad : ~ (m < n)
      BY <2>1, LeastNumber
    <2>3. PICK s \in SUBSET S : Cardinality(s) = n /\ ~ Right(s)
      BY <2>2
    <2>4. \A t \in SUBSET S : Cardinality(t) < n => Right(t)
      BY <1>1, <2>2
    <2>5. g[s] = IF s = {} THEN 0 ELSE w[Pick(s)] + g[s \ {Pick(s)}]
      BY DEF AddsUp
    <2>6. s # {} /\ Pick(s) \in s
      BY <2>3, <2>5, PickIn
    <2>7. \A x \in s : s \ {x} \in SUBSET S /\ Cardinality(s \ {x}) < n
      BY <1>1, <2>3, FS_RemoveElement
    <2>8. \A x \in s : g[s \ {x}] \in Int
      BY <2>4, <2>7
    <2>9. g[s] \in Int
      BY <2>5, <2>6, <2>8
    <2>10. ASSUME NEW x \in s
           PROVE  g[s] = w[x] + g[s \ {x}]
      <3> DEFINE p == Pick(s)
      <3>1. CASE x = p
        BY <2>5, <2>6, <3>1
      <3>2. CASE x # p
        <4>1. x \in s \ {p} /\ p \in s \ {x} /\ x \in s /\ p \in s
          BY <2>6, <2>10, <3>2
        <4> HIDE DEF p
        <4>2. Right(s \ {p}) /\ Right(s \ {x})
          BY <2>4, <2>7, <4>1
        <4>3. (s \ {p}) \ {x} = (s \ {x}) \ {p}
          OBVIOUS
        <4>4. g[s \ {p}] = w[x] + g[(s \ {x}) \ {p}]
          BY <4>1, <4>2, <4>3
        <4>5. g[s \ {x}] = w[p] + g[(s \ {x}) \ {p}]
          BY <4>1, <4>2
        <4>6. g[s] = w[p] + g[s \ {p}]
          BY <2>5, <2>6 DEF p
        <4>7. (s \ {x}) \ {p} \in SUBSET S /\ w[x] \in Int /\ w[p] \in Int
          BY <4>1
        <4>8. Cardinality((s \ {x}) \ {p}) < n
          <5>1. Cardinality((s \ {x}) \ {p}) = Cardinality(s \ {x}) - 1
            BY <1>1, <2>7, <4>1, FS_RemoveElement
          <5> QED
            BY <1>1, <2>3, <2>7, <4>1, <4>7, <5>1
        <4>9. g[(s \ {x}) \ {p}] \in Int
          BY <2>4, <4>7, <4>8
        <4>10. \A a, b, c \in Int : a + (b + c) = b + (a + c)
          OBVIOUS
        <4>11. w[p] + (w[x] + g[(s \ {x}) \ {p}]) = w[x] + (w[p] + g[(s \ {x}) \ {p}])
          BY <4>7, <4>9, <4>10
        <4> QED
          BY <4>4, <4>5, <4>6, <4>11
      <3> QED
        BY <3>1, <3>2
    <2> QED
      BY <2>3, <2>9, <2>10
  <1> QED
    BY <1>1, <1>2 DEF TakesAnyOrder

\* What MapThenSumSet is for a function of weights.
LEMMA SumIsRecursive ==
    ASSUME NEW S, IsFiniteSet(S), NEW w
    PROVE  \E g : AddsUp(g, w, SUBSET S) /\ SumOver(w, S) = g[S]
  <1>1. PICK f : AddsUp(f, w, SUBSET S)
    BY SumExists
  <1>2. f = [s \in SUBSET S |-> IF s = {} THEN 0
                          ELSE w[CHOOSE x \in s : TRUE] + f[s \ {CHOOSE x \in s : TRUE}]]
    BY <1>1 DEF AddsUp, Pick
  <1>3. \E h : /\ h = [s \in SUBSET S |-> IF s = {} THEN 0
                          ELSE w[CHOOSE x \in s : TRUE] + h[s \ {CHOOSE x \in s : TRUE}]]
               /\ MapThenSumSet(LAMBDA x : w[x], S) = h[S]
    BY <1>2 DEF MapThenSumSet, MapThenFoldSet
  <1> QED
    BY <1>3 DEF AddsUp, Pick, SumOver

\* Any other function with the same recursion gives the same sum.
LEMMA SumValue ==
    ASSUME NEW S, IsFiniteSet(S), NEW w, NEW h, AddsUp(h, w, SUBSET S)
    PROVE  SumOver(w, S) = h[S]
  <1>1. PICK g : AddsUp(g, w, SUBSET S) /\ SumOver(w, S) = g[S]
    BY SumIsRecursive
  <1>2. SumSame(h, w, S, g, w, S)
    BY <1>1 DEF SumSame
  <1> QED
    BY <1>1, <1>2, SumUnique

(***************************************************************************)
(* Laws of SumOver.                                                          *)
(***************************************************************************)

\* The empty sum, and the type of a sum.
LEMMA SumTyped ==
    ASSUME NEW S, IsFiniteSet(S), NEW w, \A x \in S : w[x] \in Int
    PROVE  SumOver(w, S) \in Int /\ (S = {} => SumOver(w, S) = 0)
  <1>1. PICK g : AddsUp(g, w, SUBSET S) /\ SumOver(w, S) = g[S]
    BY SumIsRecursive
  <1>2. S = {} => g[S] = 0
    BY <1>1 DEF AddsUp
  <1>3. \A s \in SUBSET S : g[s] \in Int
    BY <1>1, SumAnyOrder DEF TakesAnyOrder
  <1> QED
    BY <1>1, <1>2, <1>3

\* Equal summands have equal sums.
LEMMA SumCongruent ==
    ASSUME NEW S, IsFiniteSet(S), NEW w, NEW v, \A x \in S : w[x] = v[x]
    PROVE  SumOver(w, S) = SumOver(v, S)
  <1>1. PICK g : AddsUp(g, w, SUBSET S) /\ SumOver(w, S) = g[S]
    BY SumIsRecursive
  <1>2. PICK h : AddsUp(h, v, SUBSET S) /\ SumOver(v, S) = h[S]
    BY SumIsRecursive
  <1>3. SumSame(g, w, S, h, v, S)
    BY <1>1, <1>2 DEF SumSame
  <1> QED
    BY <1>1, <1>2, <1>3, SumUnique

\* One recursive function gives the sums over all the subsets of a set.
LEMMA SumWithin ==
    ASSUME NEW T, IsFiniteSet(T), NEW w, \A x \in T : w[x] \in Int
    PROVE  \E h : TakesAnyOrder(h, w, T) /\ \A S \in SUBSET T : SumOver(w, S) = h[S]
  <1>1. PICK h : AddsUp(h, w, SUBSET T)
    BY SumExists
  <1>2. ASSUME NEW S \in SUBSET T
        PROVE  SumOver(w, S) = h[S]
    <2>1. IsFiniteSet(S) /\ S \subseteq T
      BY FS_Subset
    <2>2. PICK g : AddsUp(g, w, SUBSET S) /\ SumOver(w, S) = g[S]
      BY <2>1, SumIsRecursive
    <2>3. SumSame(g, w, S, h, w, T)
      BY <1>1, <2>1, <2>2 DEF SumSame
    <2>4. \A s \in SUBSET S : g[s] = h[s]
      BY <2>3, SumUnique
    <2> QED
      BY <2>2, <2>4
  <1>3. TakesAnyOrder(h, w, T)
    BY <1>1, SumAnyOrder
  <1> QED
    BY <1>2, <1>3

\* One element more.
LEMMA SumInsert ==
    ASSUME NEW S, IsFiniteSet(S), NEW y, y \notin S, NEW T, \A x : x \in T <=> x \in S \/ x = y,
           NEW w, \A x \in T : w[x] \in Int
    PROVE  SumOver(w, T) = SumOver(w, S) + w[y]
  <1>1. T = S \cup {y} /\ T \ {y} = S
    OBVIOUS
  <1>2. IsFiniteSet(T)
    BY <1>1, FS_AddElement
  <1>3. PICK h : TakesAnyOrder(h, w, T) /\ \A s \in SUBSET T : SumOver(w, s) = h[s]
    BY <1>2, SumWithin
  <1>4. T \in SUBSET T /\ y \in T /\ S \in SUBSET T /\ w[y] \in Int
    OBVIOUS
  <1>5. h[T] = w[y] + h[T \ {y}] /\ h[S] \in Int
    BY <1>3, <1>4 DEF TakesAnyOrder
  <1>6. SumOver(w, T) = h[T] /\ SumOver(w, S) = h[S]
    BY <1>3, <1>4
  <1>7. h[T] = w[y] + h[S]
    BY <1>1, <1>5
  <1> QED
    BY <1>4, <1>5, <1>6, <1>7

\* The sum over the members of an injective enumeration, step by step.
LEMMA SumEnumerated ==
    ASSUME NEW n \in Nat, NEW e, NEW w, NEW f, Accumulates(f, w, e, n)
    PROVE  IsFiniteSet(Members(e, n)) /\ SumOver(w, Members(e, n)) = f[n]
  <1> USE DEF Accumulates
  <1> DEFINE First(m) == {e[k] : k \in 1 .. m}
             Bad == {m \in 0 .. n : ~ (IsFiniteSet(First(m)) /\ SumOver(w, First(m)) = f[m])}
  <1>1. Bad = {}
    <2> SUFFICES ASSUME Bad # {} PROVE FALSE
      OBVIOUS
    <2>1. Bad \subseteq Nat
      OBVIOUS
    <2>2. PICK m \in Bad : \A l \in Bad : ~ (l < m)
      BY <2>1, LeastNumber
    <2>3. m \in 0 .. n /\ ~ (IsFiniteSet(First(m)) /\ SumOver(w, First(m)) = f[m])
      BY <2>2
    <2>4. m # 0
      <3>1. First(0) = {}
        OBVIOUS
      <3>2. IsFiniteSet(First(0)) /\ SumOver(w, First(0)) = 0
        BY <3>1, FS_EmptySet, SumTyped
      <3> QED
        BY <2>3, <3>2
    <2>5. m \in 1 .. n /\ m - 1 \in 0 .. n /\ m - 1 < m
      BY <2>3, <2>4
    <2>6. IsFiniteSet(First(m - 1)) /\ SumOver(w, First(m - 1)) = f[m - 1]
      BY <2>2, <2>5
    <2>7. First(m) = First(m - 1) \cup {e[m]}
      BY <2>5
    <2>8. e[m] \notin First(m - 1)
      BY <2>5
    <2>9. \A x \in First(m) : w[x] \in Int
      BY <2>5
    <2> HIDE DEF First
    <2>10. IsFiniteSet(First(m))
      BY <2>6, <2>7, FS_AddElement
    <2>11. SumOver(w, First(m)) = SumOver(w, First(m - 1)) + w[e[m]]
      BY <2>6, <2>7, <2>8, <2>9, SumInsert
    <2>12. SumOver(w, First(m)) = f[m]
      BY <2>5, <2>6, <2>11
    <2> QED
      BY <2>3, <2>10, <2>12
  <1>2. n \in 0 .. n /\ Members(e, n) = First(n)
    BY DEF Members
  <1> QED
    BY <1>1, <1>2

\* The sum over two disjoint sets.
LEMMA SumUnion ==
    ASSUME NEW S, IsFiniteSet(S), NEW T, IsFiniteSet(T), S \cap T = {},
           NEW w, \A x \in S \cup T : w[x] \in Int
    PROVE  SumOver(w, S \cup T) = SumOver(w, S) + SumOver(w, T)
  <1> DEFINE Right(t) == SumOver(w, S \cup t) = SumOver(w, S) + SumOver(w, t)
             Bad == {n \in Nat : \E t \in SUBSET T : Cardinality(t) = n /\ ~ Right(t)}
  <1>1. \A t \in SUBSET T : IsFiniteSet(t) /\ Cardinality(t) \in Nat
    BY FS_Subset, FS_CardinalityType
  <1>2. SumOver(w, S) \in Int
    BY SumTyped
  <1>3. Bad = {}
    <2> SUFFICES ASSUME Bad # {} PROVE FALSE
      OBVIOUS
    <2>1. Bad \subseteq Nat
      OBVIOUS
    <2>2. PICK n \in Bad : \A m \in Bad : ~ (m < n)
      BY <2>1, LeastNumber
    <2>3. PICK t \in SUBSET T : Cardinality(t) = n /\ ~ Right(t)
      BY <2>2
    <2>4. t # {}
      <3>1. SumOver(w, {}) = 0 /\ S \cup {} = S
        BY FS_EmptySet, SumTyped
      <3> QED
        BY <1>2, <2>3, <3>1
    <2>5. PICK y \in t : TRUE
      BY <2>4
    <2> DEFINE u == t \ {y}
    <2>6. u \in SUBSET T /\ IsFiniteSet(u) /\ Cardinality(u) \in Nat
      BY <1>1
    <2>7. Cardinality(u) < n
      <3>1. IsFiniteSet(t) /\ Cardinality(t) \in Nat
        BY <1>1
      <3>2. Cardinality(u) = Cardinality(t) - 1
        BY <2>5, <3>1, FS_RemoveElement
      <3> QED
        BY <2>3, <3>1, <3>2
    <2>8. Right(u)
      BY <2>2, <2>6, <2>7
    <2>9. t = u \cup {y} /\ S \cup t = (S \cup u) \cup {y} /\ y \notin u /\ y \notin S \cup u
      BY <2>5
    <2>10. w[y] \in Int /\ \A x \in S \cup u : w[x] \in Int
      BY <2>5, <2>6
    <2> HIDE DEF u
    <2>11. SumOver(w, t) = SumOver(w, u) + w[y]
      BY <2>6, <2>9, <2>10, SumInsert
    <2>12. SumOver(w, S \cup t) = SumOver(w, S \cup u) + w[y]
      <3>1. PICK A : A = S \cup u
        OBVIOUS
      <3>2. PICK B : B = S \cup t
        OBVIOUS
      <3>3. IsFiniteSet(A) /\ y \notin A /\ \A x : x \in B <=> x \in A \/ x = y
        BY <2>6, <2>9, <3>1, <3>2, FS_Union
      <3>4. \A x \in B : w[x] \in Int
        BY <3>2
      <3>5. SumOver(w, B) = SumOver(w, A) + w[y]
        BY <3>3, <3>4, SumInsert
      <3> QED
        BY <3>1, <3>2, <3>5
    <2>13. SumOver(w, u) \in Int
      BY <2>6, <2>10, SumTyped
    <2> QED
      BY <1>2, <2>3, <2>8, <2>10, <2>11, <2>12, <2>13
  <1> QED
    BY <1>1, <1>3

\* What is taken away from a set is missing in its sum.
LEMMA SumRemove ==
    ASSUME NEW S, IsFiniteSet(S), NEW T, T \subseteq S, NEW w, \A x \in S : w[x] \in Int
    PROVE  SumOver(w, S \ T) = SumOver(w, S) - SumOver(w, T)
  <1>1. IsFiniteSet(T) /\ IsFiniteSet(S \ T)
    BY FS_Subset
  <1>2. (S \ T) \cup T = S /\ (S \ T) \cap T = {}
    OBVIOUS
  <1>3. SumOver(w, S) = SumOver(w, S \ T) + SumOver(w, T)
    BY <1>1, <1>2, SumUnion
  <1>4. SumOver(w, T) \in Int /\ SumOver(w, S \ T) \in Int
    BY <1>1, SumTyped
  <1> QED
    BY <1>3, <1>4

\* Sums of natural numbers are natural, and grow with the set.
LEMMA SumNatural ==
    ASSUME NEW S, IsFiniteSet(S), NEW w, \A x \in S : w[x] \in Nat
    PROVE  SumOver(w, S) \in Nat
  <1>1. PICK h : TakesAnyOrder(h, w, S) /\ \A T \in SUBSET S : SumOver(w, T) = h[T]
    BY SumWithin
  <1>2. \A s \in SUBSET S : h[s] \in Int /\ \A x \in s : h[s] = w[x] + h[s \ {x}]
    BY <1>1 DEF TakesAnyOrder
  <1>3. h[{}] = 0
    <2>1. SumOver(w, {}) = 0
      BY FS_EmptySet, SumTyped
    <2> QED
      BY <1>1, <2>1
  <1> DEFINE Bad == {n \in Nat : \E s \in SUBSET S : Cardinality(s) = n /\ ~ (h[s] >= 0)}
  <1>4. Bad = {}
    <2> SUFFICES ASSUME Bad # {} PROVE FALSE
      OBVIOUS
    <2>1. Bad \subseteq Nat
      OBVIOUS
    <2>2. PICK n \in Bad : \A m \in Bad : ~ (m < n)
      BY <2>1, LeastNumber
    <2>3. PICK s \in SUBSET S : Cardinality(s) = n /\ ~ (h[s] >= 0)
      BY <2>2
    <2>4. PICK x \in s : TRUE
      BY <1>3, <2>3
    <2>5. s \ {x} \in SUBSET S /\ Cardinality(s \ {x}) \in Nat /\ Cardinality(s \ {x}) < n
      <3>1. IsFiniteSet(s) /\ n \in Nat
        BY <2>2, FS_Subset
      <3>2. IsFiniteSet(s \ {x}) /\ Cardinality(s \ {x}) = Cardinality(s) - 1
        BY <2>4, <3>1, FS_RemoveElement
      <3>3. Cardinality(s \ {x}) \in Nat
        BY <3>2, FS_CardinalityType
      <3> QED
        BY <2>3, <3>1, <3>2, <3>3
    <2>6. h[s \ {x}] >= 0
      BY <2>2, <2>5
    <2>7. h[s] = w[x] + h[s \ {x}] /\ h[s \ {x}] \in Int /\ w[x] \in Nat
      BY <1>2, <2>4, <2>5
    <2> HIDE DEF Bad
    <2> QED
      BY <2>3, <2>6, <2>7
  <1>5. IsFiniteSet(S) /\ Cardinality(S) \in Nat
    BY FS_CardinalityType
  <1>6. h[S] >= 0 /\ h[S] \in Int
    BY <1>2, <1>4, <1>5
  <1> QED
    BY <1>1, <1>6

LEMMA SumMonotone ==
    ASSUME NEW S, IsFiniteSet(S), NEW w, \A x \in S : w[x] \in Nat, NEW T, T \subseteq S
    PROVE  SumOver(w, T) <= SumOver(w, S)
  <1>1. IsFiniteSet(T) /\ IsFiniteSet(S \ T)
    BY FS_Subset
  <1>2. SumOver(w, S \ T) = SumOver(w, S) - SumOver(w, T)
    BY SumRemove
  <1>3. SumOver(w, T) \in Nat /\ SumOver(w, S) \in Nat
    BY <1>1, SumNatural
  <1>4. SumOver(w, S \ T) \in Nat
    <2>1. PICK R : R = S \ T
      OBVIOUS
    <2>2. SumOver(w, R) \in Nat
      BY <1>1, <2>1, SumNatural
    <2> QED
      BY <2>1, <2>2
  <1> QED
    BY <1>2, <1>3, <1>4

\* Elements are exchanged for new ones that are worth as much.
LEMMA SumExchange ==
    ASSUME NEW S, IsFiniteSet(S), NEW Old, Old \subseteq S,
           NEW New, IsFiniteSet(New), New \cap S = {},
           NEW w, \A x \in S : w[x] \in Int,
           NEW v, \A x \in S \ Old : v[x] = w[x], \A x \in New : v[x] \in Int,
           SumOver(w, Old) = SumOver(v, New)
    PROVE  /\ IsFiniteSet((S \ Old) \cup New)
           /\ SumOver(v, (S \ Old) \cup New) = SumOver(w, S)
  <1>1. PICK Kept : Kept = S \ Old
    OBVIOUS
  <1>2. /\ IsFiniteSet(Kept) /\ Kept \cap New = {} /\ \A x \in Kept : v[x] = w[x]
        /\ \A x \in Kept \cup New : v[x] \in Int
    BY <1>1, FS_Subset
  <1>3. SumOver(w, Kept) = SumOver(w, S) - SumOver(w, Old)
    BY <1>1, SumRemove
  <1>4. SumOver(v, Kept) = SumOver(w, Kept)
    BY <1>2, SumCongruent
  <1>5. SumOver(v, Kept \cup New) = SumOver(v, Kept) + SumOver(v, New)
    BY <1>2, SumUnion
  <1>6. SumOver(v, New) \in Int /\ SumOver(w, S) \in Int
    BY SumTyped
  <1>7. SumOver(v, Kept \cup New) = (SumOver(w, S) - SumOver(v, New)) + SumOver(v, New)
    BY <1>3, <1>4, <1>5
  <1>8. \A a, b \in Int : (a - b) + b = a
    OBVIOUS
  <1>9. SumOver(v, Kept \cup New) = SumOver(w, S)
    BY <1>6, <1>7, <1>8
  <1>10. IsFiniteSet(Kept \cup New)
    BY <1>2, FS_Union
  <1> QED
    BY <1>1, <1>9, <1>10

-----------------------------------------------------------------------------
(***************************************************************************)
(* Sums over sequences: the uint64 total that Validate computes.           *)
(***************************************************************************)
RunsUp(g, a, m, n) == g = [i \in 0 .. n |-> IF i = 0 THEN 0 ELSE (g[i - 1] + a[i]) % m]

\* The recursive function exists: it is built up by its length.
LEMMA RunningTotalExists ==
    ASSUME NEW n \in Nat, NEW a, NEW m
    PROVE  \E g : RunsUp(g, a, m, n)
  <1> DEFINE Bad == {k \in Nat : ~ \E g : RunsUp(g, a, m, k)}
  <1>1. Bad = {}
    <2> SUFFICES ASSUME Bad # {} PROVE FALSE
      OBVIOUS
    <2>1. Bad \subseteq Nat
      OBVIOUS
    <2>2. PICK k \in Bad : \A l \in Bad : ~ (l < k)
      BY <2>1, LeastNumber
    <2>3. k \in Nat /\ ~ \E g : RunsUp(g, a, m, k)
      BY <2>2
    <2>4. CASE k = 0
      <3> DEFINE g == [i \in 0 .. 0 |-> 0]
      <3>1. RunsUp(g, a, m, 0)
        BY DEF RunsUp
      <3> QED
        BY <2>3, <2>4, <3>1
    <2>5. CASE k # 0
      <3>1. k - 1 \in Nat /\ k - 1 < k
        BY <2>3, <2>5
      <3>2. PICK g : RunsUp(g, a, m, k - 1)
        BY <2>2, <3>1
      <3> DEFINE h == [i \in 0 .. k |-> IF i = 0 THEN 0 ELSE (g[i - 1] + a[i]) % m]
      <3>3. ASSUME NEW i \in 0 .. k, i # 0
            PROVE  h[i - 1] = g[i - 1]
        <4>1. i - 1 \in 0 .. k - 1 /\ i - 1 \in 0 .. k
          BY <2>3, <3>3
        <4>2. h[i - 1] = IF i - 1 = 0 THEN 0 ELSE (g[(i - 1) - 1] + a[i - 1]) % m
          BY <4>1
        <4>3. g[i - 1] = IF i - 1 = 0 THEN 0 ELSE (g[(i - 1) - 1] + a[i - 1]) % m
          BY <3>2, <4>1 DEF RunsUp
        <4> QED
          BY <4>2, <4>3
      <3>4. RunsUp(h, a, m, k)
        BY <3>3 DEF RunsUp
      <3> QED
        BY <2>3, <3>4
    <2> QED
      BY <2>4, <2>5
  <1> QED
    BY <1>1

\* PartialSums is that function.
LEMMA PartialSumsRecursion ==
    ASSUME NEW outs, Len(outs) \in Nat
    PROVE  /\ PartialSums(outs)[0] = 0
           /\ \A i \in 1 .. Len(outs) :
                  PartialSums(outs)[i] =
                      (PartialSums(outs)[i - 1] + AmountOf(outs[i])) % (MaxUint64 + 1)
  <1> DEFINE a == [i \in 0 .. Len(outs) |-> AmountOf(outs[i])]
  <1>1. PICK g : RunsUp(g, a, MaxUint64 + 1, Len(outs))
    BY RunningTotalExists
  <1>2. g = [i \in 0 .. Len(outs) |->
                IF i = 0 THEN 0 ELSE (g[i - 1] + AmountOf(outs[i])) % (MaxUint64 + 1)]
    BY <1>1 DEF RunsUp
  <1>3. PartialSums(outs) =
            [i \in 0 .. Len(outs) |->
                IF i = 0 THEN 0
                ELSE (PartialSums(outs)[i - 1] + AmountOf(outs[i])) % (MaxUint64 + 1)]
    BY <1>2 DEF PartialSums
  <1> QED
    BY <1>3

\* Without overflow the total is the sum of the amounts.
LEMMA PartialSumsExact ==
    ASSUME NEW outs, Len(outs) \in Nat, NoOverflow(outs),
           \A i \in 1 .. Len(outs) : AmountOf(outs[i]) \in Amount
    PROVE  /\ PartialSums(outs)[0] = 0
           /\ \A i \in 0 .. Len(outs) : PartialSums(outs)[i] \in Amount
           /\ \A i \in 1 .. Len(outs) :
                  PartialSums(outs)[i] = PartialSums(outs)[i - 1] + AmountOf(outs[i])
  <1> DEFINE ps == PartialSums(outs)
             Bad == {i \in 0 .. Len(outs) : ps[i] \notin Amount}
  <1>1. /\ ps[0] = 0
        /\ \A i \in 1 .. Len(outs) : ps[i] = (ps[i - 1] + AmountOf(outs[i])) % (MaxUint64 + 1)
    BY PartialSumsRecursion
  <1>2. \A i \in 1 .. Len(outs) : AmountOf(outs[i]) <= MaxUint64 - ps[i - 1]
    BY DEF NoOverflow
  <1> HIDE DEF ps
  <1>3. ASSUME NEW i \in 1 .. Len(outs), ps[i - 1] \in Amount
        PROVE  ps[i] = ps[i - 1] + AmountOf(outs[i]) /\ ps[i] \in Amount
    <2>1. AmountOf(outs[i]) \in Amount /\ AmountOf(outs[i]) <= MaxUint64 - ps[i - 1]
      BY <1>2
    <2>2. ps[i] = (ps[i - 1] + AmountOf(outs[i])) % (MaxUint64 + 1)
      BY <1>1
    <2>3. ps[i - 1] + AmountOf(outs[i]) \in Amount
      BY <1>3, <2>1, MaxUint64Assumption DEF Amount
    <2>4. \A z, m \in Nat : z < m => z % m = z
      OBVIOUS
    <2>5. \A z \in Amount : z \in Nat /\ MaxUint64 + 1 \in Nat /\ z < MaxUint64 + 1
      BY MaxUint64Assumption DEF Amount
    <2> QED
      BY <2>2, <2>3, <2>4, <2>5
  <1>4. Bad = {}
    <2> SUFFICES ASSUME Bad # {} PROVE FALSE
      OBVIOUS
    <2>1. Bad \subseteq Nat
      OBVIOUS
    <2>2. PICK i \in Bad : \A l \in Bad : ~ (l < i)
      BY <2>1, LeastNumber
    <2>3. i # 0
      BY <1>1, <2>2, MaxUint64Assumption DEF Amount
    <2>4. i \in 1 .. Len(outs) /\ i - 1 \in 0 .. Len(outs) /\ i - 1 < i
      BY <2>2, <2>3
    <2> QED
      BY <1>3, <2>2, <2>4
  <1>5. \A i \in 1 .. Len(outs) : i - 1 \in 0 .. Len(outs)
    OBVIOUS
  <1>6. /\ ps[0] = 0
        /\ \A i \in 0 .. Len(outs) : ps[i] \in Amount
        /\ \A i \in 1 .. Len(outs) : ps[i] = ps[i - 1] + AmountOf(outs[i])
    BY <1>1, <1>3, <1>4, <1>5
  <1> QED
    BY <1>6 DEF ps

\* The amount of an output that parses is a uint64, and not zero.
LEMMA AmountTyped ==
    ASSUME NEW out \in Output, OutputParses(out)
    PROVE  AmountOf(out) \in Amount /\ AmountOf(out) > 0
  <1>1. out \in Seq(Block) /\ Len(out) \in Nat /\ Len(out) > 2
    BY DEF Output, Array, OutputParses, Has, ConstraintIndexLock
  <1>2. out[1] \in Block /\ out[1].type = "amount"
    BY <1>1 DEF OutputParses, IsAmount, At, ConstraintIndexAmount
  <1>3. out[1].value \in Amount
    BY <1>2 DEF Block, BasicBlock
  <1>4. AmountOf(out) = out[1].value
    BY DEF AmountOf, At, ConstraintIndexAmount
  <1>5. AmountOf(out) >= Len(out)
    BY DEF OutputParses, MinimumStorageDeposit, OutputSize
  <1> QED
    BY <1>1, <1>3, <1>4, <1>5 DEF Amount

-----------------------------------------------------------------------------
(***************************************************************************)
(* One transaction on one version of the state.  Nothing here depends on   *)
(* the variables, so that it holds in every branch of the store.           *)
(***************************************************************************)
AmountsIn(state) == [oid \in DOMAIN state |-> AmountOf(state[oid])]

\* A version of finitely many outputs that holds the whole supply.
Balanced(state) ==
    /\ IsFiniteSet(DOMAIN state)
    /\ \A oid \in DOMAIN state : AmountOf(state[oid]) \in Amount
    /\ SumOver(AmountsIn(state), DOMAIN state) = Supply

\* tx consumes outputs of a version and is valid; next is the version after it.
Executes(state, tx, id, consumed, next) ==
    /\ tx \in Transaction /\ Inputs(tx) \subseteq DOMAIN state
    /\ \A oid \in DOMAIN state : state[oid] \in Output
    /\ \A k, l \in 1 .. Len(tx.inputs) : tx.inputs[k] = tx.inputs[l] => k = l
    /\ consumed \in Seq(Output) /\ Len(consumed) = Len(tx.inputs)
    /\ \A k \in 1 .. Len(tx.inputs) : consumed[k] = state[tx.inputs[k]]
    /\ Validate(Context(tx, consumed))
    /\ DOMAIN next = (DOMAIN state \ Inputs(tx)) \cup OutputIDsOf(tx, id)
    /\ \A oid \in OutputIDsOf(tx, id) : next[oid] = At(tx.outputs, oid.idx)
    /\ \A oid \in DOMAIN state \ Inputs(tx) :
           oid \notin OutputIDsOf(tx, id) => next[oid] = state[oid]

\* The sum that the invariants state is the sum of AmountsIn.
LEMMA SumOfAmounts ==
    ASSUME NEW state, NEW S, IsFiniteSet(S), S \subseteq DOMAIN state
    PROVE  MapThenSumSet(LAMBDA oid : AmountOf(state[oid]), S) = SumOver(AmountsIn(state), S)
  <1> DEFINE w == AmountsIn(state)
  <1>1. PICK f : AddsUp(f, w, SUBSET S) /\ SumOver(w, S) = f[S]
    BY SumIsRecursive
  <1>2. \A s \in SUBSET S : s # {} => w[Pick(s)] = AmountOf(state[Pick(s)])
    BY PickIn DEF AmountsIn
  <1>3. f = [s \in SUBSET S |-> IF s = {} THEN 0
                                ELSE w[Pick(s)] + f[s \ {Pick(s)}]]
    BY <1>1 DEF AddsUp
  <1> HIDE DEF w
  <1>4. f = [s \in SUBSET S |-> IF s = {} THEN 0
                                ELSE AmountOf(state[Pick(s)]) + f[s \ {Pick(s)}]]
    BY <1>2, <1>3
  <1>5. f = [s \in SUBSET S |-> IF s = {} THEN 0
                          ELSE AmountOf(state[CHOOSE x \in s : TRUE])
                                   + f[s \ {CHOOSE x \in s : TRUE}]]
    BY <1>4 DEF Pick
  <1>6. \E h : /\ h = [s \in SUBSET S |-> IF s = {} THEN 0
                          ELSE AmountOf(state[CHOOSE x \in s : TRUE])
                                   + h[s \ {CHOOSE x \in s : TRUE}]]
               /\ MapThenSumSet(LAMBDA oid : AmountOf(state[oid]), S) = h[S]
    BY <1>5 DEF MapThenSumSet, MapThenFoldSet
  <1>7. PICK h : /\ h = [s \in SUBSET S |-> IF s = {} THEN 0
                                ELSE AmountOf(state[Pick(s)]) + h[s \ {Pick(s)}]]
                 /\ MapThenSumSet(LAMBDA oid : AmountOf(state[oid]), S) = h[S]
    BY <1>6 DEF Pick
  <1>8. AddsUp(h, w, SUBSET S)
    BY <1>2, <1>7 DEF AddsUp
  <1>9. SumOver(w, S) = h[S]
    BY <1>8, SumValue
  <1> QED
    BY <1>7, <1>9 DEF w

\* What Validate says about the amounts of both sides, and about the locks of
\* what is consumed.
LEMMA ValidAmounts ==
    ASSUME NEW tx \in Transaction, NEW consumed \in Seq(Output), Validate(Context(tx, consumed))
    PROVE  /\ NoOverflow(consumed) /\ NoOverflow(tx.outputs)
           /\ \A k \in 1 .. Len(consumed) :
                  /\ AmountOf(consumed[k]) \in Amount /\ AmountOf(consumed[k]) > 0
                  /\ IsLock(LockOf(consumed[k]))
           /\ \A k \in 1 .. Len(tx.outputs) : AmountOf(tx.outputs[k]) \in Amount
           /\ OutputSum(consumed) = OutputSum(tx.outputs)
  <1> DEFINE ctx == Context(tx, consumed)
  <1>1. ctx.consumed = consumed /\ ctx.tx.outputs = tx.outputs
    BY DEF Context
  <1>2. Outputs(ctx, "consumed") = consumed /\ Outputs(ctx, "produced") = tx.outputs
    BY <1>1 DEF Outputs
  <1> HIDE DEF ctx
  <1>3. /\ ValidateOutputs(ctx, "consumed") /\ ValidateOutputs(ctx, "produced")
        /\ OutputSum(consumed) = OutputSum(tx.outputs)
    BY <1>1 DEF Validate, ctx
  <1>4. ASSUME NEW outs \in Seq(Output), NEW side,
               outs = Outputs(ctx, side), ValidateOutputs(ctx, side)
        PROVE  /\ NoOverflow(outs)
               /\ \A k \in 1 .. Len(outs) :
                      /\ AmountOf(outs[k]) \in Amount /\ AmountOf(outs[k]) > 0
                      /\ IsLock(LockOf(outs[k]))
    <2>1. /\ \A i \in 0 .. Len(outs) - 1 : OutputParses(At(outs, i))
          /\ NoOverflow(outs)
      BY <1>4 DEF ValidateOutputs
    <2>2. ASSUME NEW k \in 1 .. Len(outs)
          PROVE  OutputParses(outs[k]) /\ outs[k] \in Output
      <3>1. k - 1 \in 0 .. Len(outs) - 1 /\ (k - 1) + 1 = k
        OBVIOUS
      <3>2. At(outs, k - 1) = outs[k]
        BY <3>1 DEF At
      <3>3. OutputParses(At(outs, k - 1))
        BY <2>1, <3>1
      <3> QED
        BY <3>2, <3>3
    <2> QED
      BY <2>1, <2>2, AmountTyped DEF OutputParses
  <1>5. tx.outputs \in Seq(Output)
    BY TransactionShape
  <1>6. /\ NoOverflow(consumed)
        /\ \A k \in 1 .. Len(consumed) :
               /\ AmountOf(consumed[k]) \in Amount /\ AmountOf(consumed[k]) > 0
               /\ IsLock(LockOf(consumed[k]))
    BY <1>2, <1>3, <1>4
  <1>7. NoOverflow(tx.outputs) /\ \A k \in 1 .. Len(tx.outputs) : AmountOf(tx.outputs[k]) \in Amount
    BY <1>2, <1>3, <1>4, <1>5
  <1> QED
    BY <1>3, <1>6, <1>7

\* The total of a sequence of outputs is their sum as a set, however the
\* outputs are identified.
LEMMA TotalIsSum ==
    ASSUME NEW outs, Len(outs) \in Nat, NoOverflow(outs),
           \A k \in 1 .. Len(outs) : AmountOf(outs[k]) \in Amount,
           NEW e, \A k, l \in 1 .. Len(outs) : e[k] = e[l] => k = l,
           NEW w, \A k \in 1 .. Len(outs) : w[e[k]] = AmountOf(outs[k])
    PROVE  /\ IsFiniteSet(Members(e, Len(outs)))
           /\ SumOver(w, Members(e, Len(outs))) = OutputSum(outs)
  <1>0. PICK f : f = PartialSums(outs)
    OBVIOUS
  <1>1. /\ f[0] = 0
        /\ \A i \in 1 .. Len(outs) : f[i] = f[i - 1] + AmountOf(outs[i])
    BY <1>0, PartialSumsExact
  <1>2. \A k \in 1 .. Len(outs) : f[k] = f[k - 1] + w[e[k]]
    BY <1>1
  <1>3. \A k \in 1 .. Len(outs) : w[e[k]] \in Int
    BY DEF Amount
  <1>4. PICK n \in Nat : n = Len(outs)
    OBVIOUS
  <1>5. Accumulates(f, w, e, n)
    BY <1>1, <1>2, <1>3, <1>4 DEF Accumulates
  <1>6. IsFiniteSet(Members(e, n)) /\ SumOver(w, Members(e, n)) = f[n]
    BY <1>5, SumEnumerated
  <1> QED
    BY <1>0, <1>4, <1>6 DEF OutputSum

\* A side that produces nothing has the total 0, the other one has more.
LEMMA TotalPositive ==
    ASSUME NEW outs, Len(outs) \in Nat, NoOverflow(outs),
           \A k \in 1 .. Len(outs) : AmountOf(outs[k]) \in Amount
    PROVE  /\ Len(outs) = 0 => OutputSum(outs) = 0
           /\ Len(outs) > 0 /\ AmountOf(outs[Len(outs)]) > 0 => OutputSum(outs) > 0
  <1>0. PICK f : f = PartialSums(outs)
    OBVIOUS
  <1>1. /\ f[0] = 0
        /\ \A i \in 0 .. Len(outs) : f[i] \in Amount
        /\ \A i \in 1 .. Len(outs) : f[i] = f[i - 1] + AmountOf(outs[i])
    BY <1>0, PartialSumsExact
  <1>2. OutputSum(outs) = f[Len(outs)]
    BY <1>0 DEF OutputSum
  <1>3. ASSUME Len(outs) > 0, AmountOf(outs[Len(outs)]) > 0
        PROVE  f[Len(outs)] > 0
    <2>1. Len(outs) \in 1 .. Len(outs) /\ Len(outs) - 1 \in 0 .. Len(outs)
      BY <1>3
    <2> QED
      BY <1>1, <1>3, <2>1 DEF Amount
  <1> QED
    BY <1>1, <1>2, <1>3

\* The produced outputs are worth what the consumed ones were, and there are
\* some.
LEMMA SidesBalance ==
    ASSUME NEW state, NEW tx \in Transaction, Inputs(tx) \subseteq DOMAIN state,
           \A oid \in DOMAIN state : state[oid] \in Output,
           \A k, l \in 1 .. Len(tx.inputs) : tx.inputs[k] = tx.inputs[l] => k = l,
           NEW consumed \in Seq(Output), Len(consumed) = Len(tx.inputs),
           \A k \in 1 .. Len(tx.inputs) : consumed[k] = state[tx.inputs[k]],
           Validate(Context(tx, consumed)),
           NEW id, NEW w,
           \A oid \in Inputs(tx) : w[oid] = AmountOf(state[oid]),
           NEW v,
           \A k \in 1 .. Len(tx.outputs) : v[NewOutputID(id, k - 1)] = AmountOf(tx.outputs[k])
    PROVE  /\ IsFiniteSet(Inputs(tx)) /\ IsFiniteSet(OutputIDsOf(tx, id))
           /\ SumOver(w, Inputs(tx)) = SumOver(v, OutputIDsOf(tx, id))
           /\ OutputIDsOf(tx, id) # {}
           /\ \A k \in 1 .. Len(tx.outputs) : AmountOf(tx.outputs[k]) \in Amount
  <1>1. /\ tx.inputs \in Seq(OutputID) /\ Len(tx.inputs) \in Nat /\ Len(tx.inputs) > 0
        /\ tx.outputs \in Seq(Output) /\ Len(tx.outputs) \in Nat
    BY TransactionShape
  <1>2. \A k \in 1 .. Len(tx.inputs) : tx.inputs[k] \in Inputs(tx)
    BY DEF Inputs
  <1>3. Len(consumed) \in Nat
    BY <1>1
  <1>4. \A k \in 1 .. Len(consumed) : consumed[k] = state[tx.inputs[k]]
    OBVIOUS
  <1>5. /\ NoOverflow(consumed) /\ NoOverflow(tx.outputs)
        /\ \A k \in 1 .. Len(consumed) :
               AmountOf(consumed[k]) \in Amount /\ AmountOf(consumed[k]) > 0
        /\ \A k \in 1 .. Len(tx.outputs) : AmountOf(tx.outputs[k]) \in Amount
        /\ OutputSum(consumed) = OutputSum(tx.outputs)
    BY ValidAmounts
  <1>6. IsFiniteSet(Inputs(tx)) /\ SumOver(w, Inputs(tx)) = OutputSum(consumed)
    <2>1. \A k \in 1 .. Len(consumed) : w[tx.inputs[k]] = AmountOf(consumed[k])
      BY <1>2, <1>3, <1>4
    <2>2. PICK e : e = tx.inputs
      OBVIOUS
    <2>3. /\ \A k, l \in 1 .. Len(consumed) : e[k] = e[l] => k = l
          /\ \A k \in 1 .. Len(consumed) : w[e[k]] = AmountOf(consumed[k])
          /\ \A k \in 1 .. Len(consumed) : AmountOf(consumed[k]) \in Amount
          /\ NoOverflow(consumed) /\ Len(consumed) \in Nat
      BY <1>1, <1>3, <1>5, <2>1, <2>2
    <2>4. /\ IsFiniteSet(Members(e, Len(consumed)))
          /\ SumOver(w, Members(e, Len(consumed))) = OutputSum(consumed)
      BY <2>3, TotalIsSum
    <2>5. Members(e, Len(consumed)) = Inputs(tx)
      BY <1>3, <2>2 DEF Members, Inputs
    <2> QED
      BY <2>4, <2>5
  <1>7. IsFiniteSet(OutputIDsOf(tx, id)) /\ SumOver(v, OutputIDsOf(tx, id)) = OutputSum(tx.outputs)
    <2>1. PICK outs : outs = tx.outputs
      OBVIOUS
    <2>2. PICK e : e = [k \in 1 .. Len(outs) |-> NewOutputID(id, k - 1)]
      OBVIOUS
    <2>3. \A k \in 1 .. Len(outs) : e[k] = NewOutputID(id, k - 1)
      BY <2>2
    <2>4. ASSUME NEW k \in 1 .. Len(outs), NEW l \in 1 .. Len(outs), e[k] = e[l]
          PROVE  k = l
      <3>1. NewOutputID(id, k - 1) = NewOutputID(id, l - 1)
        BY <2>3, <2>4
      <3>2. k \in Int /\ l \in Int
        BY <1>1, <2>1
      <3>3. NewOutputID(id, k - 1).idx = k - 1 /\ NewOutputID(id, l - 1).idx = l - 1
        BY DEF NewOutputID
      <3>4. k - 1 = l - 1
        BY <3>1, <3>3
      <3> QED
        BY <3>2, <3>4
    <2>5. /\ \A k \in 1 .. Len(outs) : v[e[k]] = AmountOf(outs[k])
          /\ \A k \in 1 .. Len(outs) : AmountOf(outs[k]) \in Amount
          /\ NoOverflow(outs) /\ Len(outs) \in Nat
      BY <1>1, <1>5, <2>1, <2>3
    <2>6. /\ IsFiniteSet(Members(e, Len(outs)))
          /\ SumOver(v, Members(e, Len(outs))) = OutputSum(outs)
      BY <2>4, <2>5, TotalIsSum
    <2>7. Members(e, Len(outs)) = OutputIDsOf(tx, id)
      <3>1. OutputIDsOf(tx, id) = {NewOutputID(id, k - 1) : k \in 1 .. Len(outs)}
        BY <2>1 DEF OutputIDsOf
      <3>2. Members(e, Len(outs)) = {e[k] : k \in 1 .. Len(outs)}
        BY DEF Members
      <3> HIDE DEF Members
      <3>3. {e[k] : k \in 1 .. Len(outs)} = {NewOutputID(id, k - 1) : k \in 1 .. Len(outs)}
        BY <2>3
      <3> QED
        BY <3>1, <3>2, <3>3
    <2> QED
      BY <2>1, <2>6, <2>7
  <1>8. Len(tx.outputs) > 0
    <2>0. Len(consumed) > 0 /\ Len(consumed) \in 1 .. Len(consumed)
      BY <1>1, <1>3
    <2>1. AmountOf(consumed[Len(consumed)]) > 0
      BY <1>5, <2>0
    <2>2. OutputSum(consumed) > 0
      BY <1>3, <1>5, <2>0, <2>1, TotalPositive
    <2>3. Len(tx.outputs) = 0 => OutputSum(tx.outputs) = 0
      BY <1>1, <1>5, TotalPositive
    <2> QED
      BY <1>1, <1>5, <2>2, <2>3
  <1>9. NewOutputID(id, 1 - 1) \in OutputIDsOf(tx, id)
    BY <1>1, <1>8 DEF OutputIDsOf
  <1> QED
    BY <1>5, <1>6, <1>7, <1>9

\* A transaction that Validate accepts leads from a version that holds the
\* supply to another one, if the IDs of its outputs are new there.
LEMMA TransactionBalances ==
    ASSUME NEW state, Balanced(state), NEW tx, NEW id, NEW consumed, NEW next,
           Executes(state, tx, id, consumed, next), OutputIDsOf(tx, id) \cap DOMAIN state = {}
    PROVE  /\ Balanced(next)
           /\ SumOver(AmountsIn(state), Inputs(tx)) = SumOver(AmountsIn(next), OutputIDsOf(tx, id))
           /\ OutputIDsOf(tx, id) # {}
  <1> USE DEF Executes
  <1>1. PICK New : New = OutputIDsOf(tx, id)
    OBVIOUS
  <1>2. PICK Old : Old = Inputs(tx)
    OBVIOUS
  <1>3. PICK Kept : Kept = DOMAIN state \ Old
    OBVIOUS
  <1>4. PICK w : w = AmountsIn(state)
    OBVIOUS
  <1>5. PICK v : v = AmountsIn(next)
    OBVIOUS
  <1>6. /\ DOMAIN next = Kept \cup New
        /\ \A oid \in New : next[oid] = At(tx.outputs, oid.idx)
        /\ \A oid \in Kept : next[oid] = state[oid]
    BY <1>1, <1>2, <1>3
  <1>7. Kept \cap New = {} /\ Old \subseteq DOMAIN state
    BY <1>1, <1>2, <1>3
  <1>8. \A oid \in DOMAIN state : w[oid] = AmountOf(state[oid]) /\ w[oid] \in Int
    BY <1>4 DEF AmountsIn, Balanced, Amount
  <1>9. ASSUME NEW k \in 1 .. Len(tx.outputs)
        PROVE  /\ NewOutputID(id, k - 1) \in New
               /\ next[NewOutputID(id, k - 1)] = tx.outputs[k]
               /\ v[NewOutputID(id, k - 1)] = AmountOf(tx.outputs[k])
    <2>0. Len(tx.outputs) \in Nat
      BY TransactionShape
    <2>1. NewOutputID(id, k - 1) \in New
      BY <1>1 DEF OutputIDsOf
    <2>2. NewOutputID(id, k - 1).idx = k - 1 /\ (k - 1) + 1 = k
      BY <2>0 DEF NewOutputID
    <2>3. next[NewOutputID(id, k - 1)] = tx.outputs[k]
      BY <1>6, <2>1, <2>2 DEF At
    <2> QED
      BY <1>5, <1>6, <2>1, <2>3 DEF AmountsIn
  <1>10. /\ IsFiniteSet(Old) /\ IsFiniteSet(New)
         /\ SumOver(w, Old) = SumOver(v, New)
         /\ New # {}
         /\ \A k \in 1 .. Len(tx.outputs) : AmountOf(tx.outputs[k]) \in Amount
    <2>1. \A oid \in Inputs(tx) : w[oid] = AmountOf(state[oid])
      BY <1>8
    <2>2. \A k \in 1 .. Len(tx.outputs) : v[NewOutputID(id, k - 1)] = AmountOf(tx.outputs[k])
      BY <1>9
    <2>3. /\ IsFiniteSet(Inputs(tx)) /\ IsFiniteSet(OutputIDsOf(tx, id))
          /\ SumOver(w, Inputs(tx)) = SumOver(v, OutputIDsOf(tx, id))
          /\ OutputIDsOf(tx, id) # {}
          /\ \A k \in 1 .. Len(tx.outputs) : AmountOf(tx.outputs[k]) \in Amount
      BY <2>1, <2>2, SidesBalance DEF Executes
    <2> QED
      BY <1>1, <1>2, <2>3
  <1>11. ASSUME NEW oid \in New
         PROVE  AmountOf(next[oid]) \in Amount
    <2>1. PICK k \in 1 .. Len(tx.outputs) : oid = NewOutputID(id, k - 1)
      BY <1>1 DEF OutputIDsOf
    <2>2. next[oid] = tx.outputs[k]
      BY <1>9, <2>1
    <2> QED
      BY <1>10, <2>2
  <1>12. \A oid \in Kept : v[oid] = w[oid] /\ AmountOf(next[oid]) \in Amount
    BY <1>3, <1>4, <1>5, <1>6, <1>7 DEF AmountsIn, Balanced
  <1>13. ASSUME NEW oid \in DOMAIN next
         PROVE  AmountOf(next[oid]) \in Amount /\ v[oid] \in Int
    <2>1. AmountOf(next[oid]) \in Amount
      BY <1>6, <1>11, <1>12
    <2>2. v[oid] = AmountOf(next[oid])
      BY <1>5 DEF AmountsIn
    <2> QED
      BY <2>1, <2>2 DEF Amount
  <1>14. IsFiniteSet(DOMAIN state) /\ SumOver(w, DOMAIN state) = Supply
    BY <1>4 DEF Balanced
  <1>15. IsFiniteSet(DOMAIN next) /\ SumOver(v, DOMAIN next) = Supply
    <2>1. PICK S : S = DOMAIN state
      OBVIOUS
    <2>2. /\ IsFiniteSet(S) /\ Old \subseteq S /\ New \cap S = {}
          /\ \A x \in S : w[x] \in Int
          /\ \A x \in S \ Old : v[x] = w[x]
          /\ \A x \in New : v[x] \in Int
          /\ SumOver(w, S) = Supply
      BY <1>1, <1>2, <1>3, <1>6, <1>7, <1>8, <1>12, <1>13, <1>14, <2>1
    <2>3. /\ IsFiniteSet((S \ Old) \cup New)
          /\ SumOver(v, (S \ Old) \cup New) = SumOver(w, S)
      <3> HIDE DEF Executes
      <3>1. /\ IsFiniteSet(S) /\ Old \subseteq S /\ New \cap S = {}
            /\ \A x \in S : w[x] \in Int
            /\ \A x \in S \ Old : v[x] = w[x]
            /\ \A x \in New : v[x] \in Int
            /\ IsFiniteSet(New) /\ SumOver(w, Old) = SumOver(v, New)
        BY <1>10, <2>2
      <3> QED
        BY <3>1, SumExchange
    <2>4. DOMAIN next = (S \ Old) \cup New
      BY <1>3, <1>6, <2>1
    <2> QED
      BY <2>2, <2>3, <2>4
  <1> QED
    BY <1>1, <1>2, <1>4, <1>5, <1>10, <1>13, <1>15 DEF Balanced

-----------------------------------------------------------------------------
(***************************************************************************)
(* The supply of the ledger.  Besides IInv, which says that the IDs of new *)
(* outputs are new, the invariant needs that there are finitely many       *)
(* outputs and that their amounts are numbers.                             *)
(***************************************************************************)
SupplyInv == IInv /\ Balanced(utxo)

\* The genesis output is the whole supply.
LEMMA GenesisBalanced ==
    ASSUME NEW state, state = [oid \in {GenesisOutputID} |-> GenesisOutput]
    PROVE  Balanced(state)
  <1>1. PICK x : x = GenesisOutputID
    OBVIOUS
  <1>2. PICK w : w = AmountsIn(state)
    OBVIOUS
  <1>3. DOMAIN state = {x} /\ state[x] = GenesisOutput
    BY <1>1
  <1>4. AmountOf(GenesisOutput) = Supply /\ Supply \in Amount /\ Supply \in Int
    BY GenesisAssumption DEF AmountOf, GenesisOutput, At, ConstraintIndexAmount, NewAmount, Amount
  <1>5. w[x] = Supply
    BY <1>2, <1>3, <1>4 DEF AmountsIn
  <1>0. PICK E : E = {}
    OBVIOUS
  <1>6. PICK T : \A y : y \in T <=> y \in E \/ y = x
    <2>1. \A y : y \in {x} <=> y \in E \/ y = x
      BY <1>0
    <2> QED
      BY <2>1
  <1>7. \A y \in T : w[y] \in Int
    BY <1>0, <1>4, <1>5, <1>6
  <1>8. IsFiniteSet(E) /\ SumOver(w, E) = 0 /\ x \notin E
    BY <1>0, FS_EmptySet, SumTyped
  <1>9. SumOver(w, T) = SumOver(w, E) + w[x]
    BY <1>6, <1>7, <1>8, SumInsert
  <1>10. T = {x} /\ IsFiniteSet({x})
    BY <1>0, <1>6, FS_Singleton
  <1>11. SumOver(w, {x}) = Supply
    BY <1>4, <1>5, <1>8, <1>9, <1>10
  <1> QED
    BY <1>2, <1>3, <1>4, <1>10, <1>11 DEF Balanced

\* What a balanced version holds, as the invariants state it.
LEMMA BalancedSum ==
    ASSUME NEW state, Balanced(state)
    PROVE  MapThenSumSet(LAMBDA oid : AmountOf(state[oid]), DOMAIN state) = Supply
  <1>1. IsFiniteSet(DOMAIN state) /\ DOMAIN state \subseteq DOMAIN state
    BY DEF Balanced
  <1> QED
    BY <1>1, SumOfAmounts DEF Balanced

\* What Accepted says, and how UpdateTrie changes the state.
LEMMA UpdateExecutes ==
    ASSUME TypeOK, NEW tx, Accepted(tx), NEW n, NEW next, next = UpdateTrie(tx, n)
    PROVE  Executes(utxo, tx, n, ConsumedOutputs(tx), next)
  <1>1. /\ tx \in Transaction /\ Inputs(tx) \subseteq DOMAIN utxo
        /\ \A k, l \in 1 .. Len(tx.inputs) : tx.inputs[k] = tx.inputs[l] => k = l
        /\ Validate(Context(tx, ConsumedOutputs(tx)))
    BY DEF Accepted, InputsFound
  <1>2. Len(tx.inputs) \in Nat
    BY <1>1, TransactionShape
  <1>3. /\ \A oid \in DOMAIN utxo : utxo[oid] \in Output
        /\ \A k \in 1 .. Len(tx.inputs) : utxo[tx.inputs[k]] \in Output
    BY <1>1 DEF Inputs, TypeOK
  <1>4. /\ ConsumedOutputs(tx) \in Seq(Output)
        /\ Len(ConsumedOutputs(tx)) = Len(tx.inputs)
        /\ \A k \in 1 .. Len(tx.inputs) : ConsumedOutputs(tx)[k] = utxo[tx.inputs[k]]
    BY <1>2, <1>3 DEF ConsumedOutputs
  <1>5. /\ DOMAIN next = (DOMAIN utxo \ Inputs(tx)) \cup OutputIDsOf(tx, n)
        /\ \A oid \in OutputIDsOf(tx, n) : next[oid] = At(tx.outputs, oid.idx)
        /\ \A oid \in DOMAIN utxo \ Inputs(tx) :
               oid \notin OutputIDsOf(tx, n) => next[oid] = utxo[oid]
    BY DEF UpdateTrie
  <1> QED
    BY <1>1, <1>3, <1>4, <1>5 DEF Executes

\* The IDs of the outputs of an accepted transaction are not in the state.
LEMMA UpdateFresh ==
    ASSUME IInv, NEW tx, Update(tx), NEW n, n = Len(txs) + 1
    PROVE  OutputIDsOf(tx, n) \cap DOMAIN utxo = {}
  <1>1. \A oid \in OutputIDsOf(tx, n) : oid \notin ProducedIDs
    BY UpdateProduced
  <1>2. DOMAIN utxo \subseteq ProducedIDs
    BY DEF IInv, UtxoExact
  <1> QED
    BY <1>1, <1>2

\* The invariant holds at genesis.
LEMMA InitSupplyInv == Init => SupplyInv
  <1> SUFFICES ASSUME Init PROVE SupplyInv
    OBVIOUS
  <1>1. IInv
    BY InitIInv
  <1>2. utxo = [oid \in {GenesisOutputID} |-> GenesisOutput]
    BY DEF Init, InitLedgerState
  <1>3. Balanced(utxo)
    BY <1>2, GenesisBalanced
  <1> QED
    BY <1>1, <1>3 DEF SupplyInv

\* An accepted transaction keeps the invariant.
LEMMA UpdateSupplyInv ==
    ASSUME SupplyInv, NEW tx, Update(tx), Len(txs) < MaxTxs
    PROVE  SupplyInv'
  <1>1. IInv /\ TypeOK
    BY DEF SupplyInv, IInv
  <1>2. IInv'
    BY <1>1, UpdateTypeOK, UpdateUtxoExact, UpdateSpentOnce DEF IInv
  <1>3. PICK n : n = Len(txs) + 1
    OBVIOUS
  <1>4. Accepted(tx) /\ utxo' = UpdateTrie(tx, n)
    BY <1>1, <1>3, UpdateEffect
  <1>5. OutputIDsOf(tx, n) \cap DOMAIN utxo = {}
    BY <1>1, <1>3, UpdateFresh
  <1>6. Balanced(utxo)
    BY DEF SupplyInv
  <1>7. PICK next : next = utxo'
    OBVIOUS
  <1>8. Balanced(next)
    BY <1>1, <1>4, <1>5, <1>6, <1>7, UpdateExecutes, TransactionBalances
  <1>9. Balanced(utxo')
    BY <1>7, <1>8
  <1> QED
    BY <1>2, <1>9 DEF SupplyInv

\* Every step keeps the invariant.
LEMMA NextSupplyInv == SupplyInv /\ [Next]_vars => SupplyInv'
  <1> SUFFICES ASSUME SupplyInv, [Next]_vars PROVE SupplyInv'
    OBVIOUS
  <1>1. CASE Next
    <2>1. PICK tx \in Submitted(utxo, txs) : Len(txs) < MaxTxs /\ Update(tx)
      BY <1>1 DEF Next
    <2> QED
      BY <2>1, UpdateSupplyInv
  <1>2. CASE UNCHANGED vars
    <2>1. IInv'
      BY <1>2, NextIInv DEF SupplyInv
    <2> QED
      BY <1>2, <2>1 DEF SupplyInv, Balanced, AmountsIn, vars
  <1> QED
    BY <1>1, <1>2

\* Tokens are neither created nor destroyed by any sequence of updates.
THEOREM SupplyIsConserved == Spec => []SupplyConserved
  <1>1. SupplyInv => SupplyConserved
    <2> SUFFICES ASSUME SupplyInv PROVE SupplyConserved
      OBVIOUS
    <2>1. Balanced(utxo)
      BY DEF SupplyInv
    <2> QED
      BY <2>1, BalancedSum DEF SupplyConserved
  <1> QED
    BY <1>1, InitSupplyInv, NextSupplyInv, PTL DEF Spec

-----------------------------------------------------------------------------
(***************************************************************************)
(* The ledger implements Coins.                                            *)
(***************************************************************************)
CoinsIn(state) ==
    [oid \in DOMAIN state |->
        [amount |-> AmountOf(state[oid]), owners |-> OwnersOf(LockOf(state[oid]))]]

\* What coins are worth is the sum of their amounts.
LEMMA WorthIsSum ==
    ASSUME NEW c, NEW S, IsFiniteSet(S), NEW w, \A x \in S : w[x] = c[x].amount
    PROVE  Abstract!Worth(S, c) = SumOver(w, S)
  <1>1. PICK f : AddsUp(f, w, SUBSET S) /\ SumOver(w, S) = f[S]
    BY SumIsRecursive
  <1>2. \A s \in SUBSET S : s # {} => w[Pick(s)] = c[Pick(s)].amount
    BY PickIn
  <1>3. f = [s \in SUBSET S |-> IF s = {} THEN 0 ELSE w[Pick(s)] + f[s \ {Pick(s)}]]
    BY <1>1 DEF AddsUp
  <1>4. f = [s \in SUBSET S |-> IF s = {} THEN 0 ELSE c[Pick(s)].amount + f[s \ {Pick(s)}]]
    BY <1>2, <1>3
  <1>5. f = [s \in SUBSET S |-> IF s = {} THEN 0
                          ELSE c[CHOOSE x \in s : TRUE].amount + f[s \ {CHOOSE x \in s : TRUE}]]
    BY <1>4 DEF Pick
  <1>6. \E h : /\ h = [s \in SUBSET S |-> IF s = {} THEN 0
                          ELSE c[CHOOSE x \in s : TRUE].amount
                                   + h[s \ {CHOOSE x \in s : TRUE}]]
               /\ Abstract!Worth(S, c) = h[S]
    BY <1>5 DEF Abstract!Worth, Abstract!MapThenSumSet, Abstract!MapThenFoldSet
  <1>7. PICK h : /\ h = [s \in SUBSET S |-> IF s = {} THEN 0
                                ELSE c[Pick(s)].amount + h[s \ {Pick(s)}]]
                 /\ Abstract!Worth(S, c) = h[S]
    BY <1>6 DEF Pick
  <1>8. AddsUp(h, w, SUBSET S)
    BY <1>2, <1>7 DEF AddsUp
  <1>9. SumOver(w, S) = h[S]
    BY <1>8, SumValue
  <1> QED
    BY <1>7, <1>9

\* Initially the genesis output is the only coin.
LEMMA InitCoins == Init => Abstract!Init
  <1> SUFFICES ASSUME Init PROVE Abstract!Init
    OBVIOUS
  <1>1. /\ DOMAIN utxo = {GenesisOutputID} /\ utxo[GenesisOutputID] = GenesisOutput
        /\ ProducedIDs = {GenesisOutputID}
    BY DEF Init, InitLedgerState, ProducedIDs, TxNumbers
  <1>2. AmountOf(GenesisOutput) = Supply
    BY DEF AmountOf, GenesisOutput, At, ConstraintIndexAmount, NewAmount
  <1> QED
    BY <1>1, <1>2 DEF Abstract!Init

\* A step of the ledger is a transfer of coins.
LEMMA NextCoins ==
    ASSUME SupplyInv, SupplyInv', SpendAuthorised', [Next]_vars
    PROVE  [Abstract!Next]_(Abstract!coinVars)
  <1>1. CASE UNCHANGED vars
    BY <1>1 DEF vars, Abstract!coinVars, ProducedIDs, TxNumbers
  <1>2. CASE Next
    <2>1. PICK tx \in Submitted(utxo, txs) : Update(tx)
      BY <1>2 DEF Next
    <2>2. PICK n : n = Len(txs) + 1
      OBVIOUS
    <2>3. PICK Old : Old = Inputs(tx)
      OBVIOUS
    <2>4. PICK New : New = OutputIDsOf(tx, n)
      OBVIOUS
    <2>5. PICK next : next = utxo'
      OBVIOUS
    <2>6. /\ Accepted(tx) /\ tx \in Transaction /\ next = UpdateTrie(tx, n)
          /\ n \in TxNumbers' /\ txs'[n] = tx
      BY <2>1, <2>2, <2>5, UpdateEffect DEF SupplyInv
    <2>7. ProducedIDs' = ProducedIDs \cup New /\ \A oid \in New : oid \notin ProducedIDs
      BY <2>1, <2>2, <2>4, UpdateProduced DEF SupplyInv
    <2>8. New \cap DOMAIN utxo = {}
      BY <2>1, <2>2, <2>4, UpdateFresh DEF SupplyInv
    <2>9. Executes(utxo, tx, n, ConsumedOutputs(tx), next)
      BY <2>6, UpdateExecutes DEF SupplyInv, IInv
    <2>10. /\ SumOver(AmountsIn(utxo), Old) = SumOver(AmountsIn(next), New)
           /\ New # {}
      BY <2>3, <2>4, <2>8, <2>9, TransactionBalances DEF SupplyInv
    <2>11. Old # {} /\ tx.signature.key \in Addresses
      BY <2>3, <2>6, TransactionShape DEF Transaction
    <2>12. /\ Old \subseteq DOMAIN utxo
           /\ DOMAIN next = (DOMAIN utxo \ Old) \cup New
           /\ \A oid \in DOMAIN utxo \ Old : next[oid] = utxo[oid]
      BY <2>3, <2>4, <2>8, <2>9 DEF Executes
    <2>13. IsFiniteSet(Old) /\ IsFiniteSet(New)
      <3>1. IsFiniteSet(DOMAIN utxo)
        BY DEF SupplyInv, Balanced
      <3>2. IsFiniteSet(DOMAIN next)
        BY <2>5 DEF SupplyInv, Balanced
      <3> QED
        BY <2>12, <3>1, <3>2, FS_Subset
    <2>14. /\ CoinsIn(utxo) = [oid \in DOMAIN utxo |->
                     [amount |-> AmountOf(utxo[oid]), owners |-> OwnersOf(LockOf(utxo[oid]))]]
           /\ CoinsIn(next) = [oid \in DOMAIN utxo |->
                     [amount |-> AmountOf(utxo[oid]), owners |-> OwnersOf(LockOf(utxo[oid]))]]'
      BY <2>5 DEF CoinsIn
    <2>15. Abstract!Spent = Old /\ Abstract!New = New
      BY <2>5, <2>8, <2>12 DEF Abstract!Spent, Abstract!New
    <2>16. Abstract!Worth(New, CoinsIn(next)) = Abstract!Worth(Old, CoinsIn(utxo))
      <3>1. PICK c, w : c = CoinsIn(utxo) /\ w = AmountsIn(utxo)
        OBVIOUS
      <3>2. PICK d, v : d = CoinsIn(next) /\ v = AmountsIn(next)
        OBVIOUS
      <3>3. \A x \in Old : w[x] = c[x].amount
        BY <2>12, <3>1 DEF CoinsIn, AmountsIn
      <3>4. \A x \in New : v[x] = d[x].amount
        BY <2>12, <3>2 DEF CoinsIn, AmountsIn
      <3>5. Abstract!Worth(Old, c) = SumOver(w, Old)
        BY <2>13, <3>3, WorthIsSum
      <3>6. Abstract!Worth(New, d) = SumOver(v, New)
        BY <2>13, <3>4, WorthIsSum
      <3> QED
        BY <2>10, <3>1, <3>2, <3>5, <3>6
    <2>17. Abstract!AgreedBy(tx.signature.key)
      <3>1. ASSUME NEW x \in Old
            PROVE  \/ OwnersOf(LockOf(utxo[x])) = {}
                   \/ tx.signature.key \in OwnersOf(LockOf(utxo[x]))
        <4>1. PICK lock : lock = LockOf(utxo[x])
          OBVIOUS
        <4>2. x \in DOMAIN utxo /\ x \in ProducedIDs /\ utxo[x] = OutputOf(x)
          BY <2>12, <3>1 DEF SupplyInv, IInv, UtxoExact
        <4>3. OutputOf(x)' = OutputOf(x)
          BY <2>1, <2>2, <4>2, UpdateProduced DEF SupplyInv
        <4>4. LockOf(OutputOf(x))' = lock
          BY <4>1, <4>2, <4>3 DEF LockOf, At
        <4>5. x \in Inputs(txs'[n])
          BY <2>3, <2>6, <3>1
        <4>6. /\ lock.type = "addressED25519" => tx.signature.key = lock.addr
              /\ lock.type = "deadlineLock" => tx.signature.key \in {lock.main, lock.expiry}
          BY <2>6, <4>4, <4>5 DEF SpendAuthorised
        <4>7. IsLock(lock)
          <5>1. PICK consumed : consumed = ConsumedOutputs(tx)
            OBVIOUS
          <5>2. /\ consumed \in Seq(Output) /\ Validate(Context(tx, consumed))
                /\ Len(consumed) = Len(tx.inputs)
                /\ \A k \in 1 .. Len(tx.inputs) : consumed[k] = utxo[tx.inputs[k]]
            BY <2>9, <5>1 DEF Executes
          <5>3. \A k \in 1 .. Len(consumed) : IsLock(LockOf(consumed[k]))
            BY <2>6, <5>2, ValidAmounts
          <5>4. PICK k \in 1 .. Len(tx.inputs) : x = tx.inputs[k]
            BY <2>3, <3>1 DEF Inputs
          <5> QED
            BY <4>1, <5>2, <5>3, <5>4
        <4> QED
          BY <4>1, <4>6, <4>7 DEF OwnersOf, IsLock, LockNames
      <3> QED
        BY <2>12, <2>15, <3>1 DEF Abstract!AgreedBy, Abstract!Anybody
    <2>18. \A x \in DOMAIN utxo \ Old : CoinsIn(next)[x] = CoinsIn(utxo)[x]
      BY <2>12 DEF CoinsIn
    <2>20. Abstract!Transfer
      BY <2>7, <2>10, <2>11, <2>14, <2>15, <2>16, <2>17, <2>18 DEF Abstract!Transfer
    <2> QED
      BY <2>20 DEF Abstract!Next
  <1> QED
    BY <1>1, <1>2

\* Every update of the ledger is a transfer of coins, whatever is submitted.
THEOREM LedgerMovesCoins == Spec => MovesCoins
  <1> QED
    BY InitCoins, InitSupplyInv, NextCoins, NextSupplyInv, SpendIsAuthorised, PTL
    DEF Spec, MovesCoins, Abstract!Spec

-----------------------------------------------------------------------------
(***************************************************************************)
(* The context-free parser of transactions.                                *)
(***************************************************************************)

\* An accepted transaction has outputs: what it consumes is worth something.
LEMMA AcceptedProduces ==
    ASSUME TypeOK, NEW tx, Accepted(tx)
    PROVE  Len(tx.outputs) > 0
  <1>1. PICK next : next = UpdateTrie(tx, 0)
    OBVIOUS
  <1>2. Executes(utxo, tx, 0, ConsumedOutputs(tx), next)
    BY <1>1, UpdateExecutes
  <1>3. PICK outs : outs = ConsumedOutputs(tx)
    OBVIOUS
  <1>4. /\ tx \in Transaction /\ outs \in Seq(Output) /\ Len(outs) = Len(tx.inputs)
        /\ Validate(Context(tx, outs))
    BY <1>2, <1>3 DEF Executes
  <1>5. Len(tx.inputs) \in Nat /\ Len(tx.inputs) > 0 /\ Len(tx.outputs) \in Nat
    BY <1>4, TransactionShape
  <1>6. /\ NoOverflow(outs) /\ NoOverflow(tx.outputs)
        /\ \A k \in 1 .. Len(outs) : AmountOf(outs[k]) \in Amount /\ AmountOf(outs[k]) > 0
        /\ \A k \in 1 .. Len(tx.outputs) : AmountOf(tx.outputs[k]) \in Amount
        /\ OutputSum(outs) = OutputSum(tx.outputs)
    BY <1>4, ValidAmounts
  <1>7. Len(outs) \in Nat /\ Len(outs) > 0 /\ Len(outs) \in 1 .. Len(outs)
    BY <1>4, <1>5
  <1>8. OutputSum(outs) > 0
    BY <1>6, <1>7, TotalPositive
  <1>9. Len(tx.outputs) = 0 => OutputSum(tx.outputs) = 0
    BY <1>5, <1>6, TotalPositive
  <1> QED
    BY <1>5, <1>6, <1>8, <1>9

\* Whatever the ledger accepts passes the checks of the parser that are about
\* inputs and outputs, and the outputs fetched for it are the committed ones.
THEOREM ParserTakesAccepted == Spec => []ParserTakesValid
  <1>1. TypeOK => ParserTakesValid
    <2> SUFFICES ASSUME TypeOK, NEW tx \in Submitted(utxo, txs), Accepted(tx)
                 PROVE  /\ \E list \in EndorsementLists : MustTransaction(tx, list)
                        /\ CanFetchConsumedOutputs(tx)
                        /\ tx.inputCommitment = blake2b(FetchConsumedOutputs(tx))
      BY DEF ParserTakesValid
    <2>1. /\ tx \in Transaction /\ InputsFound(tx)
          /\ Validate(Context(tx, ConsumedOutputs(tx)))
      BY DEF Accepted
    <2>2. Len(tx.outputs) > 0
      BY AcceptedProduces
    <2>3. Len(tx.inputs) > 0 /\ tx.inputs \in Seq(OutputID)
      BY <2>1, TransactionShape
    <2>4. InputsUnique(tx)
      BY <2>1, <2>3 DEF InputsUnique, IsInjective, InputsFound
    <2>5. \E list \in EndorsementLists : MustTransaction(tx, list)
      BY <2>2, <2>3, <2>4, EndorsementAssumption DEF MustTransaction
    <2>6. CanFetchConsumedOutputs(tx)
      BY <2>1 DEF CanFetchConsumedOutputs, InputsFound
    <2>7. FetchConsumedOutputs(tx) = ConsumedOutputs(tx)
      BY DEF FetchConsumedOutputs, ConsumedOutputs
    <2>8. tx.inputCommitment = blake2b(ConsumedOutputs(tx))
      BY <2>1 DEF Validate, ValidateInputCommitment, Context
    <2> QED
      BY <2>5, <2>6, <2>7, <2>8
  <1> QED
    BY <1>1, TypeCorrect, PTL

-----------------------------------------------------------------------------
(***************************************************************************)
(* ConsumedTransactionIDs is a fold: a recursive function g over the sets  *)
(* of positions, which takes the last position of a set first.             *)
(***************************************************************************)
AddNew(ids, id) == IF id \in ToSet(ids) THEN ids ELSE Append(ids, id)

Collects(g, e, D) ==
    g = [s \in D |-> IF s = {} THEN <<>> ELSE AddNew(g[s \ {Max(s)}], e[Max(s)].tx)]

\* A nonempty set of positions has a last one.
LEMMA LastPosition ==
    ASSUME NEW n \in Nat, NEW s \in SUBSET (1 .. n), s # {}
    PROVE  Max(s) \in s /\ \A y \in s : Max(s) >= y
  <1>1. PICK D : D = {m \in Nat : \E x \in s : m = n - x}
    OBVIOUS
  <1>2. \A x \in s : x \in Int /\ n - x \in D
    BY <1>1
  <1>3. D \subseteq Nat /\ D # {}
    BY <1>1, <1>2
  <1>4. PICK m \in D : \A k \in D : ~ (k < m)
    BY <1>3, LeastNumber
  <1>5. PICK x \in s : m = n - x
    BY <1>1, <1>4
  <1>6. ASSUME NEW y \in s
        PROVE  x >= y
    <2>1. ~ (n - y < n - x) /\ x \in Int /\ y \in Int
      BY <1>2, <1>4, <1>5
    <2> QED
      BY <2>1
  <1>7. \E z \in s : \A y \in s : z >= y
    BY <1>6
  <1> QED
    BY <1>7 DEF Max

\* The recursive function exists: it is built up by the number of positions.
LEMMA CollectExists ==
    ASSUME NEW n \in Nat, NEW e
    PROVE  \E g : Collects(g, e, SUBSET (1 .. n))
  <1> DEFINE Bad == {k \in Nat : ~ \E g : Collects(g, e, SUBSET (1 .. k))}
  <1>1. Bad = {}
    <2> SUFFICES ASSUME Bad # {} PROVE FALSE
      OBVIOUS
    <2>1. Bad \subseteq Nat
      OBVIOUS
    <2>2. PICK k \in Bad : \A m \in Bad : ~ (m < k)
      BY <2>1, LeastNumber
    <2>3. k \in Nat /\ ~ \E g : Collects(g, e, SUBSET (1 .. k))
      BY <2>2
    <2>4. CASE k = 0
      <3> DEFINE g == [s \in SUBSET (1 .. 0) |-> <<>>]
      <3>1. \A s \in SUBSET (1 .. 0) : s = {}
        OBVIOUS
      <3>2. Collects(g, e, SUBSET (1 .. 0))
        BY <3>1, Zenon DEF Collects
      <3> QED
        BY <2>3, <2>4, <3>2
    <2>5. CASE k # 0
      <3>1. k - 1 \in Nat /\ k - 1 < k
        BY <2>3, <2>5
      <3>2. PICK g : Collects(g, e, SUBSET (1 .. k - 1))
        BY <2>2, <3>1
      <3> DEFINE h == [s \in SUBSET (1 .. k) |->
                          IF s = {} THEN <<>> ELSE AddNew(g[s \ {Max(s)}], e[Max(s)].tx)]
      <3>3. ASSUME NEW s \in SUBSET (1 .. k), s # {}
            PROVE  h[s \ {Max(s)}] = g[s \ {Max(s)}]
        <4>1. PICK m : m = Max(s)
          OBVIOUS
        <4>2. m \in s /\ \A y \in s : m >= y
          BY <2>3, <3>3, <4>1, LastPosition
        <4>3. PICK t : t = s \ {m}
          OBVIOUS
        <4>4. t \in SUBSET (1 .. k) /\ t \in SUBSET (1 .. k - 1)
          <5>1. ASSUME NEW y \in t
                PROVE  y \in 1 .. k - 1
            <6>1. y \in s /\ y # m /\ m >= y /\ m \in 1 .. k /\ y \in 1 .. k
              BY <3>3, <4>2, <4>3
            <6> QED
              BY <2>3, <6>1
          <5> QED
            BY <3>3, <4>3, <5>1
        <4>5. h[t] = IF t = {} THEN <<>> ELSE AddNew(g[t \ {Max(t)}], e[Max(t)].tx)
          BY <4>4
        <4>6. g[t] = IF t = {} THEN <<>> ELSE AddNew(g[t \ {Max(t)}], e[Max(t)].tx)
          BY <3>2, <4>4, Zenon DEF Collects
        <4> QED
          BY <4>1, <4>3, <4>5, <4>6, Zenon
      <3>4. Collects(h, e, SUBSET (1 .. k))
        BY <3>3 DEF Collects
      <3> QED
        BY <2>3, <3>4
    <2> QED
      BY <2>4, <2>5
  <1> QED
    BY <1>1

\* What the fold over the inputs is.
LEMMA ConsumedIsRecursive ==
    ASSUME NEW tx \in Transaction
    PROVE  \E g : /\ Collects(g, tx.inputs, SUBSET (1 .. Len(tx.inputs)))
                  /\ ConsumedTransactionIDs(tx) = g[1 .. Len(tx.inputs)]
  <1>1. tx.inputs \in Seq(OutputID) /\ Len(tx.inputs) \in Nat
    BY TransactionShape
  <1>2. DOMAIN tx.inputs = 1 .. Len(tx.inputs)
    BY <1>1
  <1>3. PICK g : Collects(g, tx.inputs, SUBSET (DOMAIN tx.inputs))
    BY <1>1, <1>2, CollectExists
  <1>4. g = [s \in SUBSET (DOMAIN tx.inputs) |-> IF s = {} THEN <<>> ELSE
                IF tx.inputs[Max(s)].tx \in ToSet(g[s \ {Max(s)}]) THEN g[s \ {Max(s)}]
                ELSE Append(g[s \ {Max(s)}], tx.inputs[Max(s)].tx)]
    BY <1>3 DEF Collects, AddNew
  <1>5. \E h : /\ h = [s \in SUBSET (DOMAIN tx.inputs) |-> IF s = {} THEN <<>> ELSE
                          IF tx.inputs[Max(s)].tx \in ToSet(h[s \ {Max(s)}]) THEN h[s \ {Max(s)}]
                          ELSE Append(h[s \ {Max(s)}], tx.inputs[Max(s)].tx)]
               /\ ConsumedTransactionIDs(tx) = h[DOMAIN tx.inputs]
    BY <1>4 DEF ConsumedTransactionIDs, FoldLeft, MapThenFoldSet
  <1> QED
    BY <1>2, <1>5 DEF Collects, AddNew

\* ids is a list of exactly the transactions of the first k of the inputs e.
Lists(ids, e, k, S) ==
    /\ ids \in Seq(S)
    /\ \A x \in S : (\E l \in 1 .. Len(ids) : ids[l] = x) <=> \E j \in 1 .. k : e[j].tx = x
    /\ \A l, m \in 1 .. Len(ids) : ids[l] = ids[m] => l = m

\* One more input: its transaction is added unless it is in the list.
LEMMA ListsOneMore ==
    ASSUME NEW ids, NEW e, NEW k \in Nat, NEW S, Lists(ids, e, k, S), e[k + 1].tx \in S
    PROVE  Lists(AddNew(ids, e[k + 1].tx), e, k + 1, S)
  <1>1. PICK id \in S : id = e[k + 1].tx
    OBVIOUS
  <1>2. ids \in Seq(S) /\ Len(ids) \in Nat
    BY DEF Lists
  <1>3. \A x \in S : (\E j \in 1 .. k + 1 : e[j].tx = x) <=>
                         (\E j \in 1 .. k : e[j].tx = x) \/ x = id
    BY <1>1
  <1>4. id \in ToSet(ids) <=> \E l \in 1 .. Len(ids) : ids[l] = id
    BY <1>2 DEF ToSet
  <1>5. CASE id \in ToSet(ids)
    <2>1. AddNew(ids, id) = ids
      BY <1>5 DEF AddNew
    <2>2. \A x \in S : (\E l \in 1 .. Len(ids) : ids[l] = x) <=> \E j \in 1 .. k + 1 : e[j].tx = x
      BY <1>3, <1>4, <1>5, Zenon DEF Lists
    <2> QED
      BY <1>1, <2>1, <2>2 DEF Lists
  <1>6. CASE id \notin ToSet(ids)
    <2>1. AddNew(ids, id) = Append(ids, id)
      BY <1>6 DEF AddNew
    <2>2. PICK new : new = Append(ids, id)
      OBVIOUS
    <2>3. PICK n \in Nat : n = Len(ids)
      BY <1>2
    <2>4. /\ new \in Seq(S) /\ Len(new) = n + 1 /\ new[n + 1] = id
          /\ \A l \in 1 .. n : new[l] = ids[l]
      BY <1>2, <2>2, <2>3
    <2>5. \A l \in 1 .. n + 1 : l \in 1 .. n \/ l = n + 1
      BY <2>3
    <2>6. \A x \in S : (\E l \in 1 .. n + 1 : new[l] = x) <=>
                           (\E l \in 1 .. n : ids[l] = x) \/ x = id
      BY <2>3, <2>4, <2>5
    <2>7. \A x \in S : (\E l \in 1 .. n : ids[l] = x) <=> \E j \in 1 .. k : e[j].tx = x
      BY <2>3 DEF Lists
    <2>8. \A x \in S : (\E l \in 1 .. n + 1 : new[l] = x) <=> \E j \in 1 .. k + 1 : e[j].tx = x
      BY <1>3, <2>6, <2>7, Zenon
    <2>9. \A l, m \in 1 .. n : ids[l] = ids[m] => l = m
      BY <2>3 DEF Lists
    <2>10. \A l \in 1 .. n : ids[l] # id
      BY <1>4, <1>6, <2>3
    <2>11. \A l, m \in 1 .. n + 1 : new[l] = new[m] => l = m
      BY <2>4, <2>5, <2>9, <2>10, Zenon
    <2>12. Lists(new, e, k + 1, S)
      BY <2>4, <2>8, <2>11, Zenon DEF Lists
    <2> QED
      BY <1>1, <2>1, <2>2, <2>12, Zenon
  <1> QED
    BY <1>5, <1>6

\* The fold lists the transactions of all the inputs.
LEMMA CollectLists ==
    ASSUME NEW n \in Nat, NEW e, NEW g, Collects(g, e, SUBSET (1 .. n)),
           NEW S, \A j \in 1 .. n : e[j].tx \in S
    PROVE  Lists(g[1 .. n], e, n, S)
  <1> DEFINE Bad == {k \in Nat : k <= n /\ ~ Lists(g[1 .. k], e, k, S)}
  <1>1. Bad = {}
    <2> SUFFICES ASSUME Bad # {} PROVE FALSE
      OBVIOUS
    <2>1. Bad \subseteq Nat
      OBVIOUS
    <2>2. PICK k \in Bad : \A m \in Bad : ~ (m < k)
      BY <2>1, LeastNumber
    <2>3. k \in Nat /\ k <= n /\ ~ Lists(g[1 .. k], e, k, S)
      BY <2>2
    <2>4. PICK s : s = 1 .. k
      OBVIOUS
    <2>5. s \in SUBSET (1 .. n) /\ s \in SUBSET (1 .. k)
      BY <2>3, <2>4
    <2>6. g[s] = IF s = {} THEN <<>> ELSE AddNew(g[s \ {Max(s)}], e[Max(s)].tx)
      BY <2>5, Zenon DEF Collects
    <2>7. CASE k = 0
      <3>1. g[1 .. 0] = <<>>
        BY <2>4, <2>6, <2>7
      <3>2. Lists(<<>>, e, 0, S)
        BY DEF Lists
      <3> QED
        BY <2>3, <2>7, <3>1, <3>2
    <2>8. CASE k # 0
      <3>1. k \in s /\ s # {}
        <4>1. k \in 1 .. k
          BY <2>3, <2>8
        <4> QED
          BY <2>4, <4>1, Zenon
      <3>2. Max(s) \in s /\ \A y \in s : Max(s) >= y
        BY <2>3, <2>5, <3>1, LastPosition
      <3>3. Max(s) = k
        BY <2>3, <2>4, <3>1, <3>2
      <3>4. PICK m \in Nat : k = m + 1
        BY <2>3, <2>8, k - 1 \in Nat
      <3>5. s \ {k} = 1 .. m
        BY <2>4, <3>4
      <3>6. g[1 .. k] = AddNew(g[1 .. m], e[m + 1].tx)
        BY <2>4, <2>6, <3>1, <3>3, <3>4, <3>5, Zenon
      <3>7. Lists(g[1 .. m], e, m, S)
        BY <2>2, <2>3, <3>4
      <3>8. e[m + 1].tx \in S
        BY <2>3, <3>4
      <3>9. Lists(AddNew(g[1 .. m], e[m + 1].tx), e, m + 1, S)
        BY <3>7, <3>8, ListsOneMore
      <3> QED
        BY <2>3, <3>4, <3>6, <3>9, Zenon
    <2> QED
      BY <2>7, <2>8
  <1> QED
    BY <1>1

\* The parser lists the transactions that a transaction depends on, all of
\* them and each once, whatever is submitted.
THEOREM ConsumedTransactionsAreExact == Spec => []ConsumedTransactionsExact
  <1>1. ConsumedTransactionsExact
    <2> SUFFICES ASSUME NEW tx \in Transaction
                 PROVE  /\ ToSet(ConsumedTransactionIDs(tx)) = {oid.tx : oid \in Inputs(tx)}
                        /\ IsInjective(ConsumedTransactionIDs(tx))
      BY DEF ConsumedTransactionsExact
    <2>1. PICK e : e = tx.inputs
      OBVIOUS
    <2>2. PICK n \in Nat : n = Len(e)
      BY <2>1, TransactionShape
    <2>3. PICK S : S = {e[j].tx : j \in 1 .. n}
      OBVIOUS
    <2>4. PICK ids : ids = ConsumedTransactionIDs(tx)
      OBVIOUS
    <2>5. PICK g : Collects(g, e, SUBSET (1 .. n)) /\ ids = g[1 .. n]
      BY <2>1, <2>2, <2>4, ConsumedIsRecursive
    <2>6. Lists(ids, e, n, S)
      BY <2>3, <2>5, CollectLists
    <2>7. ids \in Seq(S) /\ DOMAIN ids = 1 .. Len(ids) /\ \A l \in 1 .. Len(ids) : ids[l] \in S
      BY <2>6 DEF Lists
    <2>8. \A x \in S : \E l \in 1 .. Len(ids) : ids[l] = x
      BY <2>3, <2>6, Zenon DEF Lists
    <2>9. ToSet(ids) = S
      BY <2>7, <2>8 DEF ToSet
    <2>10. S = {oid.tx : oid \in Inputs(tx)}
      BY <2>1, <2>2, <2>3 DEF Inputs
    <2>11. IsInjective(ids)
      BY <2>6, <2>7 DEF Lists, IsInjective
    <2> QED
      BY <2>4, <2>9, <2>10, <2>11
  <1> QED
    BY <1>1, PTL
-----------------------------------------------------------------------------
(***************************************************************************)
(* What the operators of the transaction builder compute, for the proofs   *)
(* about its clients.  They remember outputs of the history of the ledger. *)
(***************************************************************************)
\* Everything that was produced, under its ID.
History == [oid \in ProducedIDs |-> OutputOf(oid)]

\* A function on 1 .. n is a sequence of length n.
LEMMA FunctionIsSeq ==
    ASSUME NEW n \in Nat, NEW S, NEW f \in [1 .. n -> S]
    PROVE  f \in Seq(S) /\ Len(f) = n /\ DOMAIN f = 1 .. n
  OBVIOUS

LEMMA SeqElements ==
    ASSUME NEW S, NEW s \in Seq(S)
    PROVE  Len(s) \in Nat /\ DOMAIN s = 1 .. Len(s) /\ \A k \in 1 .. Len(s) : s[k] \in S
  OBVIOUS

\* The greater of two numbers.
LEMMA MaxOfTwo ==
    ASSUME NEW a \in Int, NEW b \in Int
    PROVE  Max({a, b}) = IF a >= b THEN a ELSE b
  <1> DEFINE m == IF a >= b THEN a ELSE b
  <1>1. m \in {a, b} /\ \A y \in {a, b} : m >= y
    OBVIOUS
  <1>2. \A x \in {a, b} : (\A y \in {a, b} : x >= y) => x = m
    OBVIOUS
  <1> HIDE DEF m
  <1>3. Max({a, b}) = m
    BY <1>1, <1>2 DEF Max
  <1> QED
    BY <1>3 DEF m

\* PutConstraint replaces a block that is there, or puts one behind the last.
LEMMA PutEffect ==
    ASSUME NEW arr, Len(arr) \in Nat, NEW i \in Nat, NEW c, NEW r, r = PutConstraint(arr, i, c)
    PROVE  /\ i < Len(arr) => r = [k \in 1 .. Len(arr) |-> IF k = i + 1 THEN c ELSE arr[k]]
           /\ i >= Len(arr) =>
                  r = [k \in 1 .. i + 1 |->
                          IF k = i + 1 THEN c ELSE IF k <= Len(arr) THEN arr[k] ELSE <<>>]
  <1>1. Max({Len(arr), i + 1}) = IF Len(arr) >= i + 1 THEN Len(arr) ELSE i + 1
    BY MaxOfTwo
  <1>2. ASSUME i < Len(arr)
        PROVE  r = [k \in 1 .. Len(arr) |-> IF k = i + 1 THEN c ELSE arr[k]]
    <2>1. Max({Len(arr), i + 1}) = Len(arr)
      BY <1>1, <1>2
    <2>2. r = [k \in 1 .. Len(arr) |->
                  IF k = i + 1 THEN c ELSE IF k <= Len(arr) THEN arr[k] ELSE <<>>]
      BY <2>1 DEF PutConstraint
    <2>3. \A k \in 1 .. Len(arr) : k <= Len(arr)
      OBVIOUS
    <2> QED
      BY <2>2, <2>3
  <1>3. ASSUME i >= Len(arr)
        PROVE  r = [k \in 1 .. i + 1 |->
                          IF k = i + 1 THEN c ELSE IF k <= Len(arr) THEN arr[k] ELSE <<>>]
    <2>1. Max({Len(arr), i + 1}) = i + 1
      BY <1>1, <1>3
    <2> QED
      BY <2>1 DEF PutConstraint
  <1> QED
    BY <1>2, <1>3

\* The unlock blocks with a signature for the lock.
LEMMA LockUnlockShape ==
    LockUnlock(<<MaxByte>>) = [k \in 1 .. 3 |-> IF k = 3 THEN <<MaxByte>> ELSE <<>>]
  <1>1. PutConstraint(<<>>, 2, <<MaxByte>>)
            = [k \in 1 .. 3 |-> IF k = 3 THEN <<MaxByte>> ELSE IF k <= 0 THEN <<>>[k] ELSE <<>>]
    BY PutEffect
  <1> QED
    BY <1>1 DEF LockUnlock, ConstraintIndexLock

\* The index of the first chain constraint of an output with at most one.
LEMMA ChainIndex ==
    ASSUME NEW out, Len(out) \in 3 .. MaxByte,
           \A b, d \in 4 .. Len(out) : out[b].type = "chain" /\ out[d].type = "chain" => b = d
    PROVE  /\ \A b \in 4 .. Len(out) :
                  out[b].type = "chain" => ChainConstraintIndex(out) = b - 1 /\ HasChainConstraint(out)
           /\ HasChainConstraint(out) =>
                  \E b \in 4 .. Len(out) : out[b].type = "chain" /\ ChainConstraintIndex(out) = b - 1
  <1> DEFINE at == {b \in 3 .. Len(out) - 1 : out[b + 1].type = "chain"}
             S == {MaxByte} \cup at
  <1>1. ChainConstraintIndex(out) = Min(S)
    BY DEF ChainConstraintIndex, ConstraintIndexLock, At
  <1>2. ASSUME NEW b \in 4 .. Len(out), out[b].type = "chain"
        PROVE  ChainConstraintIndex(out) = b - 1 /\ HasChainConstraint(out)
    <2>1. b \in Int /\ b - 1 < MaxByte /\ b - 1 \in 3 .. Len(out) - 1 /\ (b - 1) + 1 = b
      BY MaxByteAssumption
    <2>2. b - 1 \in at
      BY <2>1, <1>2
    <2>3. \A x \in at : x = b - 1
      <3> SUFFICES ASSUME NEW x \in 3 .. Len(out) - 1, out[x + 1].type = "chain"
                   PROVE  x = b - 1
        OBVIOUS
      <3>1. x + 1 \in 4 .. Len(out) /\ x \in Int
        BY MaxByteAssumption
      <3>2. x + 1 = b
        BY <3>1, <1>2
      <3> QED
        BY <3>1, <3>2
    <2>4. S = {MaxByte, b - 1}
      BY <2>2, <2>3
    <2> HIDE DEF at, S
    <2>5. b - 1 \in S /\ (\A y \in S : b - 1 =< y) /\ \A x \in S : (\A y \in S : x =< y) => x = b - 1
      BY <2>4, <2>1, MaxByteAssumption
    <2>6. Min(S) = b - 1
      BY <2>5 DEF Min
    <2> QED
      BY <2>6, <1>1, <2>1, MaxByteAssumption DEF HasChainConstraint
  <1>3. ASSUME HasChainConstraint(out)
        PROVE  \E b \in 4 .. Len(out) : out[b].type = "chain" /\ ChainConstraintIndex(out) = b - 1
    <2>1. CASE \E b \in 4 .. Len(out) : out[b].type = "chain"
      BY <2>1, <1>2
    <2>2. CASE ~ \E b \in 4 .. Len(out) : out[b].type = "chain"
      <3>1. at = {}
        <4> SUFFICES ASSUME NEW x \in 3 .. Len(out) - 1, out[x + 1].type = "chain"
                     PROVE  FALSE
          OBVIOUS
        <4>1. x + 1 \in 4 .. Len(out)
          BY MaxByteAssumption
        <4> QED
          BY <4>1, <2>2
      <3>2. S = {MaxByte}
        BY <3>1
      <3> HIDE DEF at, S
      <3>3. Min(S) = MaxByte
        BY <3>2, MaxByteAssumption DEF Min
      <3> QED
        BY <3>3, <1>1, <1>3 DEF HasChainConstraint
    <2> QED
      BY <2>1, <2>2
  <1> QED
    BY <1>2, <1>3

\* A chain block and the identifiers in it.
LEMMA ChainBlockTyped ==
    ASSUME NEW c \in Block, c.type = "chain"
    PROVE  c.id \in ChainID
  <1>1. CASE c \in BasicBlock
    BY <1>1 DEF BasicBlock
  <1>2. CASE c \notin BasicBlock
    BY <1>2 DEF Block
  <1> QED
    BY <1>1, <1>2

LEMMA ChainTyped ==
    ASSUME NEW id \in ChainID, NEW p \in Byte, NEW b \in Byte, NEW m \in Byte
    PROVE  NewChain(id, p, b, m) \in Block
  BY DEF NewChain, Block, BasicBlock

\* The elements of a sequence with one more at the end.
LEMMA Appended ==
    ASSUME NEW S, NEW s \in Seq(S), NEW x
    PROVE  /\ Len(Append(s, x)) = Len(s) + 1
           /\ Append(s, x)[Len(s) + 1] = x
           /\ \A k \in 1 .. Len(s) : Append(s, x)[k] = s[k]
  OBVIOUS

\* Elements by their byte index.
LEMMA ByteIndex ==
    ASSUME NEW arr, Len(arr) \in Nat, NEW k \in 1 .. Len(arr)
    PROVE  Has(arr, k - 1) /\ At(arr, k - 1) = arr[k]
  <1>1. (k - 1) + 1 = k
    OBVIOUS
  <1> QED
    BY <1>1 DEF Has, At

LEMMA BlockIndex ==
    ASSUME NEW outs, Len(outs) \in Nat, NEW k \in 1 .. Len(outs),
           Len(outs[k]) \in Nat, NEW d \in 1 .. Len(outs[k])
    PROVE  HasBlock(outs, k - 1, d - 1) /\ BlockAt(outs, k - 1, d - 1) = outs[k][d]
  BY ByteIndex DEF HasBlock, BlockAt

\* The running totals of outputs, without a limit.
RunningTotals(f, outs, n) ==
    /\ n \in Nat /\ n = Len(outs)
    /\ f[0] = 0 /\ f[n] = AmountsOf(outs)
    /\ \A i \in 1 .. n : f[i] = f[i - 1] + AmountOf(outs[i])
    /\ \A i \in 0 .. n : f[i] \in Nat /\ f[i] <= f[n]

LEMMA TotalsExist ==
    ASSUME NEW outs, Len(outs) \in Nat, DOMAIN outs = 1 .. Len(outs),
           \A i \in 1 .. Len(outs) : AmountOf(outs[i]) \in Nat
    PROVE  \E f : RunningTotals(f, outs, Len(outs))
  <1>1. PICK n \in Nat : n = Len(outs)
    OBVIOUS
  <1>2. PICK w : w = AmountsIn(outs)
    OBVIOUS
  <1>3. \A i \in 1 .. n : w[i] = AmountOf(outs[i]) /\ w[i] \in Nat
    BY <1>1, <1>2 DEF AmountsIn
  <1> DEFINE f == [i \in 0 .. n |-> SumOver(w, 1 .. i)]
  <1>4. \A i \in 0 .. n : IsFiniteSet(1 .. i) /\ 1 .. i \subseteq 1 .. n
    BY FS_Interval
  <1>5. \A i \in 0 .. n : f[i] = SumOver(w, 1 .. i)
    OBVIOUS
  <1>6. f[0] = 0
    <2>1. 1 .. 0 = {} /\ SumOver(w, {}) = 0
      BY FS_EmptySet, SumTyped
    <2> QED
      BY <1>5, <2>1
  <1>7. ASSUME NEW i \in 1 .. n
        PROVE  f[i] = f[i - 1] + AmountOf(outs[i])
    <2>1. i - 1 \in 0 .. n /\ i \in 0 .. n
      OBVIOUS
    <2>2. PICK S : S = 1 .. i - 1
      OBVIOUS
    <2>3. PICK T : T = 1 .. i
      OBVIOUS
    <2>4. IsFiniteSet(S) /\ i \notin S /\ (\A x : x \in T <=> x \in S \/ x = i)
          /\ \A x \in T : w[x] \in Int
      BY <1>3, <1>4, <2>1, <2>2, <2>3
    <2>5. SumOver(w, T) = SumOver(w, S) + w[i]
      BY <2>4, SumInsert
    <2> QED
      BY <1>3, <1>5, <2>1, <2>2, <2>3, <2>5
  <1>8. ASSUME NEW i \in 0 .. n
        PROVE  f[i] \in Nat /\ f[i] <= f[n]
    <2>1. PICK S : S = 1 .. i
      OBVIOUS
    <2>2. PICK T : T = 1 .. n
      OBVIOUS
    <2>3. IsFiniteSet(S) /\ IsFiniteSet(T) /\ S \subseteq T /\ n \in 0 .. n
      BY <1>4, <2>1, <2>2
    <2>4. SumOver(w, S) \in Nat /\ SumOver(w, S) <= SumOver(w, T)
      <3>1. \A x \in T : w[x] \in Nat
        BY <1>3, <2>2
      <3>2. \A x \in S : w[x] \in Nat
        BY <2>3, <3>1
      <3>3. SumOver(w, S) \in Nat
        BY <2>3, <3>2, SumNatural
      <3> QED
        BY <2>3, <3>1, <3>3, SumMonotone
    <2> QED
      BY <1>5, <2>1, <2>2, <2>3, <2>4
  <1>9. f[n] = AmountsOf(outs)
    <2>1. PICK S : S = 1 .. n
      OBVIOUS
    <2>2. IsFiniteSet(S) /\ S \subseteq DOMAIN outs /\ n \in 0 .. n
      BY <1>1, <1>4, <2>1
    <2>3. MapThenSumSet(LAMBDA oid : AmountOf(outs[oid]), S) = SumOver(w, S)
      BY <1>2, <2>2, SumOfAmounts
    <2> QED
      BY <1>1, <1>5, <2>1, <2>2, <2>3 DEF AmountsOf
  <1> HIDE DEF f
  <1>10. RunningTotals(f, outs, n)
    BY <1>1, <1>6, <1>7, <1>8, <1>9 DEF RunningTotals
  <1> QED
    BY <1>1, <1>10

LEMMA SmallRemainder ==
    ASSUME NEW z \in Nat, NEW m \in Nat, z < m
    PROVE  z % m = z
  OBVIOUS

\* Outputs whose amounts fit are added up without overflow.
LEMMA TotalsFit ==
    ASSUME NEW outs, Len(outs) \in Nat, DOMAIN outs = 1 .. Len(outs),
           \A i \in 1 .. Len(outs) : AmountOf(outs[i]) \in Nat, AmountsOf(outs) <= MaxUint64
    PROVE  NoOverflow(outs) /\ OutputSum(outs) = AmountsOf(outs)
  <1>1. PICK n : n = Len(outs)
    OBVIOUS
  <1>2. PICK f : RunningTotals(f, outs, n)
    BY <1>1, TotalsExist
  <1>3. PICK g : g = PartialSums(outs)
    OBVIOUS
  <1>4. /\ g[0] = 0
        /\ \A i \in 1 .. n : g[i] = (g[i - 1] + AmountOf(outs[i])) % (MaxUint64 + 1)
    BY <1>1, <1>3, PartialSumsRecursion
  <1>5. /\ n \in Nat /\ f[0] = 0 /\ f[n] = AmountsOf(outs)
        /\ \A i \in 1 .. n : f[i] = f[i - 1] + AmountOf(outs[i])
        /\ \A i \in 0 .. n : f[i] \in Nat /\ f[i] <= MaxUint64
    <2>1. /\ n \in Nat /\ f[0] = 0 /\ f[n] = AmountsOf(outs)
          /\ \A i \in 1 .. n : f[i] = f[i - 1] + AmountOf(outs[i])
          /\ \A i \in 0 .. n : f[i] \in Nat /\ f[i] <= f[n]
      BY <1>2 DEF RunningTotals
    <2>2. n \in 0 .. n /\ f[n] \in Nat
      BY <2>1
    <2> QED
      BY <2>1, <2>2, MaxUint64Assumption
  <1>6. \A i \in 0 .. n : g[i] = f[i]
    <2> DEFINE Bad == {i \in 0 .. n : g[i] # f[i]}
    <2>1. Bad = {}
      <3> SUFFICES ASSUME Bad # {} PROVE FALSE
        OBVIOUS
      <3>1. Bad \subseteq Nat
        OBVIOUS
      <3>2. PICK i \in Bad : \A m \in Bad : ~ (m < i)
        BY <3>1, LeastNumber
      <3>3. i \in 1 .. n /\ i - 1 \in 0 .. n /\ g[i] # f[i] /\ i \in 0 .. n
        BY <1>4, <1>5, <3>2
      <3>4. g[i - 1] = f[i - 1]
        BY <3>2, <3>3
      <3>5. f[i] = f[i - 1] + AmountOf(outs[i]) /\ f[i] \in Nat /\ f[i] <= MaxUint64
        BY <1>5, <3>3
      <3>6. f[i] % (MaxUint64 + 1) = f[i]
        <4>1. MaxUint64 + 1 \in Nat /\ f[i] < MaxUint64 + 1
          BY <3>5, MaxUint64Assumption
        <4> QED
          BY <3>5, <4>1, SmallRemainder
      <3> QED
        BY <1>4, <3>3, <3>4, <3>5, <3>6
    <2> QED
      BY <2>1
  <1>7. \A i \in 1 .. n : AmountOf(outs[i]) <= MaxUint64 - g[i - 1]
    <2> SUFFICES ASSUME NEW i \in 1 .. n
                 PROVE  AmountOf(outs[i]) <= MaxUint64 - g[i - 1]
      OBVIOUS
    <2>1. i - 1 \in 0 .. n /\ i \in 0 .. n
      BY <1>5
    <2>2. /\ f[i] = f[i - 1] + AmountOf(outs[i]) /\ f[i] \in Nat /\ f[i] <= MaxUint64
          /\ f[i - 1] \in Nat /\ g[i - 1] = f[i - 1] /\ AmountOf(outs[i]) \in Nat
      BY <1>1, <1>5, <1>6, <2>1
    <2> QED
      BY <2>2, MaxUint64Assumption
  <1>8. g[n] = f[n]
    BY <1>5, <1>6
  <1> QED
    BY <1>1, <1>3, <1>5, <1>7, <1>8 DEF NoOverflow, OutputSum

\* Different outputs of a state do not hold more than the supply.
LEMMA ConsumedFits ==
    ASSUME NEW state, Balanced(state), NEW outs, Len(outs) \in Nat, DOMAIN outs = 1 .. Len(outs),
           NEW e, \A k, l \in 1 .. Len(outs) : e[k] = e[l] => k = l,
           \A k \in 1 .. Len(outs) : e[k] \in DOMAIN state /\ outs[k] = state[e[k]]
    PROVE  AmountsOf(outs) <= Supply
  <1>1. PICK n : n = Len(outs)
    OBVIOUS
  <1>2. \A k \in 1 .. n : AmountOf(outs[k]) \in Nat
    BY <1>1 DEF Balanced, Amount
  <1>3. PICK f : RunningTotals(f, outs, n)
    BY <1>1, <1>2, TotalsExist
  <1>4. PICK w : w = AmountsIn(state)
    OBVIOUS
  <1>5. \A k \in 1 .. n : w[e[k]] = AmountOf(outs[k])
    BY <1>1, <1>4 DEF AmountsIn
  <1>6. n \in Nat /\ Accumulates(f, w, e, n) /\ f[n] = AmountsOf(outs)
    BY <1>1, <1>2, <1>3, <1>5 DEF Accumulates, RunningTotals
  <1>7. SumOver(w, Members(e, n)) = f[n]
    BY <1>6, SumEnumerated
  <1>8. \A x \in DOMAIN state : w[x] \in Nat
    BY <1>4 DEF AmountsIn, Balanced, Amount
  <1>9. IsFiniteSet(DOMAIN state) /\ SumOver(w, DOMAIN state) = Supply
    BY <1>4 DEF Balanced
  <1>10. Members(e, n) \subseteq DOMAIN state
    BY <1>1 DEF Members
  <1>11. SumOver(w, Members(e, n)) <= SumOver(w, DOMAIN state)
    BY <1>8, <1>9, <1>10, SumMonotone
  <1> QED
    BY <1>6, <1>7, <1>9, <1>11

LEMMA SeqIsFunction ==
    ASSUME NEW S, NEW s \in Seq(S)
    PROVE  s = [k \in 1 .. Len(s) |-> s[k]]
  OBVIOUS

=============================================================================
