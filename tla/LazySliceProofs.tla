--------------------------- MODULE LazySliceProofs ---------------------------
(***************************************************************************)
(* Proofs about the codec of lazy arrays: what parses is an array of byte  *)
(* strings, and encoding followed by parsing gives the elements back, for  *)
(* any number of elements and any lengths that the prefix can express.     *)
(*                                                                         *)
(* Ends and WriteData are recursive functions over the elements.  What     *)
(* they compute is proved from the well-foundedness of < : there is no     *)
(* least element at which it fails.                                        *)
(***************************************************************************)
EXTENDS LazySlice, SequenceTheorems, WellFoundedInduction, TLAPS

-----------------------------------------------------------------------------
\* A nonempty set of natural numbers has a least element.
LEMMA LeastIndex ==
    ASSUME NEW T, T \subseteq Nat, T # {}
    PROVE  \E x \in T : \A y \in T : ~ (y < x)
  <1>1. PICK x \in T : \A y \in T : ~ (<<y, x>> \in OpToRel(<, Nat))
    BY WFMin, NatLessThanWellFounded
  <1> QED
    BY <1>1 DEF OpToRel

\* g starts with x and applies F, which also depends on the position.
Iterates(g, F, x, n) == g[0] = x /\ \A i \in 1 .. n : g[i] = F[<<i, g[i - 1]>>]

\* A function that is defined from its previous value exists.
LEMMA IterationExists ==
    ASSUME NEW n \in Nat, NEW S, NEW x \in S, NEW F \in [(1 .. n) \X S -> S]
    PROVE  \E g \in [0 .. n -> S] : Iterates(g, F, x, n)
  <1> DEFINE Bad == {k \in 0 .. n : ~ \E g \in [0 .. k -> S] : Iterates(g, F, x, k)}
  <1>1. Bad = {}
    <2> SUFFICES ASSUME Bad # {} PROVE FALSE
      OBVIOUS
    <2>1. Bad \subseteq Nat
      OBVIOUS
    <2>2. PICK k \in Bad : \A l \in Bad : ~ (l < k)
      BY <2>1, LeastIndex
    <2>3. k \in 0 .. n /\ ~ \E g \in [0 .. k -> S] : Iterates(g, F, x, k)
      BY <2>2
    <2>4. CASE k = 0
      <3> DEFINE g == [i \in 0 .. 0 |-> x]
      <3>1. g \in [0 .. 0 -> S] /\ Iterates(g, F, x, 0)
        BY DEF Iterates
      <3> QED
        BY <2>3, <2>4, <3>1
    <2>5. CASE k # 0
      <3>1. k - 1 \in 0 .. n /\ k - 1 < k /\ k \in 1 .. n
        BY <2>3, <2>5
      <3>2. PICK g \in [0 .. k - 1 -> S] : Iterates(g, F, x, k - 1)
        BY <2>2, <3>1
      <3>3. PICK y \in S : y = F[<<k, g[k - 1]>>]
        <4>1. g[k - 1] \in S
          BY <3>1, <3>2
        <4>2. <<k, g[k - 1]>> \in (1 .. n) \X S
          BY <3>1, <4>1
        <4> QED
          BY <4>2
      <3> DEFINE h == [i \in 0 .. k |-> IF i = k THEN y ELSE g[i]]
      <3>4. h \in [0 .. k -> S]
        <4> SUFFICES ASSUME NEW i \in 0 .. k, i # k PROVE g[i] \in S
          OBVIOUS
        <4>1. i \in 0 .. k - 1
          BY <3>1
        <4> QED
          BY <3>2, <4>1
      <3>5. h[0] = x
        BY <2>5, <3>1, <3>2 DEF Iterates
      <3>6. ASSUME NEW i \in 1 .. k
            PROVE  h[i] = F[<<i, h[i - 1]>>]
        <4>1. i - 1 \in 0 .. k /\ i - 1 # k /\ i \in 0 .. k
          BY <3>1
        <4>2. h[i - 1] = g[i - 1]
          BY <4>1
        <4>3. CASE i = k
          BY <3>3, <4>1, <4>2, <4>3
        <4>4. CASE i # k
          <5>1. i \in 1 .. k - 1 /\ h[i] = g[i]
            BY <3>1, <4>1, <4>4
          <5> QED
            BY <3>2, <4>2, <5>1 DEF Iterates
        <4> QED
          BY <4>3, <4>4
      <3> HIDE DEF h
      <3> QED
        BY <2>3, <3>4, <3>5, <3>6 DEF Iterates
    <2> QED
      BY <2>4, <2>5
  <1> QED
    BY <1>1

-----------------------------------------------------------------------------
\* A length field holds a natural number.
LEMMA LengthTyped ==
    ASSUME NEW data \in Seq(Nat), NEW o \in Nat, NEW w \in Nat, o + w <= Len(data)
    PROVE  LengthAt(data, o, w) \in Nat
  <1>1. Base \in Nat /\ Len(data) \in Nat
    BY LazySliceAssumption
  <1>2. \A k \in 1 .. w : data[o + k] \in Nat
    BY <1>1
  <1>3. \A x, y, z \in Nat : x * y + z \in Nat
    OBVIOUS
  <1>4. CASE w = 1
    BY <1>2, <1>4 DEF LengthAt
  <1>5. CASE w = 2
    <2>1. data[o + 1] \in Nat /\ data[o + 2] \in Nat
      BY <1>2, <1>5
    <2>2. LengthAt(data, o, w) = data[o + 1] * Base + data[o + 2]
      BY <1>5 DEF LengthAt
    <2>3. data[o + 1] * Base + data[o + 2] \in Nat
      BY <1>1, <1>3, <2>1, Zenon
    <2> QED
      BY <2>2, <2>3
  <1>6. CASE w = 4
    <2>1. data[o + 1] \in Nat /\ data[o + 2] \in Nat /\ data[o + 3] \in Nat /\ data[o + 4] \in Nat
      BY <1>2, <1>6
    <2>2. LengthAt(data, o, w) =
              ((data[o + 1] * Base + data[o + 2]) * Base + data[o + 3]) * Base + data[o + 4]
      BY <1>6 DEF LengthAt
    <2>3. data[o + 1] * Base + data[o + 2] \in Nat
      BY <1>1, <1>3, <2>1, Zenon
    <2>4. (data[o + 1] * Base + data[o + 2]) * Base + data[o + 3] \in Nat
      BY <1>1, <1>3, <2>1, <2>3, Zenon
    <2>5. ((data[o + 1] * Base + data[o + 2]) * Base + data[o + 3]) * Base + data[o + 4] \in Nat
      BY <1>1, <1>3, <2>1, <2>4, Zenon
    <2> QED
      BY <2>2, <2>5
  <1>7. CASE w \notin {1, 2, 4}
    BY <1>7 DEF LengthAt
  <1> QED
    BY <1>4, <1>5, <1>6, <1>7

\* Where the elements end.
LEMMA EndsRecursion ==
    ASSUME NEW data \in Seq(Nat), NEW w \in Nat, NEW n \in Nat
    PROVE  /\ Ends(data, w, n)[0] = 0
           /\ \A i \in 0 .. n : Ends(data, w, n)[i] \in Nat
           /\ \A i \in 1 .. n :
                  Ends(data, w, n)[i] =
                      IF Ends(data, w, n)[i - 1] + w > Len(data) THEN Len(data) + 1
                      ELSE Ends(data, w, n)[i - 1] + w + LengthAt(data, Ends(data, w, n)[i - 1], w)
  <1>1. Len(data) \in Nat
    OBVIOUS
  <1> DEFINE Step(e) == IF e + w > Len(data) THEN Len(data) + 1 ELSE e + w + LengthAt(data, e, w)
             F == [p \in (1 .. n) \X Nat |-> Step(p[2])]
  <1>2. \A e \in Nat : Step(e) \in Nat
    <2> SUFFICES ASSUME NEW e \in Nat PROVE Step(e) \in Nat
      OBVIOUS
    <2>1. CASE e + w > Len(data)
      BY <1>1, <2>1
    <2>2. CASE e + w <= Len(data)
      <3>1. LengthAt(data, e, w) \in Nat
        BY <2>2, LengthTyped
      <3> QED
        BY <1>1, <2>2, <3>1
    <2> QED
      BY <1>1, <2>1, <2>2
  <1> HIDE DEF Step
  <1>3. F \in [(1 .. n) \X Nat -> Nat]
    BY <1>2
  <1>4. \A i \in 1 .. n, e \in Nat : F[<<i, e>>] = Step(e)
    OBVIOUS
  <1> HIDE DEF F
  <1>5. PICK g \in [0 .. n -> Nat] : Iterates(g, F, 0, n)
    BY <1>3, IterationExists
  <1>6. \A i \in 1 .. n : i - 1 \in 0 .. n
    OBVIOUS
  <1>7. g = [i \in 0 .. n |-> IF i = 0 THEN 0 ELSE Step(g[i - 1])]
    <2>1. \A i \in 1 .. n : g[i] = Step(g[i - 1])
      BY <1>4, <1>5, <1>6 DEF Iterates
    <2>2. g[0] = 0
      BY <1>5 DEF Iterates
    <2> QED
      BY <2>1, <2>2
  <1>8. g = [i \in 0 .. n |->
                IF i = 0 THEN 0
                ELSE IF g[i - 1] + w > Len(data) THEN Len(data) + 1
                ELSE g[i - 1] + w + LengthAt(data, g[i - 1], w)]
    BY <1>7 DEF Step
  <1> DEFINE e == Ends(data, w, n)
  <1>9. e = [i \in 0 .. n |->
                IF i = 0 THEN 0
                ELSE IF e[i - 1] + w > Len(data) THEN Len(data) + 1
                ELSE e[i - 1] + w + LengthAt(data, e[i - 1], w)]
    BY <1>8 DEF Ends
  <1> HIDE DEF e
  <1>10. e[0] = 0 /\ \A i \in 1 .. n : e[i] = Step(e[i - 1])
    BY <1>9 DEF Step
  <1> DEFINE Bad == {i \in 0 .. n : e[i] \notin Nat}
  <1>11. Bad = {}
    <2> SUFFICES ASSUME Bad # {} PROVE FALSE
      OBVIOUS
    <2>1. Bad \subseteq Nat
      OBVIOUS
    <2>2. PICK i \in Bad : \A l \in Bad : ~ (l < i)
      BY <2>1, LeastIndex
    <2>3. i \in 1 .. n /\ i - 1 \in 0 .. n /\ i - 1 < i
      BY <1>10, <2>2
    <2>4. e[i - 1] \in Nat
      BY <2>2, <2>3
    <2> QED
      BY <1>2, <1>10, <2>2, <2>3, <2>4
  <1> QED
    BY <1>10, <1>11 DEF e, Step

\* In data that parses the elements follow each other up to its end.
LEMMA EndsWithin ==
    ASSUME NEW data \in Seq(Nat), NEW w \in Nat, NEW n \in Nat,
           Ends(data, w, n)[n] = Len(data)
    PROVE  \A i \in 1 .. n :
               /\ Ends(data, w, n)[i - 1] \in Nat /\ Ends(data, w, n)[i] \in Nat
               /\ Ends(data, w, n)[i - 1] + w <= Ends(data, w, n)[i]
               /\ Ends(data, w, n)[i] <= Len(data)
               /\ Ends(data, w, n)[i] = Ends(data, w, n)[i - 1] + w
                                            + LengthAt(data, Ends(data, w, n)[i - 1], w)
  <1> DEFINE e == Ends(data, w, n)
  <1>1. /\ Len(data) \in Nat
        /\ e[n] = Len(data) /\ \A i \in 0 .. n : e[i] \in Nat
        /\ \A i \in 1 .. n : e[i] = IF e[i - 1] + w > Len(data) THEN Len(data) + 1
                                    ELSE e[i - 1] + w + LengthAt(data, e[i - 1], w)
    BY EndsRecursion
  <1> HIDE DEF e
  <1>2. ASSUME NEW i \in 0 .. n
        PROVE  e[i] <= Len(data)
    <2> SUFFICES ASSUME e[i] > Len(data) PROVE FALSE
      BY <1>1
    <2> DEFINE T == {k \in i .. n : e[k] <= Len(data)}
    <2>1. T \subseteq Nat /\ n \in T
      BY <1>1
    <2>2. PICK k \in T : \A l \in T : ~ (l < k)
      BY <2>1, LeastIndex
    <2>3. k # i
      BY <1>1, <2>2
    <2>4. k \in 1 .. n /\ k - 1 \in i .. n /\ k - 1 < k /\ k - 1 \in 0 .. n
      BY <2>2, <2>3
    <2>5. e[k - 1] > Len(data)
      BY <1>1, <2>2, <2>4
    <2>6. e[k - 1] + w > Len(data)
      BY <1>1, <2>4, <2>5
    <2>7. e[k] = Len(data) + 1
      BY <1>1, <2>4, <2>6
    <2> QED
      BY <1>1, <2>2, <2>7
  <1>3. ASSUME NEW i \in 1 .. n
        PROVE  /\ e[i - 1] \in Nat /\ e[i] \in Nat
               /\ e[i - 1] + w <= e[i]
               /\ e[i] <= Len(data)
               /\ e[i] = e[i - 1] + w + LengthAt(data, e[i - 1], w)
    <2>1. i - 1 \in 0 .. n /\ i \in 0 .. n
      OBVIOUS
    <2>2. e[i - 1] \in Nat /\ e[i] \in Nat /\ e[i] <= Len(data)
      BY <1>1, <1>2, <2>1
    <2>3. ~ (e[i - 1] + w > Len(data))
      BY <1>1, <2>2
    <2>4. e[i] = e[i - 1] + w + LengthAt(data, e[i - 1], w)
      BY <1>1, <2>3
    <2>5. LengthAt(data, e[i - 1], w) \in Nat
      BY <1>1, <2>2, <2>3, LengthTyped
    <2> QED
      BY <2>2, <2>4, <2>5
  <1> QED
    BY <1>3 DEF e

\* A part of a sequence.
LEMMA Part ==
    ASSUME NEW S, NEW s \in Seq(S), NEW m \in Nat, NEW n \in Nat,
           1 <= m, m <= n + 1, n <= Len(s)
    PROVE  /\ SubSeq(s, m, n) \in Seq(S)
           /\ Len(SubSeq(s, m, n)) = n - m + 1
           /\ \A i \in 1 .. n - m + 1 : SubSeq(s, m, n)[i] = s[m + i - 1]
  <1>1. \A i \in m .. n : s[i] \in S
    OBVIOUS
  <1>2. /\ SubSeq(s, m, n) \in Seq(S)
        /\ Len(SubSeq(s, m, n)) = IF m <= n THEN n - m + 1 ELSE 0
        /\ \A i \in 1 .. n - m + 1 : SubSeq(s, m, n)[i] = s[m + i - 1]
    BY <1>1, SubSeqProperties
  <1> QED
    BY <1>2

\* The data that starts behind a length field of w bytes starts within the body.
LEMMA StartsWithin ==
    ASSUME NEW x \in Nat, NEW w \in Nat, NEW y \in Nat, x + w <= y
    PROVE  x + w + 1 \in Nat /\ 1 <= x + w + 1 /\ x + w + 1 <= y + 1
  OBVIOUS

\* What parses is a sequence of byte strings, as many as the prefix says.
LEMMA ParsedTyped ==
    ASSUME NEW data \in Seq(Nat), NEW max \in Nat, Parses(data, max)
    PROVE  /\ ParseArray(data, max) \in Seq(Seq(Nat))
           /\ Len(ParseArray(data, max)) = data[2]
           /\ data[2] \in Nat /\ data[2] <= max
  <1>1. PICK body : body = SubSeq(data, 3, Len(data))
    OBVIOUS
  <1>2. PICK w : w = DataLenBytes(data[1])
    OBVIOUS
  <1>3. PICK n : n = data[2]
    OBVIOUS
  <1>4. Len(data) \in Nat /\ Len(data) >= 2
    BY DEF Parses
  <1>5. data[1] \in Nat /\ n \in Nat /\ n <= max
    BY <1>3, <1>4 DEF Parses
  <1>6. w \in Nat
    BY <1>2, <1>5 DEF DataLenBytes
  <1>7. body \in Seq(Nat) /\ Len(body) = Len(data) - 2
    <2>1. /\ SubSeq(data, 3, Len(data)) \in Seq(Nat)
          /\ Len(SubSeq(data, 3, Len(data))) = Len(data) - 3 + 1
      <3>1. PICK m \in Nat : m = 3
        OBVIOUS
      <3>2. 1 <= m /\ m <= Len(data) + 1 /\ Len(data) <= Len(data)
        BY <1>4, <3>1
      <3>3. /\ SubSeq(data, m, Len(data)) \in Seq(Nat)
            /\ Len(SubSeq(data, m, Len(data))) = Len(data) - m + 1
        BY <1>4, <3>2, Part
      <3> QED
        BY <3>1, <3>3
    <2> QED
      BY <1>1, <1>4, <2>1
  <1>8. Ends(body, w, n)[n] = Len(body)
    BY <1>1, <1>2, <1>3, <1>7 DEF Parses
  <1>9. PICK e : e = Ends(body, w, n)
    OBVIOUS
  <1>10. ParseArray(data, max) = [i \in 1 .. n |-> SubSeq(body, e[i - 1] + w + 1, e[i])]
    BY <1>1, <1>2, <1>3, <1>9 DEF ParseArray
  <1>11. ASSUME NEW i \in 1 .. n
         PROVE  SubSeq(body, e[i - 1] + w + 1, e[i]) \in Seq(Nat)
    <2>1. /\ e[i - 1] \in Nat /\ e[i] \in Nat
          /\ e[i - 1] + w <= e[i] /\ e[i] <= Len(body)
      BY <1>5, <1>6, <1>7, <1>8, <1>9, EndsWithin
    <2>2. PICK a : a = e[i - 1] + w + 1
      OBVIOUS
    <2>3. a \in Nat /\ 1 <= a /\ a <= e[i] + 1
      BY <1>6, <2>1, <2>2, StartsWithin
    <2>4. SubSeq(body, a, e[i]) \in Seq(Nat)
      BY <1>7, <2>1, <2>3, Part
    <2> QED
      BY <2>2, <2>4
  <1> DEFINE elems == [i \in 1 .. n |-> SubSeq(body, e[i - 1] + w + 1, e[i])]
  <1>12. elems \in [1 .. n -> Seq(Nat)]
    BY <1>11
  <1>13. elems \in Seq(Seq(Nat)) /\ Len(elems) = n
    BY <1>5, <1>12
  <1> QED
    BY <1>3, <1>5, <1>10, <1>13

-----------------------------------------------------------------------------
(***************************************************************************)
(* Arrays in either representation.                                        *)
(***************************************************************************)
IsArray(a) ==
    /\ a = [bytes |-> a.bytes, parsed |-> a.parsed, max |-> a.max]
    /\ a.bytes \in Seq(Nat) \cup {Nil}
    /\ a.parsed \in Seq(Seq(Nat)) \cup {Nil}
    /\ a.max \in Nat
    /\ a.bytes = Nil => a.parsed # Nil

\* The elements of an array, whether it was parsed before or not.
LEMMA ElementsTyped ==
    ASSUME NEW a, IsArray(a), CanParse(a)
    PROVE  Parsed(a) \in Seq(Seq(Nat)) /\ Parsed(a) # Nil
  <1>1. CASE a.parsed # Nil
    BY <1>1 DEF IsArray, Parsed
  <1>2. CASE a.parsed = Nil
    <2>1. a.bytes \in Seq(Nat) /\ a.max \in Nat /\ Parses(a.bytes, a.max)
      BY <1>2 DEF IsArray, CanParse
    <2>2. ParseArray(a.bytes, a.max) \in Seq(Seq(Nat))
      BY <2>1, ParsedTyped
    <2> QED
      BY <1>2, <2>2, LazySliceAssumption DEF Parsed
  <1> QED
    BY <1>1, <1>2

\* ensureParsed shows the same elements.
LEMMA EnsureParsedSame ==
    ASSUME NEW a, IsArray(a), CanParse(a)
    PROVE  /\ IsArray(EnsureParsed(a)) /\ CanParse(EnsureParsed(a))
           /\ Parsed(EnsureParsed(a)) = Parsed(a)
           /\ EnsureParsed(a).parsed = Parsed(a)
           /\ EnsureParsed(a).bytes = a.bytes /\ EnsureParsed(a).max = a.max
  <1>1. Parsed(a) \in Seq(Seq(Nat)) /\ Parsed(a) # Nil
    BY ElementsTyped
  <1>2. EnsureParsed(a) = [bytes |-> a.bytes, parsed |-> Parsed(a), max |-> a.max]
    BY DEF EnsureParsed, IsArray
  <1>3. /\ EnsureParsed(a).parsed = Parsed(a)
        /\ EnsureParsed(a).bytes = a.bytes /\ EnsureParsed(a).max = a.max
    BY <1>2
  <1>4. IsArray(EnsureParsed(a))
    BY <1>1, <1>2, <1>3 DEF IsArray
  <1>5. CanParse(EnsureParsed(a)) /\ Parsed(EnsureParsed(a)) = EnsureParsed(a).parsed
    BY <1>1, <1>3 DEF CanParse, Parsed
  <1> QED
    BY <1>3, <1>4, <1>5

\* An array that is made from bytes.
LEMMA FromBytes ==
    ASSUME NEW d \in Seq(Nat), NEW max \in Nat
    PROVE  /\ IsArray(ArrayFromBytes(d, max))
           /\ ArrayFromBytes(d, max).bytes = d /\ ArrayFromBytes(d, max).parsed = Nil
           /\ ArrayFromBytes(d, max).max = max
           /\ CanParse(ArrayFromBytes(d, max)) <=> Parses(d, max)
           /\ Parsed(ArrayFromBytes(d, max)) = ParseArray(d, max)
  BY LazySliceAssumption DEF ArrayFromBytes, IsArray, CanParse, Parsed

\* Assigning the two representations of an array, field by field.
LEMMA FieldsReplaced ==
    ASSUME NEW a, NEW b, NEW p, NEW m, a = [bytes |-> b, parsed |-> p, max |-> m], NEW q, NEW c
    PROVE  [[a EXCEPT !.parsed = q] EXCEPT !.bytes = c] = [bytes |-> c, parsed |-> q, max |-> m]
  <1>1. PICK r : r = [a EXCEPT !.parsed = q]
    OBVIOUS
  <1>2. r = [bytes |-> b, parsed |-> q, max |-> m]
    BY <1>1
  <1>3. [r EXCEPT !.bytes = c] = [bytes |-> c, parsed |-> q, max |-> m]
    BY <1>2
  <1> QED
    BY <1>1, <1>3, Zenon

\* Writing elements replaces both representations.
LEMMA NewElements ==
    ASSUME NEW a, IsArray(a), NEW elems \in Seq(Seq(Nat))
    PROVE  /\ IsArray(WithElements(a, elems))
           /\ WithElements(a, elems).parsed = elems /\ WithElements(a, elems).bytes = Nil
           /\ WithElements(a, elems).max = a.max
           /\ CanParse(WithElements(a, elems)) /\ Parsed(WithElements(a, elems)) = elems
  <1>1. WithElements(a, elems) = [bytes |-> Nil, parsed |-> elems, max |-> a.max]
    <2>1. a = [bytes |-> a.bytes, parsed |-> a.parsed, max |-> a.max]
      BY DEF IsArray
    <2>2. WithElements(a, elems) = [[a EXCEPT !.parsed = elems] EXCEPT !.bytes = Nil]
      BY DEF WithElements
    <2> QED
      BY <2>1, <2>2, FieldsReplaced, Zenon
  <1>2. elems # Nil
    BY LazySliceAssumption
  <1>3. /\ WithElements(a, elems).parsed = elems /\ WithElements(a, elems).bytes = Nil
        /\ WithElements(a, elems).max = a.max
    BY <1>1
  <1>4. IsArray(WithElements(a, elems))
    BY <1>1, <1>2, <1>3 DEF IsArray
  <1> QED
    BY <1>2, <1>3, <1>4 DEF CanParse, Parsed

\* PutAtIdx is possible only in an array that was parsed before.
LEMMA PutParsed ==
    ASSUME NEW a, IsArray(a), NEW i \in Nat, CanPut(a, i), NEW d \in Seq(Nat)
    PROVE  /\ a.parsed # Nil /\ Parsed(a) = a.parsed /\ CanParse(a)
           /\ a.parsed \in Seq(Seq(Nat)) /\ i + 1 \in 1 .. Len(a.parsed)
           /\ [a.parsed EXCEPT ![i + 1] = d] \in Seq(Seq(Nat))
           /\ Len([a.parsed EXCEPT ![i + 1] = d]) = Len(a.parsed)
           /\ \A k \in 1 .. Len(a.parsed) :
                  [a.parsed EXCEPT ![i + 1] = d][k] = IF k = i + 1 THEN d ELSE a.parsed[k]
           /\ PutIn(a, i, d) = WithElements(a, [a.parsed EXCEPT ![i + 1] = d])
  <1>1. a.parsed # Nil
    BY DEF CanPut, NumParsed
  <1>2. a.parsed \in Seq(Seq(Nat)) /\ i < Len(a.parsed) /\ Len(a.parsed) \in Nat
    BY <1>1 DEF CanPut, NumParsed, IsArray
  <1>3. i + 1 \in 1 .. Len(a.parsed)
    BY <1>2
  <1>4. PICK k \in 1 .. Len(a.parsed) : k = i + 1
    BY <1>3
  <1>5. /\ [a.parsed EXCEPT ![k] = d] \in Seq(Seq(Nat))
        /\ Len([a.parsed EXCEPT ![k] = d]) = Len(a.parsed)
        /\ \A j \in 1 .. Len(a.parsed) : [a.parsed EXCEPT ![k] = d][j] = IF j = k THEN d ELSE a.parsed[j]
    BY <1>2, ExceptSeq
  <1> QED
    BY <1>1, <1>2, <1>3, <1>4, <1>5 DEF Parsed, CanParse, PutIn

\* Push appends to the elements, which are parsed first.
LEMMA PushParsed ==
    ASSUME NEW a, IsArray(a), CanPush(a), NEW d \in Seq(Nat)
    PROVE  /\ CanParse(a) /\ Parsed(a) \in Seq(Seq(Nat)) /\ Len(Parsed(a)) \in Nat
           /\ Append(Parsed(a), d) \in Seq(Seq(Nat))
           /\ Len(Append(Parsed(a), d)) = Len(Parsed(a)) + 1
           /\ \A k \in 1 .. Len(Parsed(a)) : Append(Parsed(a), d)[k] = Parsed(a)[k]
           /\ Append(Parsed(a), d)[Len(Parsed(a)) + 1] = d
           /\ PushTo(a, d) = WithElements(a, Append(Parsed(a), d))
  <1>1. CanParse(a)
    BY DEF CanPush
  <1>2. PICK p \in Seq(Seq(Nat)) : p = Parsed(a)
    BY <1>1, ElementsTyped
  <1>3. /\ Append(p, d) \in Seq(Seq(Nat)) /\ Len(Append(p, d)) = Len(p) + 1
        /\ \A k \in 1 .. Len(p) : Append(p, d)[k] = p[k]
        /\ Append(p, d)[Len(p) + 1] = d /\ Len(p) \in Nat
    BY AppendProperties
  <1> QED
    BY <1>1, <1>2, <1>3 DEF PushTo

-----------------------------------------------------------------------------
(***************************************************************************)
(* Length fields.                                                          *)
(***************************************************************************)
\* Quotient and remainder.
LEMMA DivMod ==
    ASSUME NEW b \in Nat, b > 0, NEW n \in Nat
    PROVE  /\ n \div b \in Nat /\ n % b \in 0 .. b - 1
           /\ n = (n \div b) * b + (n % b)
  OBVIOUS

\* The quotient of a number below b * m is below m.
LEMMA QuotientBound ==
    ASSUME NEW b \in Nat, b > 0, NEW m \in Nat, NEW n \in Nat, n < b * m
    PROVE  n \div b < m
  <1>1. PICK q \in Nat : q = n \div b
    BY DivMod
  <1>2. PICK r \in Nat : r = n % b
    BY DivMod
  <1>3. n = q * b + r
    BY <1>1, <1>2, DivMod
  <1> SUFFICES ASSUME q >= m PROVE FALSE
    BY <1>1
  <1>4. PICK d \in Nat : q = m + d
    <2>1. q - m \in Nat /\ q = m + (q - m)
      OBVIOUS
    <2> QED
      BY <2>1
  <1>5. d * b \in Nat /\ b * m \in Nat /\ (m + d) * b = b * m + d * b
    OBVIOUS
  <1> QED
    BY <1>3, <1>4, <1>5

Base2 == Base * Base
Base4 == Base * Base * Base * Base

\* The highest length that a field of w bytes can hold.
FieldLimit(w) == CASE w = 1 -> Base [] w = 2 -> Base2 [] w = 4 -> Base4 [] OTHER -> 1

\* A length field has w bytes.
LEMMA FieldTyped ==
    ASSUME NEW n \in Nat, NEW w \in {1, 2, 4}
    PROVE  BigEndian(n, w) \in Seq(Nat) /\ Len(BigEndian(n, w)) = w
  <1>1. Base \in Nat /\ Base > 0
    BY LazySliceAssumption
  <1>2. High(n) \in Nat /\ n % Base \in Nat
    BY <1>1, DivMod DEF High
  <1>3. High(High(n)) \in Nat /\ High(n) % Base \in Nat
    BY <1>1, <1>2, DivMod DEF High
  <1>4. High(High(High(n))) \in Nat /\ High(High(n)) % Base \in Nat
    BY <1>1, <1>3, DivMod DEF High
  <1>5. High(High(High(n))) % Base \in Nat
    BY <1>1, <1>4, DivMod
  <1> QED
    BY <1>2, <1>3, <1>4, <1>5 DEF BigEndian

\* What binary.BigEndian.PutUint* writes is what Uint* reads.
LEMMA FieldRoundTrip ==
    ASSUME NEW data \in Seq(Nat), NEW o \in Nat, NEW w \in {1, 2, 4}, NEW n \in Nat,
           n < FieldLimit(w), o + w <= Len(data),
           \A k \in 1 .. w : data[o + k] = BigEndian(n, w)[k]
    PROVE  LengthAt(data, o, w) = n
  <1>1. Base \in Nat /\ Base > 0
    BY LazySliceAssumption
  <1>2. \A m \in Nat : High(m) \in Nat /\ m = High(m) * Base + (m % Base)
    BY <1>1, DivMod DEF High
  <1>3. \A m \in Nat : m < Base => m % Base = m
    BY <1>1
  <1>4. CASE w = 1
    <2>1. n < Base
      BY <1>4 DEF FieldLimit
    <2>2. BigEndian(n, w) = <<n % Base>> /\ LengthAt(data, o, w) = data[o + 1]
      BY <1>4 DEF BigEndian, LengthAt
    <2>3. data[o + 1] = BigEndian(n, w)[1]
      BY <1>4
    <2> QED
      BY <1>3, <2>1, <2>2, <2>3
  <1>5. CASE w = 2
    <2>1. n < Base * Base
      BY <1>5 DEF FieldLimit, Base2
    <2>2. High(n) < Base
      BY <1>1, <2>1, QuotientBound DEF High
    <2>3. /\ BigEndian(n, w) = <<High(n) % Base, n % Base>>
          /\ LengthAt(data, o, w) = data[o + 1] * Base + data[o + 2]
      BY <1>5 DEF BigEndian, LengthAt
    <2>4. data[o + 1] = High(n) % Base /\ data[o + 2] = n % Base
      BY <1>5, <2>3
    <2>5. High(n) % Base = High(n)
      BY <1>2, <1>3, <2>2
    <2> QED
      BY <1>2, <2>3, <2>4, <2>5
  <1>6. CASE w = 4
    <2>1. PICK h \in Nat : h = High(n)
      BY <1>2
    <2>2. PICK hh \in Nat : hh = High(h)
      BY <1>2
    <2>3. PICK hhh \in Nat : hhh = High(hh)
      BY <1>2
    <2>4. hhh < Base
      <3>1. n < Base * (Base * (Base * Base))
        <4>1. Base * Base * Base * Base = Base * (Base * (Base * Base))
          BY <1>1
        <4> QED
          BY <1>6, <4>1 DEF FieldLimit, Base4
      <3>2. Base * Base \in Nat /\ Base * (Base * Base) \in Nat
        BY <1>1
      <3>3. h < Base * (Base * Base)
        BY <1>1, <2>1, <3>1, <3>2, QuotientBound DEF High
      <3>4. hh < Base * Base
        BY <1>1, <2>2, <3>2, <3>3, QuotientBound DEF High
      <3> QED
        BY <1>1, <2>3, <3>4, QuotientBound DEF High
    <2>5. /\ BigEndian(n, w) = <<hhh % Base, hh % Base, h % Base, n % Base>>
          /\ LengthAt(data, o, w) =
                 ((data[o + 1] * Base + data[o + 2]) * Base + data[o + 3]) * Base + data[o + 4]
      BY <1>6, <2>1, <2>2, <2>3 DEF BigEndian, LengthAt
    <2>6. /\ data[o + 1] = hhh % Base /\ data[o + 2] = hh % Base
          /\ data[o + 3] = h % Base /\ data[o + 4] = n % Base
      BY <1>6, <2>5
    <2>7. data[o + 1] * Base + data[o + 2] = hh
      BY <1>2, <1>3, <2>3, <2>4, <2>6
    <2>8. (data[o + 1] * Base + data[o + 2]) * Base + data[o + 3] = h
      BY <1>2, <2>2, <2>6, <2>7
    <2>9. ((data[o + 1] * Base + data[o + 2]) * Base + data[o + 3]) * Base + data[o + 4] = n
      BY <1>2, <2>1, <2>6, <2>8
    <2> QED
      BY <2>5, <2>9
  <1> QED
    BY <1>4, <1>5, <1>6

\* The code of the width of an element has room for its length, and so has
\* every wider field.
LEMMA WidthFits ==
    ASSUME NEW d \in Seq(Nat), Len(d) < Base4, NEW c \in 0 .. 3, WidthCode(d) <= c
    PROVE  /\ c > 0 => Len(d) < FieldLimit(DataLenBytes(c)) /\ DataLenBytes(c) \in {1, 2, 4}
           /\ c = 0 => d = <<>>
  <1>1. Base \in Nat /\ Base > 1 /\ Len(d) \in Nat
    BY LazySliceAssumption
  <1>2. Base * Base \in Nat /\ Base < Base * Base
    BY <1>1
  <1>3. PICK b \in Nat : b = Base * Base
    BY <1>2
  <1>4. FieldLimit(1) = Base /\ FieldLimit(2) = b /\ FieldLimit(4) = Base4
    BY <1>3 DEF FieldLimit, Base2
  <1>5. /\ Len(d) > b - 1 => WidthCode(d) = 3
        /\ Len(d) <= b - 1 /\ Len(d) > Base - 1 => WidthCode(d) = 2
        /\ Len(d) <= b - 1 /\ Len(d) <= Base - 1 /\ Len(d) > 0 => WidthCode(d) = 1
    BY <1>1, <1>3 DEF WidthCode
  <1>6. CASE c = 0
    <2>1. Len(d) = 0
      BY <1>1, <1>2, <1>3, <1>5, <1>6
    <2> QED
      BY <1>6, <2>1
  <1>7. CASE c = 1
    BY <1>1, <1>2, <1>3, <1>4, <1>5, <1>7 DEF DataLenBytes
  <1>8. CASE c = 2
    BY <1>1, <1>2, <1>3, <1>4, <1>5, <1>8 DEF DataLenBytes
  <1>9. CASE c = 3
    BY <1>4, <1>9 DEF DataLenBytes
  <1> QED
    BY <1>6, <1>7, <1>8, <1>9

-----------------------------------------------------------------------------
(***************************************************************************)
(* What is written is read back.                                           *)
(***************************************************************************)
\* s starts with p.
Extends(s, p) == Len(p) <= Len(s) /\ \A k \in 1 .. Len(p) : s[k] = p[k]

\* One element more in the written data.
Appended(s, d, w) == s \o BigEndian(Len(d), w) \o d

IsAppended(u, s, d, w) ==
    /\ Len(u) = Len(s) + w + Len(d)
    /\ \A k \in 1 .. w : u[Len(s) + k] = BigEndian(Len(d), w)[k]
    /\ \A k \in 1 .. Len(d) : u[Len(s) + w + k] = d[k]

LEMMA Concatenated ==
    ASSUME NEW s \in Seq(Nat), NEW d \in Seq(Nat)
    PROVE  /\ s \o d \in Seq(Nat) /\ Len(s \o d) = Len(s) + Len(d)
           /\ \A k \in 1 .. Len(s) : (s \o d)[k] = s[k]
           /\ \A k \in 1 .. Len(d) : (s \o d)[Len(s) + k] = d[k]
  <1>1. /\ s \o d \in Seq(Nat) /\ Len(s \o d) = Len(s) + Len(d)
        /\ \A i \in 1 .. Len(s) + Len(d) :
               (s \o d)[i] = IF i <= Len(s) THEN s[i] ELSE d[i - Len(s)]
    BY ConcatProperties
  <1>2. Len(s) \in Nat /\ Len(d) \in Nat
    BY LenProperties
  <1>3. PICK m \in Nat, n \in Nat : m = Len(s) /\ n = Len(d)
    BY <1>2, Zenon
  <1>4. PICK u : u = s \o d
    OBVIOUS
  <1>5. \A i \in 1 .. m + n : u[i] = IF i <= m THEN s[i] ELSE d[i - m]
    BY <1>1, <1>3, <1>4, Zenon
  <1>6. ASSUME NEW k \in 1 .. m
        PROVE  u[k] = s[k]
    BY <1>3, <1>5
  <1>7. ASSUME NEW k \in 1 .. n
        PROVE  u[m + k] = d[k]
    <2>1. m + k \in 1 .. m + n /\ ~(m + k <= m) /\ (m + k) - m = k
      BY <1>3
    <2> QED
      BY <1>5, <2>1
  <1> QED
    BY <1>1, <1>3, <1>4, <1>6, <1>7, Zenon

LEMMA AppendedProperties ==
    ASSUME NEW s \in Seq(Nat), NEW d \in Seq(Nat), NEW w \in {1, 2, 4}
    PROVE  /\ Appended(s, d, w) \in Seq(Nat)
           /\ Extends(Appended(s, d, w), s)
           /\ IsAppended(Appended(s, d, w), s, d, w)
  <1>2. Len(d) \in Nat
    OBVIOUS
  <1>3. PICK b \in Seq(Nat) : b = BigEndian(Len(d), w) /\ Len(b) = w
    BY <1>2, FieldTyped
  <1>4. PICK t \in Seq(Nat) : t = s \o b
    <2>1. s \o b \in Seq(Nat)
      OBVIOUS
    <2> QED
      BY <2>1
  <1>5. /\ Len(t) = Len(s) + w
        /\ \A k \in 1 .. Len(s) : t[k] = s[k]
        /\ \A k \in 1 .. w : t[Len(s) + k] = b[k]
    <2>1. /\ Len(s \o b) = Len(s) + Len(b)
          /\ \A k \in 1 .. Len(s) : (s \o b)[k] = s[k]
          /\ \A k \in 1 .. Len(b) : (s \o b)[Len(s) + k] = b[k]
      BY Concatenated, Zenon
    <2> QED
      BY <1>3, <1>4, <2>1, Zenon
  <1>6. PICK u \in Seq(Nat) : u = t \o d
    <2>1. t \o d \in Seq(Nat)
      OBVIOUS
    <2> QED
      BY <2>1
  <1>7. /\ Len(u) = Len(t) + Len(d)
        /\ \A k \in 1 .. Len(t) : u[k] = t[k]
        /\ \A k \in 1 .. Len(d) : u[Len(t) + k] = d[k]
    <2>1. /\ Len(t \o d) = Len(t) + Len(d)
          /\ \A k \in 1 .. Len(t) : (t \o d)[k] = t[k]
          /\ \A k \in 1 .. Len(d) : (t \o d)[Len(t) + k] = d[k]
      BY Concatenated, Zenon
    <2> QED
      BY <1>6, <2>1, Zenon
  <1>8. /\ Len(u) = Len(s) + w + Len(d)
        /\ \A k \in 1 .. Len(s) : u[k] = s[k]
        /\ \A k \in 1 .. w : u[Len(s) + k] = b[k]
        /\ \A k \in 1 .. Len(d) : u[Len(s) + w + k] = d[k]
    <2>1. Len(s) \in Nat /\ Len(d) \in Nat /\ Len(t) = Len(s) + w
      BY <1>5
    <2>2. \A k \in 1 .. Len(s) : k \in 1 .. Len(t)
      BY <2>1
    <2>3. \A k \in 1 .. w : Len(s) + k \in 1 .. Len(t)
      BY <2>1
    <2>4. \A k \in 1 .. w : u[Len(s) + k] = b[k]
      BY <1>5, <1>7, <2>3
    <2>5. \A k \in 1 .. Len(s) : u[k] = s[k]
      BY <1>5, <1>7, <2>2
    <2>6. \A k \in 1 .. Len(d) : u[Len(s) + w + k] = d[k]
      BY <1>7, <2>1
    <2> QED
      BY <1>7, <2>1, <2>4, <2>5, <2>6
  <1>9. u = Appended(s, d, w)
    BY <1>3, <1>4, <1>6 DEF Appended
  <1>10. Extends(u, s)
    <2>1. Len(s) \in Nat /\ w \in Nat
      OBVIOUS
    <2>2. Len(s) <= Len(s) + w + Len(d)
      BY <1>2, <2>1
    <2> QED
      BY <1>8, <2>2 DEF Extends
  <1>11. IsAppended(u, s, d, w)
    BY <1>3, <1>8 DEF IsAppended
  <1> QED
    BY <1>9, <1>10, <1>11

\* The stages of writing the elements one after the other.
LEMMA WriteRecursion ==
    ASSUME NEW elems \in Seq(Seq(Nat)), NEW w \in {1, 2, 4}
    PROVE  \E f : /\ \A i \in 0 .. Len(elems) : f[i] \in Seq(Nat)
                  /\ f[0] = <<>>
                  /\ \A i \in 1 .. Len(elems) : f[i] = Appended(f[i - 1], elems[i], w)
                  /\ WriteData(elems, w) = f[Len(elems)]
  <1>1. PICK n \in Nat : n = Len(elems)
    OBVIOUS
  <1> DEFINE Step(i, s) == Appended(s, elems[i], w)
             F == [p \in (1 .. n) \X Seq(Nat) |-> Step(p[1], p[2])]
  <1>2. \A i \in 1 .. n, s \in Seq(Nat) : Step(i, s) \in Seq(Nat)
    <2> SUFFICES ASSUME NEW i \in 1 .. n, NEW s \in Seq(Nat) PROVE Step(i, s) \in Seq(Nat)
      OBVIOUS
    <2>1. elems[i] \in Seq(Nat)
      BY <1>1
    <2> QED
      BY <2>1, AppendedProperties, Zenon
  <1> HIDE DEF Step
  <1>3. F \in [(1 .. n) \X Seq(Nat) -> Seq(Nat)]
    BY <1>2
  <1>4. \A i \in 1 .. n, s \in Seq(Nat) : F[<<i, s>>] = Step(i, s)
    OBVIOUS
  <1> HIDE DEF F
  <1>5. PICK g \in [0 .. n -> Seq(Nat)] : Iterates(g, F, <<>>, n)
    <2>1. PICK x \in Seq(Nat) : x = <<>>
      <3>1. <<>> \in Seq(Nat)
        OBVIOUS
      <3> QED
        BY <3>1
    <2>2. \E g \in [0 .. n -> Seq(Nat)] : Iterates(g, F, x, n)
      BY <1>3, IterationExists
    <2> QED
      BY <2>1, <2>2
  <1>6. \A i \in 1 .. n : i - 1 \in 0 .. n
    OBVIOUS
  <1>7. g = [i \in 0 .. n |-> IF i = 0 THEN <<>> ELSE Step(i, g[i - 1])]
    <2>1. \A i \in 1 .. n : g[i] = Step(i, g[i - 1])
      BY <1>4, <1>5, <1>6 DEF Iterates
    <2>2. g[0] = <<>>
      BY <1>5 DEF Iterates
    <2> QED
      BY <2>1, <2>2
  <1> DEFINE IsStages(h) ==
                 h = [i \in 0 .. Len(elems) |->
                        IF i = 0 THEN <<>> ELSE h[i - 1] \o BigEndian(Len(elems[i]), w) \o elems[i]]
             f == CHOOSE h : IsStages(h)
  <1>8. IsStages(g)
    BY <1>1, <1>7 DEF Step, Appended
  <1>9. IsStages(f)
    BY <1>8
  <1>10. WriteData(elems, w) = f[Len(elems)]
    <2>1. w # 0
      OBVIOUS
    <2> QED
      BY <2>1, Zenon DEF WriteData
  <1> HIDE DEF f
  <1>11. f[0] = <<>> /\ \A i \in 1 .. n : f[i] = Step(i, f[i - 1])
    BY <1>1, <1>9 DEF Step, Appended
  <1> DEFINE Bad == {i \in 0 .. n : f[i] \notin Seq(Nat)}
  <1>12. Bad = {}
    <2> SUFFICES ASSUME Bad # {} PROVE FALSE
      OBVIOUS
    <2>1. Bad \subseteq Nat
      OBVIOUS
    <2>2. PICK i \in Bad : \A l \in Bad : ~ (l < i)
      BY <2>1, LeastIndex
    <2>3. i \in 1 .. n /\ i - 1 \in 0 .. n /\ i - 1 < i
      <3>1. <<>> \in Seq(Nat)
        OBVIOUS
      <3>2. i # 0
        BY <1>11, <2>2, <3>1, Zenon
      <3> QED
        BY <2>2, <3>2
    <2>4. f[i - 1] \in Seq(Nat)
      BY <2>2, <2>3
    <2> QED
      BY <1>2, <1>11, <2>2, <2>3, <2>4
  <1> QED
    BY <1>1, <1>10, <1>11, <1>12 DEF Step

\* A set of width codes has a greatest one.
LEMMA GreatestCode ==
    ASSUME NEW S \in SUBSET (0 .. 3), 0 \in S
    PROVE  \E x \in S : \A y \in S : x >= y
  <1>1. CASE 3 \in S
    BY <1>1
  <1>2. CASE 3 \notin S /\ 2 \in S
    BY <1>2
  <1>3. CASE 3 \notin S /\ 2 \notin S /\ 1 \in S
    BY <1>3
  <1>4. CASE 3 \notin S /\ 2 \notin S /\ 1 \notin S
    BY <1>4
  <1> QED
    BY <1>1, <1>2, <1>3, <1>4

\* All the length fields have the width of the longest element.
LEMMA PrefixProperties ==
    ASSUME NEW elems \in Seq(Seq(Nat))
    PROVE  /\ CalcLenPrefix(elems) \in Seq(Nat) /\ Len(CalcLenPrefix(elems)) = 2
           /\ CalcLenPrefix(elems)[1] \in 0 .. 3
           /\ CalcLenPrefix(elems)[2] = Len(elems)
           /\ \A i \in 1 .. Len(elems) : WidthCode(elems[i]) <= CalcLenPrefix(elems)[1]
  <1>1. Len(elems) \in Nat
    OBVIOUS
  <1>2. \A i \in 1 .. Len(elems) : WidthCode(elems[i]) \in 0 .. 3
    <2> SUFFICES ASSUME NEW i \in 1 .. Len(elems) PROVE WidthCode(elems[i]) \in 0 .. 3
      OBVIOUS
    <2>1. PICK b \in Nat : b = Base * Base
      BY LazySliceAssumption
    <2>2. Len(elems[i]) \in Nat
      OBVIOUS
    <2> QED
      BY <2>1, <2>2, LazySliceAssumption DEF WidthCode
  <1>3. PICK S : S = {0} \cup {WidthCode(elems[i]) : i \in 1 .. Len(elems)}
    OBVIOUS
  <1>4. S \subseteq 0 .. 3 /\ 0 \in S /\ \A i \in 1 .. Len(elems) : WidthCode(elems[i]) \in S
    BY <1>2, <1>3
  <1>5. \E x \in S : \A y \in S : x >= y
    BY <1>4, GreatestCode
  <1>6. Max(S) \in S /\ \A y \in S : Max(S) >= y
    BY <1>5 DEF Max
  <1>7. CalcLenPrefix(elems) = <<Max(S), Len(elems)>>
    BY <1>3 DEF CalcLenPrefix
  <1>8. PICK m \in 0 .. 3 : m = Max(S)
    BY <1>4, <1>6
  <1>9. CalcLenPrefix(elems) = <<m, Len(elems)>>
    BY <1>7, <1>8
  <1>10. \A i \in 1 .. Len(elems) : WidthCode(elems[i]) <= m
    BY <1>4, <1>6, <1>8
  <1> QED
    BY <1>1, <1>9, <1>10

\* Where the code fails to write, it returns an error before it starts.
Fits(elems, c) ==
    \A i \in 1 .. Len(elems) : WidthCode(elems[i]) <= c /\ Len(elems[i]) < Base4

\* Without length fields all the elements are empty, and read as empty.
LEMMA EmptyReadBack ==
    ASSUME NEW elems \in Seq(Seq(Nat)), Fits(elems, 0)
    PROVE  /\ WriteData(elems, 0) = <<>>
           /\ Ends(<<>>, 0, Len(elems))[Len(elems)] = 0
           /\ \A i \in 1 .. Len(elems) :
                  /\ elems[i] = <<>>
                  /\ Ends(<<>>, 0, Len(elems))[i - 1] = 0 /\ Ends(<<>>, 0, Len(elems))[i] = 0
  <1>1. WriteData(elems, 0) = <<>>
    BY DEF WriteData
  <1>2. ASSUME NEW i \in 1 .. Len(elems) PROVE elems[i] = <<>>
    <2>1. elems[i] \in Seq(Nat) /\ WidthCode(elems[i]) <= 0 /\ Len(elems[i]) < Base4
      BY DEF Fits
    <2> QED
      BY <2>1, WidthFits
  <1>3. PICK n \in Nat : n = Len(elems)
    OBVIOUS
  <1>4. PICK data \in Seq(Nat) : data = <<>>
    <2>1. <<>> \in Seq(Nat)
      OBVIOUS
    <2> QED
      BY <2>1
  <1>5. PICK e : e = Ends(data, 0, n)
    OBVIOUS
  <1>6. /\ e[0] = 0
        /\ \A i \in 0 .. n : e[i] \in Nat
        /\ \A i \in 1 .. n : e[i] = IF e[i - 1] + 0 > Len(data) THEN Len(data) + 1
                                    ELSE e[i - 1] + 0 + LengthAt(data, e[i - 1], 0)
    BY <1>5, EndsRecursion
  <1>7. Len(data) = 0 /\ \A o \in Nat : LengthAt(data, o, 0) = 0
    BY <1>4 DEF LengthAt
  <1> DEFINE Bad == {i \in 0 .. n : e[i] # 0}
  <1>8. Bad = {}
    <2> SUFFICES ASSUME Bad # {} PROVE FALSE
      OBVIOUS
    <2>1. Bad \subseteq Nat
      OBVIOUS
    <2>2. PICK i \in Bad : \A l \in Bad : ~ (l < i)
      BY <2>1, LeastIndex
    <2>3. i \in 1 .. n /\ i - 1 \in 0 .. n /\ i - 1 < i
      BY <1>6, <2>2
    <2>4. e[i - 1] = 0
      BY <2>2, <2>3
    <2>5. e[i] = 0
      <3>1. ~ (0 + 0 > Len(data)) /\ LengthAt(data, 0, 0) = 0
        BY <1>7
      <3>2. e[i] = 0 + 0 + LengthAt(data, 0, 0)
        BY <1>6, <2>3, <2>4, <3>1
      <3> QED
        BY <3>1, <3>2
    <2> QED
      BY <2>2, <2>5
  <1>9. \A i \in 0 .. n : e[i] = 0
    BY <1>8
  <1>10. \A i \in 1 .. n : e[i] = 0 /\ e[i - 1] = 0
    BY <1>9
  <1> QED
    BY <1>1, <1>2, <1>3, <1>4, <1>5, <1>9, <1>10

LEMMA ExtendsTransitive ==
    ASSUME NEW s \in Seq(Nat), NEW t \in Seq(Nat), NEW u \in Seq(Nat), Extends(s, t), Extends(t, u)
    PROVE  Extends(s, u)
  <1>1. Len(s) \in Nat /\ Len(t) \in Nat /\ Len(u) \in Nat
    OBVIOUS
  <1>2. Len(u) <= Len(t) /\ Len(t) <= Len(s)
    BY DEF Extends
  <1>3. \A k \in 1 .. Len(u) : k \in 1 .. Len(t)
    BY <1>1, <1>2
  <1>4. \A k \in 1 .. Len(u) : s[k] = u[k]
    BY <1>3 DEF Extends
  <1> QED
    BY <1>1, <1>2, <1>4 DEF Extends

\* Every stage of writing is the beginning of the data.
LEMMA StagesExtend ==
    ASSUME NEW elems \in Seq(Seq(Nat)), NEW w \in {1, 2, 4}, NEW f,
           \A i \in 0 .. Len(elems) : f[i] \in Seq(Nat),
           \A i \in 1 .. Len(elems) : f[i] = Appended(f[i - 1], elems[i], w),
           NEW i \in 0 .. Len(elems)
    PROVE  Extends(f[Len(elems)], f[i])
  <1>1. PICK n \in Nat : n = Len(elems)
    OBVIOUS
  <1> DEFINE Bad == {j \in i .. n : ~ Extends(f[j], f[i])}
  <1>2. Bad = {}
    <2> SUFFICES ASSUME Bad # {} PROVE FALSE
      OBVIOUS
    <2>1. Bad \subseteq Nat
      BY <1>1
    <2>2. PICK j \in Bad : \A l \in Bad : ~ (l < j)
      BY <2>1, LeastIndex
    <2>3. f[i] \in Seq(Nat) /\ Extends(f[i], f[i])
      BY DEF Extends
    <2>4. j # i
      BY <2>2, <2>3
    <2>5. j \in 1 .. n /\ j - 1 \in i .. n /\ j - 1 < j /\ j - 1 \in 0 .. n
      BY <1>1, <2>2, <2>4
    <2>6. Extends(f[j - 1], f[i])
      BY <2>2, <2>5
    <2>7. f[j - 1] \in Seq(Nat) /\ f[j] \in Seq(Nat)
      BY <1>1, <2>5
    <2>8. f[j] = Appended(f[j - 1], elems[j], w) /\ elems[j] \in Seq(Nat)
      BY <1>1, <2>5
    <2>9. Extends(f[j], f[j - 1])
      <3>1. elems[j] \in Seq(Nat)
        BY <2>8
      <3>2. Extends(Appended(f[j - 1], elems[j], w), f[j - 1])
        BY <2>7, <3>1, AppendedProperties, Zenon
      <3> QED
        BY <2>8, <3>2, Zenon
    <2>10. Extends(f[j], f[i])
      BY <2>3, <2>6, <2>7, <2>9, ExtendsTransitive, Zenon
    <2> QED
      BY <2>2, <2>10
  <1>3. n \in i .. n
    BY <1>1
  <1> QED
    BY <1>1, <1>2, <1>3

\* The elements are read where they were written.
LEMMA FieldsReadBack ==
    ASSUME NEW elems \in Seq(Seq(Nat)), NEW c \in 1 .. 3, Fits(elems, c)
    PROVE  /\ WriteData(elems, DataLenBytes(c)) \in Seq(Nat)
           /\ Ends(WriteData(elems, DataLenBytes(c)), DataLenBytes(c), Len(elems))[Len(elems)]
                  = Len(WriteData(elems, DataLenBytes(c)))
           /\ \A i \in 1 .. Len(elems) :
                  SubSeq(WriteData(elems, DataLenBytes(c)),
                         Ends(WriteData(elems, DataLenBytes(c)), DataLenBytes(c), Len(elems))[i - 1]
                             + DataLenBytes(c) + 1,
                         Ends(WriteData(elems, DataLenBytes(c)), DataLenBytes(c), Len(elems))[i])
                      = elems[i]
  <1>1. PICK n \in Nat : n = Len(elems)
    OBVIOUS
  <1>2. PICK w \in {1, 2, 4} : w = DataLenBytes(c)
    BY DEF DataLenBytes
  <1>3. \A i \in 1 .. n : elems[i] \in Seq(Nat) /\ Len(elems[i]) \in Nat /\ Len(elems[i]) < FieldLimit(w)
    <2> SUFFICES ASSUME NEW i \in 1 .. n
                 PROVE  elems[i] \in Seq(Nat) /\ Len(elems[i]) \in Nat /\ Len(elems[i]) < FieldLimit(w)
      OBVIOUS
    <2>1. PICK d \in Seq(Nat) : d = elems[i]
      BY <1>1
    <2>2. WidthCode(d) <= c /\ Len(d) < Base4 /\ c > 0 /\ c \in 0 .. 3
      BY <1>1, <2>1 DEF Fits
    <2>3. Len(d) < FieldLimit(w)
      BY <1>2, <2>2, WidthFits
    <2> QED
      BY <2>1, <2>3
  <1>4. PICK f : /\ \A i \in 0 .. n : f[i] \in Seq(Nat)
                 /\ f[0] = <<>>
                 /\ \A i \in 1 .. n : f[i] = Appended(f[i - 1], elems[i], w)
                 /\ WriteData(elems, w) = f[n]
    BY <1>1, WriteRecursion
  <1>5. PICK body \in Seq(Nat) : body = f[n]
    <2>1. f[n] \in Seq(Nat)
      BY <1>4
    <2> QED
      BY <2>1
  <1>6. PICK e : e = Ends(body, w, n)
    OBVIOUS
  <1>7. /\ e[0] = 0
        /\ \A i \in 0 .. n : e[i] \in Nat
        /\ \A i \in 1 .. n : e[i] = IF e[i - 1] + w > Len(body) THEN Len(body) + 1
                                    ELSE e[i - 1] + w + LengthAt(body, e[i - 1], w)
    <2>1. w \in Nat
      OBVIOUS
    <2> QED
      BY <1>6, <2>1, EndsRecursion
  <1>8. \A i \in 0 .. n : Extends(body, f[i])
    BY <1>1, <1>4, <1>5, StagesExtend
  \* the i-th field and the i-th element, in the data
  <1>9. ASSUME NEW i \in 1 .. n
        PROVE  /\ Len(f[i - 1]) \in Nat
               /\ Len(f[i]) = Len(f[i - 1]) + w + Len(elems[i])
               /\ Len(f[i]) <= Len(body)
               /\ \A k \in 1 .. w : body[Len(f[i - 1]) + k] = BigEndian(Len(elems[i]), w)[k]
               /\ \A k \in 1 .. Len(elems[i]) : body[Len(f[i - 1]) + w + k] = elems[i][k]
    <2>1. i \in 0 .. n /\ i - 1 \in 0 .. n
      OBVIOUS
    <2>2. PICK s \in Seq(Nat) : s = f[i - 1]
      BY <1>4, <2>1
    <2>3. PICK t \in Seq(Nat) : t = f[i]
      BY <1>4, <2>1
    <2>4. t = Appended(s, elems[i], w) /\ elems[i] \in Seq(Nat)
      BY <1>3, <1>4, <2>2, <2>3
    <2>5. /\ Len(t) = Len(s) + w + Len(elems[i])
          /\ \A k \in 1 .. w : t[Len(s) + k] = BigEndian(Len(elems[i]), w)[k]
          /\ \A k \in 1 .. Len(elems[i]) : t[Len(s) + w + k] = elems[i][k]
      <3>1. elems[i] \in Seq(Nat)
        BY <2>4
      <3>2. PICK d \in Seq(Nat) : d = elems[i]
        BY <3>1
      <3>3. IsAppended(Appended(s, d, w), s, d, w)
        BY AppendedProperties, Zenon
      <3>4. IsAppended(t, s, elems[i], w)
        BY <2>4, <3>2, <3>3, Zenon
      <3> QED
        BY <3>4 DEF IsAppended
    <2>6. Len(t) <= Len(body) /\ \A k \in 1 .. Len(t) : body[k] = t[k]
      BY <1>8, <2>1, <2>3 DEF Extends
    <2>7. Len(s) \in Nat /\ Len(elems[i]) \in Nat /\ w \in Nat
      BY <1>3
    <2>8. /\ \A k \in 1 .. w : Len(s) + k \in 1 .. Len(t)
          /\ \A k \in 1 .. Len(elems[i]) : Len(s) + w + k \in 1 .. Len(t)
      <3>1. Len(t) = Len(s) + w + Len(elems[i])
        BY <2>5
      <3>2. \A x, y, z \in Nat : /\ \A k \in 1 .. y : x + k \in 1 .. x + y + z
                                 /\ \A k \in 1 .. z : x + y + k \in 1 .. x + y + z
        OBVIOUS
      <3> QED
        BY <2>7, <3>1, <3>2, Zenon
    <2>9. \A k \in 1 .. w : body[Len(s) + k] = BigEndian(Len(elems[i]), w)[k]
      BY <2>5, <2>6, <2>8
    <2>10. \A k \in 1 .. Len(elems[i]) : body[Len(s) + w + k] = elems[i][k]
      BY <2>5, <2>6, <2>8
    <2> QED
      BY <2>2, <2>3, <2>5, <2>6, <2>7, <2>9, <2>10
  <1> DEFINE Bad == {i \in 0 .. n : e[i] # Len(f[i])}
  <1>10. Bad = {}
    <2> SUFFICES ASSUME Bad # {} PROVE FALSE
      OBVIOUS
    <2>1. Bad \subseteq Nat
      OBVIOUS
    <2>2. PICK i \in Bad : \A l \in Bad : ~ (l < i)
      BY <2>1, LeastIndex
    <2>3. i # 0
      BY <1>4, <1>7, <2>2
    <2>4. i \in 1 .. n /\ i - 1 \in 0 .. n /\ i - 1 < i
      BY <2>2, <2>3
    <2>5. PICK o \in Nat : o = Len(f[i - 1]) /\ o = e[i - 1]
      BY <1>9, <2>2, <2>4
    <2>6. /\ Len(f[i]) = o + w + Len(elems[i]) /\ Len(f[i]) <= Len(body)
          /\ \A k \in 1 .. w : body[o + k] = BigEndian(Len(elems[i]), w)[k]
      BY <1>9, <2>4, <2>5
    <2>7. Len(elems[i]) \in Nat /\ Len(elems[i]) < FieldLimit(w)
      BY <1>3, <2>4
    <2>8. o + w <= Len(body)
      <3>1. PICK l \in Nat : l = Len(elems[i])
        BY <2>7
      <3>2. PICK v \in Nat : v = w
        OBVIOUS
      <3>3. Len(body) \in Nat
        OBVIOUS
      <3>4. o + v + l <= Len(body)
        BY <2>6, <3>1, <3>2, Zenon
      <3>5. o + v <= Len(body)
        BY <3>3, <3>4
      <3> QED
        BY <3>2, <3>5
    <2>9. LengthAt(body, o, w) = Len(elems[i])
      BY <2>6, <2>7, <2>8, FieldRoundTrip
    <2>10. e[i] = o + w + Len(elems[i])
      BY <1>7, <2>4, <2>5, <2>8, <2>9
    <2> QED
      BY <2>2, <2>6, <2>10
  <1>11. \A i \in 0 .. n : e[i] = Len(f[i])
    BY <1>10
  <1>12. ASSUME NEW i \in 1 .. n
         PROVE  SubSeq(body, e[i - 1] + w + 1, e[i]) = elems[i]
    <2>1. e[i - 1] = Len(f[i - 1]) /\ e[i] = Len(f[i])
      BY <1>11
    <2>2. PICK m \in Nat : m = e[i - 1] + w + 1
      BY <1>9, <2>1
    <2>3. PICK d \in Seq(Nat) : d = elems[i]
      BY <1>3
    <2>4. PICK u \in Nat : u = e[i]
      <3>1. i \in 0 .. n
        OBVIOUS
      <3> QED
        BY <1>7, <3>1
    <2>5. /\ u = m + Len(d) - 1 /\ u <= Len(body) /\ 1 <= m
          /\ \A k \in 1 .. Len(d) : body[m + k - 1] = d[k]
      <3>1. PICK o \in Nat : o = Len(f[i - 1])
        BY <1>9
      <3>2. /\ Len(f[i]) = o + w + Len(d) /\ Len(f[i]) <= Len(body)
            /\ \A k \in 1 .. Len(d) : body[o + w + k] = d[k]
        BY <1>9, <2>3, <3>1
      <3>3. m = o + w + 1
        BY <2>1, <2>2, <3>1
      <3>4. \A k \in 1 .. Len(d) : m + k - 1 = o + w + k
        BY <3>3
      <3>5. w \in Nat /\ Len(d) \in Nat /\ u = o + w + Len(d) /\ u <= Len(body)
        BY <2>1, <2>4, <3>2
      <3>6. \A k \in 1 .. Len(d) : body[m + k - 1] = d[k]
        BY <3>2, <3>4
      <3> QED
        BY <3>3, <3>5, <3>6
    <2>6. Len(d) \in Nat /\ m <= u + 1 /\ u - m + 1 = Len(d)
      BY <2>5
    <2>7. PICK p : p = SubSeq(body, m, u)
      OBVIOUS
    <2>8. /\ p \in Seq(Nat) /\ Len(p) = u - m + 1
          /\ \A k \in 1 .. u - m + 1 : p[k] = body[m + k - 1]
      BY <2>5, <2>6, <2>7, Part
    <2>9. Len(p) = Len(d) /\ \A k \in 1 .. Len(p) : p[k] = d[k]
      BY <2>5, <2>6, <2>8
    <2>10. p = d
      BY <2>8, <2>9, SeqEqual
    <2> QED
      BY <2>2, <2>3, <2>4, <2>7, <2>10
  <1>13. e[n] = Len(body)
    BY <1>5, <1>11
  <1> QED
    BY <1>1, <1>2, <1>4, <1>5, <1>6, <1>12, <1>13

\* Data that starts with a prefix of two members.
LEMMA PrefixedData ==
    ASSUME NEW p \in Seq(Nat), Len(p) = 2, NEW body \in Seq(Nat)
    PROVE  /\ p \o body \in Seq(Nat) /\ Len(p \o body) = Len(body) + 2
           /\ (p \o body)[1] = p[1] /\ (p \o body)[2] = p[2]
           /\ SubSeq(p \o body, 3, Len(p \o body)) = body
  <1>1. PICK s \in Seq(Nat) : s = p \o body
    <2>1. p \o body \in Seq(Nat)
      OBVIOUS
    <2> QED
      BY <2>1
  <1>2. Len(body) \in Nat /\ Len(s) = Len(body) + 2
    <2>1. Len(s) = Len(p) + Len(body)
      BY <1>1, ConcatProperties
    <2> QED
      BY <2>1
  <1>3. s[1] = p[1] /\ s[2] = p[2] /\ \A k \in 1 .. Len(body) : s[k + 2] = body[k]
    <2>1. \A i \in 1 .. Len(p) + Len(body) :
              s[i] = IF i <= Len(p) THEN p[i] ELSE body[i - Len(p)]
      BY <1>1, ConcatProperties
    <2>2. \A k \in 1 .. Len(body) : k + 2 \in 1 .. 2 + Len(body) /\ ~ (k + 2 <= 2) /\ k + 2 - 2 = k
      BY <1>2
    <2>3. 1 \in 1 .. 2 + Len(body) /\ 2 \in 1 .. 2 + Len(body)
      BY <1>2
    <2>4. \A i \in 1 .. 2 + Len(body) : s[i] = IF i <= 2 THEN p[i] ELSE body[i - 2]
      BY <2>1, Zenon
    <2>5. ASSUME NEW k \in 1 .. Len(body) PROVE s[k + 2] = body[k]
      <3>1. PICK i \in 1 .. 2 + Len(body) : i = k + 2
        BY <2>2
      <3>2. ~ (i <= 2) /\ i - 2 = k
        BY <2>2, <3>1
      <3>3. s[i] = body[i - 2]
        BY <2>4, <3>2
      <3> QED
        BY <3>1, <3>2, <3>3
    <2>6. s[1] = p[1] /\ s[2] = p[2]
      BY <2>3, <2>4
    <2> QED
      BY <2>5, <2>6
  <1>4. PICK m \in Nat : m = 3
    OBVIOUS
  <1>5. Len(s) \in Nat /\ 1 <= m /\ m <= Len(s) + 1 /\ Len(s) <= Len(s)
    BY <1>2, <1>4
  <1>6. PICK t : t = SubSeq(s, m, Len(s))
    OBVIOUS
  <1>7. /\ t \in Seq(Nat) /\ Len(t) = Len(s) - m + 1
        /\ \A k \in 1 .. Len(s) - m + 1 : t[k] = s[m + k - 1]
    BY <1>5, <1>6, Part
  <1>8. Len(t) = Len(body) /\ \A k \in 1 .. Len(t) : t[k] = body[k]
    <2>1. Len(t) = Len(body)
      BY <1>2, <1>4, <1>7
    <2>2. \A k \in 1 .. Len(t) : m + k - 1 = k + 2
      BY <1>2, <1>4, <2>1
    <2> QED
      BY <1>3, <1>7, <2>1, <2>2
  <1>9. t = body
    BY <1>7, <1>8, SeqEqual
  <1> QED
    BY <1>1, <1>2, <1>3, <1>4, <1>6, <1>9

\* encodeArray followed by parseArray gives the elements back, under every
\* limit that admits their number; under a smaller one the data is refused.
\* In particular Bytes and ArrayFromBytes of the code are inverse to each
\* other on every array the prefix can express.
THEOREM CodecRoundTrip ==
    ASSUME NEW elems \in Seq(Seq(Nat)), CanEncode(elems), NEW max \in Nat
    PROVE  /\ EncodeArray(elems) \in Seq(Nat)
           /\ Parses(EncodeArray(elems), max) <=> Len(elems) <= max
           /\ ParseArray(EncodeArray(elems), max) = elems
  <1>1. PICK p \in Seq(Nat) : /\ p = CalcLenPrefix(elems) /\ Len(p) = 2 /\ p[1] \in 0 .. 3
                              /\ p[2] = Len(elems)
                              /\ \A i \in 1 .. Len(elems) : WidthCode(elems[i]) <= p[1]
    BY PrefixProperties
  <1>2. PICK c \in 0 .. 3 : c = p[1]
    BY <1>1
  <1>3. Fits(elems, c)
    BY <1>1, <1>2 DEF Fits, CanEncode, Base4
  <1>4. PICK n \in Nat : n = Len(elems)
    OBVIOUS
  <1>5. PICK w : w = DataLenBytes(c)
    OBVIOUS
  <1>6. PICK body : body = WriteData(elems, w)
    OBVIOUS
  <1>7. PICK e : e = Ends(body, w, n)
    OBVIOUS
  <1>8. /\ body \in Seq(Nat) /\ e[n] = Len(body)
        /\ \A i \in 1 .. n : SubSeq(body, e[i - 1] + w + 1, e[i]) = elems[i]
    <2>1. CASE c = 0
      <3>1. w = 0 /\ Fits(elems, 0)
        BY <1>3, <1>5, <2>1 DEF DataLenBytes
      <3>2. body = <<>> /\ e = Ends(<<>>, 0, n)
        BY <1>6, <1>7, <3>1, EmptyReadBack
      <3>3. e[n] = 0 /\ \A i \in 1 .. n : elems[i] = <<>> /\ e[i - 1] = 0 /\ e[i] = 0
        BY <1>4, <3>1, <3>2, EmptyReadBack
      <3>4. SubSeq(<<>>, 0 + 0 + 1, 0) = <<>>
        <4>1. PICK s \in Seq(Nat) : s = <<>>
          <5>1. <<>> \in Seq(Nat)
            OBVIOUS
          <5> QED
            BY <5>1
        <4>2. Len(s) = 0
          BY <4>1
        <4>3. SubSeq(s, 1, 0) \in Seq(Nat) /\ Len(SubSeq(s, 1, 0)) = 0
          BY <4>2, Part
        <4>4. SubSeq(s, 1, 0) = <<>>
          BY <4>3
        <4> QED
          BY <4>1, <4>4
      <3>5. <<>> \in Seq(Nat) /\ Len(<<>>) = 0
        OBVIOUS
      <3>6. ASSUME NEW i \in 1 .. n PROVE SubSeq(body, e[i - 1] + w + 1, e[i]) = elems[i]
        <4>1. SubSeq(body, e[i - 1] + w + 1, e[i]) = SubSeq(<<>>, 0 + 0 + 1, 0)
          BY <3>1, <3>2, <3>3, Zenon
        <4> QED
          BY <3>3, <3>4, <4>1, Zenon
      <3> QED
        BY <3>2, <3>3, <3>5, <3>6, Zenon
    <2>2. CASE c \in 1 .. 3
      <3>1. /\ WriteData(elems, w) \in Seq(Nat)
            /\ Ends(WriteData(elems, w), w, n)[n] = Len(WriteData(elems, w))
            /\ \A i \in 1 .. n :
                   SubSeq(WriteData(elems, w), Ends(WriteData(elems, w), w, n)[i - 1] + w + 1,
                          Ends(WriteData(elems, w), w, n)[i]) = elems[i]
        BY <1>3, <1>4, <1>5, <2>2, FieldsReadBack
      <3> QED
        BY <1>6, <1>7, <3>1
    <2> QED
      BY <2>1, <2>2
  <1>9. PICK data : data = EncodeArray(elems)
    OBVIOUS
  <1>10. data = p \o body
    BY <1>1, <1>2, <1>5, <1>6, <1>9 DEF EncodeArray
  <1>11. /\ data \in Seq(Nat) /\ Len(data) = Len(body) + 2
         /\ data[1] = c /\ data[2] = n
         /\ SubSeq(data, 3, Len(data)) = body
    BY <1>1, <1>2, <1>4, <1>8, <1>10, PrefixedData
  <1>12. Len(body) \in Nat
    BY <1>8
  <1>13. Parses(data, max) <=> n <= max
    <2>1. Ends(SubSeq(data, 3, Len(data)), DataLenBytes(data[1]), data[2])[data[2]] = Len(data) - 2
      <3>1. Ends(SubSeq(data, 3, Len(data)), DataLenBytes(data[1]), data[2])[data[2]] = e[n]
        BY <1>5, <1>7, <1>11, Zenon
      <3>2. Len(data) - 2 = Len(body)
        BY <1>11, <1>12
      <3> QED
        BY <1>8, <3>1, <3>2, Zenon
    <2> QED
      BY <1>11, <1>12, <2>1 DEF Parses
  <1>14. ParseArray(data, max) = elems
    <2>1. ParseArray(data, max) = [i \in 1 .. n |-> SubSeq(body, e[i - 1] + w + 1, e[i])]
      BY <1>5, <1>7, <1>11 DEF ParseArray
    <2>2. ParseArray(data, max) = [i \in 1 .. n |-> elems[i]]
      BY <1>8, <2>1
    <2> QED
      BY <1>4, <2>2
  <1> QED
    BY <1>4, <1>9, <1>11, <1>13, <1>14

LEMMA EncodeTyped ==
    ASSUME NEW elems \in Seq(Seq(Nat)), CanEncode(elems)
    PROVE  EncodeArray(elems) \in Seq(Nat)
  <1>1. 0 \in Nat
    OBVIOUS
  <1> QED
    BY <1>1, CodecRoundTrip

\* A number with one digit more.
LEMMA DigitBound ==
    ASSUME NEW b \in Nat, NEW m \in Nat, NEW x \in Nat, NEW y \in Nat, x < m, y < b
    PROVE  x * b + y \in Nat /\ x * b + y < m * b
  <1>1. PICK d \in Nat : m = x + 1 + d
    <2>1. m - x - 1 \in Nat /\ m = x + 1 + (m - x - 1)
      OBVIOUS
    <2> QED
      BY <2>1
  <1>2. x * b \in Nat /\ d * b \in Nat /\ (x + 1 + d) * b = x * b + b + d * b
    OBVIOUS
  <1> QED
    BY <1>1, <1>2

\* A length field holds less than its width allows.
LEMMA LengthBound ==
    ASSUME NEW data \in Seq(Nat), NEW o \in Nat, NEW w \in {0, 1, 2, 4}, o + w <= Len(data),
           \A k \in 1 .. Len(data) : data[k] < Base
    PROVE  LengthAt(data, o, w) < Base4
  <1>1. Base \in Nat /\ Base > 1 /\ Len(data) \in Nat
    BY LazySliceAssumption
  <1>2. \A k \in 1 .. w : data[o + k] \in Nat /\ data[o + k] < Base
    BY <1>1
  <1>3. PICK b2 \in Nat : b2 = Base * Base
    BY <1>1
  <1>4. PICK b3 \in Nat : b3 = b2 * Base
    BY <1>1
  <1>5. Base4 \in Nat /\ Base4 = b3 * Base /\ 1 < b2 /\ Base < b2 /\ b2 < Base4
    <2>1. Base4 = b3 * Base
      BY <1>3, <1>4 DEF Base4
    <2>2. Base < b2 /\ 1 < b2
      BY <1>1, <1>3
    <2>3. b2 < b2 * Base
      BY <1>1, <2>2
    <2>4. b3 < b3 * Base
      BY <1>1, <1>4, <2>2, <2>3
    <2> QED
      BY <1>1, <1>4, <2>1, <2>2, <2>3, <2>4
  <1>6. CASE w = 0
    <2>1. LengthAt(data, o, w) = 0
      BY <1>6 DEF LengthAt
    <2> QED
      BY <1>1, <1>4, <1>5, <2>1
  <1>7. CASE w = 1
    <2>1. LengthAt(data, o, w) = data[o + 1] /\ data[o + 1] \in Nat /\ data[o + 1] < Base
      BY <1>2, <1>7 DEF LengthAt
    <2>2. PICK x \in Nat : x = data[o + 1]
      BY <2>1
    <2>3. x < Base4
      BY <1>1, <1>5, <2>1, <2>2
    <2> QED
      BY <2>1, <2>2, <2>3, Zenon
  <1>8. CASE w \in {2, 4}
    <2>1. PICK x1 \in Nat, x2 \in Nat :
              x1 = data[o + 1] /\ x2 = data[o + 2] /\ x1 < Base /\ x2 < Base
      BY <1>2, <1>8
    <2>2. PICK y \in Nat : y = x1 * Base + x2 /\ y < b2
      BY <1>1, <1>3, <2>1, DigitBound
    <2>3. CASE w = 2
      <3>1. LengthAt(data, o, w) = y
        BY <2>1, <2>2, <2>3 DEF LengthAt
      <3> QED
        BY <1>1, <1>4, <1>5, <2>2, <3>1
    <2>4. CASE w = 4
      <3>1. PICK x3 \in Nat, x4 \in Nat :
                x3 = data[o + 3] /\ x4 = data[o + 4] /\ x3 < Base /\ x4 < Base
        BY <1>2, <2>4
      <3>2. PICK z \in Nat : z = y * Base + x3 /\ z < b3
        BY <1>1, <1>4, <2>2, <3>1, DigitBound
      <3>3. z * Base + x4 < b3 * Base
        BY <1>1, <3>1, <3>2, DigitBound
      <3>4. LengthAt(data, o, w) = z * Base + x4
        BY <2>1, <2>2, <2>4, <3>1, <3>2 DEF LengthAt
      <3> QED
        BY <1>5, <3>3, <3>4
    <2> QED
      BY <1>8, <2>3, <2>4
  <1> QED
    BY <1>6, <1>7, <1>8

\* Elements that were read have lengths that can be written.
LEMMA ParsedShort ==
    ASSUME NEW data \in Seq(Nat), NEW max \in Nat, Parses(data, max), data[1] \in WidthCodes,
           \A k \in 3 .. Len(data) : data[k] < Base
    PROVE  \A i \in 1 .. Len(ParseArray(data, max)) : Len(ParseArray(data, max)[i]) < Base4
  <1>1. PICK body : body = SubSeq(data, 3, Len(data))
    OBVIOUS
  <1>2. PICK w \in {0, 1, 2, 4} : w = DataLenBytes(data[1])
    BY DEF WidthCodes, DataLenBytes
  <1>3. PICK n : n = data[2]
    OBVIOUS
  <1>4. Len(data) \in Nat /\ Len(data) >= 2
    BY DEF Parses
  <1>5. n \in Nat /\ Len(ParseArray(data, max)) = n
    BY <1>3, ParsedTyped
  <1>6. /\ body \in Seq(Nat) /\ Len(body) = Len(data) - 2
        /\ \A k \in 1 .. Len(body) : body[k] = data[k + 2]
    <2>1. PICK m \in Nat : m = 3
      OBVIOUS
    <2>2. 1 <= m /\ m <= Len(data) + 1 /\ Len(data) <= Len(data) /\ Len(data) - m + 1 = Len(data) - 2
      BY <1>4, <2>1
    <2>3. /\ SubSeq(data, m, Len(data)) \in Seq(Nat)
          /\ Len(SubSeq(data, m, Len(data))) = Len(data) - m + 1
          /\ \A k \in 1 .. Len(data) - m + 1 : SubSeq(data, m, Len(data))[k] = data[m + k - 1]
      BY <1>4, <2>2, Part
    <2>4. Len(body) = Len(data) - 2 /\ body \in Seq(Nat)
      BY <1>1, <2>1, <2>2, <2>3
    <2>5. ASSUME NEW k \in 1 .. Len(body) PROVE body[k] = data[k + 2]
      <3>1. k \in 1 .. Len(data) - m + 1 /\ m + k - 1 = k + 2
        BY <1>4, <2>1, <2>4
      <3> QED
        BY <1>1, <2>1, <2>3, <3>1
    <2> QED
      BY <2>4, <2>5
  <1>7. \A k \in 1 .. Len(body) : body[k] < Base
    <2>1. \A k \in 1 .. Len(body) : k + 2 \in 3 .. Len(data)
      BY <1>4, <1>6
    <2> QED
      BY <1>6, <2>1
  <1>8. Ends(body, w, n)[n] = Len(body)
    BY <1>1, <1>2, <1>3, <1>6 DEF Parses
  <1>9. PICK e : e = Ends(body, w, n)
    OBVIOUS
  <1>10. ParseArray(data, max) = [i \in 1 .. n |-> SubSeq(body, e[i - 1] + w + 1, e[i])]
    BY <1>1, <1>2, <1>3, <1>9 DEF ParseArray
  <1>11. ASSUME NEW i \in 1 .. n
         PROVE  Len(SubSeq(body, e[i - 1] + w + 1, e[i])) < Base4
    <2>1. PICK v \in Nat : v = w
      OBVIOUS
    <2>2. /\ e[i - 1] \in Nat /\ e[i] \in Nat
          /\ e[i - 1] + v <= e[i] /\ e[i] <= Len(body)
          /\ e[i] = e[i - 1] + v + LengthAt(body, e[i - 1], v)
      BY <1>5, <1>6, <1>8, <1>9, <2>1, EndsWithin
    <2>3. PICK from \in Nat, to \in Nat : from = e[i - 1] /\ to = e[i]
      BY <2>2
    <2>4. Len(body) \in Nat /\ from + v <= Len(body)
      BY <1>6, <2>2, <2>3
    <2>5. PICK l \in Nat : l = LengthAt(body, from, v)
      BY <1>6, <2>4, LengthTyped
    <2>6. PICK a \in Nat : a = from + v + 1
      OBVIOUS
    <2>7. 1 <= a /\ a <= to + 1 /\ to <= Len(body) /\ to - a + 1 = l
      <3>1. to = from + v + l /\ to <= Len(body)
        BY <2>2, <2>3, <2>5
      <3> QED
        BY <2>6, <3>1
    <2>8. Len(SubSeq(body, a, to)) = to - a + 1
      BY <1>6, <2>7, Part
    <2>9. l < Base4
      BY <1>6, <1>7, <2>1, <2>4, <2>5, LengthBound
    <2>10. SubSeq(body, a, to) = SubSeq(body, e[i - 1] + w + 1, e[i])
      BY <2>1, <2>3, <2>6
    <2> QED
      BY <2>7, <2>8, <2>9, <2>10
  <1> QED
    BY <1>5, <1>10, <1>11
=============================================================================
