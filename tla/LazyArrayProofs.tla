--------------------------- MODULE LazyArrayProofs ---------------------------
(***************************************************************************)
(* A lazy array under any sequence of calls, for any bytes, elements and   *)
(* limits: its two representations agree, and it implements the sequence   *)
(* of ArraySpec.                                                           *)
(*                                                                         *)
(* The agreement alone is not inductive: Bytes needs elements whose        *)
(* lengths fit into the length fields, or what it writes would not be read *)
(* back, and an array without elements needs bytes, since ensureBytes      *)
(* writes none for it.                                                     *)
(***************************************************************************)
EXTENDS LazyArray, LazySliceProofs

Agree(a) ==
    a.bytes # Nil /\ a.parsed # Nil =>
        Parses(a.bytes, MaxArrayLen) /\ ParseArray(a.bytes, MaxArrayLen) = a.parsed

ShortElements(elems) == \A i \in 1 .. Len(elems) : Len(elems[i]) < Base4

Good(a) ==
    /\ IsArray(a)
    /\ a.max <= MaxArrayLen
    /\ Agree(a)
    /\ a.parsed = <<>> => a.bytes # Nil
    /\ CanParse(a) => ShortElements(Parsed(a))

ArrayInv == Good(arr)

-----------------------------------------------------------------------------
\* The limit decides only whether data is accepted, not what it holds.
LEMMA AnyLimit ==
    ASSUME NEW data \in Seq(Nat), NEW m \in Nat, Parses(data, m), NEW l \in Nat
    PROVE  /\ ParseArray(data, l) = ParseArray(data, m)
           /\ Parses(data, l) <=> Len(ParseArray(data, m)) <= l
  <1>1. ParseArray(data, l) = ParseArray(data, m)
    BY DEF ParseArray
  <1>2. Len(ParseArray(data, m)) = data[2]
    BY ParsedTyped
  <1>3. Parses(data, l) <=> data[2] <= l
    BY DEF Parses
  <1> QED
    BY <1>1, <1>2, <1>3

\* Data that is given to an array.
IsRaw(d) ==
    /\ d \in Seq(Nat)
    /\ Len(d) > 1 => d[1] \in WidthCodes
    /\ \A k \in 3 .. Len(d) : d[k] < Base

LEMMA RawIsRaw ==
    ASSUME NEW d \in RawData \cup {<<0, 0>>}
    PROVE  IsRaw(d)
  <1>1. CASE d \in RawData
    BY <1>1, ArrayAssumption DEF IsRaw
  <1>2. CASE d = <<0, 0>>
    <2>1. <<0, 0>> \in Seq(Nat) /\ Len(<<0, 0>>) = 2 /\ <<0, 0>>[1] = 0
      OBVIOUS
    <2>2. 3 .. 2 = {} /\ 0 \in WidthCodes
      BY DEF WidthCodes
    <2> QED
      BY <1>2, <2>1, <2>2 DEF IsRaw
  <1> QED
    BY <1>1, <1>2

LEMMA GoodRaw ==
    ASSUME NEW d, IsRaw(d), NEW m \in Nat, m <= MaxArrayLen
    PROVE  Good(ArrayFromBytes(d, m))
  <1>1. d \in Seq(Nat)
    BY DEF IsRaw
  <1>2. PICK a : a = ArrayFromBytes(d, m)
    OBVIOUS
  <1>3. /\ IsArray(a) /\ a.bytes = d /\ a.parsed = Nil /\ a.max = m
        /\ CanParse(a) <=> Parses(d, m)
        /\ Parsed(a) = ParseArray(d, m)
    BY <1>1, <1>2, FromBytes
  <1>4. ASSUME CanParse(a) PROVE ShortElements(Parsed(a))
    <2>1. Parses(d, m)
      BY <1>3, <1>4
    <2>2. d[1] \in WidthCodes /\ \A k \in 3 .. Len(d) : d[k] < Base
      <3>1. Len(d) >= 2 /\ Len(d) \in Nat
        BY <1>1, <2>1 DEF Parses
      <3> QED
        BY <3>1 DEF IsRaw
    <2>3. \A i \in 1 .. Len(ParseArray(d, m)) : Len(ParseArray(d, m)[i]) < Base4
      BY <1>1, <2>1, <2>2, ParsedShort
    <2> QED
      BY <1>3, <2>3 DEF ShortElements
  <1>5. a.parsed # <<>>
    <2>1. <<>> \in Seq(Seq(Nat))
      OBVIOUS
    <2> QED
      BY <1>3, <2>1, LazySliceAssumption
  <1> QED
    BY <1>2, <1>3, <1>4, <1>5 DEF Good, Agree

\* New elements that can be written.
LEMMA GoodElements ==
    ASSUME NEW a, Good(a), NEW elems \in Seq(Seq(Nat)), elems # <<>>, ShortElements(elems)
    PROVE  Good(WithElements(a, elems))
  <1>1. PICK b : b = WithElements(a, elems)
    OBVIOUS
  <1>2. /\ IsArray(b) /\ b.parsed = elems /\ b.bytes = Nil /\ b.max = a.max
        /\ CanParse(b) /\ Parsed(b) = elems
    BY <1>1, NewElements DEF Good
  <1> QED
    BY <1>1, <1>2 DEF Good, Agree

\* ensureParsed.
LEMMA GoodParsed ==
    ASSUME NEW a, Good(a), CanParse(a)
    PROVE  Good(EnsureParsed(a))
  <1>1. PICK b : b = EnsureParsed(a)
    OBVIOUS
  <1>2. /\ IsArray(b) /\ CanParse(b) /\ Parsed(b) = Parsed(a) /\ b.parsed = Parsed(a)
        /\ b.bytes = a.bytes /\ b.max = a.max
    BY <1>1, EnsureParsedSame DEF Good
  <1>3. CASE a.parsed # Nil
    <2>1. b.parsed = a.parsed
      BY <1>2, <1>3 DEF Parsed
    <2> QED
      BY <1>1, <1>2, <2>1 DEF Good, Agree
  <1>4. CASE a.parsed = Nil
    <2>1. /\ a.bytes \in Seq(Nat) /\ a.max \in Nat /\ a.max <= MaxArrayLen /\ a.bytes # Nil
          /\ Parses(a.bytes, a.max) /\ Parsed(a) = ParseArray(a.bytes, a.max)
      BY <1>4 DEF Good, IsArray, CanParse, Parsed
    <2>2. MaxArrayLen \in Nat
      BY LazySliceAssumption
    <2>3. ParseArray(a.bytes, MaxArrayLen) = ParseArray(a.bytes, a.max)
      BY <2>1, <2>2, AnyLimit
    <2>4. Parses(a.bytes, MaxArrayLen)
      <3>1. Len(ParseArray(a.bytes, a.max)) <= a.max /\ Len(ParseArray(a.bytes, a.max)) \in Nat
        BY <2>1, ParsedTyped
      <3>2. Len(ParseArray(a.bytes, a.max)) <= MaxArrayLen
        BY <2>1, <2>2, <3>1
      <3> QED
        BY <2>1, <2>2, <3>2, AnyLimit
    <2>5. Agree(b)
      BY <1>2, <2>1, <2>3, <2>4 DEF Agree
    <2> QED
      BY <1>1, <1>2, <2>1, <2>5 DEF Good
  <1> QED
    BY <1>3, <1>4

\* ensureBytes: the bytes stand for the elements, under every limit that
\* admits their number.
LEMMA GoodBytes ==
    ASSUME NEW a, Good(a), CanBytes(a)
    PROVE  /\ IsArray(EnsureBytes(a)) /\ Good(EnsureBytes(a))
           /\ EnsureBytes(a).bytes \in Seq(Nat)
           /\ EnsureBytes(a).max = a.max
           /\ CanParse(EnsureBytes(a)) <=> CanParse(a)
           /\ Parsed(EnsureBytes(a)) = Parsed(a)
           /\ CanParse(a) => \A m \in Nat :
                  /\ Parses(EnsureBytes(a).bytes, m) <=> Len(Parsed(a)) <= m
                  /\ ParseArray(EnsureBytes(a).bytes, m) = Parsed(a)
           /\ ~CanParse(a) => ~Parses(EnsureBytes(a).bytes, a.max)
  <1>1. PICK b : b = EnsureBytes(a)
    OBVIOUS
  <1>2. MaxArrayLen \in Nat /\ IsArray(a) /\ a.max \in Nat
    BY LazySliceAssumption DEF Good, IsArray
  <1>3. CASE a.bytes # Nil
    <2>1. b = a /\ a.bytes \in Seq(Nat)
      BY <1>1, <1>2, <1>3 DEF EnsureBytes, IsArray
    <2>2. CASE a.parsed # Nil
      <3>1. CanParse(a) /\ Parsed(a) = a.parsed
        BY <2>2 DEF CanParse, Parsed
      <3>2. Parses(a.bytes, MaxArrayLen) /\ ParseArray(a.bytes, MaxArrayLen) = a.parsed
        BY <1>3, <2>2 DEF Good, Agree
      <3>3. \A m \in Nat : /\ Parses(a.bytes, m) <=> Len(a.parsed) <= m
                           /\ ParseArray(a.bytes, m) = a.parsed
        BY <1>2, <2>1, <3>2, AnyLimit
      <3> QED
        BY <1>1, <1>2, <2>1, <3>1, <3>3
    <2>3. CASE a.parsed = Nil /\ CanParse(a)
      <3>1. Parses(a.bytes, a.max) /\ Parsed(a) = ParseArray(a.bytes, a.max)
        BY <2>3 DEF CanParse, Parsed
      <3>2. \A m \in Nat : /\ Parses(a.bytes, m) <=> Len(Parsed(a)) <= m
                           /\ ParseArray(a.bytes, m) = Parsed(a)
        BY <1>2, <2>1, <3>1, AnyLimit
      <3> QED
        BY <1>1, <1>2, <2>1, <2>3, <3>2
    <2>4. CASE ~CanParse(a)
      <3>1. ~Parses(a.bytes, a.max)
        BY <2>4 DEF CanParse
      <3> QED
        BY <1>1, <1>2, <2>1, <2>4, <3>1
    <2> QED
      BY <2>2, <2>3, <2>4
  <1>4. CASE a.bytes = Nil
    <2>1. a.parsed # Nil /\ a.parsed \in Seq(Seq(Nat)) /\ a.parsed # <<>>
      BY <1>2, <1>4 DEF IsArray, Good
    <2>2. CanParse(a) /\ Parsed(a) = a.parsed
      BY <2>1 DEF CanParse, Parsed
    <2>3. CanEncode(a.parsed)
      BY <1>4 DEF CanBytes
    <2>4. PICK data \in Seq(Nat) : data = EncodeArray(a.parsed)
      BY <2>1, <2>3, EncodeTyped
    <2>5. \A m \in Nat : /\ Parses(data, m) <=> Len(a.parsed) <= m
                         /\ ParseArray(data, m) = a.parsed
      BY <2>1, <2>3, <2>4, CodecRoundTrip
    <2>6. b = [bytes |-> data, parsed |-> a.parsed, max |-> a.max]
      BY <1>1, <1>2, <1>4, <2>1, <2>4 DEF EnsureBytes, IsArray
    <2>7. b.bytes = data /\ b.parsed = a.parsed /\ b.max = a.max /\ data # Nil
      BY <2>6, LazySliceAssumption
    <2>8. IsArray(b)
      BY <1>2, <2>1, <2>6, <2>7 DEF IsArray
    <2>9. CanParse(b) /\ Parsed(b) = Parsed(a)
      BY <2>1, <2>2, <2>7 DEF CanParse, Parsed
    <2>10. Len(a.parsed) <= MaxArrayLen
      BY <2>3 DEF CanEncode
    <2>11. Agree(b)
      BY <1>2, <2>5, <2>7, <2>10 DEF Agree
    <2>12. Good(b)
      BY <2>1, <2>2, <2>7, <2>8, <2>9, <2>11 DEF Good
    <2> QED
      BY <1>1, <2>2, <2>5, <2>7, <2>8, <2>9, <2>12
  <1> QED
    BY <1>3, <1>4

\* The array that is made from the bytes of another one.
LEMMA GoodReload ==
    ASSUME NEW a, Good(a), CanBytes(a)
    PROVE  /\ Good(ArrayFromBytes(EnsureBytes(a).bytes, a.max))
           /\ CanParse(ArrayFromBytes(EnsureBytes(a).bytes, a.max))
                  <=> CanParse(a) /\ Len(Parsed(a)) <= a.max
           /\ CanParse(a) => Parsed(ArrayFromBytes(EnsureBytes(a).bytes, a.max)) = Parsed(a)
           /\ ArrayFromBytes(EnsureBytes(a).bytes, a.max).max = a.max
  <1>1. PICK d \in Seq(Nat) : d = EnsureBytes(a).bytes
    BY GoodBytes
  <1>2. PICK m \in Nat : m = a.max
    BY DEF Good, IsArray
  <1>3. PICK b : b = ArrayFromBytes(d, m)
    OBVIOUS
  <1>4. /\ IsArray(b) /\ b.bytes = d /\ b.parsed = Nil /\ b.max = m
        /\ CanParse(b) <=> Parses(d, m)
        /\ Parsed(b) = ParseArray(d, m)
    BY <1>3, FromBytes
  <1>5. /\ CanParse(a) => (Parses(d, m) <=> Len(Parsed(a)) <= m) /\ ParseArray(d, m) = Parsed(a)
        /\ ~CanParse(a) => ~Parses(d, m)
    BY <1>1, <1>2, GoodBytes
  <1>6. CanParse(b) => CanParse(a) /\ ShortElements(Parsed(b))
    BY <1>4, <1>5 DEF Good
  <1>7. <<>> # Nil
    <2>1. <<>> \in Seq(Seq(Nat))
      OBVIOUS
    <2> QED
      BY <2>1, LazySliceAssumption
  <1>8. Good(b)
    BY <1>2, <1>4, <1>6, <1>7 DEF Good, Agree
  <1> QED
    BY <1>1, <1>2, <1>3, <1>4, <1>5, <1>8

-----------------------------------------------------------------------------
LEMMA MaxOfTwo ==
    ASSUME NEW m \in Nat, NEW n \in Nat
    PROVE  Max({m, n}) = IF m >= n THEN m ELSE n
  <1>1. \E x \in {m, n} : \A y \in {m, n} : x >= y
    OBVIOUS
  <1>2. Max({m, n}) \in {m, n} /\ \A y \in {m, n} : Max({m, n}) >= y
    BY <1>1 DEF Max
  <1> QED
    BY <1>2

\* The elements, followed by empty ones up to n.
Stretched(elems, n) ==
    [k \in 1 .. Max({n, Len(elems)}) |-> IF k <= Len(elems) THEN elems[k] ELSE <<>>]

LEMMA StretchedProperties ==
    ASSUME NEW elems \in Seq(Seq(Nat)), NEW n \in Nat
    PROVE  /\ n <= Len(elems) => Stretched(elems, n) = elems
           /\ n > Len(elems) => /\ Padded(elems, n) = Stretched(elems, n)
                                /\ Padded(elems, n) \in Seq(Seq(Nat))
                                /\ Len(Padded(elems, n)) = n
                                /\ Padded(elems, n) # <<>>
                                /\ ShortElements(elems) => ShortElements(Padded(elems, n))
  <1>1. PICK l \in Nat : l = Len(elems)
    OBVIOUS
  <1>2. CASE n <= l
    <2>1. Max({n, l}) = l
      BY <1>2, MaxOfTwo
    <2>2. Stretched(elems, n) = [k \in 1 .. l |-> elems[k]]
      <3>1. Stretched(elems, n) = [k \in 1 .. l |-> IF k <= l THEN elems[k] ELSE <<>>]
        BY <1>1, <2>1, Zenon DEF Stretched
      <3>2. \A k \in 1 .. l : k <= l
        OBVIOUS
      <3> QED
        BY <3>1, <3>2
    <2>3. elems = [k \in 1 .. l |-> elems[k]]
      BY <1>1
    <2> QED
      BY <1>1, <1>2, <2>2, <2>3
  <1>3. CASE n > l
    <2>1. Max({n, l}) = n
      BY <1>3, MaxOfTwo
    <2>2. Padded(elems, n) = Stretched(elems, n)
      BY <1>1, <2>1 DEF Stretched, Padded
    <2>3. PICK p : p = [k \in 1 .. n |-> IF k <= l THEN elems[k] ELSE <<>>]
      OBVIOUS
    <2>4. p = Padded(elems, n)
      BY <1>1, <2>3 DEF Padded
    <2>5. p \in [1 .. n -> Seq(Nat)]
      <3>1. <<>> \in Seq(Nat)
        OBVIOUS
      <3>2. ASSUME NEW k \in 1 .. n PROVE (IF k <= l THEN elems[k] ELSE <<>>) \in Seq(Nat)
        BY <1>1, <3>1
      <3> QED
        BY <2>3, <3>2
    <2>6. p \in Seq(Seq(Nat)) /\ Len(p) = n
      BY <2>5
    <2>7. p # <<>>
      BY <1>3, <2>6
    <2>8. ASSUME ShortElements(elems) PROVE ShortElements(p)
      <3>1. 0 < Base4
        <4>1. Base \in Nat /\ Base > 1
          BY LazySliceAssumption
        <4>2. Base * Base \in Nat /\ Base * Base > 0
          BY <4>1
        <4>3. Base * Base * Base \in Nat /\ Base * Base * Base > 0
          BY <4>1, <4>2
        <4> QED
          BY <4>1, <4>3 DEF Base4
      <3>2. ASSUME NEW k \in 1 .. n PROVE Len(p[k]) < Base4
        <4>1. CASE k <= l
          <5>1. p[k] = elems[k] /\ k \in 1 .. Len(elems)
            BY <1>1, <2>3, <4>1
          <5> QED
            BY <2>8, <5>1 DEF ShortElements
        <4>2. CASE ~ (k <= l)
          <5>1. p[k] = <<>> /\ Len(<<>>) = 0
            BY <2>3, <4>2
          <5> QED
            BY <3>1, <5>1
        <4> QED
          BY <4>1, <4>2
      <3> QED
        BY <2>6, <3>2 DEF ShortElements
    <2> QED
      BY <1>1, <1>3, <2>2, <2>4, <2>6, <2>7, <2>8
  <1> QED
    BY <1>1, <1>2, <1>3

\* PutAtIdxGrow up to the point where the element is put.
LEMMA GoodGrow ==
    ASSUME NEW a, Good(a), CanParse(a), NEW n \in Nat
    PROVE  /\ Good(GrowTo(a, n)) /\ CanParse(GrowTo(a, n))
           /\ Parsed(GrowTo(a, n)) = Stretched(Parsed(a), n)
           /\ GrowTo(a, n).parsed = Stretched(Parsed(a), n)
           /\ Stretched(Parsed(a), n) \in Seq(Seq(Nat))
           /\ n <= Len(Stretched(Parsed(a), n))
           /\ GrowTo(a, n).max = a.max
  <1>1. IsArray(a) /\ ShortElements(Parsed(a))
    BY DEF Good
  <1>2. PICK p \in Seq(Seq(Nat)) : p = Parsed(a)
    BY <1>1, ElementsTyped
  <1>3. Len(p) \in Nat
    OBVIOUS
  <1>4. CASE n <= Len(p)
    <2>1. GrowTo(a, n) = EnsureParsed(a)
      BY <1>2, <1>4 DEF GrowTo
    <2>2. Stretched(p, n) = p
      BY <1>4, StretchedProperties
    <2>3. Good(EnsureParsed(a))
      BY GoodParsed
    <2>4. /\ CanParse(EnsureParsed(a)) /\ Parsed(EnsureParsed(a)) = p
          /\ EnsureParsed(a).parsed = p /\ EnsureParsed(a).max = a.max
      BY <1>1, <1>2, EnsureParsedSame
    <2> QED
      BY <1>2, <1>4, <2>1, <2>2, <2>3, <2>4
  <1>5. CASE n > Len(p)
    <2>1. /\ Padded(p, n) = Stretched(p, n)
          /\ Padded(p, n) \in Seq(Seq(Nat)) /\ Len(Padded(p, n)) = n /\ Padded(p, n) # <<>>
          /\ ShortElements(Padded(p, n))
      BY <1>1, <1>2, <1>5, StretchedProperties
    <2>2. PICK q \in Seq(Seq(Nat)) : q = Padded(p, n)
      BY <2>1
    <2>3. GrowTo(a, n) = WithElements(a, q)
      BY <1>2, <1>3, <1>5, <2>2 DEF GrowTo
    <2>4. /\ WithElements(a, q).parsed = q /\ WithElements(a, q).max = a.max
          /\ CanParse(WithElements(a, q)) /\ Parsed(WithElements(a, q)) = q
      BY <1>1, NewElements
    <2>5. Good(WithElements(a, q))
      BY <2>1, <2>2, GoodElements
    <2> QED
      BY <1>2, <2>1, <2>2, <2>3, <2>4, <2>5
  <1> QED
    BY <1>3, <1>4, <1>5

\* PutAtIdx.
LEMMA GoodPut ==
    ASSUME NEW a, Good(a), NEW i \in Nat, CanPut(a, i), NEW d \in Seq(Nat), Len(d) < Base4
    PROVE  /\ Good(PutIn(a, i, d)) /\ CanParse(PutIn(a, i, d))
           /\ Parsed(PutIn(a, i, d)) = [a.parsed EXCEPT ![i + 1] = d]
           /\ PutIn(a, i, d).max = a.max
           /\ CanParse(a) /\ Parsed(a) = a.parsed /\ a.parsed # Nil
           /\ i < Len(a.parsed)
  <1>1. IsArray(a)
    BY DEF Good
  <1>2. PICK q : q = [a.parsed EXCEPT ![i + 1] = d]
    OBVIOUS
  <1>3. /\ a.parsed # Nil /\ Parsed(a) = a.parsed /\ CanParse(a)
        /\ a.parsed \in Seq(Seq(Nat)) /\ i + 1 \in 1 .. Len(a.parsed)
        /\ q \in Seq(Seq(Nat)) /\ Len(q) = Len(a.parsed)
        /\ \A k \in 1 .. Len(a.parsed) : q[k] = IF k = i + 1 THEN d ELSE a.parsed[k]
        /\ PutIn(a, i, d) = WithElements(a, q)
    BY <1>1, <1>2, PutParsed
  <1>4. ShortElements(a.parsed)
    BY <1>3 DEF Good
  <1>5. ShortElements(q) /\ q # <<>>
    <2>1. ShortElements(q)
      BY <1>3, <1>4 DEF ShortElements
    <2>2. Len(q) # 0
      BY <1>3
    <2> QED
      BY <2>1, <2>2
  <1>6. Good(WithElements(a, q))
    BY <1>3, <1>5, GoodElements
  <1>7. /\ WithElements(a, q).max = a.max
        /\ CanParse(WithElements(a, q)) /\ Parsed(WithElements(a, q)) = q
    BY <1>1, <1>3, NewElements
  <1>8. i < Len(a.parsed)
    BY <1>3
  <1> QED
    BY <1>2, <1>3, <1>6, <1>7, <1>8

\* Push.
LEMMA GoodPush ==
    ASSUME NEW a, Good(a), CanPush(a), NEW d \in Seq(Nat), Len(d) < Base4
    PROVE  /\ Good(PushTo(a, d)) /\ CanParse(PushTo(a, d))
           /\ Parsed(PushTo(a, d)) = Append(Parsed(a), d)
           /\ Len(PushTo(a, d).parsed) - 1 = Len(Parsed(a))
           /\ PushTo(a, d).max = a.max
           /\ CanParse(a) /\ Parsed(a) \in Seq(Seq(Nat))
  <1>1. IsArray(a)
    BY DEF Good
  <1>2. PICK q : q = Append(Parsed(a), d)
    OBVIOUS
  <1>3. PICK p : p = Parsed(a)
    OBVIOUS
  <1>4. /\ CanParse(a) /\ p \in Seq(Seq(Nat)) /\ Len(p) \in Nat
        /\ q \in Seq(Seq(Nat)) /\ Len(q) = Len(p) + 1
        /\ \A k \in 1 .. Len(p) : q[k] = p[k]
        /\ q[Len(p) + 1] = d
        /\ PushTo(a, d) = WithElements(a, q)
    BY <1>1, <1>2, <1>3, PushParsed
  <1>5. ShortElements(p)
    BY <1>3, <1>4 DEF Good
  <1>6. ShortElements(q) /\ q # <<>>
    <2>1. ASSUME NEW k \in 1 .. Len(q) PROVE Len(q[k]) < Base4
      <3>1. CASE k = Len(p) + 1
        BY <1>4, <3>1
      <3>2. CASE k # Len(p) + 1
        <4>1. k \in 1 .. Len(p)
          BY <1>4, <3>2
        <4> QED
          BY <1>4, <1>5, <4>1 DEF ShortElements
      <3> QED
        BY <3>1, <3>2
    <2>2. Len(q) # 0
      BY <1>4
    <2> QED
      BY <2>1, <2>2 DEF ShortElements
  <1>7. Good(WithElements(a, q))
    BY <1>4, <1>6, GoodElements
  <1>8. /\ WithElements(a, q).max = a.max /\ WithElements(a, q).parsed = q
        /\ CanParse(WithElements(a, q)) /\ Parsed(WithElements(a, q)) = q
    BY <1>1, <1>4, NewElements
  <1>9. Len(q) - 1 = Len(p)
    BY <1>4
  <1> QED
    BY <1>2, <1>3, <1>4, <1>7, <1>8, <1>9

-----------------------------------------------------------------------------
(***************************************************************************)
(* One step per call: it keeps the invariant, and it is the call of the    *)
(* same name of the sequence.                                              *)
(***************************************************************************)
LEMMA ContentTyped ==
    ASSUME ArrayInv
    PROVE  /\ CanParse(arr) => /\ Content = Parsed(arr) /\ Content # Nil
                               /\ Content \in Seq(Seq(Nat)) /\ Len(Content) \in Nat
           /\ ~CanParse(arr) => Content = Nil
           /\ arr.max \in Nat /\ arr.max <= MaxArrayLen /\ MaxArrayLen \in Nat
  <1>1. IsArray(arr) /\ arr.max <= MaxArrayLen
    BY DEF ArrayInv, Good
  <1>2. CanParse(arr) => Parsed(arr) \in Seq(Seq(Nat)) /\ Parsed(arr) # Nil
    BY <1>1, ElementsTyped
  <1> QED
    BY <1>1, <1>2, LazySliceAssumption DEF Content, IsArray

LEMMA ElementsFit ==
    ASSUME NEW d \in Elements
    PROVE  d \in Seq(Nat) /\ Len(d) < Base4
  <1>1. d \in Seq(0 .. Base - 1) /\ Len(d) < Base4
    BY ArrayAssumption DEF Base4
  <1>2. 0 .. Base - 1 \subseteq Nat
    BY LazySliceAssumption
  <1> QED
    BY <1>1, <1>2, SeqMonotonic

LEMMA NoPanic == <<>> # Panic /\ \A n \in Nat : <<n>> # Panic
  <1>1. <<>> \in Seq(Nat)
    OBVIOUS
  <1>2. \A n \in Nat : <<n>> \in Seq(Nat)
    OBVIOUS
  <1> QED
    BY <1>1, <1>2, ArrayAssumption

LEMMA PushStep ==
    ASSUME ArrayInv, NEW d \in Elements, Push(d)
    PROVE  ArrayInv' /\ Abstract!Push /\ arr'.max = arr.max
  <1>1. d \in Seq(Nat) /\ Len(d) < Base4
    BY ElementsFit
  <1>2. CASE CanPush(arr) /\ arr' = PushTo(arr, d)
             /\ call' = Call("Push", 0, d, <<Len(arr'.parsed) - 1>>)
    <2>1. /\ Good(arr') /\ CanParse(arr') /\ Parsed(arr') = Append(Parsed(arr), d)
          /\ Len(arr'.parsed) - 1 = Len(Parsed(arr))
          /\ arr'.max = arr.max /\ CanParse(arr)
      BY <1>1, <1>2, GoodPush DEF ArrayInv
    <2>2. Content = Parsed(arr) /\ Content # Nil /\ Len(Content) \in Nat
      BY <2>1, ContentTyped
    <2>3. Content' = Append(Content, d)
      BY <2>1, <2>2 DEF Content
    <2>4. call'.op = "Push" /\ call'.data = d /\ call'.ret = <<Len(Content)>>
      BY <1>2, <2>1, <2>2 DEF Call
    <2>5. call'.ret # Panic
      BY <2>2, <2>4, NoPanic
    <2> QED
      BY <2>1, <2>2, <2>3, <2>4, <2>5 DEF ArrayInv, Abstract!Push, Abstract!Panicked
  <1>3. CASE ~CanPush(arr) /\ UNCHANGED arr /\ call' = Call("Push", 0, d, Panic)
    <2>1. call'.op = "Push" /\ call'.ret = Panic
      BY <1>3 DEF Call
    <2>2. Content = Nil \/ Len(Content) >= arr.max
      <3>1. CASE ~CanParse(arr)
        BY <3>1, ContentTyped
      <3>2. CASE CanParse(arr) /\ ~ (NumParsed(arr) < arr.max)
        <4>1. Content = Parsed(arr) /\ Len(Content) \in Nat /\ arr.max \in Nat
          BY <3>2, ContentTyped
        <4>2. CASE arr.parsed = Nil
          BY <3>2, <4>1, <4>2 DEF NumParsed
        <4>3. CASE arr.parsed # Nil
          BY <3>2, <4>1, <4>3 DEF NumParsed, Parsed
        <4> QED
          BY <4>2, <4>3
      <3> QED
        BY <1>3, <3>1, <3>2 DEF CanPush
    <2>3. Content' = Content /\ ArrayInv' /\ arr'.max = arr.max
      BY <1>3 DEF Content, ArrayInv
    <2> QED
      BY <2>1, <2>2, <2>3 DEF Abstract!Push, Abstract!Panicked
  <1> QED
    BY <1>2, <1>3 DEF Push

LEMMA PutStep ==
    ASSUME ArrayInv, NEW i \in Indices, NEW d \in Elements, PutAtIdx(i, d)
    PROVE  ArrayInv' /\ Abstract!PutAtIdx /\ arr'.max = arr.max
  <1>1. d \in Seq(Nat) /\ Len(d) < Base4 /\ i \in Nat
    BY ElementsFit, ArrayAssumption
  <1>2. CASE CanPut(arr, i) /\ arr' = PutIn(arr, i, d) /\ call' = Call("PutAtIdx", i, d, <<>>)
    <2>1. /\ Good(arr') /\ CanParse(arr') /\ Parsed(arr') = [arr.parsed EXCEPT ![i + 1] = d]
          /\ arr'.max = arr.max
          /\ CanParse(arr) /\ Parsed(arr) = arr.parsed /\ i < Len(arr.parsed)
      BY <1>1, <1>2, GoodPut DEF ArrayInv
    <2>2. Content = arr.parsed /\ Content # Nil
      BY <2>1, ContentTyped
    <2>3. Content' = [Content EXCEPT ![i + 1] = d]
      BY <2>1, <2>2 DEF Content
    <2>4. call'.op = "PutAtIdx" /\ call'.data = d /\ call'.idx = i /\ call'.ret # Panic
      BY <1>2, NoPanic DEF Call
    <2> QED
      BY <2>1, <2>2, <2>3, <2>4 DEF ArrayInv, Abstract!PutAtIdx, Abstract!Panicked
  <1>3. CASE UNCHANGED arr /\ call' = Call("PutAtIdx", i, d, Panic)
    <2>1. call'.op = "PutAtIdx" /\ call'.ret = Panic
      BY <1>3 DEF Call
    <2>2. Content' = Content /\ ArrayInv' /\ arr'.max = arr.max
      BY <1>3 DEF Content, ArrayInv
    <2> QED
      BY <2>1, <2>2 DEF Abstract!PutAtIdx, Abstract!Panicked
  <1> QED
    BY <1>2, <1>3 DEF PutAtIdx

LEMMA GrowStep ==
    ASSUME ArrayInv, NEW i \in Indices, NEW d \in Elements, PutAtIdxGrow(i, d)
    PROVE  ArrayInv' /\ Abstract!PutAtIdxGrow /\ arr'.max = arr.max
  <1>1. d \in Seq(Nat) /\ Len(d) < Base4 /\ i \in Nat /\ i + 1 \in Nat
    BY ElementsFit, ArrayAssumption
  <1>2. \A n : Abstract!Grown(n) = Stretched(Content, n)
    <2>1. \A S : Abstract!Max(S) = Max(S)
      BY DEF Abstract!Max, Max
    <2> QED
      BY <2>1, Zenon DEF Abstract!Grown, Stretched
  <1>3. CASE /\ CanGrow(arr, i + 1) /\ arr' = PutIn(GrowTo(arr, i + 1), i, d)
             /\ call' = Call("PutAtIdxGrow", i, d, <<>>)
    <2>1. CanParse(arr)
      BY <1>3 DEF CanGrow
    <2>2. Content = Parsed(arr) /\ Content # Nil
      BY <2>1, ContentTyped
    <2>3. PICK b : b = GrowTo(arr, i + 1)
      OBVIOUS
    <2>4. /\ Good(b) /\ CanParse(b) /\ b.parsed = Stretched(Content, i + 1)
          /\ b.parsed \in Seq(Seq(Nat))
          /\ i + 1 <= Len(b.parsed) /\ b.max = arr.max
      BY <1>1, <2>1, <2>2, <2>3, GoodGrow DEF ArrayInv
    <2>5. CanPut(b, i)
      <3>1. b.parsed # Nil /\ Len(b.parsed) \in Nat
        BY <2>4, LazySliceAssumption
      <3>2. i < Len(b.parsed)
        BY <1>1, <2>4, <3>1
      <3> QED
        BY <3>1, <3>2 DEF CanPut, NumParsed
    <2>6. /\ Good(arr') /\ CanParse(arr') /\ Parsed(arr') = [b.parsed EXCEPT ![i + 1] = d]
          /\ arr'.max = arr.max
      <3>1. arr' = PutIn(b, i, d)
        BY <1>3, <2>3
      <3>2. /\ Good(PutIn(b, i, d)) /\ CanParse(PutIn(b, i, d))
            /\ Parsed(PutIn(b, i, d)) = [b.parsed EXCEPT ![i + 1] = d]
            /\ PutIn(b, i, d).max = b.max
        <4>1. d \in Seq(Nat) /\ Len(d) < Base4 /\ i \in Nat /\ Good(b)
          BY <1>1, <2>4
        <4> QED
          BY <2>5, <4>1, GoodPut
      <3> QED
        BY <2>4, <3>1, <3>2
    <2>7. Content' = [Stretched(Content, i + 1) EXCEPT ![i + 1] = d]
      BY <2>4, <2>6 DEF Content
    <2>8. call'.op = "PutAtIdxGrow" /\ call'.data = d /\ call'.idx = i /\ call'.ret # Panic
      BY <1>3, NoPanic DEF Call
    <2> QED
      BY <1>2, <2>2, <2>6, <2>7, <2>8 DEF ArrayInv, Abstract!PutAtIdxGrow, Abstract!Panicked
  <1>4. CASE /\ ~CanGrow(arr, i + 1)
             /\ arr' = IF CanParse(arr) THEN GrowTo(arr, arr.max) ELSE arr
             /\ call' = Call("PutAtIdxGrow", i, d, Panic)
    <2>1. call'.op = "PutAtIdxGrow" /\ call'.idx = i /\ call'.ret = Panic
      BY <1>4 DEF Call
    <2>2. CASE CanParse(arr)
      <3>1. Content = Parsed(arr) /\ Content # Nil /\ Len(Content) \in Nat /\ arr.max \in Nat
        BY <2>2, ContentTyped
      <3>2. /\ Good(arr') /\ CanParse(arr') /\ Parsed(arr') = Stretched(Content, arr.max)
            /\ arr'.max = arr.max
        BY <1>4, <2>2, <3>1, GoodGrow DEF ArrayInv
      <3>3. Content' = Stretched(Content, arr.max)
        BY <3>2 DEF Content
      <3>4. i >= arr.max
        <4>1. ~ (i + 1 <= Max({arr.max, Len(Content)}))
          BY <1>4, <2>2, <3>1 DEF CanGrow
        <4> QED
          BY <1>1, <3>1, <4>1, MaxOfTwo
      <3> QED
        BY <1>2, <2>1, <3>1, <3>2, <3>3, <3>4
        DEF ArrayInv, Abstract!PutAtIdxGrow, Abstract!Panicked
    <2>3. CASE ~CanParse(arr)
      <3>1. Content = Nil /\ Content' = Nil /\ ArrayInv' /\ arr'.max = arr.max
        BY <1>4, <2>3, ContentTyped DEF Content, ArrayInv
      <3> QED
        BY <2>1, <3>1 DEF Abstract!PutAtIdxGrow, Abstract!Panicked
    <2> QED
      BY <2>2, <2>3
  <1> QED
    BY <1>3, <1>4 DEF PutAtIdxGrow

LEMMA SetDataStep ==
    ASSUME ArrayInv, NEW data \in RawData, SetData(data)
    PROVE  ArrayInv' /\ Abstract!SetData /\ arr'.max = arr.max
  <1>1. IsRaw(data) /\ data \in Seq(Nat) /\ arr.max \in Nat /\ arr.max <= MaxArrayLen
    BY RawIsRaw, ContentTyped DEF IsRaw
  <1>2. arr' = ArrayFromBytes(data, arr.max) /\ call'.op = "SetData" /\ call'.data = data
    BY DEF SetData, Call
  <1>3. Good(arr')
    BY <1>1, <1>2, GoodRaw
  <1>4. /\ arr'.max = arr.max
        /\ CanParse(arr') <=> Parses(data, arr.max)
        /\ Parsed(arr') = ParseArray(data, arr.max)
    BY <1>1, <1>2, FromBytes
  <1>5. Content' = Decode(data, arr.max)
    BY <1>4 DEF Content, Decode
  <1> QED
    BY <1>2, <1>3, <1>4, <1>5 DEF ArrayInv, Abstract!SetData

\* Reading parses, which does not change the content.
LEMMA ReadStep ==
    ASSUME ArrayInv, arr' = IF CanParse(arr) THEN EnsureParsed(arr) ELSE arr
    PROVE  ArrayInv' /\ Content' = Content /\ arr'.max = arr.max
  <1>1. CASE CanParse(arr)
    <2>1. Good(arr')
      BY <1>1, GoodParsed DEF ArrayInv
    <2>2. CanParse(arr') /\ Parsed(arr') = Parsed(arr) /\ arr'.max = arr.max
      BY <1>1, EnsureParsedSame DEF ArrayInv, Good
    <2> QED
      BY <1>1, <2>1, <2>2 DEF ArrayInv, Content
  <1>2. CASE ~CanParse(arr)
    BY <1>2 DEF ArrayInv, Content
  <1> QED
    BY <1>1, <1>2

LEMMA AtStep ==
    ASSUME ArrayInv, NEW i \in Indices, At(i)
    PROVE  ArrayInv' /\ Abstract!At /\ arr'.max = arr.max
  <1>1. ArrayInv' /\ Content' = Content /\ arr'.max = arr.max
    BY ReadStep DEF At
  <1>2. call'.op = "At" /\ call'.idx = i
    BY DEF At, Call
  <1>3. call'.ret = IF CanParse(arr) /\ i < Len(Parsed(arr)) THEN Parsed(arr)[i + 1] ELSE Panic
    BY DEF At, Call
  <1>4. /\ CanParse(arr) => Content = Parsed(arr) /\ Content # Nil
        /\ ~CanParse(arr) => Content = Nil
    BY ContentTyped
  <1>5. IF Content # Nil /\ i < Len(Content) THEN call'.ret = Content[i + 1] ELSE call'.ret = Panic
    BY <1>3, <1>4
  <1> QED
    BY <1>1, <1>2, <1>5 DEF Abstract!At, Abstract!Panicked

LEMMA NumElementsStep ==
    ASSUME ArrayInv, NumElements
    PROVE  ArrayInv' /\ Abstract!NumElements /\ arr'.max = arr.max
  <1>1. ArrayInv' /\ Content' = Content /\ arr'.max = arr.max
    BY ReadStep DEF NumElements
  <1>2. /\ call'.op = "NumElements"
        /\ call'.ret = IF CanParse(arr) THEN <<Len(Parsed(arr))>> ELSE Panic
    BY DEF NumElements, Call
  <1>3. /\ CanParse(arr) => Content = Parsed(arr) /\ Content # Nil
        /\ ~CanParse(arr) => Content = Nil
    BY ContentTyped
  <1> QED
    BY <1>1, <1>2, <1>3 DEF Abstract!NumElements, Abstract!Panicked

\* ensureBytes panics only for more elements than the prefix can express.
LEMMA BytesPanic ==
    ASSUME ArrayInv, ~CanBytes(arr)
    PROVE  Content # Nil /\ Len(Content) > arr.max
  <1>1. arr.bytes = Nil /\ ~CanEncode(arr.parsed)
    BY DEF CanBytes
  <1>2. arr.parsed # Nil
    BY <1>1 DEF ArrayInv, Good, IsArray
  <1>3. CanParse(arr) /\ Parsed(arr) = arr.parsed
    BY <1>2 DEF CanParse, Parsed
  <1>4. /\ Content = arr.parsed /\ Content # Nil /\ Len(Content) \in Nat
        /\ arr.max \in Nat /\ arr.max <= MaxArrayLen /\ MaxArrayLen \in Nat
    BY <1>3, ContentTyped
  <1>5. ShortElements(arr.parsed)
    BY <1>3 DEF ArrayInv, Good
  <1>6. ~ (Len(arr.parsed) <= MaxArrayLen)
    BY <1>1, <1>5 DEF CanEncode, ShortElements, Base4
  <1> QED
    BY <1>4, <1>6

LEMMA BytesStep ==
    ASSUME ArrayInv, Bytes
    PROVE  ArrayInv' /\ Abstract!Bytes /\ arr'.max = arr.max
  <1>1. CASE /\ CanBytes(arr) /\ arr' = EnsureBytes(arr)
             /\ call' = Call("Bytes", 0, <<>>, EnsureBytes(arr).bytes)
    <2>1. call'.op = "Bytes" /\ call'.ret = EnsureBytes(arr).bytes
      BY <1>1 DEF Call
    <2>2. /\ Good(arr') /\ EnsureBytes(arr).bytes \in Seq(Nat) /\ arr'.max = arr.max
          /\ CanParse(arr') <=> CanParse(arr)
          /\ Parsed(arr') = Parsed(arr)
      BY <1>1, GoodBytes DEF ArrayInv
    <2>3. Content' = Content
      BY <2>2 DEF Content
    <2>4. call'.ret # Panic
      BY <2>1, <2>2, ArrayAssumption
    <2>5. ASSUME Content # Nil PROVE Decode(call'.ret, Len(Content)) = Content
      <3>1. CanParse(arr) /\ Content = Parsed(arr) /\ Len(Content) \in Nat
        BY <2>5, ContentTyped
      <3>2. /\ Parses(EnsureBytes(arr).bytes, Len(Content)) <=> Len(Content) <= Len(Content)
            /\ ParseArray(EnsureBytes(arr).bytes, Len(Content)) = Content
        BY <1>1, <3>1, GoodBytes DEF ArrayInv
      <3>3. Len(Content) <= Len(Content)
        BY <3>1
      <3> QED
        BY <2>1, <3>2, <3>3 DEF Decode
    <2> QED
      BY <2>1, <2>2, <2>3, <2>4, <2>5 DEF ArrayInv, Abstract!Bytes, Abstract!Panicked
  <1>2. CASE ~CanBytes(arr) /\ call' = Call("Bytes", 0, <<>>, Panic) /\ UNCHANGED arr
    <2>1. call'.op = "Bytes" /\ call'.ret = Panic
      BY <1>2 DEF Call
    <2>2. Content # Nil /\ Len(Content) > arr.max
      BY <1>2, BytesPanic
    <2>3. Content' = Content /\ ArrayInv' /\ arr'.max = arr.max
      BY <1>2 DEF Content, ArrayInv
    <2> QED
      BY <2>1, <2>2, <2>3 DEF Abstract!Bytes, Abstract!Panicked
  <1> QED
    BY <1>1, <1>2 DEF Bytes

LEMMA ReloadStep ==
    ASSUME ArrayInv, Reload
    PROVE  ArrayInv' /\ Abstract!Reload /\ arr'.max = arr.max
  <1>1. CASE /\ CanBytes(arr) /\ arr' = ArrayFromBytes(EnsureBytes(arr).bytes, arr.max)
             /\ call' = Call("Reload", 0, <<>>, <<>>)
    <2>1. call'.op = "Reload" /\ call'.ret # Panic
      BY <1>1, NoPanic DEF Call
    <2>2. /\ Good(arr') /\ arr'.max = arr.max
          /\ CanParse(arr') <=> CanParse(arr) /\ Len(Parsed(arr)) <= arr.max
          /\ CanParse(arr) => Parsed(arr') = Parsed(arr)
      BY <1>1, GoodReload DEF ArrayInv
    <2>3. /\ CanParse(arr) => Content = Parsed(arr) /\ Content # Nil
          /\ ~CanParse(arr) => Content = Nil
      BY ContentTyped
    <2>4. Content' = IF Content # Nil /\ Len(Content) <= arr.max THEN Content ELSE Nil
      BY <2>2, <2>3 DEF Content
    <2> QED
      BY <2>1, <2>2, <2>4 DEF ArrayInv, Abstract!Reload, Abstract!Panicked
  <1>2. CASE ~CanBytes(arr) /\ call' = Call("Reload", 0, <<>>, Panic) /\ UNCHANGED arr
    <2>1. call'.op = "Reload" /\ call'.ret = Panic
      BY <1>2 DEF Call
    <2>2. Content # Nil /\ Len(Content) > arr.max
      BY <1>2, BytesPanic
    <2>3. Content' = Content /\ ArrayInv' /\ arr'.max = arr.max
      BY <1>2 DEF Content, ArrayInv
    <2> QED
      BY <2>1, <2>2, <2>3 DEF Abstract!Reload, Abstract!Panicked
  <1> QED
    BY <1>1, <1>2 DEF Reload

-----------------------------------------------------------------------------
LEMMA InitArray ==
    ASSUME Init
    PROVE  ArrayInv /\ Abstract!Init
  <1>1. PICK m \in Limits : \E d \in RawData \cup {EmptyArray(m).bytes} : arr = ArrayFromBytes(d, m)
    BY DEF Init
  <1>2. PICK d \in RawData \cup {<<0, 0>>} : arr = ArrayFromBytes(d, m)
    BY <1>1 DEF EmptyArray, ArrayFromBytes
  <1>3. IsRaw(d) /\ d \in Seq(Nat)
    BY RawIsRaw DEF IsRaw
  <1>4. m \in Nat /\ m <= MaxArrayLen
    BY ArrayAssumption, LazySliceAssumption
  <1>5. Good(arr)
    BY <1>2, <1>3, <1>4, GoodRaw
  <1>6. /\ arr.max = m
        /\ CanParse(arr) <=> Parses(d, m)
        /\ Parsed(arr) = ParseArray(d, m)
    BY <1>2, <1>3, <1>4, FromBytes
  <1>7. ASSUME Content # Nil PROVE Len(Content) <= arr.max
    <2>1. Parses(d, m) /\ Content = ParseArray(d, m)
      BY <1>6, <1>7 DEF Content
    <2>2. Len(ParseArray(d, m)) <= m
      BY <1>3, <1>4, <2>1, ParsedTyped
    <2> QED
      BY <1>6, <2>1, <2>2
  <1>8. call.op = "new"
    BY DEF Init, Call
  <1> QED
    BY <1>5, <1>7, <1>8 DEF ArrayInv, Abstract!Init

LEMMA ArrayStep ==
    ASSUME ArrayInv, [Next]_arrVars
    PROVE  ArrayInv' /\ [Abstract!Next]_(Abstract!specVars)
  <1>1. CASE UNCHANGED arrVars
    <2>1. arr' = arr /\ call' = call /\ Content' = Content
      BY <1>1 DEF arrVars, Content
    <2>2. UNCHANGED Abstract!specVars
      BY <2>1 DEF Abstract!specVars
    <2> QED
      BY <2>1, <2>2 DEF ArrayInv
  <1>2. ASSUME NEW d \in Elements, Push(d)
        PROVE  ArrayInv' /\ Abstract!Next
    BY <1>2, PushStep DEF Abstract!Next
  <1>3. ASSUME NEW i \in Indices, NEW d \in Elements, PutAtIdx(i, d)
        PROVE  ArrayInv' /\ Abstract!Next
    BY <1>3, PutStep DEF Abstract!Next
  <1>4. ASSUME NEW i \in Indices, NEW d \in Elements, PutAtIdxGrow(i, d)
        PROVE  ArrayInv' /\ Abstract!Next
    BY <1>4, GrowStep DEF Abstract!Next
  <1>5. ASSUME NEW data \in RawData, SetData(data)
        PROVE  ArrayInv' /\ Abstract!Next
    BY <1>5, SetDataStep DEF Abstract!Next
  <1>6. ASSUME NEW i \in Indices, At(i)
        PROVE  ArrayInv' /\ Abstract!Next
    BY <1>6, AtStep DEF Abstract!Next
  <1>7. CASE NumElements
    BY <1>7, NumElementsStep DEF Abstract!Next
  <1>8. CASE Bytes
    BY <1>8, BytesStep DEF Abstract!Next
  <1>9. CASE Reload
    BY <1>9, ReloadStep DEF Abstract!Next
  <1> QED
    BY <1>1, <1>2, <1>3, <1>4, <1>5, <1>6, <1>7, <1>8, <1>9 DEF Next

\* In every array that holds both representations the bytes stand for the
\* elements: PutAtIdx, PutAtIdxGrow and Push invalidate the bytes, ensureParsed
\* and ensureBytes add the other representation of the same elements.
THEOREM ArraysAgree == Spec => []RepresentationsAgree
  <1>1. Init => ArrayInv
    BY InitArray
  <1>2. ArrayInv /\ [Next]_arrVars => ArrayInv'
    BY ArrayStep
  <1>3. ArrayInv => RepresentationsAgree
    BY DEF ArrayInv, Good, Agree, RepresentationsAgree
  <1> QED
    BY <1>1, <1>2, <1>3, PTL DEF Spec

\* The lazy array implements the sequence: every call returns what the
\* sequence of ArraySpec returns, whichever representation it finds.
THEOREM ArrayIsSequence == Spec => ActsAsSequence
  <1>1. Init => ArrayInv /\ Abstract!Init
    BY InitArray
  <1>2. ArrayInv /\ [Next]_arrVars => ArrayInv' /\ [Abstract!Next]_(Abstract!specVars)
    BY ArrayStep
  <1> QED
    BY <1>1, <1>2, PTL DEF Spec, ActsAsSequence, Abstract!Spec
=============================================================================
