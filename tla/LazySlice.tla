------------------------------ MODULE LazySlice ------------------------------
(***************************************************************************)
(* The serialisation under every output and transaction: an array of byte  *)
(* strings that is kept as its bytes until somebody reads an element, and  *)
(* as its elements until somebody needs the bytes.                         *)
(*                                                                         *)
(* A byte is a number below Base (256 in the code).  The serialised form   *)
(* starts with two bytes, a uint16 whose two highest bits are the code of  *)
(* the width of the length fields and whose other bits are the number of   *)
(* elements; here they are the two first members <<code, number>> of the   *)
(* sequence of bytes.                                                      *)
(***************************************************************************)
EXTENDS Integers, Sequences, FiniteSetsExt

CONSTANTS
    Base,          \* number of values of a byte
    MaxArrayLen,   \* largest number of elements the prefix can hold
    Nil            \* a slice that is not there

ASSUME LazySliceAssumption ==
    /\ Base \in Nat /\ Base > 1
    /\ MaxArrayLen \in Nat \ {0}
    /\ Nil \notin Seq(Nat) /\ Nil \notin Seq(Seq(Nat))

-----------------------------------------------------------------------------
(***************************************************************************)
(* The codec.                                                              *)
(***************************************************************************)
WidthCodes == 0 .. 3

DataLenBytes(code) == IF code = 3 THEN 4 ELSE code

\* Mutant: an element of 256 bytes gets a length field of one byte.
WidthOffByOne(d) ==
    CASE Len(d) = 0 -> 0
      [] Len(d) \in 1 .. Base -> 1
      [] Len(d) \in Base + 1 .. Base * Base - 1 -> 2
      [] Len(d) >= Base * Base -> 3

\* The narrowest length field for an element: none, uint8, uint16 or uint32.
WidthCode(d) ==
    CASE Len(d) = 0 -> 0
      [] Len(d) \in 1 .. Base - 1 -> 1
      [] Len(d) \in Base .. Base * Base - 1 -> 2
      [] Len(d) >= Base * Base -> 3

\* encodeArray fails if the prefix cannot hold the number of elements, or the
\* widest length field the length of one of them.
CanEncode(elems) ==
    /\ Len(elems) <= MaxArrayLen
    /\ \A i \in 1 .. Len(elems) : Len(elems[i]) < Base * Base * Base * Base

\* All the length fields of an array have the width of the longest element.
CalcLenPrefix(elems) ==
    <<Max({0} \cup {WidthCode(elems[i]) : i \in 1 .. Len(elems)}), Len(elems)>>

\* A length as a number of w bytes, the highest byte first.
High(n) == n \div Base

BigEndian(n, w) ==
    CASE w = 1 -> <<n % Base>>
      [] w = 2 -> <<High(n) % Base, n % Base>>
      [] w = 4 -> <<High(High(High(n))) % Base, High(High(n)) % Base, High(n) % Base, n % Base>>
      [] OTHER -> <<>>

\* Written bytes up to and including the i-th element, for every i.
WriteData(elems, w) ==
    LET written[i \in 0 .. Len(elems)] ==
            IF i = 0 THEN <<>> ELSE written[i - 1] \o BigEndian(Len(elems[i]), w) \o elems[i]
    IN  IF w = 0 THEN <<>> ELSE written[Len(elems)]

EncodeArray(elems) ==
    CalcLenPrefix(elems) \o WriteData(elems, DataLenBytes(CalcLenPrefix(elems)[1]))

\* The length field of w bytes after the first o bytes of data.
LengthAt(data, o, w) ==
    CASE w = 1 -> data[o + 1]
      [] w = 2 -> data[o + 1] * Base + data[o + 2]
      [] w = 4 -> ((data[o + 1] * Base + data[o + 2]) * Base + data[o + 3]) * Base + data[o + 4]
      [] OTHER -> 0

\* Where each element ends.  The code panics if it has to read behind the end
\* of the data; here the position is then past the end and stays there.
Ends(data, w, n) ==
    LET end[i \in 0 .. n] ==
            IF i = 0 THEN 0
            ELSE IF end[i - 1] + w > Len(data) THEN Len(data) + 1
            ELSE end[i - 1] + w + LengthAt(data, end[i - 1], w)
    IN  end

\* parseArray succeeds: a prefix within the limit, elements that fill the
\* data to its last byte.
Parses(data, max) ==
    /\ Len(data) >= 2
    /\ data[2] <= max
    /\ Ends(SubSeq(data, 3, Len(data)), DataLenBytes(data[1]), data[2])[data[2]] = Len(data) - 2

ParseArray(data, max) ==
    LET body == SubSeq(data, 3, Len(data))
        w == DataLenBytes(data[1])
        end == Ends(body, w, data[2])
    IN  [i \in 1 .. data[2] |-> SubSeq(body, end[i - 1] + w + 1, end[i])]

-----------------------------------------------------------------------------
(***************************************************************************)
(* Array: its bytes, its elements (either may be missing) and the limit.   *)
(***************************************************************************)
ArrayFromBytes(data, max) == [bytes |-> data, parsed |-> Nil, max |-> max]

EmptyArray(max) == ArrayFromBytes(<<0, 0>>, max)

CanParse(a) == a.parsed = Nil => Parses(a.bytes, a.max)

Parsed(a) == IF a.parsed # Nil THEN a.parsed ELSE ParseArray(a.bytes, a.max)

\* ensureParsed, where it does not panic.
EnsureParsed(a) == [a EXCEPT !.parsed = Parsed(a)]

\* ensureBytes, where it does not panic.  Data without elements keeps whatever
\* bytes it has.
CanBytes(a) == a.bytes = Nil => CanEncode(a.parsed)

EnsureBytes(a) ==
    IF a.bytes # Nil \/ a.parsed = <<>> THEN a
    ELSE [a EXCEPT !.bytes = EncodeArray(a.parsed)]

\* New elements invalidate the bytes.
WithElements(a, elems) == [a EXCEPT !.parsed = elems, !.bytes = Nil]

\* Push compares the limit with the elements it has before it parses.
NumParsed(a) == IF a.parsed = Nil THEN 0 ELSE Len(a.parsed)

CanPush(a) == NumParsed(a) < a.max /\ CanParse(a)

PushTo(a, d) == WithElements(a, Append(Parsed(a), d))

\* PutAtIdx indexes the elements without parsing.
CanPut(a, i) == i < NumParsed(a)

\* Mutant: the bytes stay although the elements have changed.
PutKeepsBytes(a, i, d) == [a EXCEPT !.parsed[i + 1] = d]

PutIn(a, i, d) == WithElements(a, [a.parsed EXCEPT ![i + 1] = d])

\* PutAtIdxGrow pushes empty elements until there are n.
Padded(elems, n) == [k \in 1 .. n |-> IF k <= Len(elems) THEN elems[k] ELSE <<>>]

CanGrow(a, n) == CanParse(a) /\ n <= Max({a.max, Len(Parsed(a))})

GrowTo(a, n) ==
    IF n <= Len(Parsed(a)) THEN EnsureParsed(a)
    ELSE WithElements(a, Padded(Parsed(a), n))
==============================================================================
