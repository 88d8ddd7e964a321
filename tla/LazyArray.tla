------------------------------ MODULE LazyArray ------------------------------
(***************************************************************************)
(* One lazy array under any sequence of calls.  A call that panics is a    *)
(* step too: it leaves the array as the code leaves it at that point.      *)
(***************************************************************************)
EXTENDS LazySlice

CONSTANTS
    Elements,   \* byte strings that are pushed and put
    RawData,    \* byte strings that an array is made from
    Limits,     \* values of maxNumElements
    Indices,    \* indices used by the calls
    Panic       \* the result of a call that panics

\* Data starts with a prefix as far as it has two bytes, and the limits are
\* numbers that the prefix can hold.
ASSUME ArrayAssumption ==
    /\ \A d \in Elements :
           d \in Seq(0 .. Base - 1) /\ Len(d) < Base * Base * Base * Base
    /\ \A d \in RawData :
           /\ d \in Seq(Nat)
           /\ Len(d) > 1 => d[1] \in WidthCodes /\ d[2] <= MaxArrayLen
           /\ \A k \in 3 .. Len(d) : d[k] < Base
    /\ Limits \subseteq 0 .. MaxArrayLen
    /\ Indices \subseteq Nat
    /\ Panic \notin Seq(Nat)

VARIABLES
    arr,    \* the array
    call    \* the last call: operation, arguments and result

arrVars == <<arr, call>>

Call(op, idx, data, ret) == [op |-> op, idx |-> idx, data |-> data, ret |-> ret]

Init ==
    /\ \E m \in Limits : \E d \in RawData \cup {EmptyArray(m).bytes} : arr = ArrayFromBytes(d, m)
    /\ call = Call("new", 0, <<>>, <<>>)

Push(d) ==
    \/ /\ CanPush(arr)
       /\ arr' = PushTo(arr, d)
       /\ call' = Call("Push", 0, d, <<Len(arr'.parsed) - 1>>)
    \/ /\ ~CanPush(arr)
       /\ call' = Call("Push", 0, d, Panic)
       /\ UNCHANGED arr

PutAtIdx(i, d) ==
    \/ /\ CanPut(arr, i)
       /\ arr' = PutIn(arr, i, d)
       /\ call' = Call("PutAtIdx", i, d, <<>>)
    \/ /\ ~CanPut(arr, i)
       /\ call' = Call("PutAtIdx", i, d, Panic)
       /\ UNCHANGED arr

\* NumElements parses; then empty elements are pushed one by one, and the
\* first one that does not fit panics.
PutAtIdxGrow(i, d) ==
    \/ /\ CanGrow(arr, i + 1)
       /\ arr' = PutIn(GrowTo(arr, i + 1), i, d)
       /\ call' = Call("PutAtIdxGrow", i, d, <<>>)
    \/ /\ ~CanGrow(arr, i + 1)
       /\ arr' = IF CanParse(arr) THEN GrowTo(arr, arr.max) ELSE arr
       /\ call' = Call("PutAtIdxGrow", i, d, Panic)

SetData(data) ==
    /\ arr' = ArrayFromBytes(data, arr.max)
    /\ call' = Call("SetData", 0, data, <<>>)

At(i) ==
    /\ arr' = IF CanParse(arr) THEN EnsureParsed(arr) ELSE arr
    /\ call' = Call("At", i, <<>>,
                    IF CanParse(arr) /\ i < Len(Parsed(arr)) THEN Parsed(arr)[i + 1] ELSE Panic)

NumElements ==
    /\ arr' = IF CanParse(arr) THEN EnsureParsed(arr) ELSE arr
    /\ call' = Call("NumElements", 0, <<>>,
                    IF CanParse(arr) THEN <<Len(Parsed(arr))>> ELSE Panic)

Bytes ==
    \/ /\ CanBytes(arr)
       /\ arr' = EnsureBytes(arr)
       /\ call' = Call("Bytes", 0, <<>>, EnsureBytes(arr).bytes)
    \/ /\ ~CanBytes(arr)
       /\ call' = Call("Bytes", 0, <<>>, Panic)
       /\ UNCHANGED arr

\* The array is serialised and read again: an output that is stored, a clone.
Reload ==
    \/ /\ CanBytes(arr)
       /\ arr' = ArrayFromBytes(EnsureBytes(arr).bytes, arr.max)
       /\ call' = Call("Reload", 0, <<>>, <<>>)
    \/ /\ ~CanBytes(arr)
       /\ call' = Call("Reload", 0, <<>>, Panic)
       /\ UNCHANGED arr

Next ==
    \/ \E d \in Elements :
           \/ Push(d)
           \/ \E i \in Indices : PutAtIdx(i, d) \/ PutAtIdxGrow(i, d)
    \/ \E data \in RawData : SetData(data)
    \/ \E i \in Indices : At(i)
    \/ NumElements
    \/ Bytes
    \/ Reload

Spec == Init /\ [][Next]_arrVars

-----------------------------------------------------------------------------
Decode(data, max) == IF Parses(data, max) THEN ParseArray(data, max) ELSE Nil

Content == IF CanParse(arr) THEN Parsed(arr) ELSE Nil

Abstract == INSTANCE ArraySpec WITH content <- Content, limit <- arr.max

\* The lazy array behaves as a sequence: no order of reading, writing and
\* serialising, from canonical or other bytes, shows which of the two
\* representations it holds (invalidation of bytes, ensureParsed,
\* ensureBytes, the codec).
ActsAsSequence == Abstract!Spec

\* If an array holds both representations they stand for the same elements:
\* no write forgets to invalidate the bytes.
RepresentationsAgree ==
    arr.bytes # Nil /\ arr.parsed # Nil =>
        Parses(arr.bytes, MaxArrayLen) /\ ParseArray(arr.bytes, MaxArrayLen) = arr.parsed

-----------------------------------------------------------------------------
\* Push: "Array.Push: too many elements".  No sequence of calls makes an array
\* with more elements than its limit.
WithinLimit == Content # Nil => Len(Content) <= arr.max

\* PutAtIdx "panics if array has no element at that index": it does not panic
\* if there is one.
PutOnlyPanicsOutside ==
    call.op = "PutAtIdx" /\ call.ret = Panic =>
        Content = Nil \/ call.idx >= Len(Content)
==============================================================================
