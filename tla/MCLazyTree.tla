----------------------------- MODULE MCLazyTree ------------------------------
(***************************************************************************)
(* Instances of LazyTree for TLC: elements that are arrays of up to two    *)
(* elements, and elements that are no arrays.                              *)
(***************************************************************************)
EXTENDS LazyTree

Leaves == {EncodeArray(<<<<1>>>>), EncodeArray(<<<<0>>, <<1>>>>)}

MCElements == Leaves \cup {<<1>>}

MCRawData ==
    {EncodeArray(e) : e \in {<<>>} \cup {<<x>> : x \in MCElements}
                            \cup {<<x, y>> : x, y \in MCElements}}
    \cup {<<1>>}

MCIndices == 0 .. 2
==============================================================================
