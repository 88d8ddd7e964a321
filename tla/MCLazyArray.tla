----------------------------- MODULE MCLazyArray -----------------------------
(***************************************************************************)
(* Instances of LazyArray for TLC.  A byte has two values, so that an      *)
(* element of two bytes already needs a length field of two and one of     *)
(* four bytes a field of four.                                             *)
(***************************************************************************)
EXTENDS LazyArray

MCElements == {<<>>, <<1>>, <<0, 1>>, <<1, 0, 1, 1>>}

Strings(n) == UNION {[1 .. m -> 0 .. Base - 1] : m \in 0 .. n}

\* Data that is too short, every prefix with every short body (also widths
\* that the code itself would not choose), and a body with wide lengths.
MCRawData ==
    {<<>>, <<0>>}
    \cup {<<c, n>> \o s : c \in WidthCodes, n \in 0 .. MaxArrayLen, s \in Strings(2)}
    \cup {<<1, 2, 1, 0, 0>>, <<2, 2, 0, 1, 1, 0, 0>>, <<3, 1, 0, 0, 0, 1, 1>>, <<2, 1, 0, 1, 1, 0>>}

MCLimits == {0, 2, MaxArrayLen}

MCIndices == 0 .. 2
==============================================================================
