------------------------------ MODULE ArraySpec ------------------------------
(***************************************************************************)
(* What a lazy array promises to its users: it behaves as a sequence of    *)
(* byte strings.  Whether it holds bytes, elements or both cannot be       *)
(* observed through the results of the calls.  Data that does not parse    *)
(* has no content, and every call that needs elements panics then.         *)
(*                                                                         *)
(* call is the last call: the operation, its arguments and what it         *)
(* returned (a number n is returned as <<n>>), or Panic.                   *)
(***************************************************************************)
EXTENDS Integers, Sequences, FiniteSetsExt

CONSTANTS
    Nil,            \* no content
    Panic,          \* the result of a call that panics
    Decode(_, _)    \* content of serialised data under a limit, or Nil

VARIABLES
    content,   \* the elements
    limit,     \* the largest number of elements
    call       \* the last call

specVars == <<content, limit, call>>

Init ==
    /\ content # Nil => Len(content) <= limit
    /\ call.op = "new"

Panicked == call'.ret = Panic

\* One element more, at the end; its index is returned.  It never fails while
\* there is room.
Push ==
    /\ call'.op = "Push"
    /\ \/ /\ ~Panicked
          /\ content # Nil
          /\ content' = Append(content, call'.data)
          /\ call'.ret = <<Len(content)>>
       \/ /\ Panicked
          /\ content = Nil \/ Len(content) >= limit
          /\ content' = content

\* One element replaced.
PutAtIdx ==
    /\ call'.op = "PutAtIdx"
    /\ \/ /\ ~Panicked
          /\ content # Nil /\ call'.idx < Len(content)
          /\ content' = [content EXCEPT ![call'.idx + 1] = call'.data]
       \/ Panicked /\ content' = content

\* The elements, followed by empty ones if they are fewer than n.
Grown(n) ==
    [k \in 1 .. Max({n, Len(content)}) |-> IF k <= Len(content) THEN content[k] ELSE <<>>]

\* One element replaced after growing up to it.  Growing stops at the limit;
\* what was added up to there stays.
PutAtIdxGrow ==
    /\ call'.op = "PutAtIdxGrow"
    /\ \/ /\ ~Panicked
          /\ content # Nil
          /\ content' = [Grown(call'.idx + 1) EXCEPT ![call'.idx + 1] = call'.data]
       \/ /\ Panicked
          /\ content' = IF content = Nil THEN Nil ELSE Grown(limit)
          /\ content # Nil => call'.idx >= limit

\* Reading changes nothing and fails only where there is nothing to read.
At ==
    /\ call'.op = "At"
    /\ content' = content
    /\ IF content # Nil /\ call'.idx < Len(content)
       THEN call'.ret = content[call'.idx + 1]
       ELSE Panicked

NumElements ==
    /\ call'.op = "NumElements"
    /\ content' = content
    /\ IF content # Nil THEN call'.ret = <<Len(content)>> ELSE Panicked

\* The bytes returned stand for exactly this content.  It fails only for a
\* content beyond the limit.
Bytes ==
    /\ call'.op = "Bytes"
    /\ content' = content
    /\ IF Panicked THEN content # Nil /\ Len(content) > limit
       ELSE content # Nil => Decode(call'.ret, Len(content)) = content

SetData ==
    /\ call'.op = "SetData"
    /\ content' = Decode(call'.data, limit)

\* Another array with the same limit, made from the bytes of this one: it has
\* the same content, unless that is beyond the limit.
Reload ==
    /\ call'.op = "Reload"
    /\ content' = IF content # Nil /\ (Panicked \/ Len(content) <= limit) THEN content ELSE Nil
    /\ Panicked => content # Nil /\ Len(content) > limit

Next ==
    /\ \/ Push \/ PutAtIdx \/ PutAtIdxGrow \/ SetData
       \/ At \/ NumElements \/ Bytes \/ Reload
    /\ UNCHANGED limit

Spec == Init /\ [][Next]_specVars
==============================================================================
