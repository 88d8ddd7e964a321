------------------------------ MODULE LazyTree -------------------------------
(***************************************************************************)
(* Tree: an array whose elements are read as arrays again, with a cache of *)
(* the subtrees that were visited.  The tree shares its array with whoever *)
(* called AsTree, who may go on writing to it.  Two levels are modelled:   *)
(* paths of one and of two indices; deeper paths repeat the same step in   *)
(* the subtree.                                                            *)
(***************************************************************************)
EXTENDS LazySlice

CONSTANTS
    MaxElementsLazyTree,   \* limit of every node
    Elements,              \* byte strings written to the shared array
    RawData,               \* byte strings a tree is made from
    Indices,               \* indices used by the calls
    Panic                  \* the result of a call that panics

ASSUME TreeAssumption ==
    /\ MaxElementsLazyTree \in Nat
    /\ \A d \in Elements \cup RawData : d \in Seq(Nat)
    /\ Indices \subseteq Nat

VARIABLES
    sa,            \* the array of the root
    subtrees,      \* the cache: a function from indices to arrays
    read,          \* the last read: a path and its result
    overwritten    \* history: indices written after their subtree was cached

treeVars == <<sa, subtrees, read, overwritten>>

Read(path, ret) == [path |-> path, ret |-> ret]

NoRead == Read(<<>>, <<>>)

HasElement(i) == CanParse(sa) /\ i < Len(Parsed(sa))

\* sa.At and sa.NumElements leave the root parsed where that is possible.
RootParsed == sa' = IF CanParse(sa) THEN EnsureParsed(sa) ELSE sa

\* Mutant: the subtree that was visited first is returned for every index.
GetAnySubtree(i) ==
    IF DOMAIN subtrees # {} THEN subtrees[Min(DOMAIN subtrees)]
    ELSE ArrayFromBytes(Parsed(sa)[i + 1], MaxElementsLazyTree)

\* getSubtree: from the cache, or made from the element.
GetSubtree(i) ==
    IF i \in DOMAIN subtrees THEN subtrees[i]
    ELSE ArrayFromBytes(Parsed(sa)[i + 1], MaxElementsLazyTree)

CanGetSubtree(i) == i \in DOMAIN subtrees \/ HasElement(i)

Cache(i, sub) ==
    subtrees' = [k \in DOMAIN subtrees \cup {i} |-> IF k = i THEN sub ELSE subtrees[k]]

\* A subtree out of the cache does not touch the root.
RootVisited(i) == IF i \in DOMAIN subtrees THEN UNCHANGED sa ELSE RootParsed

-----------------------------------------------------------------------------
Init ==
    /\ \E d \in RawData : sa = ArrayFromBytes(d, MaxElementsLazyTree)
    /\ subtrees = [i \in {} |-> sa]
    /\ read = NoRead
    /\ overwritten = {}

\* Writes by the owner of the shared array.
Push(d) ==
    /\ CanPush(sa)
    /\ sa' = PushTo(sa, d)
    /\ read' = NoRead
    /\ UNCHANGED <<subtrees, overwritten>>

PutAtIdx(i, d) ==
    /\ CanPut(sa, i)
    /\ sa' = PutIn(sa, i, d)
    /\ overwritten' = overwritten \cup (DOMAIN subtrees \cap {i})
    /\ read' = NoRead
    /\ UNCHANGED subtrees

\* BytesAtPath with one index: the element of the array, cached or not.
BytesAt(i) ==
    /\ RootParsed
    /\ read' = Read(<<i>>, IF HasElement(i) THEN Parsed(sa)[i + 1] ELSE Panic)
    /\ UNCHANGED <<subtrees, overwritten>>

\* BytesAtPath with two indices.  A subtree that is read for the first time is
\* cached after the read, so not at all if the read panics.
BytesAtPath(i, j) ==
    /\ RootVisited(i)
    /\ IF (CanGetSubtree(i) /\ CanParse(GetSubtree(i))) = TRUE
       THEN /\ read' = Read(<<i, j>>, IF j < Len(Parsed(GetSubtree(i)))
                                      THEN Parsed(GetSubtree(i))[j + 1] ELSE Panic)
            /\ IF j < Len(Parsed(GetSubtree(i))) \/ i \in DOMAIN subtrees
               THEN Cache(i, EnsureParsed(GetSubtree(i)))
               ELSE UNCHANGED subtrees
       ELSE read' = Read(<<i, j>>, Panic) /\ UNCHANGED subtrees
    /\ UNCHANGED overwritten

\* NumElements of a path with one index: the subtree is cached before it is
\* parsed, so also if that panics.
NumElements(i) ==
    /\ RootVisited(i)
    /\ IF (CanGetSubtree(i)) = TRUE
       THEN Cache(i, IF CanParse(GetSubtree(i)) THEN EnsureParsed(GetSubtree(i)) ELSE GetSubtree(i))
       ELSE UNCHANGED subtrees
    /\ read' = NoRead
    /\ UNCHANGED overwritten

\* Tree.Bytes, the path without indices.  Subtrees are only read, so their
\* bytes are always valid and nothing is written back.
Bytes ==
    /\ sa' = IF CanBytes(sa) THEN EnsureBytes(sa) ELSE sa
    /\ read' = NoRead
    /\ UNCHANGED <<subtrees, overwritten>>

Next ==
    \/ \E d \in Elements : Push(d) \/ \E i \in Indices : PutAtIdx(i, d)
    \/ \E i \in Indices :
           BytesAt(i) \/ NumElements(i) \/ \E j \in Indices : BytesAtPath(i, j)
    \/ Bytes

Spec == Init /\ [][Next]_treeVars

-----------------------------------------------------------------------------
\* What a path of two indices stands for: element j of element i.
DeepElement(i, j) ==
    LET a == ArrayFromBytes(Parsed(sa)[i + 1], MaxElementsLazyTree)
    IN  IF CanParse(a) /\ j < Len(Parsed(a)) THEN Parsed(a)[j + 1] ELSE Panic

\* A path of two indices gives the element it stands for, and panics exactly
\* if there is none, with whatever was cached, appended or serialised before,
\* as long as the element was not overwritten under the cache.
PathReadsFresh ==
    Len(read.path) = 2 /\ read.path[1] \notin overwritten =>
        read.ret = IF HasElement(read.path[1])
                   THEN DeepElement(read.path[1], read.path[2]) ELSE Panic

-----------------------------------------------------------------------------
\* BytesAtPath "returns serialized for of the element at globalpath": the path
\* <<i, j>> leads into the element that the path <<i>> leads to.
PathReadsElement ==
    Len(read.path) = 2 /\ HasElement(read.path[1]) =>
        read.ret = DeepElement(read.path[1], read.path[2])
==============================================================================
