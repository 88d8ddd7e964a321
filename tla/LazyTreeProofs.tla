--------------------------- MODULE LazyTreeProofs ----------------------------
(***************************************************************************)
(* Proofs about LazyTree: the cache of subtrees cannot be told from        *)
(* reading the elements anew, except where the owner of the array wrote    *)
(* over an element that was already visited.                               *)
(***************************************************************************)
EXTENDS LazyTree, LazySliceProofs

(***************************************************************************)
(* The inductive invariant: a cached subtree is made from the element it   *)
(* stands for, parsed or not, unless that element was overwritten.         *)
(***************************************************************************)
NodeOf(d) == ArrayFromBytes(d, MaxElementsLazyTree)

MadeFrom(a, d) == a = NodeOf(d) \/ (CanParse(NodeOf(d)) /\ a = EnsureParsed(NodeOf(d)))

CacheCurrent ==
    \A i \in DOMAIN subtrees \ overwritten :
        i \in Nat /\ HasElement(i) /\ MadeFrom(subtrees[i], Parsed(sa)[i + 1])

TreeInv == IsArray(sa) /\ CacheCurrent /\ PathReadsFresh

-----------------------------------------------------------------------------
\* Elements of the array of the root.
LEMMA ElementTyped ==
    ASSUME IsArray(sa), NEW i \in Nat, HasElement(i)
    PROVE  Parsed(sa)[i + 1] \in Seq(Nat) /\ i + 1 \in 1 .. Len(Parsed(sa))
  <1>1. PICK p \in Seq(Seq(Nat)) : p = Parsed(sa)
    BY ElementsTyped DEF HasElement
  <1>2. i < Len(p) /\ Len(p) \in Nat
    BY <1>1 DEF HasElement
  <1>3. i + 1 \in 1 .. Len(p)
    BY <1>2
  <1> QED
    BY <1>1, <1>3

\* A subtree shows what its element shows, before and after it is parsed.
LEMMA NodeShows ==
    ASSUME NEW d \in Seq(Nat), NEW a, MadeFrom(a, d)
    PROVE  /\ CanParse(a) <=> CanParse(NodeOf(d))
           /\ CanParse(a) => Parsed(a) = Parsed(NodeOf(d)) /\ MadeFrom(EnsureParsed(a), d)
  <1>1. PICK b : b = NodeOf(d)
    OBVIOUS
  <1>2. IsArray(b)
    BY <1>1, FromBytes, TreeAssumption DEF NodeOf
  <1>3. CASE a = b
    BY <1>1, <1>3 DEF MadeFrom
  <1>4. CASE CanParse(b) /\ a = EnsureParsed(b)
    <2>1. /\ IsArray(a) /\ CanParse(a) /\ Parsed(a) = Parsed(b) /\ a.parsed = Parsed(b)
      BY <1>2, <1>4, EnsureParsedSame
    <2>2. EnsureParsed(a) = a
      BY <2>1 DEF EnsureParsed, IsArray
    <2> QED
      BY <1>1, <1>4, <2>1, <2>2
  <1> QED
    BY <1>1, <1>3, <1>4 DEF MadeFrom

\* A root that is parsed or serialised shows the same elements.
SameElements(a, b) ==
    /\ IsArray(b)
    /\ CanParse(b) <=> CanParse(a)
    /\ CanParse(a) => Parsed(b) = Parsed(a)

\* Parsing the root where that is possible.
LEMMA RootParsedSame ==
    ASSUME IsArray(sa), RootParsed
    PROVE  SameElements(sa, sa')
  <1>1. CASE CanParse(sa)
    BY <1>1, EnsureParsedSame DEF RootParsed, SameElements
  <1>2. CASE ~CanParse(sa)
    BY <1>2 DEF RootParsed, SameElements
  <1> QED
    BY <1>1, <1>2

\* Visiting a subtree.
LEMMA RootVisitedSame ==
    ASSUME IsArray(sa), NEW i, RootVisited(i)
    PROVE  SameElements(sa, sa')
  <1>1. CASE i \in DOMAIN subtrees
    BY <1>1 DEF RootVisited, SameElements
  <1>2. CASE i \notin DOMAIN subtrees
    BY <1>2, RootParsedSame DEF RootVisited
  <1> QED
    BY <1>1, <1>2

\* What holds of the elements holds after a step that shows the same ones.
LEMMA SameShown ==
    ASSUME IsArray(sa), SameElements(sa, sa')
    PROVE  /\ IsArray(sa')
           /\ \A i : HasElement(i)' <=> HasElement(i)
           /\ \A i : HasElement(i) => Parsed(sa')[i + 1] = Parsed(sa)[i + 1]
           /\ \A i, j : HasElement(i) => DeepElement(i, j)' = DeepElement(i, j)
  BY DEF SameElements, HasElement, DeepElement

\* The cache stays current if nothing is cached and no element changes.
LEMMA CacheKept ==
    ASSUME CacheCurrent, IsArray(sa), SameElements(sa, sa'),
           subtrees' = subtrees, overwritten' = overwritten
    PROVE  CacheCurrent'
  <1>1. ASSUME NEW i \in DOMAIN subtrees' \ overwritten'
        PROVE  i \in Nat /\ HasElement(i)' /\ MadeFrom(subtrees'[i], Parsed(sa')[i + 1])
    BY <1>1, SameShown DEF CacheCurrent
  <1> QED
    BY <1>1 DEF CacheCurrent, MadeFrom, NodeOf, EnsureParsed, Parsed, CanParse

\* The subtree that a path goes through is one of its element.
LEMMA SubtreeIsCurrent ==
    ASSUME CacheCurrent, NEW i \in Nat, i \notin overwritten, CanGetSubtree(i)
    PROVE  HasElement(i) /\ MadeFrom(GetSubtree(i), Parsed(sa)[i + 1])
  <1>1. CASE i \in DOMAIN subtrees
    BY <1>1 DEF CacheCurrent, GetSubtree
  <1>2. CASE i \notin DOMAIN subtrees
    <2>1. HasElement(i) /\ GetSubtree(i) = NodeOf(Parsed(sa)[i + 1])
      BY <1>2 DEF CanGetSubtree, GetSubtree, NodeOf
    <2>2. \A e : MadeFrom(NodeOf(e), e)
      BY DEF MadeFrom
    <2> QED
      BY <2>1, <2>2
  <1> QED
    BY <1>1, <1>2

\* The cache stays current if the subtree of an element is added to it.
LEMMA CacheExtended ==
    ASSUME CacheCurrent, IsArray(sa), SameElements(sa, sa'), overwritten' = overwritten,
           NEW i \in Nat, NEW sub, Cache(i, sub),
           i \notin overwritten => HasElement(i) /\ MadeFrom(sub, Parsed(sa)[i + 1])
    PROVE  CacheCurrent'
  <1>1. ASSUME NEW k \in DOMAIN subtrees' \ overwritten'
        PROVE  k \in Nat /\ HasElement(k)' /\ MadeFrom(subtrees'[k], Parsed(sa')[k + 1])
    <2>1. k \in DOMAIN subtrees \cup {i} /\ subtrees'[k] = IF k = i THEN sub ELSE subtrees[k]
      BY <1>1 DEF Cache
    <2>2. k \notin overwritten
      BY <1>1
    <2>3. k \in Nat /\ HasElement(k) /\ MadeFrom(subtrees'[k], Parsed(sa)[k + 1])
      BY <2>1, <2>2 DEF CacheCurrent
    <2> QED
      BY <2>3, SameShown
  <1> QED
    BY <1>1 DEF CacheCurrent, MadeFrom, NodeOf, EnsureParsed, Parsed, CanParse

-----------------------------------------------------------------------------
\* A tree starts without a cache.
LEMMA InitTreeInv == Init => TreeInv
  <1> SUFFICES ASSUME Init PROVE TreeInv
    OBVIOUS
  <1>1. IsArray(sa)
    BY FromBytes, TreeAssumption DEF Init
  <1>2. CacheCurrent
    BY DEF Init, CacheCurrent
  <1>3. PathReadsFresh
    BY DEF Init, PathReadsFresh, NoRead, Read
  <1> QED
    BY <1>1, <1>2, <1>3 DEF TreeInv

\* The owner appends: the elements under the cache stay where they are.
LEMMA PushTreeInv ==
    ASSUME TreeInv, NEW d \in Elements, Push(d)
    PROVE  TreeInv'
  <1>1. /\ IsArray(sa) /\ CacheCurrent /\ CanPush(sa) /\ sa' = PushTo(sa, d)
        /\ read' = NoRead /\ subtrees' = subtrees /\ overwritten' = overwritten
        /\ d \in Seq(Nat)
    BY TreeAssumption DEF TreeInv, Push
  <1>2. PICK p \in Seq(Seq(Nat)) : p = Append(Parsed(sa), d)
    BY <1>1, PushParsed
  <1>3. /\ CanParse(sa) /\ Len(Parsed(sa)) \in Nat /\ Len(p) = Len(Parsed(sa)) + 1
        /\ \A k \in 1 .. Len(Parsed(sa)) : p[k] = Parsed(sa)[k]
        /\ sa' = WithElements(sa, p)
    BY <1>1, <1>2, PushParsed
  <1>4. IsArray(sa') /\ CanParse(sa') /\ Parsed(sa') = p
    BY <1>1, <1>3, NewElements
  <1>5. CacheCurrent'
    <2>1. ASSUME NEW i \in DOMAIN subtrees' \ overwritten'
          PROVE  i \in Nat /\ HasElement(i)' /\ MadeFrom(subtrees'[i], Parsed(sa')[i + 1])
      <3>1. i \in Nat /\ HasElement(i) /\ MadeFrom(subtrees[i], Parsed(sa)[i + 1])
        BY <1>1, <2>1 DEF CacheCurrent
      <3>2. i < Len(Parsed(sa))
        BY <3>1 DEF HasElement
      <3>3. i + 1 \in 1 .. Len(Parsed(sa)) /\ i < Len(p)
        BY <1>3, <3>1, <3>2
      <3>4. Parsed(sa')[i + 1] = Parsed(sa)[i + 1]
        BY <1>3, <1>4, <3>3
      <3>5. HasElement(i)'
        BY <1>4, <3>3 DEF HasElement
      <3> QED
        BY <1>1, <3>1, <3>4, <3>5
    <2> QED
      BY <2>1 DEF CacheCurrent, MadeFrom, NodeOf, EnsureParsed, Parsed, CanParse
  <1>6. PathReadsFresh'
    BY <1>1 DEF PathReadsFresh, NoRead, Read
  <1> QED
    BY <1>4, <1>5, <1>6 DEF TreeInv

\* The owner overwrites: an element whose subtree is cached is remembered.
LEMMA PutTreeInv ==
    ASSUME TreeInv, NEW k \in Indices, NEW d \in Elements, PutAtIdx(k, d)
    PROVE  TreeInv'
  <1>1. /\ IsArray(sa) /\ CacheCurrent /\ CanPut(sa, k) /\ sa' = PutIn(sa, k, d)
        /\ read' = NoRead /\ subtrees' = subtrees
        /\ overwritten' = overwritten \cup (DOMAIN subtrees \cap {k})
        /\ d \in Seq(Nat) /\ k \in Nat
    BY TreeAssumption DEF TreeInv, PutAtIdx
  <1>2. PICK p \in Seq(Seq(Nat)) : p = [sa.parsed EXCEPT ![k + 1] = d]
    BY <1>1, PutParsed
  <1>3. /\ CanParse(sa) /\ Parsed(sa) = sa.parsed /\ Len(p) = Len(sa.parsed)
        /\ \A l \in 1 .. Len(sa.parsed) : p[l] = IF l = k + 1 THEN d ELSE sa.parsed[l]
        /\ sa' = WithElements(sa, p)
    BY <1>1, <1>2, PutParsed
  <1>4. IsArray(sa') /\ CanParse(sa') /\ Parsed(sa') = p
    BY <1>1, <1>3, NewElements
  <1>5. CacheCurrent'
    <2>1. ASSUME NEW i \in DOMAIN subtrees' \ overwritten'
          PROVE  i \in Nat /\ HasElement(i)' /\ MadeFrom(subtrees'[i], Parsed(sa')[i + 1])
      <3>1. i \in DOMAIN subtrees \ overwritten /\ i # k
        BY <1>1, <2>1
      <3>2. i \in Nat /\ HasElement(i) /\ MadeFrom(subtrees[i], Parsed(sa)[i + 1])
        BY <1>1, <3>1 DEF CacheCurrent
      <3>3. i + 1 \in 1 .. Len(Parsed(sa)) /\ i + 1 # k + 1
        BY <1>1, <3>1, <3>2, ElementTyped
      <3>4. Parsed(sa')[i + 1] = Parsed(sa)[i + 1]
        BY <1>3, <1>4, <3>3
      <3>5. HasElement(i)'
        BY <1>3, <1>4, <3>2 DEF HasElement
      <3> QED
        BY <1>1, <3>2, <3>4, <3>5
    <2> QED
      BY <2>1 DEF CacheCurrent, MadeFrom, NodeOf, EnsureParsed, Parsed, CanParse
  <1>6. PathReadsFresh'
    BY <1>1 DEF PathReadsFresh, NoRead, Read
  <1> QED
    BY <1>4, <1>5, <1>6 DEF TreeInv

\* A path of two indices gives what its element has there.
LEMMA PathTreeInv ==
    ASSUME TreeInv, NEW i \in Indices, NEW j \in Indices, BytesAtPath(i, j)
    PROVE  TreeInv'
  <1>1. /\ IsArray(sa) /\ CacheCurrent /\ i \in Nat /\ j \in Nat
        /\ RootVisited(i) /\ overwritten' = overwritten
    BY TreeAssumption DEF TreeInv, BytesAtPath
  <1>2. SameElements(sa, sa')
    BY <1>1, RootVisitedSame
  <1>3. PICK g : g = GetSubtree(i)
    OBVIOUS
  <1>4. ASSUME CanGetSubtree(i), i \notin overwritten, NEW e, e = Parsed(sa)[i + 1]
        PROVE  /\ HasElement(i) /\ e \in Seq(Nat) /\ MadeFrom(g, e)
               /\ CanParse(g) <=> CanParse(NodeOf(e))
               /\ CanParse(g) => Parsed(g) = Parsed(NodeOf(e)) /\ MadeFrom(EnsureParsed(g), e)
    <2>1. HasElement(i) /\ MadeFrom(g, e)
      BY <1>1, <1>3, <1>4, SubtreeIsCurrent
    <2>2. e \in Seq(Nat)
      BY <1>1, <1>4, <2>1, ElementTyped
    <2> QED
      BY <2>1, <2>2, NodeShows
  <1>5. HasElement(i) => CanGetSubtree(i)
    BY DEF CanGetSubtree
  <1>6. CASE CanGetSubtree(i) /\ CanParse(g)
    <2>1. /\ read' = Read(<<i, j>>, IF j < Len(Parsed(g)) THEN Parsed(g)[j + 1] ELSE Panic)
          /\ Cache(i, EnsureParsed(g)) \/ subtrees' = subtrees
      BY <1>3, <1>6 DEF BytesAtPath
    <2>2. CacheCurrent'
      <3>1. CASE subtrees' = subtrees
        BY <1>1, <1>2, <3>1, CacheKept
      <3>2. CASE Cache(i, EnsureParsed(g))
        <4>1. i \notin overwritten => HasElement(i) /\ MadeFrom(EnsureParsed(g), Parsed(sa)[i + 1])
          BY <1>4, <1>6
        <4> QED
          BY <1>1, <1>2, <3>2, <4>1, CacheExtended
      <3> QED
        BY <2>1, <3>1, <3>2
    <2>3. ASSUME i \notin overwritten
          PROVE  /\ HasElement(i)
                 /\ DeepElement(i, j) =
                        IF j < Len(Parsed(g)) THEN Parsed(g)[j + 1] ELSE Panic
      <3>1. PICK e : e = Parsed(sa)[i + 1]
        OBVIOUS
      <3>2. HasElement(i) /\ CanParse(NodeOf(e)) /\ Parsed(g) = Parsed(NodeOf(e))
        BY <1>4, <1>6, <2>3, <3>1
      <3> QED
        BY <3>1, <3>2 DEF DeepElement, NodeOf
    <2>4. PathReadsFresh'
      <3>1. read'.path = <<i, j>> /\ read'.path[1] = i /\ read'.path[2] = j
        BY <2>1 DEF Read
      <3>2. read'.ret = IF j < Len(Parsed(g)) THEN Parsed(g)[j + 1] ELSE Panic
        BY <2>1 DEF Read
      <3>3. i \notin overwritten =>
                HasElement(i)' /\ DeepElement(i, j)' = read'.ret
        BY <1>1, <1>2, <2>3, <3>2, SameShown
      <3> QED
        BY <1>1, <3>1, <3>3 DEF PathReadsFresh, HasElement, DeepElement
    <2> QED
      BY <1>1, <1>2, <2>2, <2>4 DEF TreeInv, SameElements
  <1>7. CASE ~ (CanGetSubtree(i) /\ CanParse(g))
    <2>1. read' = Read(<<i, j>>, Panic) /\ subtrees' = subtrees
      BY <1>3, <1>7 DEF BytesAtPath
    <2>2. CacheCurrent'
      BY <1>1, <1>2, <2>1, CacheKept
    <2>3. ASSUME i \notin overwritten, HasElement(i)
          PROVE  DeepElement(i, j) = Panic
      <3>1. PICK e : e = Parsed(sa)[i + 1]
        OBVIOUS
      <3>2. ~CanParse(NodeOf(e))
        BY <1>4, <1>5, <1>7, <2>3, <3>1
      <3> QED
        BY <3>1, <3>2 DEF DeepElement, NodeOf
    <2>4. PathReadsFresh'
      <3>1. read'.path = <<i, j>> /\ read'.path[1] = i /\ read'.path[2] = j /\ read'.ret = Panic
        BY <2>1 DEF Read
      <3>2. i \notin overwritten /\ HasElement(i)' => DeepElement(i, j)' = Panic
        BY <1>1, <1>2, <2>3, SameShown
      <3> QED
        BY <1>1, <3>1, <3>2 DEF PathReadsFresh, HasElement, DeepElement
    <2> QED
      BY <1>1, <1>2, <2>2, <2>4 DEF TreeInv, SameElements
  <1> QED
    BY <1>6, <1>7

\* NumElements caches the subtree, parsed where that is possible.
LEMMA NumTreeInv ==
    ASSUME TreeInv, NEW i \in Indices, NumElements(i)
    PROVE  TreeInv'
  <1>1. /\ IsArray(sa) /\ CacheCurrent /\ i \in Nat
        /\ RootVisited(i) /\ overwritten' = overwritten /\ read' = NoRead
    BY TreeAssumption DEF TreeInv, NumElements
  <1>2. SameElements(sa, sa')
    BY <1>1, RootVisitedSame
  <1>3. PathReadsFresh'
    BY <1>1 DEF PathReadsFresh, NoRead, Read
  <1>4. CacheCurrent'
    <2>1. CASE CanGetSubtree(i)
      <3>1. PICK g : g = GetSubtree(i)
        OBVIOUS
      <3>2. PICK sub : sub = IF CanParse(g) THEN EnsureParsed(g) ELSE g
        OBVIOUS
      <3>3. Cache(i, sub)
        BY <2>1, <3>1, <3>2 DEF NumElements
      <3>4. ASSUME i \notin overwritten
            PROVE  HasElement(i) /\ MadeFrom(sub, Parsed(sa)[i + 1])
        <4>1. HasElement(i) /\ MadeFrom(g, Parsed(sa)[i + 1])
          BY <1>1, <2>1, <3>1, <3>4, SubtreeIsCurrent
        <4>2. Parsed(sa)[i + 1] \in Seq(Nat)
          BY <1>1, <4>1, ElementTyped
        <4>3. CanParse(g) => MadeFrom(EnsureParsed(g), Parsed(sa)[i + 1])
          BY <4>1, <4>2, NodeShows
        <4> QED
          BY <3>2, <4>1, <4>3
      <3> QED
        BY <1>1, <1>2, <3>3, <3>4, CacheExtended
    <2>2. CASE ~CanGetSubtree(i)
      <3>1. subtrees' = subtrees
        BY <2>2 DEF NumElements
      <3> QED
        BY <1>1, <1>2, <3>1, CacheKept
    <2> QED
      BY <2>1, <2>2
  <1> QED
    BY <1>1, <1>2, <1>3, <1>4 DEF TreeInv, SameElements

\* Serialising the root keeps its elements.
LEMMA BytesSame ==
    ASSUME IsArray(sa), Bytes
    PROVE  SameElements(sa, sa')
  <1>1. CASE sa' = sa
    BY <1>1 DEF SameElements
  <1>2. CASE sa' # sa
    <2>1. /\ sa.bytes = Nil /\ sa.parsed # <<>> /\ CanBytes(sa)
          /\ sa' = [sa EXCEPT !.bytes = EncodeArray(sa.parsed)]
      BY <1>2 DEF Bytes, EnsureBytes
    <2>2. sa.parsed \in Seq(Seq(Nat)) /\ sa.parsed # Nil
      BY <2>1 DEF IsArray
    <2>3. sa' = [bytes |-> EncodeArray(sa.parsed), parsed |-> sa.parsed, max |-> sa.max]
      BY <2>1 DEF IsArray
    <2>4. EncodeArray(sa.parsed) \in Seq(Nat)
      BY <2>1, <2>2, EncodeTyped DEF CanBytes
    <2>5. IsArray(sa')
      BY <2>2, <2>3, <2>4 DEF IsArray
    <2> QED
      BY <2>2, <2>3, <2>5 DEF SameElements, CanParse, Parsed
  <1> QED
    BY <1>1, <1>2

\* Every step keeps the invariant.
LEMMA NextTreeInv == TreeInv /\ [Next]_treeVars => TreeInv'
  <1> SUFFICES ASSUME TreeInv, [Next]_treeVars PROVE TreeInv'
    OBVIOUS
  <1>1. ASSUME NEW i \in Indices, BytesAt(i)
        PROVE  TreeInv'
    <2>1. /\ IsArray(sa) /\ CacheCurrent /\ RootParsed
          /\ subtrees' = subtrees /\ overwritten' = overwritten
      BY <1>1 DEF TreeInv, BytesAt
    <2>2. SameElements(sa, sa')
      BY <2>1, RootParsedSame
    <2>3. Len(read'.path) = 1
      BY <1>1 DEF BytesAt, Read
    <2>4. CacheCurrent' /\ PathReadsFresh'
      BY <2>1, <2>2, <2>3, CacheKept DEF PathReadsFresh
    <2> QED
      BY <2>2, <2>4 DEF TreeInv, SameElements
  <1>2. CASE Bytes
    <2>1. /\ IsArray(sa) /\ CacheCurrent /\ read' = NoRead
          /\ subtrees' = subtrees /\ overwritten' = overwritten
      BY <1>2 DEF TreeInv, Bytes
    <2>2. SameElements(sa, sa')
      BY <1>2, <2>1, BytesSame
    <2>3. CacheCurrent' /\ PathReadsFresh'
      BY <2>1, <2>2, CacheKept DEF PathReadsFresh, NoRead, Read
    <2> QED
      BY <2>2, <2>3 DEF TreeInv, SameElements
  <1>3. CASE UNCHANGED treeVars
    <2>1. sa' = sa /\ subtrees' = subtrees /\ read' = read /\ overwritten' = overwritten
      BY <1>3 DEF treeVars
    <2>2. CacheCurrent'
      BY <2>1 DEF TreeInv, CacheCurrent, HasElement
    <2>3. PathReadsFresh'
      BY <2>1 DEF TreeInv, PathReadsFresh, HasElement, DeepElement
    <2> QED
      BY <2>1, <2>2, <2>3 DEF TreeInv
  <1> QED
    BY <1>1, <1>2, <1>3, PushTreeInv, PutTreeInv, PathTreeInv, NumTreeInv DEF Next

\* A path of two indices reads the element it stands for, and panics only if
\* there is none, whatever was visited, appended or serialised before, for
\* every byte string that is read as an array (BytesAtPath, getSubtree).
THEOREM PathsReadFresh == Spec => []PathReadsFresh
  <1>1. TreeInv => PathReadsFresh
    BY DEF TreeInv
  <1> QED
    BY <1>1, InitTreeInv, NextTreeInv, PTL DEF Spec
=============================================================================
