------------------------- MODULE ChainBuilderProofs -------------------------
(***************************************************************************)
(* Proofs about ChainBuilder, for any number of clients, of inputs and     *)
(* outputs up to the limit of the lazy array, and of blocks per output.    *)
(***************************************************************************)
EXTENDS ChainBuilder, SupplyProofs

(***************************************************************************)
(* The inductive invariant.  P are the IDs of the outputs produced so far. *)
(***************************************************************************)
Owner == NewAddressED25519(Signer)

\* A block after the lock.
StandardBlock(c, P) ==
    \/ c.type = "data"
    \/ c = NewSenderED25519(Signer)
    \/ c.type = "chain" /\ (c = NewChainOrigin \/ \E o \in P : c.id = blake2b(o))

\* The outputs of the clients: at most one chain each.
Standard(out, P) ==
    /\ out \in Output /\ Len(out) \in 3 .. MaxByte
    /\ \A b, d \in 1 .. Len(out) : out[b] = out[d] => b = d
    /\ out[1].type = "amount" /\ out[1].value >= Len(out)
    /\ out[2].type = "timestamp"
    /\ out[3] = Owner
    /\ \A b \in 4 .. Len(out) : StandardBlock(out[b], P)
    /\ \A b, d \in 4 .. Len(out) : out[b].type = "chain" /\ out[d].type = "chain" => b = d

\* The k-th input is the chain output out with ID oid and the unlock blocks
\* unl: it goes on in succ, the s-th output.
Linked(oid, out, unl, succ, k, s) ==
    /\ HasChainConstraint(out)
    /\ Len(unl) = ChainConstraintIndex(out) + 1
    /\ unl[ChainConstraintIndex(out) + 1] = <<s - 1, ChainConstraintIndex(out), 0>>
    /\ \E ts \in Nat : succ = ChainSuccessor(WithID(oid, out), AmountOf(out), ts, k - 1)

GoesOn(b, k, s) ==
    /\ Linked(b.inputs[k], b.consumed[k], b.unlock[k], b.outputs[s], k, s)
    /\ s = k => b.unlock[k][3] = <<MaxByte>>

Plain(b, k) == ~HasChainConstraint(b.consumed[k]) /\ b.unlock[k] = LockUnlock(<<MaxByte>>)

UnlockBlocks == Array(Seq(Byte))

BuilderType(P) ==
    [consumed : Seq(Output), inputs : Seq(P), unlock : Seq(UnlockBlocks), outputs : Seq(Output)]

\* A builder as the calls of a client leave it, whatever the other clients do.
GoodBuilder(b, P) ==
    /\ b \in BuilderType(P)
    /\ Len(b.inputs) <= MaxByte /\ Len(b.outputs) <= MaxByte
    /\ Len(b.consumed) = Len(b.inputs) /\ Len(b.unlock) = Len(b.inputs)
    /\ \A k \in 1 .. Len(b.inputs) :
           /\ Standard(b.consumed[k], P)
           /\ Plain(b, k) \/ \E s \in 1 .. Len(b.outputs) : GoesOn(b, k, s)
    /\ \A s \in 1 .. Len(b.outputs) :
           ClientOutput(b.outputs[s]) \/ \E k \in 1 .. Len(b.inputs) : GoesOn(b, k, s)

\* What a builder consumes is what was produced under the ID.
ConsumesProduced(b, history) ==
    \A k \in 1 .. Len(b.inputs) : b.consumed[k] = history[b.inputs[k]]

\* A state with standard outputs in which a chain has one state.
GoodState(state, P) ==
    /\ \A oid \in DOMAIN state : Standard(state[oid], P)
    /\ \A x, y \in DOMAIN state :
           ChainIDsOf(x, state[x]) \cap ChainIDsOf(y, state[y]) # {} => x = y

BuilderInv ==
    /\ SupplyInv
    /\ GoodState(utxo, ProducedIDs)
    /\ DOMAIN txb = Clients
    /\ \A c \in Clients : GoodBuilder(txb[c], ProducedIDs) /\ ConsumesProduced(txb[c], History)

-----------------------------------------------------------------------------
(***************************************************************************)
(* Standard outputs and their successors.                                  *)
(***************************************************************************)

\* The blocks of a standard output and their types.
LEMMA StandardShape ==
    ASSUME NEW P, NEW out, Standard(out, P)
    PROVE  /\ out \in Seq(Block) /\ DOMAIN out = 1 .. Len(out) /\ Len(out) \in Nat
           /\ Len(out) > 2 /\ Len(out) <= MaxByte
           /\ AmountOf(out) = out[1].value /\ AmountOf(out) \in Amount
           /\ TimestampOf(out) = out[2].time /\ LockOf(out) = out[3]
           /\ OutputParses(out) /\ OutputFromBytes(out)
  <1>1. out \in Seq(Block) /\ DOMAIN out = 1 .. Len(out) /\ Len(out) \in Nat
        /\ Len(out) > 2 /\ Len(out) <= MaxByte
    BY DEF Standard, Output, Array
  <1>2. AmountOf(out) = out[1].value /\ TimestampOf(out) = out[2].time /\ LockOf(out) = out[3]
    BY DEF AmountOf, TimestampOf, LockOf, At, ConstraintIndexAmount, ConstraintIndexTimestamp,
           ConstraintIndexLock
  <1>3. IsLock(out[3])
    BY DEF Standard, Owner, NewAddressED25519, IsLock, LockNames
  <1>4. OutputParses(out) /\ OutputFromBytes(out)
    BY <1>1, <1>2, <1>3 DEF Standard, OutputParses, OutputFromBytes, Has, At, ConstraintIndexAmount,
       ConstraintIndexTimestamp, ConstraintIndexLock, IsAmount, MinimumStorageDeposit, OutputSize
  <1>5. AmountOf(out) \in Amount
    BY <1>4, AmountTyped DEF Standard
  <1> QED
    BY <1>1, <1>2, <1>4, <1>5

\* What a client produces itself is standard.
LEMMA ClientStandard ==
    ASSUME NEW P, NEW out, ClientOutput(out)
    PROVE  Standard(out, P)
  <1>1. out \in Output /\ Len(out) \in 3 .. MaxByte /\ DOMAIN out = 1 .. Len(out)
    BY DEF ClientOutput, OutputFromBytes, Output, Array
  <1>2. \A b, d \in 1 .. Len(out) : out[b] = out[d] => b = d
    BY <1>1 DEF ClientOutput, IsInjective
  <1>3. out[1].type = "amount" /\ out[1].value >= Len(out) /\ out[2].type = "timestamp"
    BY DEF ClientOutput, OutputFromBytes, AmountOf, MinimumStorageDeposit, OutputSize, At,
           ConstraintIndexAmount, ConstraintIndexTimestamp
  <1>4. out[3] = Owner
    BY DEF ClientOutput, LockOf, At, ConstraintIndexLock, Owner
  <1>5. ASSUME NEW b \in 4 .. Len(out)
        PROVE  out[b].type = "data" \/ out[b] = NewChainOrigin \/ out[b] = NewSenderED25519(Signer)
    <2>1. b - 1 \in 3 .. Len(out) - 1 /\ (b - 1) + 1 = b
      BY <1>1
    <2>2. At(out, b - 1) = out[b]
      BY <2>1 DEF At
    <2> QED
      BY <2>1, <2>2 DEF ClientOutput, ConstraintIndexLock
  <1>6. NewChainOrigin.type = "chain" /\ NewSenderED25519(Signer).type # "chain"
    BY DEF NewChainOrigin, NewChain, NewSenderED25519
  <1>7. \A b \in 4 .. Len(out) : StandardBlock(out[b], P)
    BY <1>5, <1>6 DEF StandardBlock
  <1>8. ASSUME NEW b \in 4 .. Len(out), NEW d \in 4 .. Len(out),
               out[b].type = "chain", out[d].type = "chain"
        PROVE  b = d
    <2>1. out[b] = NewChainOrigin /\ out[d] = NewChainOrigin
      BY <1>5, <1>6, <1>8
    <2>2. b \in 1 .. Len(out) /\ d \in 1 .. Len(out)
      BY <1>1
    <2> QED
      BY <2>1, <2>2, <1>2
  <1> QED
    BY <1>1, <1>2, <1>3, <1>4, <1>7, <1>8 DEF Standard

\* An output stays standard when more is produced.
LEMMA StandardGrows ==
    ASSUME NEW P, NEW Q, P \subseteq Q, NEW out, Standard(out, P)
    PROVE  Standard(out, Q)
  <1>1. \A b \in 4 .. Len(out) : StandardBlock(out[b], Q)
    BY DEF Standard, StandardBlock
  <1> QED
    BY <1>1 DEF Standard

LEMMA GenesisStandard ==
    ASSUME NEW P
    PROVE  Standard(GenesisOutput, P)
  <1> DEFINE g == GenesisOutput
  <1>1. Len(g) = 3 /\ g[1] = NewAmount(Supply) /\ g[2] = NewTimestamp(GenesisTime)
        /\ g[3] = NewAddressED25519(GenesisAddress)
    BY DEF GenesisOutput
  <1>2. g[3] = Owner
    BY <1>1, ClientsAssumption DEF Owner
  <1>3. Supply >= 3
    BY <1>1, ClientsAssumption DEF MinimumStorageDeposit, OutputSize
  <1>4. g \in Output
    BY GenesisTyped
  <1> HIDE DEF g
  <1>5. g[1].type = "amount" /\ g[1].value = Supply /\ g[2].type = "timestamp"
        /\ g[3].type = "addressED25519"
    BY <1>1 DEF NewAmount, NewTimestamp, NewAddressED25519
  <1>6. \A b, d \in 1 .. Len(g) : g[b] = g[d] => b = d
    BY <1>1, <1>5
  <1>7. Len(g) \in 3 .. MaxByte
    BY <1>1, MaxByteAssumption
  <1>8. 4 .. Len(g) = {}
    BY <1>1
  <1>9. Standard(g, P)
    BY <1>1, <1>2, <1>3, <1>4, <1>5, <1>6, <1>7, <1>8 DEF Standard
  <1> QED
    BY <1>9 DEF g

\* A standard output out with ID oid has its chain at block b.
ChainAt(P, oid, out, b) ==
    /\ P \subseteq OutputID /\ oid \in P
    /\ Standard(out, P)
    /\ b \in 4 .. Len(out) /\ out[b].type = "chain"

\* The chain of a standard chain output.
LEMMA StandardChainID ==
    ASSUME NEW P, NEW oid, NEW out, NEW b, ChainAt(P, oid, out, b)
    PROVE  /\ ChainIDOf(WithID(oid, out)) =
                  IF out[b].id = ZeroHash THEN blake2b(oid) ELSE out[b].id
           /\ out[b].id = ZeroHash <=> out[b] = NewChainOrigin
           /\ ChainIDOf(WithID(oid, out)) \in ChainID /\ ChainIDOf(WithID(oid, out)) # ZeroHash
           /\ \E o \in P : ChainIDOf(WithID(oid, out)) = blake2b(o)
           /\ ChainIDsOf(oid, out) = {ChainIDOf(WithID(oid, out))}
           /\ ChainConstraintIndex(out) = b - 1 /\ HasChainConstraint(out)
  <1> DEFINE id == ChainIDOf(WithID(oid, out))
  <1> USE DEF ChainAt
  <1>1. ChainConstraintIndex(out) = b - 1 /\ HasChainConstraint(out)
    BY ChainIndex DEF Standard
  <1>2. b \in Int /\ b \in 1 .. Len(out)
    BY DEF Standard
  <1>3. At(out, b - 1) = out[b]
    BY <1>2 DEF At
  <1>4. \A o : blake2b(o) # ZeroHash
    BY DEF blake2b, ZeroHash
  <1>5. out[b] = NewChainOrigin \/ \E o \in P : out[b].id = blake2b(o)
    BY DEF Standard, StandardBlock, NewSenderED25519
  <1>6. out[b].id = ZeroHash <=> out[b] = NewChainOrigin
    <2>1. NewChainOrigin.id = ZeroHash
      BY DEF NewChainOrigin, NewChain
    <2> QED
      BY <2>1, <1>4, <1>5
  <1>7. id = IF out[b].id = ZeroHash THEN blake2b(oid) ELSE out[b].id
    BY <1>1, <1>3, <1>6 DEF ChainIDOf, WithID, IsOrigin
  <1>8. \E o \in P : id = blake2b(o)
    BY <1>5, <1>6, <1>7
  <1>9. \A o \in OutputID : blake2b(o) \in ChainID
    BY DEF blake2b, ChainID
  <1>10. id \in ChainID /\ id # ZeroHash
    BY <1>4, <1>8, <1>9
  <1>11. \A d \in 1 .. Len(out) : out[d].type = "chain" => d = b
    <2> SUFFICES ASSUME NEW d \in 1 .. Len(out), out[d].type = "chain"
                 PROVE  d = b
      OBVIOUS
    <2>1. d # 1 /\ d # 2 /\ d # 3
      BY DEF Standard, Owner, NewAddressED25519
    <2>2. d \in 4 .. Len(out)
      BY <2>1 DEF Standard
    <2> QED
      BY <2>2 DEF Standard
  <1>12. {d \in BlocksOf(out) : d.type = "chain"} = {out[b]}
    BY <1>2, <1>11 DEF BlocksOf
  <1>13. ChainIDsOf(oid, out) = {id}
    BY <1>7, <1>12 DEF ChainIDsOf
  <1> QED
    BY <1>1, <1>6, <1>7, <1>8, <1>10, <1>13

\* An output without a chain has no chain identifier.
LEMMA NoChainID ==
    ASSUME NEW P, NEW oid, NEW out, Standard(out, P), ~HasChainConstraint(out)
    PROVE  ChainIDsOf(oid, out) = {}
  <1>1. ASSUME NEW d \in 1 .. Len(out), out[d].type = "chain"
        PROVE  FALSE
    <2>1. d # 1 /\ d # 2 /\ d # 3
      BY <1>1 DEF Standard, Owner, NewAddressED25519
    <2>2. d \in 4 .. Len(out)
      BY <2>1 DEF Standard
    <2> QED
      BY <1>1, <2>2, ChainIndex DEF Standard
  <1>2. {d \in BlocksOf(out) : d.type = "chain"} = {}
    BY <1>1 DEF BlocksOf
  <1> QED
    BY <1>2 DEF ChainIDsOf

\* The successor: new amount, timestamp and chain constraint, the other blocks
\* at their places.
LEMMA SuccessorShape ==
    ASSUME NEW P, NEW oid, NEW out, Standard(out, P), HasChainConstraint(out),
           NEW b \in 4 .. Len(out), ChainConstraintIndex(out) = b - 1,
           NEW amount, NEW ts, NEW pred
    PROVE  ChainSuccessor(WithID(oid, out), amount, ts, pred) =
               [k \in 1 .. Len(out) |->
                   IF k = b THEN NewChain(ChainIDOf(WithID(oid, out)), pred, b - 1, 0)
                   ELSE IF k = 2 THEN NewTimestamp(ts)
                   ELSE IF k = 1 THEN NewAmount(amount)
                   ELSE out[k]]
  <1> DEFINE n == Len(out)
             id == ChainIDOf(WithID(oid, out))
             A == WithAmount(out, amount)
             T == WithTimestamp(A, ts)
             C == NewChain(id, pred, b - 1, 0)
  <1>1. n \in Nat /\ n > 2 /\ b \in Int /\ b - 1 \in Nat /\ (b - 1) + 1 = b /\ b - 1 < n
        /\ 0 < n /\ 1 < n
    BY StandardShape
  <1>2. A = [k \in 1 .. n |-> IF k = 1 THEN NewAmount(amount) ELSE out[k]]
    <2>1. PutConstraint(out, 0, NewAmount(amount))
              = [k \in 1 .. Len(out) |-> IF k = 0 + 1 THEN NewAmount(amount) ELSE out[k]]
      BY <1>1, PutEffect
    <2> QED
      BY <2>1 DEF WithAmount, ConstraintIndexAmount
  <1> HIDE DEF n
  <1>3. Len(A) = n /\ \A k \in 1 .. n : A[k] = IF k = 1 THEN NewAmount(amount) ELSE out[k]
    <2>1. Len([k \in 1 .. n |-> IF k = 1 THEN NewAmount(amount) ELSE out[k]]) = n
      BY <1>1
    <2> QED
      BY <1>2, <2>1
  <1> HIDE DEF A
  <1>4. T = [k \in 1 .. n |-> IF k = 2 THEN NewTimestamp(ts) ELSE A[k]]
    <2>1. PutConstraint(A, 1, NewTimestamp(ts))
              = [k \in 1 .. Len(A) |-> IF k = 1 + 1 THEN NewTimestamp(ts) ELSE A[k]]
      BY <1>1, <1>3, PutEffect
    <2> QED
      BY <2>1, <1>3 DEF WithTimestamp, ConstraintIndexTimestamp
  <1>5. Len(T) = n /\ \A k \in 1 .. n : T[k] = IF k = 2 THEN NewTimestamp(ts) ELSE A[k]
    <2>1. Len([k \in 1 .. n |-> IF k = 2 THEN NewTimestamp(ts) ELSE A[k]]) = n
      BY <1>1
    <2> QED
      BY <1>4, <2>1
  <1> HIDE DEF T, C
  <1>6. PutConstraint(T, b - 1, C)
            = [k \in 1 .. Len(T) |-> IF k = (b - 1) + 1 THEN C ELSE T[k]]
    BY <1>1, <1>5, PutEffect
  <1>7. PutConstraint(T, b - 1, C)
            = [k \in 1 .. n |-> IF k = b THEN C ELSE IF k = 2 THEN NewTimestamp(ts)
                                ELSE IF k = 1 THEN NewAmount(amount) ELSE out[k]]
    BY <1>1, <1>3, <1>5, <1>6
  <1>8. WithID(oid, out).out = out
    BY DEF WithID
  <1>9. ChainSuccessor(WithID(oid, out), amount, ts, pred) = PutConstraint(T, b - 1, C)
    BY <1>8 DEF ChainSuccessor, T, A, C
  <1> QED
    BY <1>7, <1>9 DEF n, C

\* What the other lemmas need to know about a successor succ of out.
Succeeds(succ, out, b, id, ts, pred) ==
    /\ Len(succ) = Len(out) /\ succ = [k \in 1 .. Len(out) |-> succ[k]]
    /\ succ[1] = out[1]
    /\ succ[2] = NewTimestamp(ts)
    /\ succ[b] = NewChain(id, pred, b - 1, 0)
    /\ \A k \in 3 .. Len(out) : k # b => succ[k] = out[k]

LEMMA SuccessorBlocks ==
    ASSUME NEW P, NEW oid, NEW out, Standard(out, P), HasChainConstraint(out),
           NEW b \in 4 .. Len(out), ChainConstraintIndex(out) = b - 1, NEW ts, NEW pred,
           NEW succ, succ = ChainSuccessor(WithID(oid, out), AmountOf(out), ts, pred)
    PROVE  Succeeds(succ, out, b, ChainIDOf(WithID(oid, out)), ts, pred)
  <1> DEFINE n == Len(out)
             C == NewChain(ChainIDOf(WithID(oid, out)), pred, b - 1, 0)
             a == AmountOf(out)
  <1>1. succ = [k \in 1 .. n |-> IF k = b THEN C ELSE IF k = 2 THEN NewTimestamp(ts)
                                 ELSE IF k = 1 THEN NewAmount(a) ELSE out[k]]
    BY SuccessorShape
  <1>2. n \in Nat /\ n > 2 /\ b \in Int
    BY StandardShape
  <1>3. NewAmount(a) = out[1]
    <2>1. out[1] \in Block /\ out[1].type = "amount" /\ a = out[1].value
      <3>1. out \in Seq(Block) /\ a = out[1].value /\ 1 \in 1 .. Len(out)
        BY <1>2, StandardShape
      <3> QED
        BY <3>1 DEF Standard
    <2>2. out[1] = [type |-> "amount", value |-> out[1].value]
      <3>1. CASE out[1] \in BasicBlock
        BY <3>1, <2>1 DEF BasicBlock
      <3>2. CASE out[1] \notin BasicBlock
        BY <3>2, <2>1 DEF Block
      <3> QED
        BY <3>1, <3>2
    <2> QED
      BY <2>1, <2>2 DEF NewAmount
  <1> HIDE DEF n, C, a
  <1>4. b # 1 /\ b # 2 /\ b \in 1 .. n /\ 1 \in 1 .. n /\ 2 \in 1 .. n /\ Len(succ) = n
        /\ succ = [k \in 1 .. n |-> succ[k]] /\ \A k \in 3 .. n : k \in 1 .. n /\ k # 1 /\ k # 2
    BY <1>1, <1>2 DEF n
  <1>5. succ[1] = out[1] /\ succ[2] = NewTimestamp(ts) /\ succ[b] = C
        /\ \A k \in 3 .. n : k # b => succ[k] = out[k]
    BY <1>1, <1>3, <1>4
  <1> QED
    BY <1>4, <1>5 DEF Succeeds, n, C

\* The successor of a standard chain output is one, of the same chain at the
\* same block.
LEMMA SuccessorStandard ==
    ASSUME NEW P, NEW oid, NEW out, NEW b, ChainAt(P, oid, out, b),
           NEW ts \in Nat, NEW pred \in Byte,
           NEW succ, Succeeds(succ, out, b, ChainIDOf(WithID(oid, out)), ts, pred)
    PROVE  /\ Standard(succ, P)
           /\ succ[b].type = "chain" /\ succ[b].id = ChainIDOf(WithID(oid, out))
           /\ succ[b].id # ZeroHash
           /\ \A x \in P : ChainIDsOf(x, succ) = {ChainIDOf(WithID(oid, out))}
  <1> DEFINE n == Len(out)
             id == ChainIDOf(WithID(oid, out))
             C == NewChain(id, pred, b - 1, 0)
  <1>0. P \subseteq OutputID /\ Standard(out, P) /\ b \in 4 .. n /\ out[b].type = "chain"
    BY DEF ChainAt
  <1>1. n \in Nat /\ n > 2 /\ n <= MaxByte /\ out \in Seq(Block) /\ b \in Int
    BY <1>0, StandardShape
  <1>2. id \in ChainID /\ id # ZeroHash /\ \E o \in P : id = blake2b(o)
    BY StandardChainID
  <1> HIDE DEF id
  <1>3. C.type = "chain" /\ C.id = id /\ C # NewChainOrigin
    BY <1>2 DEF NewChain, NewChainOrigin
  <1>4. C \in Block
    <2>1. b - 1 \in Byte /\ 0 \in Byte
      BY <1>0, <1>1, MaxByteAssumption DEF Byte
    <2> QED
      BY <1>2, <2>1, ChainTyped
  <1>5. NewTimestamp(ts) \in Block
    BY DEF NewTimestamp, Block, BasicBlock
  <1> HIDE DEF C
  <1>6. /\ Len(succ) = n /\ succ = [k \in 1 .. n |-> succ[k]]
        /\ succ[1] = out[1] /\ succ[2] = NewTimestamp(ts) /\ succ[b] = C
        /\ \A k \in 3 .. n : k # b => succ[k] = out[k]
    BY DEF Succeeds, C, id
  <1>7. /\ \A k \in 1 .. n : out[k] \in Block
        /\ b # 1 /\ b # 2 /\ b # 3 /\ 3 \in 3 .. n
        /\ \A k \in 1 .. n : k = 1 \/ k = 2 \/ k \in 3 .. n
        /\ \A k \in 4 .. n : k \in 3 .. n /\ k \in 1 .. n /\ k # 1 /\ k # 2
    BY <1>0, <1>1
  <1>8. \A k \in 1 .. n : succ[k] \in Block
    BY <1>4, <1>5, <1>6, <1>7
  <1>9. succ \in Output
    <2>1. Len(succ) \in Nat /\ succ \in Seq(Block)
      <3>1. succ \in [1 .. n -> Block]
        BY <1>6, <1>8
      <3> QED
        BY <1>1, <3>1, FunctionIsSeq
    <2>2. Len(succ) <= MaxByte + 1
      BY <1>1, <1>6, MaxByteAssumption
    <2> QED
      BY <2>1, <2>2 DEF Output, Array
  <1>10. succ[1].type = "amount" /\ succ[1].value >= n /\ succ[2].type = "timestamp"
         /\ succ[3] = Owner /\ Owner.type = "addressED25519"
    <2>1. out[1].type = "amount" /\ out[1].value >= n /\ out[3] = Owner
      BY <1>0 DEF Standard
    <2>2. 3 # b
      BY <1>7
    <2>3. succ[3] = Owner
      BY <2>1, <2>2, <1>6, <1>7
    <2> QED
      BY <2>1, <2>3, <1>6 DEF NewTimestamp, Owner, NewAddressED25519
  <1>11. \A k \in 4 .. n : out[k].type = "chain" => k = b
    BY <1>0 DEF Standard
  <1>12. \A k \in 4 .. n : StandardBlock(succ[k], P)
    BY <1>0, <1>2, <1>3, <1>6, <1>7 DEF Standard, StandardBlock
  <1>13. \A k \in 4 .. n : succ[k].type = "chain" => k = b
    BY <1>6, <1>7, <1>11
  <1>14. \A k \in 3 .. n : k # b => out[k].type # "chain" /\ out[k].type # "amount" /\ out[k].type # "timestamp"
    <2> SUFFICES ASSUME NEW k \in 3 .. n, k # b
                 PROVE  out[k].type # "chain" /\ out[k].type # "amount" /\ out[k].type # "timestamp"
      OBVIOUS
    <2>1. CASE k = 3
      BY <1>0, <2>1 DEF Standard, Owner, NewAddressED25519
    <2>2. CASE k # 3
      <3>1. k \in 4 .. n
        BY <1>1, <2>2
      <3>2. StandardBlock(out[k], P) /\ out[k].type # "chain"
        BY <1>0, <3>1, <1>11, <2>2 DEF Standard
      <3> QED
        BY <3>2 DEF StandardBlock, NewSenderED25519
    <2> QED
      BY <2>1, <2>2
  <1>15. \A k \in 1 .. n : /\ succ[k].type = "amount" <=> k = 1
                           /\ succ[k].type = "timestamp" <=> k = 2
                           /\ succ[k].type = "chain" <=> k = b
    BY <1>3, <1>6, <1>7, <1>10, <1>14
  <1>16. \A k, l \in 1 .. n : succ[k] = succ[l] => k = l
    <2> SUFFICES ASSUME NEW k \in 1 .. n, NEW l \in 1 .. n, succ[k] = succ[l]
                 PROVE  k = l
      OBVIOUS
    <2>1. CASE k = 1 \/ k = 2 \/ k = b \/ l = 1 \/ l = 2 \/ l = b
      BY <2>1, <1>15
    <2>2. CASE ~(k = 1 \/ k = 2 \/ k = b \/ l = 1 \/ l = 2 \/ l = b)
      <3>1. out[k] = out[l]
        BY <2>2, <1>6, <1>7
      <3> QED
        BY <1>0, <3>1 DEF Standard
    <2> QED
      BY <2>1, <2>2
  <1>17. Standard(succ, P)
    <2>1. Len(succ) \in 3 .. MaxByte
      BY <1>1, <1>6, MaxByteAssumption
    <2> QED
      BY <2>1, <1>6, <1>9, <1>10, <1>12, <1>13, <1>16 DEF Standard
  <1>18. ASSUME NEW x \in P
         PROVE  ChainIDsOf(x, succ) = {id}
    <2>1. b \in 4 .. Len(succ) /\ succ[b].type = "chain" /\ succ[b].id = id
      BY <1>0, <1>3, <1>6
    <2>0. ChainAt(P, x, succ, b)
      BY <1>0, <1>17, <2>1 DEF ChainAt
    <2>2. ChainIDOf(WithID(x, succ)) = id
      BY <1>2, <2>0, <2>1, StandardChainID
    <2> QED
      BY <2>0, <2>2, StandardChainID
  <1> QED
    BY <1>2, <1>3, <1>6, <1>17, <1>18 DEF id

-----------------------------------------------------------------------------
(***************************************************************************)
(* The calls of a builder keep it good.                                    *)
(***************************************************************************)
\* Unlock parameters that are put next to others are unlock parameters.
LEMMA PutTyped ==
    ASSUME NEW unl \in UnlockBlocks, NEW blk \in Byte, NEW data \in Seq(Byte),
           NEW r, r = PutConstraint(unl, blk, data)
    PROVE  r \in UnlockBlocks
  <1>1. unl \in Seq(Seq(Byte)) /\ Len(unl) \in Nat /\ Len(unl) <= MaxByte + 1
        /\ blk \in Nat /\ blk <= MaxByte /\ <<>> \in Seq(Byte)
    BY MaxByteAssumption DEF UnlockBlocks, Array, Byte
  <1>2. CASE blk < Len(unl)
    <2>1. r = [k \in 1 .. Len(unl) |-> IF k = blk + 1 THEN data ELSE unl[k]]
      BY <1>1, <1>2, PutEffect
    <2>2. r \in [1 .. Len(unl) -> Seq(Byte)]
      BY <1>1, <2>1
    <2>3. r \in Seq(Seq(Byte)) /\ Len(r) = Len(unl)
      BY <1>1, <2>2, FunctionIsSeq
    <2> QED
      BY <1>1, <2>3 DEF UnlockBlocks, Array
  <1>3. CASE blk >= Len(unl)
    <2>1. r = [k \in 1 .. blk + 1 |->
                  IF k = blk + 1 THEN data ELSE IF k <= Len(unl) THEN unl[k] ELSE <<>>]
      BY <1>1, <1>3, PutEffect
    <2>2. r \in [1 .. blk + 1 -> Seq(Byte)]
      <3>1. \A k \in 1 .. blk + 1 : k <= Len(unl) => unl[k] \in Seq(Byte)
        BY <1>1
      <3> QED
        BY <1>1, <2>1, <3>1
    <2>3. r \in Seq(Seq(Byte)) /\ Len(r) = blk + 1
      BY <1>1, <2>2, FunctionIsSeq
    <2> QED
      BY <1>1, <2>3, MaxByteAssumption DEF UnlockBlocks, Array
  <1> QED
    BY <1>1, <1>2, <1>3

CanPut(P, b, i, blk, data) ==
    /\ b \in BuilderType(P)
    /\ i \in Nat /\ i < Len(b.unlock)
    /\ blk \in Byte /\ data \in Seq(Byte)

UnlockPut(P, b, i, blk, data, r) ==
    /\ r \in BuilderType(P)
    /\ r.consumed = b.consumed /\ r.inputs = b.inputs /\ r.outputs = b.outputs
    /\ Len(r.unlock) = Len(b.unlock)
    /\ r.unlock[i + 1] = PutConstraint(b.unlock[i + 1], blk, data)
    /\ \A k \in 1 .. Len(b.unlock) : k # i + 1 => r.unlock[k] = b.unlock[k]

\* PutUnlockParams changes the unlock blocks of one input.
LEMMA PutUnlockEffect ==
    ASSUME NEW P, NEW b, NEW i, NEW blk, NEW data, CanPut(P, b, i, blk, data),
           NEW r, r = PutUnlockParams(b, i, blk, data)
    PROVE  UnlockPut(P, b, i, blk, data, r)
  <1> DEFINE n == Len(b.unlock)
             p == PutConstraint(b.unlock[i + 1], blk, data)
             u == [b.unlock EXCEPT ![i + 1] = p]
  <1> USE DEF CanPut
  <1>1. b.unlock \in Seq(UnlockBlocks) /\ n \in Nat /\ i + 1 \in 1 .. n
        /\ b.unlock[i + 1] \in UnlockBlocks
    BY DEF BuilderType
  <1>2. p \in UnlockBlocks
    BY <1>1, PutTyped
  <1>3. r = [b EXCEPT !.unlock = u]
    BY DEF PutUnlockParams, BuilderType
  <1> HIDE DEF p
  <1>4. u \in Seq(UnlockBlocks) /\ Len(u) = n /\ u[i + 1] = p
        /\ \A k \in 1 .. n : k # i + 1 => u[k] = b.unlock[k]
    BY <1>1, <1>2
  <1> HIDE DEF u, n
  <1>5. r \in BuilderType(P) /\ r.unlock = u
        /\ r.consumed = b.consumed /\ r.inputs = b.inputs /\ r.outputs = b.outputs
    BY <1>3, <1>4 DEF BuilderType
  <1> QED
    BY <1>4, <1>5 DEF p, n, UnlockPut

CanAddInput(P, b, oid, out) ==
    b \in BuilderType(P) /\ Len(b.unlock) = Len(b.inputs) /\ oid \in P /\ out \in Output

InputAppended(P, b, oid, out, r) ==
    /\ r \in BuilderType(P)
    /\ r.consumed = Append(b.consumed, out) /\ r.inputs = Append(b.inputs, oid)
    /\ r.unlock = Append(b.unlock, <<>>) /\ r.outputs = b.outputs
    /\ Len(r.unlock) = Len(b.inputs) + 1

\* ConsumeOutput appends one input without unlock parameters.
LEMMA ConsumeEffect ==
    ASSUME NEW P, NEW b, NEW oid, NEW out, CanAddInput(P, b, oid, out),
           NEW r, r = ConsumeOutput(b, WithID(oid, out))
    PROVE  InputAppended(P, b, oid, out, r)
  <1> USE DEF CanAddInput
  <1>1. <<>> \in UnlockBlocks
    BY MaxByteAssumption DEF UnlockBlocks, Array
  <1>2. b = [consumed |-> b.consumed, inputs |-> b.inputs, unlock |-> b.unlock, outputs |-> b.outputs]
        /\ b.consumed \in Seq(Output) /\ b.inputs \in Seq(P) /\ b.unlock \in Seq(UnlockBlocks)
        /\ b.outputs \in Seq(Output)
    BY DEF BuilderType
  <1>3. r = [consumed |-> Append(b.consumed, out), inputs |-> Append(b.inputs, oid),
             unlock |-> Append(b.unlock, <<>>), outputs |-> b.outputs]
    <2>1. WithID(oid, out).out = out /\ WithID(oid, out).id = oid
      BY DEF WithID
    <2> QED
      BY <1>2, <2>1 DEF ConsumeOutput
  <1>4. Append(b.consumed, out) \in Seq(Output) /\ Append(b.inputs, oid) \in Seq(P)
        /\ Append(b.unlock, <<>>) \in Seq(UnlockBlocks)
        /\ Len(Append(b.unlock, <<>>)) = Len(b.inputs) + 1
    BY <1>1, <1>2
  <1> QED
    BY <1>2, <1>3, <1>4 DEF BuilderType, InputAppended

OutputAppended(P, b, out, r) ==
    /\ r \in BuilderType(P)
    /\ r.consumed = b.consumed /\ r.inputs = b.inputs /\ r.unlock = b.unlock
    /\ r.outputs = Append(b.outputs, out)

CanAppend(P, b, out) == b \in BuilderType(P) /\ out \in Output

\* ProduceOutput appends one output.
LEMMA ProduceEffect ==
    ASSUME NEW P, NEW b, NEW out, CanAppend(P, b, out), NEW r, r = ProduceOutput(b, out)
    PROVE  OutputAppended(P, b, out, r)
  <1>1. b = [consumed |-> b.consumed, inputs |-> b.inputs, unlock |-> b.unlock, outputs |-> b.outputs]
        /\ b.consumed \in Seq(Output) /\ b.inputs \in Seq(P) /\ b.unlock \in Seq(UnlockBlocks)
        /\ b.outputs \in Seq(Output)
    BY DEF BuilderType, CanAppend
  <1>2. r = [consumed |-> b.consumed, inputs |-> b.inputs, unlock |-> b.unlock,
             outputs |-> Append(b.outputs, out)]
    BY <1>1 DEF ProduceOutput
  <1>3. Append(b.outputs, out) \in Seq(Output)
    BY <1>1 DEF CanAppend
  <1> QED
    BY <1>1, <1>2, <1>3 DEF BuilderType, OutputAppended

\* b2 has the inputs and outputs of b and perhaps more of them, and perhaps a
\* signature for the lock of an input that was there.
Extends(b, b2) ==
    /\ Len(b.inputs) <= Len(b2.inputs) /\ Len(b.outputs) <= Len(b2.outputs)
    /\ \A k \in 1 .. Len(b.inputs) :
           /\ b2.inputs[k] = b.inputs[k] /\ b2.consumed[k] = b.consumed[k]
           /\ \/ b2.unlock[k] = b.unlock[k]
              \/ b2.unlock[k] = PutConstraint(b.unlock[k], ConstraintIndexLock, <<MaxByte>>)
    /\ \A s \in 1 .. Len(b.outputs) : b2.outputs[s] = b.outputs[s]

\* A signature for the lock disturbs no unlock parameters behind it.
LEMMA SignatureKeeps ==
    ASSUME NEW unl, Len(unl) \in Nat, Len(unl) > 2,
           NEW r, r = PutConstraint(unl, ConstraintIndexLock, <<MaxByte>>)
    PROVE  /\ Len(r) = Len(unl) /\ r[3] = <<MaxByte>>
           /\ \A k \in 1 .. Len(unl) : k # 3 => r[k] = unl[k]
  <1>1. r = [k \in 1 .. Len(unl) |-> IF k = 2 + 1 THEN <<MaxByte>> ELSE unl[k]]
    BY PutEffect DEF ConstraintIndexLock
  <1> QED
    BY <1>1

LEMMA LockUnlockSigned ==
    PutConstraint(LockUnlock(<<MaxByte>>), ConstraintIndexLock, <<MaxByte>>) = LockUnlock(<<MaxByte>>)
  <1>1. LockUnlock(<<MaxByte>>) = [k \in 1 .. 3 |-> IF k = 3 THEN <<MaxByte>> ELSE <<>>]
    BY LockUnlockShape
  <1> DEFINE u == LockUnlock(<<MaxByte>>)
  <1>2. Len(u) = 3
    BY <1>1
  <1> HIDE DEF u
  <1>3. PutConstraint(u, 2, <<MaxByte>>)
            = [k \in 1 .. Len(u) |-> IF k = 2 + 1 THEN <<MaxByte>> ELSE u[k]]
    BY <1>2, PutEffect
  <1>4. PutConstraint(u, 2, <<MaxByte>>) = [k \in 1 .. 3 |-> IF k = 3 THEN <<MaxByte>> ELSE <<>>]
    BY <1>1, <1>2, <1>3 DEF u
  <1> QED
    BY <1>1, <1>4 DEF u, ConstraintIndexLock

\* A good input or output is good in the extended builder.
LEMMA ExtendedSlot ==
    ASSUME NEW P, NEW b, NEW b2, Extends(b, b2), NEW k \in 1 .. Len(b.inputs), Standard(b.consumed[k], P)
    PROVE  /\ Plain(b, k) => Plain(b2, k)
           /\ \A s \in 1 .. Len(b.outputs) : GoesOn(b, k, s) => GoesOn(b2, k, s)
  <1> DEFINE u == b.unlock[k]
             u2 == b2.unlock[k]
             p == PutConstraint(u, ConstraintIndexLock, <<MaxByte>>)
             out == b.consumed[k]
  <1>1. b2.inputs[k] = b.inputs[k] /\ b2.consumed[k] = out /\ (u2 = u \/ u2 = p)
    BY DEF Extends
  <1>2. Plain(b, k) => Plain(b2, k)
    BY <1>1, LockUnlockSigned DEF Plain
  <1>3. ASSUME NEW s \in 1 .. Len(b.outputs), GoesOn(b, k, s)
        PROVE  GoesOn(b2, k, s)
    <2>1. b2.outputs[s] = b.outputs[s]
      BY DEF Extends
    <2>2. Linked(b.inputs[k], out, u, b.outputs[s], k, s)
      BY <1>3 DEF GoesOn
    <2>3. PICK d \in 4 .. Len(out) : ChainConstraintIndex(out) = d - 1
      BY <2>2, ChainIndex DEF Linked, Standard
    <2>4. d \in Nat /\ d > 3
      BY DEF Standard
    <2>5. Len(u) = d /\ u[d] = <<s - 1, d - 1, 0>>
      <3>1. ChainConstraintIndex(out) + 1 = d
        BY <2>3, <2>4
      <3> QED
        BY <2>2, <2>3, <3>1 DEF Linked
    <2>6. Len(p) = Len(u) /\ p[3] = <<MaxByte>> /\ p[d] = u[d]
      <3> HIDE DEF u
      <3>1. Len(u) \in Nat /\ Len(u) > 2 /\ d \in 1 .. Len(u) /\ d # 3
        BY <2>4, <2>5
      <3> HIDE DEF p
      <3>2. Len(p) = Len(u) /\ p[3] = <<MaxByte>> /\ \A j \in 1 .. Len(u) : j # 3 => p[j] = u[j]
        BY <3>1, SignatureKeeps DEF p
      <3> QED
        BY <3>1, <3>2
    <2> HIDE DEF u, u2, p, out
    <2>7. Linked(b.inputs[k], out, u2, b.outputs[s], k, s)
      <3>1. ChainConstraintIndex(out) + 1 = d
        BY <2>3, <2>4
      <3> QED
        BY <1>1, <2>2, <2>5, <2>6, <3>1 DEF Linked
    <2>8. s = k => u2[3] = <<MaxByte>>
      BY <1>1, <1>3, <2>6 DEF GoesOn, u
    <2> QED
      BY <1>1, <2>1, <2>7, <2>8 DEF GoesOn, u, u2, out
  <1> QED
    BY <1>2, <1>3

\* A builder that extends a good one by good inputs and outputs is good.
LEMMA GoodExtends ==
    ASSUME NEW P, NEW b, GoodBuilder(b, P), NEW b2 \in BuilderType(P), Extends(b, b2),
           Len(b2.inputs) <= MaxByte, Len(b2.outputs) <= MaxByte,
           Len(b2.consumed) = Len(b2.inputs), Len(b2.unlock) = Len(b2.inputs),
           \A k \in Len(b.inputs) + 1 .. Len(b2.inputs) :
               /\ Standard(b2.consumed[k], P)
               /\ Plain(b2, k) \/ \E s \in 1 .. Len(b2.outputs) : GoesOn(b2, k, s),
           \A s \in Len(b.outputs) + 1 .. Len(b2.outputs) :
               ClientOutput(b2.outputs[s]) \/ \E k \in 1 .. Len(b2.inputs) : GoesOn(b2, k, s)
    PROVE  GoodBuilder(b2, P)
  <1>1. Len(b.inputs) \in Nat /\ Len(b.outputs) \in Nat /\ Len(b2.inputs) \in Nat
        /\ Len(b2.outputs) \in Nat
    BY DEF GoodBuilder, BuilderType
  <1>2. Len(b.inputs) <= Len(b2.inputs) /\ Len(b.outputs) <= Len(b2.outputs)
    BY DEF Extends
  <1>3. ASSUME NEW k \in 1 .. Len(b2.inputs)
        PROVE  /\ Standard(b2.consumed[k], P)
               /\ Plain(b2, k) \/ \E s \in 1 .. Len(b2.outputs) : GoesOn(b2, k, s)
    <2>1. CASE k \in 1 .. Len(b.inputs)
      <3>1. Standard(b.consumed[k], P) /\ b2.consumed[k] = b.consumed[k]
        BY <2>1 DEF GoodBuilder, Extends
      <3>2. CASE Plain(b, k)
        BY <2>1, <3>1, <3>2, ExtendedSlot
      <3>3. CASE \E s \in 1 .. Len(b.outputs) : GoesOn(b, k, s)
        <4>1. PICK s \in 1 .. Len(b.outputs) : GoesOn(b, k, s)
          BY <3>3
        <4>2. GoesOn(b2, k, s)
          BY <2>1, <3>1, <4>1, ExtendedSlot
        <4>3. s \in 1 .. Len(b2.outputs)
          BY <1>1, <1>2
        <4> QED
          BY <3>1, <4>2, <4>3
      <3> QED
        BY <2>1, <3>2, <3>3 DEF GoodBuilder
    <2>2. CASE k \notin 1 .. Len(b.inputs)
      <3>1. k \in Len(b.inputs) + 1 .. Len(b2.inputs)
        BY <1>1, <2>2
      <3> QED
        BY <3>1
    <2> QED
      BY <2>1, <2>2
  <1>4. ASSUME NEW s \in 1 .. Len(b2.outputs)
        PROVE  ClientOutput(b2.outputs[s]) \/ \E k \in 1 .. Len(b2.inputs) : GoesOn(b2, k, s)
    <2>1. CASE s \in 1 .. Len(b.outputs)
      <3>1. b2.outputs[s] = b.outputs[s]
        BY <2>1 DEF Extends
      <3>2. CASE \E k \in 1 .. Len(b.inputs) : GoesOn(b, k, s)
        <4>1. PICK k \in 1 .. Len(b.inputs) : GoesOn(b, k, s)
          BY <3>2
        <4>2. Standard(b.consumed[k], P)
          BY DEF GoodBuilder
        <4>3. GoesOn(b2, k, s)
          BY <2>1, <4>1, <4>2, ExtendedSlot
        <4>4. k \in 1 .. Len(b2.inputs)
          BY <1>1, <1>2
        <4> QED
          BY <4>3, <4>4
      <3> QED
        BY <2>1, <3>1, <3>2 DEF GoodBuilder
    <2>2. CASE s \notin 1 .. Len(b.outputs)
      <3>1. s \in Len(b.outputs) + 1 .. Len(b2.outputs)
        BY <1>1, <2>2
      <3> QED
        BY <3>1
    <2> QED
      BY <2>1, <2>2
  <1> QED
    BY <1>3, <1>4 DEF GoodBuilder

\* The sizes of a good builder.
LEMMA GoodSizes ==
    ASSUME NEW P, NEW b, GoodBuilder(b, P)
    PROVE  /\ b \in BuilderType(P)
           /\ b.consumed \in Seq(Output) /\ b.inputs \in Seq(P) /\ b.unlock \in Seq(UnlockBlocks)
           /\ b.outputs \in Seq(Output)
           /\ Len(b.inputs) \in Nat /\ Len(b.outputs) \in Nat
           /\ Len(b.consumed) = Len(b.inputs) /\ Len(b.unlock) = Len(b.inputs)
           /\ Len(b.inputs) <= MaxByte /\ Len(b.outputs) <= MaxByte
  BY DEF GoodBuilder, BuilderType

LEMMA NewBuilderGood ==
    ASSUME NEW P, NEW history
    PROVE  GoodBuilder(NewTransactionBuilder, P) /\ ConsumesProduced(NewTransactionBuilder, history)
  <1> DEFINE b == NewTransactionBuilder
  <1>1. b \in BuilderType(P) /\ Len(b.inputs) = 0 /\ Len(b.outputs) = 0 /\ Len(b.consumed) = 0
        /\ Len(b.unlock) = 0
    BY DEF NewTransactionBuilder, BuilderType
  <1> HIDE DEF b
  <1>2. 1 .. 0 = {} /\ 0 <= MaxByte
    BY MaxByteAssumption
  <1>3. GoodBuilder(b, P) /\ ConsumesProduced(b, history)
    BY <1>1, <1>2 DEF GoodBuilder, ConsumesProduced
  <1> QED
    BY <1>3 DEF b

LEMMA ConsumePlainGood ==
    ASSUME NEW P, NEW b, GoodBuilder(b, P), Len(b.inputs) < MaxByte, NEW oid \in P,
           NEW out, Standard(out, P), ~HasChainConstraint(out),
           NEW r, r = PutSignatureUnlock(ConsumeOutput(b, WithID(oid, out)), NumInputs(b), ConstraintIndexLock)
    PROVE  /\ GoodBuilder(r, P)
           /\ Len(r.inputs) = Len(b.inputs) + 1
           /\ r.inputs[Len(b.inputs) + 1] = oid /\ r.consumed[Len(b.inputs) + 1] = out
           /\ \A k \in 1 .. Len(b.inputs) : r.inputs[k] = b.inputs[k] /\ r.consumed[k] = b.consumed[k]
  <1> DEFINE n == Len(b.inputs)
             m == ConsumeOutput(b, WithID(oid, out))
  <1>1. b \in BuilderType(P) /\ n \in Nat /\ Len(b.consumed) = n /\ Len(b.unlock) = n
        /\ b.consumed \in Seq(Output) /\ b.inputs \in Seq(P) /\ b.unlock \in Seq(UnlockBlocks)
    BY GoodSizes
  <1>2. out \in Output /\ <<MaxByte>> \in Seq(Byte) /\ 2 \in Byte
    BY MaxByteAssumption DEF Standard, Byte
  <1>3. /\ m \in BuilderType(P)
        /\ m.consumed = Append(b.consumed, out) /\ m.inputs = Append(b.inputs, oid)
        /\ m.unlock = Append(b.unlock, <<>>) /\ m.outputs = b.outputs
        /\ Len(m.unlock) = n + 1
    <2>1. CanAddInput(P, b, oid, out)
      BY <1>1, <1>2 DEF CanAddInput
    <2>2. InputAppended(P, b, oid, out, m)
      BY <2>1, ConsumeEffect
    <2> QED
      BY <2>2 DEF InputAppended
  <1> HIDE DEF m
  <1>4. r = PutUnlockParams(m, n, 2, <<MaxByte>>)
    BY DEF m, PutSignatureUnlock, NumInputs, ConstraintIndexLock
  <1> HIDE DEF n
  <1>5. n < Len(m.unlock)
    BY <1>1, <1>3 DEF CanAppend
  <1>6. /\ r \in BuilderType(P)
        /\ r.consumed = m.consumed /\ r.inputs = m.inputs /\ r.outputs = m.outputs
        /\ Len(r.unlock) = Len(m.unlock)
        /\ r.unlock[n + 1] = PutConstraint(m.unlock[n + 1], 2, <<MaxByte>>)
        /\ \A k \in 1 .. Len(m.unlock) : k # n + 1 => r.unlock[k] = m.unlock[k]
    <2>1. CanPut(P, m, n, 2, <<MaxByte>>)
      BY <1>1, <1>2, <1>3, <1>5 DEF CanPut
    <2> QED
      BY <1>4, <2>1, PutUnlockEffect DEF UnlockPut
  <1>7. /\ Len(r.inputs) = n + 1 /\ r.inputs[n + 1] = oid /\ \A k \in 1 .. n : r.inputs[k] = b.inputs[k]
    BY <1>1, <1>3, <1>6, Appended DEF n
  <1>8. /\ Len(r.consumed) = n + 1 /\ r.consumed[n + 1] = out
        /\ \A k \in 1 .. n : r.consumed[k] = b.consumed[k]
    BY <1>1, <1>3, <1>6, Appended
  <1>9. r.unlock[n + 1] = LockUnlock(<<MaxByte>>) /\ \A k \in 1 .. n : r.unlock[k] = b.unlock[k]
    <2>1. m.unlock[n + 1] = <<>> /\ \A k \in 1 .. n : m.unlock[k] = b.unlock[k]
      BY <1>1, <1>3, Appended
    <2>2. \A k \in 1 .. n : k # n + 1 /\ k \in 1 .. Len(m.unlock)
      BY <1>1, <1>3
    <2> QED
      BY <1>6, <2>1, <2>2 DEF LockUnlock, ConstraintIndexLock
  <1>10. Extends(b, r)
    <2>1. n <= n + 1 /\ Len(b.outputs) <= Len(r.outputs) /\ r.outputs = b.outputs
      BY <1>1, <1>3, <1>6, GoodSizes
    <2> QED
      BY <1>7, <1>8, <1>9, <2>1 DEF Extends, n
  <1>11. Plain(r, n + 1) /\ Standard(r.consumed[n + 1], P)
    BY <1>8, <1>9 DEF Plain
  <1>12. n + 1 <= MaxByte /\ Len(r.unlock) = n + 1 /\ n + 1 .. n + 1 = {n + 1}
         /\ Len(r.outputs) <= MaxByte /\ Len(b.outputs) + 1 .. Len(r.outputs) = {}
    <2>1. r.outputs = b.outputs /\ Len(b.outputs) \in Nat /\ Len(b.outputs) <= MaxByte
      BY <1>3, <1>6, GoodSizes
    <2> QED
      BY <1>1, <1>3, <1>6, <2>1, MaxByteAssumption DEF n
  <1>13. GoodBuilder(r, P)
    BY <1>6, <1>7, <1>8, <1>10, <1>11, <1>12, GoodExtends DEF n
  <1> QED
    BY <1>7, <1>8, <1>13 DEF n

LEMMA ProduceGood ==
    ASSUME NEW P, NEW b, GoodBuilder(b, P), Len(b.outputs) < MaxByte, NEW out, ClientOutput(out),
           NEW r, r = ProduceOutput(b, out)
    PROVE  GoodBuilder(r, P) /\ r.inputs = b.inputs /\ r.consumed = b.consumed
  <1> DEFINE m == Len(b.outputs)
  <1>1. b \in BuilderType(P) /\ m \in Nat /\ b.outputs \in Seq(Output) /\ out \in Output
        /\ Len(b.consumed) = Len(b.inputs) /\ Len(b.unlock) = Len(b.inputs)
        /\ Len(b.inputs) <= MaxByte /\ Len(b.inputs) \in Nat
    BY GoodSizes DEF ClientOutput
  <1>2. /\ r \in BuilderType(P)
        /\ r.consumed = b.consumed /\ r.inputs = b.inputs /\ r.unlock = b.unlock
        /\ r.outputs = Append(b.outputs, out)
    <2>1. CanAppend(P, b, out)
      BY <1>1 DEF CanAppend
    <2> QED
      BY <2>1, ProduceEffect DEF OutputAppended
  <1>3. Len(r.outputs) = m + 1 /\ r.outputs[m + 1] = out /\ \A s \in 1 .. m : r.outputs[s] = b.outputs[s]
    BY <1>1, <1>2, Appended
  <1>4. m <= m + 1 /\ m + 1 <= MaxByte /\ Len(b.inputs) + 1 .. Len(b.inputs) = {}
        /\ m + 1 .. m + 1 = {m + 1}
    BY <1>1, MaxByteAssumption
  <1>5. Extends(b, r)
    BY <1>1, <1>2, <1>3, <1>4 DEF Extends
  <1>6. GoodBuilder(r, P)
    BY <1>1, <1>2, <1>3, <1>4, <1>5, GoodExtends
  <1> QED
    BY <1>2, <1>6

\* The unlock parameters of a chain input, without and with the signature.
LEMMA TransitionUnlock ==
    ASSUME NEW d \in Nat, d > 3, NEW m,
           NEW u, u = PutConstraint(<<>>, d - 1, <<m, d - 1, 0>>),
           NEW p, p = PutConstraint(u, ConstraintIndexLock, <<MaxByte>>)
    PROVE  /\ Len(u) = d /\ u[d] = <<m, d - 1, 0>>
           /\ Len(p) = d /\ p[d] = <<m, d - 1, 0>> /\ p[3] = <<MaxByte>>
  <1>1. d - 1 \in Nat /\ (d - 1) + 1 = d /\ d - 1 >= 0 /\ Len(<<>>) = 0
    OBVIOUS
  <1> DEFINE e == <<>>
  <1>2. u = [k \in 1 .. (d - 1) + 1 |->
                IF k = (d - 1) + 1 THEN <<m, d - 1, 0>> ELSE IF k <= Len(e) THEN e[k] ELSE <<>>]
    BY <1>1, PutEffect
  <1> HIDE DEF e
  <1> DEFINE x == <<m, d - 1, 0>>
  <1> HIDE DEF x
  <1>3. Len(u) = d /\ u[d] = x
    <2>1. u = [k \in 1 .. d |-> IF k = d THEN x ELSE IF k <= Len(e) THEN e[k] ELSE <<>>]
      BY <1>1, <1>2 DEF x
    <2>2. d \in 1 .. d
      OBVIOUS
    <2> QED
      BY <2>1, <2>2
  <1>4. Len(p) = Len(u) /\ p[3] = <<MaxByte>> /\ \A k \in 1 .. Len(u) : k # 3 => p[k] = u[k]
    <2>1. Len(u) \in Nat /\ Len(u) > 2
      BY <1>3
    <2> QED
      BY <2>1, SignatureKeeps
  <1>5. p[d] = x
    BY <1>3, <1>4
  <1> QED
    BY <1>3, <1>4, <1>5 DEF x

LEMMA InsertTransitionGood ==
    ASSUME NEW P, NEW b, GoodBuilder(b, P), Len(b.inputs) < MaxByte, Len(b.outputs) < MaxByte,
           NEW oid, NEW out, NEW d, ChainAt(P, oid, out, d),
           NEW ts \in Nat, ~TransitionPanics(b, WithID(oid, out), ts),
           NEW r, r = InsertSimpleChainTransition(b, WithID(oid, out), ts)
    PROVE  /\ GoodBuilder(r, P)
           /\ Len(r.inputs) = Len(b.inputs) + 1
           /\ r.inputs[Len(b.inputs) + 1] = oid /\ r.consumed[Len(b.inputs) + 1] = out
           /\ \A k \in 1 .. Len(b.inputs) : r.inputs[k] = b.inputs[k] /\ r.consumed[k] = b.consumed[k]
  <1> DEFINE n == Len(b.inputs)
             m == Len(b.outputs)
             o == WithID(oid, out)
             succ == ChainSuccessor(o, AmountOf(out), ts, n)
  <1>p. PICK b1, b2, b3 :
            /\ b1 = ConsumeOutput(b, o) /\ b2 = ProduceOutput(b1, succ)
            /\ b3 = PutUnlockParams(b2, n, d - 1, <<m, d - 1, 0>>)
    OBVIOUS
  <1>1. b \in BuilderType(P) /\ n \in Nat /\ m \in Nat /\ Len(b.consumed) = n /\ Len(b.unlock) = n
        /\ b.consumed \in Seq(Output) /\ b.inputs \in Seq(P) /\ b.unlock \in Seq(UnlockBlocks)
        /\ b.outputs \in Seq(Output) /\ n < MaxByte /\ m < MaxByte
    BY GoodSizes
  <1>2. oid \in P /\ out \in Output /\ Standard(out, P) /\ d \in 4 .. Len(out) /\ Len(out) \in Nat
        /\ Len(out) <= MaxByte
    BY DEF ChainAt, Standard
  <1>3. d \in Nat /\ d > 3 /\ d - 1 \in Byte /\ 2 \in Byte /\ <<MaxByte>> \in Seq(Byte)
        /\ <<m, d - 1, 0>> \in Seq(Byte) /\ n \in Byte
    <2>1. d \in Nat /\ d > 3 /\ d - 1 \in Byte
      BY <1>2, MaxByteAssumption DEF Byte
    <2>2. MaxByte \in Byte /\ m \in Byte /\ 0 \in Byte /\ 2 \in Byte /\ n \in Byte
      BY <1>1, MaxByteAssumption DEF Byte
    <2> QED
      BY <2>1, <2>2
  <1>4. ChainConstraintIndex(out) = d - 1 /\ HasChainConstraint(out)
    BY StandardChainID
  <1>5. o.out = out /\ o.id = oid
    BY DEF WithID
  <1>6. Standard(succ, P)
    <2>1. Succeeds(succ, out, d, ChainIDOf(o), ts, n)
      BY <1>2, <1>4, SuccessorBlocks
    <2> QED
      BY <1>3, <2>1, SuccessorStandard
  <1>7. TransitionInserted(b, o, ts) = b3
    BY <1>p, <1>4, <1>5 DEF TransitionInserted, NumInputs
  <1>8. r = PutUnlockParams(b3, m, 2, <<MaxByte>>)
    BY <1>7 DEF InsertSimpleChainTransition, PutSignatureUnlock, ConstraintIndexLock
  <1>9. Has(b3.unlock, m)
    BY <1>7 DEF TransitionPanics, CanPutUnlockParams
  <1> HIDE DEF succ, o
  <1>10. /\ b1 \in BuilderType(P)
         /\ b1.consumed = Append(b.consumed, out) /\ b1.inputs = Append(b.inputs, oid)
         /\ b1.unlock = Append(b.unlock, <<>>) /\ b1.outputs = b.outputs
         /\ Len(b1.unlock) = n + 1
    <2>1. CanAddInput(P, b, oid, out)
      BY <1>1, <1>2 DEF CanAddInput
    <2>2. InputAppended(P, b, oid, out, b1)
      BY <1>p, <2>1, ConsumeEffect DEF o
    <2> QED
      BY <2>2 DEF InputAppended
  <1>11. /\ b2 \in BuilderType(P)
         /\ b2.consumed = b1.consumed /\ b2.inputs = b1.inputs /\ b2.unlock = b1.unlock
         /\ b2.outputs = Append(b.outputs, succ)
    <2>1. CanAppend(P, b1, succ)
      BY <1>6, <1>10 DEF CanAppend, Standard
    <2>2. OutputAppended(P, b1, succ, b2)
      BY <1>p, <2>1, ProduceEffect
    <2> QED
      BY <1>10, <2>2 DEF OutputAppended
  <1>12. /\ b3 \in BuilderType(P)
         /\ b3.consumed = b2.consumed /\ b3.inputs = b2.inputs /\ b3.outputs = b2.outputs
         /\ Len(b3.unlock) = Len(b2.unlock)
         /\ b3.unlock[n + 1] = PutConstraint(b2.unlock[n + 1], d - 1, <<m, d - 1, 0>>)
         /\ \A k \in 1 .. Len(b2.unlock) : k # n + 1 => b3.unlock[k] = b2.unlock[k]
    <2>1. n < Len(b2.unlock)
      BY <1>1, <1>10, <1>11
    <2>2. CanPut(P, b2, n, d - 1, <<m, d - 1, 0>>)
      BY <1>1, <1>3, <1>11, <2>1 DEF CanPut
    <2>3. UnlockPut(P, b2, n, d - 1, <<m, d - 1, 0>>, b3)
      BY <1>p, <2>2, PutUnlockEffect
    <2> QED
      BY <2>3 DEF UnlockPut
  <1>13. /\ r \in BuilderType(P)
         /\ r.consumed = b3.consumed /\ r.inputs = b3.inputs /\ r.outputs = b3.outputs
         /\ Len(r.unlock) = Len(b3.unlock)
         /\ r.unlock[m + 1] = PutConstraint(b3.unlock[m + 1], 2, <<MaxByte>>)
         /\ \A k \in 1 .. Len(b3.unlock) : k # m + 1 => r.unlock[k] = b3.unlock[k]
    <2>1. m < Len(b3.unlock)
      BY <1>1, <1>9, <1>10, <1>11, <1>12 DEF Has
    <2>2. CanPut(P, b3, m, 2, <<MaxByte>>)
      BY <1>1, <1>3, <1>12, <2>1 DEF CanPut
    <2>3. UnlockPut(P, b3, m, 2, <<MaxByte>>, r)
      BY <1>8, <2>2, PutUnlockEffect
    <2> QED
      BY <2>3 DEF UnlockPut
  <1> HIDE DEF n, m
  <1>14. /\ Len(r.inputs) = n + 1 /\ r.inputs[n + 1] = oid /\ \A k \in 1 .. n : r.inputs[k] = b.inputs[k]
    <2>1. r.inputs = Append(b.inputs, oid)
      BY <1>10, <1>11, <1>12, <1>13
    <2>2. b.inputs \in Seq(P) /\ Len(b.inputs) = n
      BY <1>1 DEF n
    <2> HIDE DEF n
    <2> QED
      BY <2>1, <2>2, Appended
  <1>15. /\ Len(r.consumed) = n + 1 /\ r.consumed[n + 1] = out
         /\ \A k \in 1 .. n : r.consumed[k] = b.consumed[k]
    <2>1. r.consumed = Append(b.consumed, out)
      BY <1>10, <1>11, <1>12, <1>13
    <2>2. b.consumed \in Seq(Output) /\ Len(b.consumed) = n
      BY <1>1
    <2> QED
      BY <2>1, <2>2, Appended
  <1>16. /\ Len(r.outputs) = m + 1 /\ r.outputs[m + 1] = succ
         /\ \A s \in 1 .. m : r.outputs[s] = b.outputs[s]
    <2>1. r.outputs = Append(b.outputs, succ)
      BY <1>11, <1>12, <1>13
    <2>2. b.outputs \in Seq(Output) /\ Len(b.outputs) = m
      BY <1>1 DEF m
    <2> HIDE DEF m
    <2> QED
      BY <2>1, <2>2, Appended
  <1> DEFINE u == PutConstraint(<<>>, d - 1, <<m, d - 1, 0>>)
             p == PutConstraint(u, ConstraintIndexLock, <<MaxByte>>)
  <1>17. Len(r.unlock) = n + 1 /\ b3.unlock[n + 1] = u /\ \A k \in 1 .. n : b3.unlock[k] = b.unlock[k]
    <2>1. b2.unlock[n + 1] = <<>> /\ \A k \in 1 .. n : b2.unlock[k] = b.unlock[k]
      BY <1>1, <1>10, <1>11, Appended
    <2>2. \A k \in 1 .. n : k # n + 1 /\ k \in 1 .. Len(b2.unlock)
      BY <1>1, <1>10, <1>11
    <2> QED
      BY <1>10, <1>11, <1>12, <1>13, <2>1, <2>2
  <1>18. /\ Len(u) = d /\ u[d] = <<m, d - 1, 0>>
         /\ Len(p) = d /\ p[d] = <<m, d - 1, 0>> /\ p[3] = <<MaxByte>>
    BY <1>3, TransitionUnlock
  <1> HIDE DEF u
  <1>19. r.unlock[n + 1] = IF m = n THEN p ELSE u
    <2>1. n + 1 \in 1 .. Len(b3.unlock) /\ (m # n => n + 1 # m + 1)
      BY <1>1, <1>10, <1>11, <1>12
    <2>2. CASE m = n
      BY <1>13, <1>17, <2>2 DEF ConstraintIndexLock
    <2>3. CASE m # n
      BY <1>13, <1>17, <2>1, <2>3
    <2> QED
      BY <2>2, <2>3
  <1>20. \A k \in 1 .. n : \/ r.unlock[k] = b.unlock[k]
                           \/ r.unlock[k] = PutConstraint(b.unlock[k], ConstraintIndexLock, <<MaxByte>>)
    <2> SUFFICES ASSUME NEW k \in 1 .. n
                 PROVE  \/ r.unlock[k] = b.unlock[k]
                        \/ r.unlock[k] = PutConstraint(b.unlock[k], ConstraintIndexLock, <<MaxByte>>)
      OBVIOUS
    <2>1. k \in 1 .. Len(b3.unlock)
      BY <1>1, <1>10, <1>11, <1>12
    <2>2. CASE k = m + 1
      BY <1>13, <1>17, <2>2 DEF ConstraintIndexLock
    <2>3. CASE k # m + 1
      BY <1>13, <1>17, <2>1, <2>3
    <2> QED
      BY <2>2, <2>3
  <1> HIDE DEF p
  <1>21. n <= n + 1 /\ m <= m + 1 /\ (n + 1) - 1 = n /\ (m + 1) - 1 = m /\ n + 1 <= MaxByte
         /\ m + 1 <= MaxByte /\ n + 1 .. n + 1 = {n + 1} /\ m + 1 .. m + 1 = {m + 1}
         /\ n + 1 \in 1 .. n + 1 /\ m + 1 \in 1 .. m + 1 /\ (m + 1 = n + 1 => m = n)
    BY <1>1, MaxByteAssumption
  <1>22. Extends(b, r)
    BY <1>14, <1>15, <1>16, <1>20, <1>21 DEF Extends, n, m
  <1>23. GoesOn(r, n + 1, m + 1)
    <2>1. Linked(oid, out, r.unlock[n + 1], succ, n + 1, m + 1)
      <3>1. ChainConstraintIndex(out) + 1 = d
        BY <1>3, <1>4
      <3>2. Len(r.unlock[n + 1]) = d /\ r.unlock[n + 1][d] = <<m, d - 1, 0>>
        BY <1>18, <1>19
      <3>3. succ = ChainSuccessor(WithID(oid, out), AmountOf(out), ts, n)
        BY DEF succ, o
      <3> QED
        BY <1>4, <1>21, <3>1, <3>2, <3>3 DEF Linked
    <2>2. m + 1 = n + 1 => r.unlock[n + 1][3] = <<MaxByte>>
      BY <1>18, <1>19, <1>21
    <2> QED
      BY <1>14, <1>15, <1>16, <2>1, <2>2 DEF GoesOn
  <1>24. GoodBuilder(r, P)
    <2>1. /\ Len(r.inputs) <= MaxByte /\ Len(r.outputs) <= MaxByte
          /\ Len(r.consumed) = Len(r.inputs) /\ Len(r.unlock) = Len(r.inputs)
      BY <1>14, <1>15, <1>16, <1>17, <1>21
    <2>2. \A k \in Len(b.inputs) + 1 .. Len(r.inputs) :
              /\ Standard(r.consumed[k], P)
              /\ Plain(r, k) \/ \E s \in 1 .. Len(r.outputs) : GoesOn(r, k, s)
      BY <1>2, <1>14, <1>15, <1>16, <1>21, <1>23 DEF n
    <2>3. \A s \in Len(b.outputs) + 1 .. Len(r.outputs) :
              ClientOutput(r.outputs[s]) \/ \E k \in 1 .. Len(r.inputs) : GoesOn(r, k, s)
      BY <1>14, <1>16, <1>21, <1>23 DEF m
    <2> QED
      BY <1>13, <1>22, <2>1, <2>2, <2>3, GoodExtends
  <1> QED
    BY <1>14, <1>15, <1>24 DEF n

\* A builder stays good when more is produced.
LEMMA GoodGrows ==
    ASSUME NEW P, NEW Q, P \subseteq Q, NEW b, GoodBuilder(b, P)
    PROVE  GoodBuilder(b, Q)
  <1>1. b \in BuilderType(Q)
    <2>1. b = [consumed |-> b.consumed, inputs |-> b.inputs, unlock |-> b.unlock, outputs |-> b.outputs]
          /\ b.consumed \in Seq(Output) /\ b.inputs \in Seq(P) /\ b.unlock \in Seq(UnlockBlocks)
          /\ b.outputs \in Seq(Output)
      BY DEF GoodBuilder, BuilderType
    <2>2. b.inputs \in Seq(Q)
      BY <2>1
    <2> QED
      BY <2>1, <2>2 DEF BuilderType
  <1>2. \A k \in 1 .. Len(b.inputs) : Standard(b.consumed[k], Q)
    BY StandardGrows DEF GoodBuilder
  <1> QED
    BY <1>1, <1>2 DEF GoodBuilder

-----------------------------------------------------------------------------
(***************************************************************************)
(* Transitions.                                                            *)
(***************************************************************************)

\* The k-th input goes on in the s-th output: the chain is at block d of both.
Transition(P, b, k, s, d, ts) ==
    /\ ChainAt(P, b.inputs[k], b.consumed[k], d)
    /\ Succeeds(b.outputs[s], b.consumed[k], d,
                ChainIDOf(WithID(b.inputs[k], b.consumed[k])), ts, k - 1)
    /\ Standard(b.outputs[s], P)
    /\ b.outputs[s][d].type = "chain"
    /\ b.outputs[s][d].id = ChainIDOf(WithID(b.inputs[k], b.consumed[k]))
    /\ b.outputs[s][d].id # ZeroHash
    /\ Len(b.unlock[k]) = d /\ b.unlock[k][d] = <<s - 1, d - 1, 0>>

LEMMA TransitionShape ==
    ASSUME NEW P, P \subseteq OutputID, NEW b, GoodBuilder(b, P), NEW k \in 1 .. Len(b.inputs),
           NEW s, GoesOn(b, k, s)
    PROVE  \E d \in Nat, ts \in Nat : Transition(P, b, k, s, d, ts)
  <1> DEFINE oid == b.inputs[k]
             out == b.consumed[k]
             u == b.unlock[k]
  <1>1. oid \in P /\ Standard(out, P) /\ k - 1 \in Byte /\ k \in Nat
    <2>1. b.inputs \in Seq(P) /\ Len(b.inputs) \in Nat /\ Len(b.inputs) <= MaxByte
      BY GoodSizes
    <2> QED
      BY <2>1, MaxByteAssumption DEF GoodBuilder, Byte
  <1>2. Linked(oid, out, u, b.outputs[s], k, s)
    BY DEF GoesOn
  <1> HIDE DEF oid, out, u
  <1>3. PICK d \in 4 .. Len(out) : out[d].type = "chain" /\ ChainConstraintIndex(out) = d - 1
    BY <1>1, <1>2, ChainIndex DEF Linked, Standard
  <1>4. d \in Nat /\ ChainConstraintIndex(out) + 1 = d /\ ChainAt(P, oid, out, d)
    BY <1>1, <1>3 DEF Standard, ChainAt
  <1>5. Len(u) = d /\ u[d] = <<s - 1, d - 1, 0>>
    BY <1>2, <1>3, <1>4 DEF Linked
  <1>6. PICK ts \in Nat : b.outputs[s] = ChainSuccessor(WithID(oid, out), AmountOf(out), ts, k - 1)
    BY <1>2 DEF Linked
  <1>7. Succeeds(b.outputs[s], out, d, ChainIDOf(WithID(oid, out)), ts, k - 1)
    BY <1>1, <1>2, <1>3, <1>6, SuccessorBlocks DEF Linked
  <1>8. /\ Standard(b.outputs[s], P)
        /\ b.outputs[s][d].type = "chain" /\ b.outputs[s][d].id = ChainIDOf(WithID(oid, out))
        /\ b.outputs[s][d].id # ZeroHash
    BY <1>1, <1>4, <1>7, SuccessorStandard
  <1>9. Transition(P, b, k, s, d, ts)
    BY <1>4, <1>5, <1>7, <1>8 DEF Transition, oid, out, u
  <1> QED
    BY <1>4, <1>9

\* An input goes on in one output only.
LEMMA GoesOnOnce ==
    ASSUME NEW P, P \subseteq OutputID, NEW b, GoodBuilder(b, P), NEW k \in 1 .. Len(b.inputs),
           NEW s \in Nat, NEW t \in Nat, GoesOn(b, k, s), GoesOn(b, k, t)
    PROVE  s = t
  <1> DEFINE i == ChainConstraintIndex(b.consumed[k])
  <1>1. b.unlock[k][i + 1] = <<s - 1, i, 0>> /\ b.unlock[k][i + 1] = <<t - 1, i, 0>>
    BY DEF GoesOn, Linked
  <1> HIDE DEF i
  <1>2. s - 1 = t - 1
    BY <1>1
  <1> QED
    BY <1>2

\* Everything a good builder produces is standard.
LEMMA OutputStandard ==
    ASSUME NEW P, P \subseteq OutputID, NEW b, GoodBuilder(b, P), NEW s \in 1 .. Len(b.outputs)
    PROVE  Standard(b.outputs[s], P)
  <1>1. CASE ClientOutput(b.outputs[s])
    BY <1>1, ClientStandard
  <1>2. CASE \E k \in 1 .. Len(b.inputs) : GoesOn(b, k, s)
    <2>1. PICK k \in 1 .. Len(b.inputs) : GoesOn(b, k, s)
      BY <1>2
    <2>2. \E d \in Nat, ts \in Nat : Transition(P, b, k, s, d, ts)
      BY <2>1, TransitionShape
    <2> QED
      BY <2>2 DEF Transition
  <1> QED
    BY <1>1, <1>2 DEF GoodBuilder

\* The chain of an output of a good builder is a new one or one of its inputs.
LEMMA OutputChain ==
    ASSUME NEW P, P \subseteq OutputID, NEW b, GoodBuilder(b, P), NEW s \in 1 .. Len(b.outputs),
           NEW x, NEW id, id \in ChainIDsOf(x, b.outputs[s])
    PROVE  \/ id = blake2b(x)
           \/ \E k \in 1 .. Len(b.inputs) :
                  GoesOn(b, k, s) /\ id \in ChainIDsOf(b.inputs[k], b.consumed[k])
  <1>1. PICK c \in BlocksOf(b.outputs[s]) :
            c.type = "chain" /\ id = IF c.id = ZeroHash THEN blake2b(x) ELSE c.id
    BY DEF ChainIDsOf
  <1>2. PICK e \in 1 .. Len(b.outputs[s]) : c = b.outputs[s][e]
    BY DEF BlocksOf
  <1>3. Standard(b.outputs[s], P)
    BY OutputStandard
  <1>4. e \in 4 .. Len(b.outputs[s])
    <2>1. e # 1 /\ e # 2 /\ e # 3
      BY <1>1, <1>2, <1>3 DEF Standard, Owner, NewAddressED25519
    <2> QED
      BY <2>1, <1>3 DEF Standard
  <1>5. CASE ClientOutput(b.outputs[s])
    <2>1. e - 1 \in 3 .. Len(b.outputs[s]) - 1 /\ (e - 1) + 1 = e
      BY <1>3, <1>4 DEF Standard
    <2>2. At(b.outputs[s], e - 1) = c
      BY <2>1, <1>2 DEF At
    <2>3. c = NewChainOrigin \/ c = NewSenderED25519(Signer) \/ c.type = "data"
      BY <1>5, <2>1, <2>2 DEF ClientOutput, ConstraintIndexLock
    <2>4. c.id = ZeroHash
      BY <1>1, <2>3 DEF NewChainOrigin, NewChain, NewSenderED25519
    <2> QED
      BY <1>1, <2>4
  <1>6. CASE \E k \in 1 .. Len(b.inputs) : GoesOn(b, k, s)
    <2>1. PICK k \in 1 .. Len(b.inputs) : GoesOn(b, k, s)
      BY <1>6
    <2>2. PICK d \in Nat, ts \in Nat : Transition(P, b, k, s, d, ts)
      BY <2>1, TransitionShape
    <2>3. ChainAt(P, b.inputs[k], b.consumed[k], d)
      BY <2>2 DEF Transition
    <2>4. d \in 4 .. Len(b.outputs[s])
      BY <2>2, <2>3 DEF Transition, ChainAt, Succeeds
    <2>5. e = d
      BY <1>1, <1>2, <1>3, <1>4, <2>2, <2>4 DEF Standard, Transition
    <2>6. id = ChainIDOf(WithID(b.inputs[k], b.consumed[k]))
      BY <1>1, <1>2, <2>2, <2>5 DEF Transition
    <2>7. id \in ChainIDsOf(b.inputs[k], b.consumed[k])
      BY <2>3, <2>6, StandardChainID
    <2> QED
      BY <2>1, <2>7
  <1> QED
    BY <1>5, <1>6 DEF GoodBuilder

\* A transition leaves everything but the timestamp and the chain constraint.
LEMMA SubstanceKept ==
    ASSUME NEW P, NEW b, NEW k, NEW s, NEW d, NEW ts, Transition(P, b, k, s, d, ts)
    PROVE  Substance(b.outputs[s]) = Substance(b.consumed[k])
  <1> DEFINE out == b.consumed[k]
             succ == b.outputs[s]
  <1>1. ChainAt(P, b.inputs[k], out, d) /\ Standard(out, P) /\ d \in 4 .. Len(out)
    BY DEF Transition, ChainAt
  <1>2. /\ Len(succ) = Len(out)
        /\ succ[1] = out[1] /\ \A j \in 3 .. Len(out) : j # d => succ[j] = out[j]
    BY DEF Transition, Succeeds
  <1>3. ChainAt(P, b.inputs[k], succ, d)
    BY <1>1, <1>2 DEF Transition, ChainAt
  <1>4. ChainConstraintIndex(out) = d - 1 /\ ChainConstraintIndex(succ) = d - 1
    BY <1>1, <1>3, StandardChainID
  <1> HIDE DEF out, succ
  <1>5. Len(out) \in Nat /\ d \in Nat
    BY <1>1 DEF Standard
  <1>6. ASSUME NEW j \in 1 .. Len(out)
        PROVE  (IF j - 1 \in {1, d - 1} THEN <<>> ELSE succ[j])
               = (IF j - 1 \in {1, d - 1} THEN <<>> ELSE out[j])
    <2>1. CASE j - 1 \in {1, d - 1}
      BY <2>1
    <2>2. CASE j - 1 \notin {1, d - 1}
      <3>1. j = 1 \/ (j \in 3 .. Len(out) /\ j # d)
        BY <1>5, <2>2
      <3> QED
        BY <1>2, <2>2, <3>1
    <2> QED
      BY <2>1, <2>2
  <1>7. Substance(out) = [j \in 1 .. Len(out) |-> IF j - 1 \in {1, d - 1} THEN <<>> ELSE out[j]]
    BY <1>4 DEF Substance, ConstraintIndexTimestamp
  <1>8. Substance(succ) = [j \in 1 .. Len(out) |-> IF j - 1 \in {1, d - 1} THEN <<>> ELSE succ[j]]
    BY <1>2, <1>4 DEF Substance, ConstraintIndexTimestamp
  <1>9. Substance(succ) = Substance(out)
    BY <1>6, <1>7, <1>8
  <1> QED
    BY <1>9 DEF out, succ

\* next is the state after the transaction of builder b, the n-th.
Applies(state, P, b, n, next) ==
    /\ P \subseteq OutputID /\ DOMAIN state \subseteq P
    /\ GoodState(state, P) /\ GoodBuilder(b, P)
    /\ \A k, l \in 1 .. Len(b.inputs) : b.inputs[k] = b.inputs[l] => k = l
    /\ \A k \in 1 .. Len(b.inputs) :
           b.inputs[k] \in DOMAIN state /\ b.consumed[k] = state[b.inputs[k]]
    /\ \A s \in 1 .. Len(b.outputs) : NewOutputID(n, s - 1) \notin P
    /\ DOMAIN next = (DOMAIN state \ {b.inputs[k] : k \in 1 .. Len(b.inputs)})
                     \cup {NewOutputID(n, s - 1) : s \in 1 .. Len(b.outputs)}
    /\ \A s \in 1 .. Len(b.outputs) : next[NewOutputID(n, s - 1)] = b.outputs[s]
    /\ \A x \in DOMAIN state \ {b.inputs[k] : k \in 1 .. Len(b.inputs)} : next[x] = state[x]

\* x holds chain id: it was unspent before, or it is the s-th output, in which
\* the chain of the k-th input goes on.
Untouched(state, b, x, id) ==
    /\ x \in DOMAIN state /\ id \in ChainIDsOf(x, state[x])
    /\ \A k \in 1 .. Len(b.inputs) : x # b.inputs[k]

Moved(state, b, n, x, id, k, s) ==
    /\ k \in 1 .. Len(b.inputs) /\ s \in 1 .. Len(b.outputs)
    /\ x = NewOutputID(n, s - 1) /\ GoesOn(b, k, s)
    /\ id \in ChainIDsOf(b.inputs[k], state[b.inputs[k]])

\* Where a chain of the next state comes from.
LEMMA ChainSource ==
    ASSUME NEW state, NEW P, NEW b, NEW n, NEW next, Applies(state, P, b, n, next),
           NEW x \in DOMAIN next, NEW id, id \in ChainIDsOf(x, next[x])
    PROVE  \/ x \notin P /\ id = blake2b(x)
           \/ Untouched(state, b, x, id)
           \/ \E k, s : Moved(state, b, n, x, id, k, s)
  <1>1. CASE x \in DOMAIN state \ {b.inputs[k] : k \in 1 .. Len(b.inputs)}
    <2>1. next[x] = state[x]
      BY <1>1 DEF Applies
    <2> QED
      BY <1>1, <2>1 DEF Untouched
  <1>2. CASE \E s \in 1 .. Len(b.outputs) : x = NewOutputID(n, s - 1)
    <2>1. PICK s \in 1 .. Len(b.outputs) : x = NewOutputID(n, s - 1)
      BY <1>2
    <2>2. x \notin P /\ next[x] = b.outputs[s]
      BY <2>1 DEF Applies
    <2>3. CASE id = blake2b(x)
      BY <2>2, <2>3
    <2>4. CASE id # blake2b(x)
      <3>1. P \subseteq OutputID /\ GoodBuilder(b, P)
        BY DEF Applies
      <3>2. id \in ChainIDsOf(x, b.outputs[s])
        BY <2>2
      <3>3. PICK k \in 1 .. Len(b.inputs) :
                GoesOn(b, k, s) /\ id \in ChainIDsOf(b.inputs[k], b.consumed[k])
        BY <3>1, <3>2, <2>4, OutputChain
      <3>4. b.consumed[k] = state[b.inputs[k]]
        BY DEF Applies
      <3>5. Moved(state, b, n, x, id, k, s)
        BY <2>1, <3>3, <3>4 DEF Moved
      <3> QED
        BY <3>5
    <2> QED
      BY <2>3, <2>4
  <1> QED
    BY <1>1, <1>2 DEF Applies

\* The identifiers of the chains of a state belong to what was produced.
LEMMA OldChain ==
    ASSUME NEW state, NEW P, P \subseteq OutputID, DOMAIN state \subseteq P, GoodState(state, P),
           NEW x \in DOMAIN state, NEW id, id \in ChainIDsOf(x, state[x])
    PROVE  /\ \E o \in P : id = blake2b(o)
           /\ HasChainConstraint(state[x])
  <1>1. Standard(state[x], P) /\ x \in P
    BY DEF GoodState
  <1>2. HasChainConstraint(state[x])
    BY <1>1, NoChainID
  <1>3. PICK d \in 4 .. Len(state[x]) : state[x][d].type = "chain"
    BY <1>1, <1>2, ChainIndex DEF Standard
  <1>4. ChainAt(P, x, state[x], d)
    BY <1>1, <1>3 DEF ChainAt
  <1>5. id = ChainIDOf(WithID(x, state[x]))
    BY <1>4, StandardChainID
  <1> QED
    BY <1>2, <1>4, <1>5, StandardChainID

\* A chain has one state after the transaction.
LEMMA OneState ==
    ASSUME NEW state, NEW P, NEW b, NEW n, NEW next, Applies(state, P, b, n, next),
           NEW x \in DOMAIN next, NEW y \in DOMAIN next, NEW id,
           id \in ChainIDsOf(x, next[x]), id \in ChainIDsOf(y, next[y])
    PROVE  x = y
  <1>1. ASSUME NEW z, Untouched(state, b, z, id) \/ \E k, s : Moved(state, b, n, z, id, k, s)
        PROVE  \E o \in P : id = blake2b(o)
    <2>1. P \subseteq OutputID /\ DOMAIN state \subseteq P /\ GoodState(state, P)
          /\ \A k \in 1 .. Len(b.inputs) : b.inputs[k] \in DOMAIN state
      BY DEF Applies
    <2>2. \E w \in DOMAIN state : id \in ChainIDsOf(w, state[w])
      BY <1>1, <2>1 DEF Untouched, Moved
    <2> QED
      BY <2>1, <2>2, OldChain
  <1>2. \A v, w : blake2b(v) = blake2b(w) => v = w
    BY DEF blake2b
  <1>3. /\ \/ x \notin P /\ id = blake2b(x)
           \/ Untouched(state, b, x, id)
           \/ \E k, s : Moved(state, b, n, x, id, k, s)
        /\ \/ y \notin P /\ id = blake2b(y)
           \/ Untouched(state, b, y, id)
           \/ \E k, s : Moved(state, b, n, y, id, k, s)
    BY ChainSource
  <1>4. CASE (x \notin P /\ id = blake2b(x)) \/ (y \notin P /\ id = blake2b(y))
    <2>1. ~ \E o \in P : id = blake2b(o)
      BY <1>2, <1>4
    <2>2. id = blake2b(x) /\ id = blake2b(y)
      BY <1>1, <1>3, <2>1
    <2> QED
      BY <1>2, <2>2
  <1>5. \A v, w \in DOMAIN state :
            id \in ChainIDsOf(v, state[v]) /\ id \in ChainIDsOf(w, state[w]) => v = w
    BY DEF Applies, GoodState
  <1>6. \A k \in 1 .. Len(b.inputs) : b.inputs[k] \in DOMAIN state
    BY DEF Applies
  <1>7. CASE Untouched(state, b, x, id) /\ Untouched(state, b, y, id)
    BY <1>5, <1>7 DEF Untouched
  <1>8. CASE Untouched(state, b, x, id) /\ \E k, s : Moved(state, b, n, y, id, k, s)
    BY <1>5, <1>6, <1>8 DEF Untouched, Moved
  <1>9. CASE Untouched(state, b, y, id) /\ \E k, s : Moved(state, b, n, x, id, k, s)
    BY <1>5, <1>6, <1>9 DEF Untouched, Moved
  <1>10. CASE /\ \E k, s : Moved(state, b, n, x, id, k, s)
              /\ \E k, s : Moved(state, b, n, y, id, k, s)
    <2>1. PICK k, s : Moved(state, b, n, x, id, k, s)
      BY <1>10
    <2>2. PICK l, t : Moved(state, b, n, y, id, l, t)
      BY <1>10
    <2>3. b.inputs[k] = b.inputs[l] /\ k \in 1 .. Len(b.inputs) /\ l \in 1 .. Len(b.inputs)
      BY <1>5, <1>6, <2>1, <2>2 DEF Moved
    <2>4. k = l
      BY <2>3 DEF Applies
    <2>5. P \subseteq OutputID /\ GoodBuilder(b, P) /\ s \in Nat /\ t \in Nat
          /\ GoesOn(b, k, s) /\ GoesOn(b, k, t)
      BY <2>1, <2>2, <2>4 DEF Applies, Moved
    <2>6. s = t
      BY <2>3, <2>5, GoesOnOnce
    <2> QED
      BY <2>1, <2>2, <2>6 DEF Moved
  <1> QED
    BY <1>3, <1>4, <1>7, <1>8, <1>9, <1>10

\* The next state is good, and every chain went on unchanged.
LEMMA StateStep ==
    ASSUME NEW state, NEW P, NEW b, NEW n, NEW next, Applies(state, P, b, n, next), NEW Q, P \subseteq Q
    PROVE  GoodState(next, Q)
  <1>1. ASSUME NEW x \in DOMAIN next
        PROVE  Standard(next[x], Q)
    <2>1. CASE x \in DOMAIN state \ {b.inputs[k] : k \in 1 .. Len(b.inputs)}
      <3>1. next[x] = state[x] /\ Standard(state[x], P)
        BY <2>1 DEF Applies, GoodState
      <3> QED
        BY <3>1, StandardGrows
    <2>2. CASE \E s \in 1 .. Len(b.outputs) : x = NewOutputID(n, s - 1)
      <3>1. PICK s \in 1 .. Len(b.outputs) : x = NewOutputID(n, s - 1)
        BY <2>2
      <3>2. next[x] = b.outputs[s] /\ P \subseteq OutputID /\ GoodBuilder(b, P)
        BY <3>1 DEF Applies
      <3>3. Standard(b.outputs[s], P)
        BY <3>2, OutputStandard
      <3> QED
        BY <3>2, <3>3, StandardGrows
    <2> QED
      BY <2>1, <2>2 DEF Applies
  <1>2. ASSUME NEW x \in DOMAIN next, NEW y \in DOMAIN next,
               ChainIDsOf(x, next[x]) \cap ChainIDsOf(y, next[y]) # {}
        PROVE  x = y
    <2>1. PICK id : id \in ChainIDsOf(x, next[x]) /\ id \in ChainIDsOf(y, next[y])
      BY <1>2
    <2> QED
      BY <2>1, OneState
  <1> QED
    BY <1>1, <1>2 DEF GoodState

LEMMA ChainStep ==
    ASSUME NEW state, NEW P, NEW b, NEW n, NEW next, Applies(state, P, b, n, next),
           NEW oid \in DOMAIN state, NEW id, id \in ChainIDsOf(oid, state[oid])
    PROVE  \E succ \in DOMAIN next :
               /\ {x \in DOMAIN next : id \in ChainIDsOf(x, next[x])} = {succ}
               /\ Substance(next[succ]) = Substance(state[oid])
  <1>1. ASSUME NEW succ \in DOMAIN next, id \in ChainIDsOf(succ, next[succ])
        PROVE  {x \in DOMAIN next : id \in ChainIDsOf(x, next[x])} = {succ}
    BY <1>1, OneState
  <1>2. CASE \A k \in 1 .. Len(b.inputs) : oid # b.inputs[k]
    <2>1. oid \in DOMAIN next /\ next[oid] = state[oid]
      BY <1>2 DEF Applies
    <2> QED
      BY <1>1, <2>1
  <1>3. CASE \E k \in 1 .. Len(b.inputs) : oid = b.inputs[k]
    <2>1. PICK k \in 1 .. Len(b.inputs) : oid = b.inputs[k]
      BY <1>3
    <2>2. P \subseteq OutputID /\ DOMAIN state \subseteq P /\ GoodState(state, P) /\ GoodBuilder(b, P)
          /\ b.consumed[k] = state[oid]
      BY <2>1 DEF Applies
    <2>3. HasChainConstraint(b.consumed[k])
      BY <2>2, OldChain
    <2>4. PICK s \in 1 .. Len(b.outputs) : GoesOn(b, k, s)
      BY <2>2, <2>3 DEF GoodBuilder, Plain
    <2>5. PICK d \in Nat, ts \in Nat : Transition(P, b, k, s, d, ts)
      BY <2>2, <2>4, TransitionShape
    <2> DEFINE succ == NewOutputID(n, s - 1)
    <2>6. succ \in DOMAIN next /\ next[succ] = b.outputs[s]
      BY DEF Applies
    <2> HIDE DEF succ
    <2>7. id \in ChainIDsOf(succ, next[succ])
      <3>1. ChainAt(P, oid, state[oid], d)
        BY <2>1, <2>2, <2>5 DEF Transition
      <3>2. id = ChainIDOf(WithID(oid, state[oid]))
        BY <3>1, StandardChainID
      <3>3. b.outputs[s][d].type = "chain" /\ b.outputs[s][d].id = id /\ id # ZeroHash
        BY <2>1, <2>2, <2>5, <3>2 DEF Transition
      <3>4. d \in 1 .. Len(b.outputs[s])
        <4>1. d \in 4 .. Len(b.consumed[k])
          BY <2>5 DEF Transition, ChainAt
        <4>2. Len(b.outputs[s]) = Len(b.consumed[k])
          BY <2>5 DEF Transition, Succeeds
        <4>3. Len(b.outputs[s]) \in Nat
          BY <2>5, MaxByteAssumption DEF Transition, Standard
        <4> QED
          BY <4>1, <4>2, <4>3
      <3>5. b.outputs[s][d] \in {c \in BlocksOf(b.outputs[s]) : c.type = "chain"}
        BY <3>3, <3>4 DEF BlocksOf
      <3> QED
        BY <2>6, <3>3, <3>5 DEF ChainIDsOf
    <2>8. Substance(next[succ]) = Substance(state[oid])
      BY <2>2, <2>5, <2>6, SubstanceKept
    <2> QED
      BY <1>1, <2>6, <2>7, <2>8
  <1> QED
    BY <1>2, <1>3

-----------------------------------------------------------------------------
(***************************************************************************)
(* The invariant holds, and chains go on.                                  *)
(***************************************************************************)
LEMMA InitBuilderInv == InitBuilders => BuilderInv
  <1> SUFFICES ASSUME InitBuilders PROVE BuilderInv
    OBVIOUS
  <1>1. SupplyInv
    BY InitSupplyInv DEF InitBuilders, Init
  <1>2. DOMAIN utxo = {GenesisOutputID} /\ utxo[GenesisOutputID] = GenesisOutput
    BY DEF InitBuilders, InitLedgerState
  <1>3. GoodState(utxo, ProducedIDs)
    BY <1>2, GenesisStandard DEF GoodState
  <1>4. DOMAIN txb = Clients /\ \A c \in Clients : txb[c] = NewTransactionBuilder
    BY DEF InitBuilders
  <1> QED
    BY <1>1, <1>3, <1>4, NewBuilderGood DEF BuilderInv

\* What the invariant says about what is unspent.
LEMMA UnspentProduced ==
    ASSUME BuilderInv
    PROVE  /\ TypeOK /\ ProducedIDs \subseteq OutputID /\ DOMAIN utxo \subseteq ProducedIDs
           /\ \A oid \in DOMAIN utxo : utxo[oid] = History[oid] /\ Standard(utxo[oid], ProducedIDs)
  <1>1. TypeOK /\ UtxoExact
    BY DEF BuilderInv, SupplyInv, IInv
  <1>2. DOMAIN utxo \subseteq ProducedIDs /\ \A oid \in DOMAIN utxo : utxo[oid] = OutputOf(oid)
    BY <1>1 DEF UtxoExact
  <1>3. ProducedIDs \subseteq OutputID
    BY <1>1, ProducedTyped
  <1> QED
    BY <1>1, <1>2, <1>3 DEF BuilderInv, GoodState, History

\* A call on the builder of one client: b is the builder after it.
LEMMA CallKeepsInv ==
    ASSUME BuilderInv, UNCHANGED vars, NEW c \in Clients, NEW b, txb' = [txb EXCEPT ![c] = b],
           GoodBuilder(b, ProducedIDs), ConsumesProduced(b, History)
    PROVE  BuilderInv'
  <1>1. utxo' = utxo /\ txs' = txs
    BY DEF vars
  <1>2. ProducedIDs' = ProducedIDs /\ \A oid : OutputOf(oid)' = OutputOf(oid)
    BY <1>1 DEF ProducedIDs, TxNumbers, OutputOf
  <1>3. History' = History
    BY <1>2 DEF History
  <1>4. SupplyInv'
    BY NextSupplyInv DEF BuilderInv
  <1>5. GoodState(utxo', ProducedIDs')
    BY <1>1, <1>2 DEF BuilderInv
  <1>6. DOMAIN txb' = Clients
        /\ \A d \in Clients : GoodBuilder(txb'[d], ProducedIDs') /\ ConsumesProduced(txb'[d], History')
    BY <1>2, <1>3 DEF BuilderInv
  <1> QED
    BY <1>4, <1>5, <1>6 DEF BuilderInv

\* One more input that is what was produced under its ID.
LEMMA OneMoreConsumed ==
    ASSUME NEW b, NEW r, NEW history, NEW oid, Len(b.inputs) \in Nat, ConsumesProduced(b, history),
           Len(r.inputs) = Len(b.inputs) + 1,
           r.inputs[Len(b.inputs) + 1] = oid, r.consumed[Len(b.inputs) + 1] = history[oid],
           \A k \in 1 .. Len(b.inputs) : r.inputs[k] = b.inputs[k] /\ r.consumed[k] = b.consumed[k]
    PROVE  ConsumesProduced(r, history)
  <1> SUFFICES ASSUME NEW k \in 1 .. Len(r.inputs)
               PROVE  r.consumed[k] = history[r.inputs[k]]
    BY DEF ConsumesProduced
  <1>1. CASE k \in 1 .. Len(b.inputs)
    BY <1>1 DEF ConsumesProduced
  <1>2. CASE k \notin 1 .. Len(b.inputs)
    <2>1. k = Len(b.inputs) + 1
      BY <1>2
    <2> QED
      BY <2>1
  <1> QED
    BY <1>1, <1>2

LEMMA ConsumePlainInv ==
    ASSUME BuilderInv, NEW c \in Clients, NEW oid \in DOMAIN utxo, ConsumePlain(c, oid)
    PROVE  BuilderInv'
  <1> DEFINE P == ProducedIDs
             out == utxo[oid]
  <1>1. PICK b : b = txb[c]
    OBVIOUS
  <1>2. PICK r : r = PutSignatureUnlock(ConsumeOutput(b, WithID(oid, out)), NumInputs(b), ConstraintIndexLock)
    OBVIOUS
  <1>3. oid \in P /\ Standard(out, P) /\ out = History[oid]
    BY UnspentProduced
  <1>4. GoodBuilder(b, P) /\ ConsumesProduced(b, History)
    BY <1>1 DEF BuilderInv
  <1>5. Len(b.inputs) < MaxByte /\ Len(b.inputs) \in Nat
    <2>1. Len(b.inputs) < MaxSize[c] /\ MaxSize[c] \in 0 .. MaxByte
      BY <1>1, ClientsAssumption DEF ConsumePlain, NumInputs
    <2>2. Len(b.inputs) \in Nat
      BY <1>4, GoodSizes
    <2> QED
      BY <2>1, <2>2, MaxByteAssumption
  <1>6. ~HasChainConstraint(out) /\ UNCHANGED vars /\ txb' = [txb EXCEPT ![c] = r]
    BY <1>1, <1>2 DEF ConsumePlain
  <1> HIDE DEF P, out
  <1>7. /\ GoodBuilder(r, P)
        /\ Len(r.inputs) = Len(b.inputs) + 1
        /\ r.inputs[Len(b.inputs) + 1] = oid /\ r.consumed[Len(b.inputs) + 1] = out
        /\ \A k \in 1 .. Len(b.inputs) : r.inputs[k] = b.inputs[k] /\ r.consumed[k] = b.consumed[k]
    BY <1>2, <1>3, <1>4, <1>5, <1>6, ConsumePlainGood
  <1>8. ConsumesProduced(r, History)
    BY <1>3, <1>4, <1>5, <1>7, OneMoreConsumed
  <1> QED
    BY <1>6, <1>7, <1>8, CallKeepsInv DEF P

LEMMA ProduceInv ==
    ASSUME BuilderInv, NEW c \in Clients, NEW out, Produce(c, out)
    PROVE  BuilderInv'
  <1>1. PICK b : b = txb[c]
    OBVIOUS
  <1>2. PICK r : r = ProduceOutput(b, out)
    OBVIOUS
  <1>3. GoodBuilder(b, ProducedIDs) /\ ConsumesProduced(b, History)
    BY <1>1 DEF BuilderInv
  <1>4. Len(b.outputs) < MaxByte
    <2>1. Len(b.outputs) < MaxSize[c] /\ MaxSize[c] \in 0 .. MaxByte
      BY <1>1, ClientsAssumption DEF Produce
    <2>2. Len(b.outputs) \in Nat
      BY <1>3, GoodSizes
    <2> QED
      BY <2>1, <2>2, MaxByteAssumption
  <1>5. ClientOutput(out) /\ UNCHANGED vars /\ txb' = [txb EXCEPT ![c] = r]
    BY <1>1, <1>2 DEF Produce
  <1>6. GoodBuilder(r, ProducedIDs) /\ r.inputs = b.inputs /\ r.consumed = b.consumed
    BY <1>2, <1>3, <1>4, <1>5, ProduceGood
  <1>7. ConsumesProduced(r, History)
    BY <1>3, <1>6 DEF ConsumesProduced
  <1> QED
    BY <1>5, <1>6, <1>7, CallKeepsInv

LEMMA InsertTransitionInv ==
    ASSUME BuilderInv, NEW c \in Clients, NEW oid \in DOMAIN utxo, NEW ts, InsertTransition(c, oid, ts)
    PROVE  BuilderInv'
  <1> DEFINE P == ProducedIDs
             out == utxo[oid]
             o == WithID(oid, out)
  <1>1. PICK b : b = txb[c]
    OBVIOUS
  <1>2. PICK r : r = IF TransitionPanics(b, o, ts) THEN NewTransactionBuilder
                     ELSE InsertSimpleChainTransition(b, o, ts)
    OBVIOUS
  <1>3. P \subseteq OutputID /\ oid \in P /\ Standard(out, P) /\ out = History[oid]
    BY UnspentProduced
  <1>4. GoodBuilder(b, P) /\ ConsumesProduced(b, History)
    BY <1>1 DEF BuilderInv
  <1>5. Len(b.inputs) < MaxByte /\ Len(b.outputs) < MaxByte /\ Len(b.inputs) \in Nat
    <2>1. Len(b.inputs) < MaxSize[c] /\ Len(b.outputs) < MaxSize[c] /\ MaxSize[c] \in 0 .. MaxByte
      BY <1>1, ClientsAssumption DEF InsertTransition, NumInputs
    <2>2. Len(b.inputs) \in Nat /\ Len(b.outputs) \in Nat
      BY <1>4, GoodSizes
    <2> QED
      BY <2>1, <2>2, MaxByteAssumption
  <1>6. HasChainConstraint(out) /\ UNCHANGED vars /\ txb' = [txb EXCEPT ![c] = r] /\ ts \in Nat
    BY <1>1, <1>2 DEF InsertTransition, CanInsertTransition, WithID
  <1> HIDE DEF P, out
  <1>7. PICK d : ChainAt(P, oid, out, d)
    <2>1. \E d \in 4 .. Len(out) : out[d].type = "chain"
      BY <1>3, <1>6, ChainIndex DEF Standard
    <2> QED
      BY <1>3, <2>1 DEF ChainAt
  <1>8. GoodBuilder(r, P) /\ ConsumesProduced(r, History)
    <2>1. CASE TransitionPanics(b, o, ts)
      BY <1>2, <2>1, NewBuilderGood
    <2>2. CASE ~TransitionPanics(b, o, ts)
      <3>1. r = InsertSimpleChainTransition(b, WithID(oid, out), ts)
        BY <1>2, <2>2
      <3>2. /\ GoodBuilder(r, P)
            /\ Len(r.inputs) = Len(b.inputs) + 1
            /\ r.inputs[Len(b.inputs) + 1] = oid /\ r.consumed[Len(b.inputs) + 1] = out
            /\ \A k \in 1 .. Len(b.inputs) : r.inputs[k] = b.inputs[k] /\ r.consumed[k] = b.consumed[k]
        BY <1>4, <1>5, <1>6, <1>7, <2>2, <3>1, InsertTransitionGood
      <3>3. ConsumesProduced(r, History)
        BY <1>3, <1>4, <1>5, <3>2, OneMoreConsumed
      <3> QED
        BY <3>2, <3>3
    <2> QED
      BY <2>1, <2>2
  <1> QED
    BY <1>6, <1>8, CallKeepsInv DEF P

\* The transaction of a good builder leads from one good state to the next.
LEMMA SubmitApplies ==
    ASSUME BuilderInv, NEW b, GoodBuilder(b, ProducedIDs), ConsumesProduced(b, History),
           NEW ts, NEW tx, tx = SignED25519(b, Signer, ts), Update(tx), NEW n, n = Len(txs) + 1
    PROVE  Applies(utxo, ProducedIDs, b, n, utxo')
  <1>1. IInv /\ TypeOK /\ ProducedIDs \subseteq OutputID /\ DOMAIN utxo \subseteq ProducedIDs
    BY UnspentProduced DEF BuilderInv, SupplyInv
  <1>2. tx.inputs = b.inputs /\ tx.outputs = b.outputs
    BY DEF SignED25519
  <1>3. Accepted(tx) /\ utxo' = UpdateTrie(tx, n)
    BY <1>1, UpdateEffect
  <1>4. /\ \A k, l \in 1 .. Len(b.inputs) : b.inputs[k] = b.inputs[l] => k = l
        /\ \A k \in 1 .. Len(b.inputs) : b.inputs[k] \in DOMAIN utxo
        /\ Inputs(tx) = {b.inputs[k] : k \in 1 .. Len(b.inputs)}
    BY <1>2, <1>3 DEF Accepted, InputsFound, Inputs
  <1>5. \A k \in 1 .. Len(b.inputs) : b.consumed[k] = utxo[b.inputs[k]]
    BY <1>4, UnspentProduced DEF ConsumesProduced
  <1>6. \A s \in 1 .. Len(b.outputs) :
            NewOutputID(n, s - 1) \in OutputIDsOf(tx, n) /\ NewOutputID(n, s - 1).idx = s - 1
    BY <1>2 DEF OutputIDsOf, NewOutputID
  <1>7. \A oid \in OutputIDsOf(tx, n) : oid \notin ProducedIDs
    BY <1>1, UpdateProduced
  <1>8. OutputIDsOf(tx, n) = {NewOutputID(n, s - 1) : s \in 1 .. Len(b.outputs)}
    BY <1>2 DEF OutputIDsOf
  <1>9. DOMAIN utxo' = (DOMAIN utxo \ Inputs(tx)) \cup OutputIDsOf(tx, n)
    BY <1>3 DEF UpdateTrie
  <1>10. ASSUME NEW s \in 1 .. Len(b.outputs)
         PROVE  utxo'[NewOutputID(n, s - 1)] = b.outputs[s]
    <2>1. utxo'[NewOutputID(n, s - 1)] = At(tx.outputs, s - 1)
      BY <1>3, <1>6 DEF UpdateTrie
    <2>2. (s - 1) + 1 = s
      BY GoodSizes
    <2> QED
      BY <1>2, <2>1, <2>2 DEF At
  <1>11. \A x \in DOMAIN utxo \ Inputs(tx) : utxo'[x] = utxo[x]
    BY <1>1, <1>3, <1>7 DEF UpdateTrie
  <1>12. GoodState(utxo, ProducedIDs)
    BY DEF BuilderInv
  <1> QED
    BY <1>1, <1>4, <1>5, <1>6, <1>7, <1>8, <1>9, <1>10, <1>11, <1>12 DEF Applies

LEMMA SubmitInv ==
    ASSUME BuilderInv, NEW c \in Clients, NEW ts, Submit(c, ts)
    PROVE  BuilderInv'
  <1>1. txb' = [txb EXCEPT ![c] = NewTransactionBuilder] /\ Len(txs) < MaxTxs
    BY DEF Submit
  <1>2. PICK tx : tx = Finished(c, ts)
    OBVIOUS
  <1>3. CASE Accepted(tx)
    <2>1. Update(tx)
      BY <1>2, <1>3 DEF Submit
    <2>2. PICK n : n = Len(txs) + 1
      OBVIOUS
    <2>3. PICK b : b = txb[c]
      OBVIOUS
    <2>4. GoodBuilder(b, ProducedIDs) /\ ConsumesProduced(b, History) /\ tx = SignED25519(b, Signer, ts)
      BY <1>2, <2>3 DEF BuilderInv, Finished
    <2>5. Applies(utxo, ProducedIDs, b, n, utxo')
      BY <2>1, <2>2, <2>4, SubmitApplies
    <2>6. IInv /\ SupplyInv
      BY DEF BuilderInv, SupplyInv
    <2>7. SupplyInv'
      BY <1>1, <2>1, <2>6, UpdateSupplyInv
    <2>8. ProducedIDs \subseteq ProducedIDs' /\ \A oid \in ProducedIDs : History'[oid] = History[oid]
      BY <2>1, <2>2, <2>6, UpdateProduced DEF History
    <2>9. GoodState(utxo', ProducedIDs')
      BY <2>5, <2>8, StateStep
    <2>10. ASSUME NEW d \in Clients
           PROVE  GoodBuilder(txb'[d], ProducedIDs') /\ ConsumesProduced(txb'[d], History')
      <3>1. CASE d = c
        BY <1>1, <3>1, NewBuilderGood DEF BuilderInv
      <3>2. CASE d # c
        <4>1. txb'[d] = txb[d] /\ GoodBuilder(txb[d], ProducedIDs) /\ ConsumesProduced(txb[d], History)
          BY <1>1, <3>2 DEF BuilderInv
        <4>2. txb[d].inputs \in Seq(ProducedIDs) /\ Len(txb[d].inputs) \in Nat
          BY <4>1, GoodSizes
        <4>3. \A k \in 1 .. Len(txb[d].inputs) : txb[d].inputs[k] \in ProducedIDs
          BY <4>2
        <4>4. ConsumesProduced(txb[d], History')
          BY <2>8, <4>1, <4>3 DEF ConsumesProduced
        <4> QED
          BY <2>8, <4>1, <4>4, GoodGrows
      <3> QED
        BY <3>1, <3>2
    <2>11. DOMAIN txb' = Clients
      BY <1>1 DEF BuilderInv
    <2> QED
      BY <2>7, <2>9, <2>10, <2>11 DEF BuilderInv
  <1>4. CASE ~Accepted(tx)
    <2>1. UNCHANGED vars
      BY <1>2, <1>4 DEF Submit
    <2> QED
      BY <1>1, <2>1, NewBuilderGood, CallKeepsInv
  <1> QED
    BY <1>3, <1>4

LEMMA NextBuilderInv == BuilderInv /\ [BuilderNext]_builderVars => BuilderInv'
  <1> SUFFICES ASSUME BuilderInv, [BuilderNext]_builderVars PROVE BuilderInv'
    OBVIOUS
  <1>1. CASE UNCHANGED builderVars
    <2>1. utxo' = utxo /\ txs' = txs /\ txb' = txb /\ UNCHANGED vars
      BY <1>1 DEF builderVars, vars
    <2>2. ProducedIDs' = ProducedIDs /\ \A oid : OutputOf(oid)' = OutputOf(oid)
      BY <2>1 DEF ProducedIDs, TxNumbers, OutputOf
    <2>3. History' = History
      BY <2>2 DEF History
    <2>4. SupplyInv'
      BY <2>1, NextSupplyInv DEF BuilderInv
    <2> QED
      BY <2>1, <2>2, <2>3, <2>4 DEF BuilderInv
  <1>2. CASE BuilderNext
    <2>1. PICK c \in Clients :
              \/ \E oid \in DOMAIN utxo : ConsumePlain(c, oid)
              \/ \E out \in Products(Now(txs)) : Produce(c, out)
              \/ \E oid \in DOMAIN utxo : InsertTransition(c, oid, Now(txs))
              \/ \E ts \in FinishTimes(txs) : Submit(c, ts)
      BY <1>2 DEF BuilderNext
    <2>2. PICK now : now = Now(txs)
      OBVIOUS
    <2> QED
      BY <2>1, <2>2, ConsumePlainInv, ProduceInv, InsertTransitionInv, SubmitInv
  <1> QED
    BY <1>1, <1>2

\* Whatever the clients build, and whichever transactions the ledger takes or
\* refuses: builders are good and a chain has one state.
THEOREM BuildersStayGood == BuilderSpec => []BuilderInv
  BY InitBuilderInv, NextBuilderInv, PTL DEF BuilderSpec

\* InsertSimpleChainTransition: every chain goes on in one output, which
\* differs from its last state in timestamp and chain constraint only.
THEOREM ChainsGoOn == BuilderSpec => ChainsGoOnUnchanged
  <1>1. ASSUME BuilderInv, [BuilderNext]_builderVars,
               NEW oid \in DOMAIN utxo, NEW id \in ChainIDsOf(oid, utxo[oid])
        PROVE  \E succ \in DOMAIN utxo' :
                  /\ {x \in DOMAIN utxo' : id \in ChainIDsOf(x, utxo'[x])} = {succ}
                  /\ Substance(utxo'[succ]) = Substance(utxo[oid])
    <2>1. CASE utxo' = utxo
      <3>1. {x \in DOMAIN utxo' : id \in ChainIDsOf(x, utxo'[x])} = {oid}
        BY <2>1, <1>1 DEF BuilderInv, GoodState
      <3> QED
        BY <2>1, <3>1
    <2>2. CASE utxo' # utxo
      <3>1. PICK c \in Clients, ts \in FinishTimes(txs) : Submit(c, ts)
        BY <1>1, <2>2
        DEF BuilderNext, builderVars, vars, ConsumePlain, Produce, InsertTransition
      <3>2. PICK tx : tx = Finished(c, ts)
        OBVIOUS
      <3>3. Update(tx)
        BY <2>2, <3>1, <3>2 DEF Submit, vars
      <3>4. PICK n : n = Len(txs) + 1
        OBVIOUS
      <3>5. PICK b : b = txb[c]
        OBVIOUS
      <3>6. GoodBuilder(b, ProducedIDs) /\ ConsumesProduced(b, History) /\ tx = SignED25519(b, Signer, ts)
        BY <1>1, <3>2, <3>5 DEF BuilderInv, Finished
      <3>7. Applies(utxo, ProducedIDs, b, n, utxo')
        BY <1>1, <3>3, <3>4, <3>6, SubmitApplies
      <3> QED
        BY <1>1, <3>7, ChainStep
    <2> QED
      BY <2>1, <2>2
  <1>2. BuilderInv /\ [BuilderNext]_builderVars =>
            [\A oid \in DOMAIN utxo : \A id \in ChainIDsOf(oid, utxo[oid]) :
                \E succ \in DOMAIN utxo' :
                    /\ {x \in DOMAIN utxo' : id \in ChainIDsOf(x, utxo'[x])} = {succ}
                    /\ Substance(utxo'[succ]) = Substance(utxo[oid])]_builderVars
    BY <1>1
  <1> QED
    BY <1>2, BuildersStayGood, PTL DEF BuilderSpec, ChainsGoOnUnchanged

-----------------------------------------------------------------------------
(***************************************************************************)
(* What the caller did right is accepted: block by block.                  *)
(***************************************************************************)

\* A builder for which the caller did what is left to him, at least for the
\* time and the order of the calls.
Ready(P, b, ts) ==
    /\ P \subseteq OutputID /\ GoodBuilder(b, P)
    /\ ts \in Nat /\ Aligned(b)
    /\ \A k \in 1 .. Len(b.inputs) : TimestampOf(b.consumed[k]) < ts
    /\ \A s \in 1 .. Len(b.outputs) : TimestampOf(b.outputs[s]) = ts

\* The context in which the finished transaction is validated.
IsBuilt(ctx, b, ts) == ctx = Context(SignED25519(b, Signer, ts), b.consumed)

LEMMA BuiltFields ==
    ASSUME NEW ctx, NEW b, NEW ts, IsBuilt(ctx, b, ts)
    PROVE  /\ ctx.consumed = b.consumed /\ ctx.tx.inputs = b.inputs
           /\ ctx.tx.unlock = b.unlock /\ ctx.tx.outputs = b.outputs
           /\ ctx.tx.timestamp = ts /\ ctx.tx.signature = [key |-> Signer, valid |-> TRUE]
           /\ ctx.tx.inputCommitment = blake2b(b.consumed)
  BY DEF IsBuilt, Context, SignED25519

\* The unlock blocks of a transition.
LEMMA TransitionUnlocked ==
    ASSUME NEW P, NEW b, NEW k, NEW s, NEW d, NEW ts, Transition(P, b, k, s, d, ts), s \in Nat
    PROVE  /\ d \in 4 .. MaxByte /\ Len(b.unlock[k]) = d
           /\ Len(b.unlock[k][d]) = 3
           /\ b.unlock[k][d][1] = s - 1 /\ b.unlock[k][d][2] = d - 1 /\ b.unlock[k][d][3] = 0
           /\ Last(b.unlock[k])[1] = s - 1
  <1>1. b.unlock[k][d] = <<s - 1, d - 1, 0>> /\ Len(b.unlock[k]) = d
    BY DEF Transition
  <1>2. d \in 4 .. Len(b.consumed[k]) /\ Standard(b.consumed[k], P)
    BY DEF Transition, ChainAt
  <1>3. d \in 4 .. MaxByte
    BY <1>2, MaxByteAssumption DEF Standard
  <1> QED
    BY <1>1, <1>3 DEF Last

\* The lock of every input is opened with the signature.
LEMMA LockSigned ==
    ASSUME NEW P, NEW b, NEW ts, Ready(P, b, ts), NEW k \in 1 .. Len(b.inputs)
    PROVE  Len(b.unlock[k]) \in Nat /\ Len(b.unlock[k]) > 2 /\ b.unlock[k][3] = <<MaxByte>>
  <1>0. P \subseteq OutputID /\ GoodBuilder(b, P) /\ k \in Nat /\ Len(b.outputs) \in Nat
    BY GoodSizes DEF Ready
  <1>1. CASE Plain(b, k)
    <2>1. b.unlock[k] = [j \in 1 .. 3 |-> IF j = 3 THEN <<MaxByte>> ELSE <<>>]
      BY <1>1, LockUnlockShape DEF Plain
    <2> QED
      BY <2>1
  <1>2. CASE \E s \in 1 .. Len(b.outputs) : GoesOn(b, k, s)
    <2>1. PICK s \in 1 .. Len(b.outputs) : GoesOn(b, k, s)
      BY <1>2
    <2>2. PICK d \in Nat, time \in Nat : Transition(P, b, k, s, d, time)
      BY <1>0, <2>1, TransitionShape
    <2>3. d \in 4 .. MaxByte /\ Len(b.unlock[k]) = d /\ Last(b.unlock[k])[1] = s - 1
      BY <1>0, <2>2, TransitionUnlocked
    <2>4. k \in TransitionInputs(b)
      BY <2>3 DEF TransitionInputs, ConstraintIndexLock
    <2>5. s - 1 = k - 1
      BY <2>3, <2>4 DEF Ready, Aligned
    <2>6. s = k
      BY <1>0, <2>1, <2>5
    <2> QED
      BY <2>1, <2>3, <2>6 DEF GoesOn
  <1> QED
    BY <1>0, <1>1, <1>2 DEF GoodBuilder

\* The chain block of an input that goes on evaluates to true.
LEMMA ChainInputHolds ==
    ASSUME NEW P, NEW b, NEW ts, Ready(P, b, ts), NEW ctx, IsBuilt(ctx, b, ts),
           NEW k \in 1 .. Len(b.inputs), NEW s \in 1 .. Len(b.outputs), NEW d, NEW time,
           Transition(P, b, k, s, d, time)
    PROVE  EvalChain(ctx, Path("consumed", k - 1, d - 1), b.consumed[k][d])
  <1> DEFINE c == b.consumed[k][d]
             p == Path("consumed", k - 1, d - 1)
  <1>0. GoodBuilder(b, P)
    BY DEF Ready
  <1>1. /\ ctx.consumed = b.consumed /\ ctx.tx.unlock = b.unlock /\ ctx.tx.outputs = b.outputs
    BY BuiltFields
  <1>2. GoodBuilder(b, P) /\ k \in Nat /\ s \in Nat /\ k <= MaxByte /\ Len(b.outputs) \in Nat
        /\ Len(b.unlock) = Len(b.inputs) /\ Len(b.unlock) \in Nat
    BY <1>0, GoodSizes, MaxByteAssumption
  <1>3. /\ d \in 4 .. MaxByte /\ Len(b.unlock[k]) = d /\ Len(b.unlock[k][d]) = 3
        /\ b.unlock[k][d][1] = s - 1 /\ b.unlock[k][d][2] = d - 1
    BY <1>2, TransitionUnlocked
  <1>4. /\ ChainAt(P, b.inputs[k], b.consumed[k], d)
        /\ Standard(b.outputs[s], P) /\ Len(b.outputs[s]) = Len(b.consumed[k])
        /\ b.outputs[s][d] = NewChain(ChainIDOf(WithID(b.inputs[k], b.consumed[k])), k - 1, d - 1, 0)
    BY DEF Transition, Succeeds
  <1>5. d \in 1 .. Len(b.outputs[s]) /\ Len(b.outputs[s]) \in Nat
    BY <1>4 DEF ChainAt, Standard
  <1>6. HasBlock(b.outputs, s - 1, d - 1) /\ BlockAt(b.outputs, s - 1, d - 1) = b.outputs[s][d]
    BY <1>2, <1>5, BlockIndex
  <1>7. HasBlock(b.unlock, k - 1, d - 1) /\ BlockAt(b.unlock, k - 1, d - 1) = b.unlock[k][d]
    <2>1. k \in 1 .. Len(b.unlock) /\ Len(b.unlock[k]) \in Nat /\ d \in 1 .. Len(b.unlock[k])
      BY <1>2, <1>3
    <2> QED
      BY <1>2, <2>1, BlockIndex
  <1>8. p.side = "consumed" /\ p.out = k - 1 /\ p.blk = d - 1
    BY DEF Path
  <1>9. HasSelfUnlock(ctx, p) /\ SelfUnlock(ctx, p) = b.unlock[k][d]
    BY <1>1, <1>7, <1>8 DEF HasSelfUnlock, HasUnlockParams, SelfUnlock, UnlockParams
  <1>10. c.id = ZeroHash => c = NewChainOrigin
    BY <1>4, StandardChainID
  <1>11. c.id # ZeroHash => c.id = ChainIDOf(WithID(b.inputs[k], b.consumed[k]))
    BY <1>4, StandardChainID
  <1>12. At(b.unlock[k][d], 0) = s - 1 /\ At(b.unlock[k][d], 1) = d - 1
    BY <1>3 DEF At
  <1> HIDE DEF p, c
  <1>13. ValidSuccessor(ctx, p, c)
    BY <1>1, <1>3, <1>4, <1>6, <1>8, <1>9, <1>10, <1>11, <1>12 DEF ValidSuccessor, NewChain
  <1>14. k - 1 # MaxByte
    BY <1>2, MaxByteAssumption
  <1>15. EvalChain(ctx, p, c)
    BY <1>8, <1>9, <1>13, <1>14 DEF EvalChain
  <1> QED
    BY <1>15 DEF p, c

\* The chain block of the output in which an input goes on evaluates to true.
LEMMA ChainOutputHolds ==
    ASSUME NEW P, NEW b, NEW ts, Ready(P, b, ts), NEW ctx, IsBuilt(ctx, b, ts),
           NEW k \in 1 .. Len(b.inputs), NEW s \in 1 .. Len(b.outputs), NEW d, NEW time,
           Transition(P, b, k, s, d, time)
    PROVE  EvalChain(ctx, Path("produced", s - 1, d - 1), b.outputs[s][d])
  <1> DEFINE c == b.outputs[s][d]
             pred == b.consumed[k][d]
             p == Path("produced", s - 1, d - 1)
  <1>0. GoodBuilder(b, P)
    BY DEF Ready
  <1>1. /\ ctx.consumed = b.consumed /\ ctx.tx.unlock = b.unlock /\ ctx.tx.inputs = b.inputs
    BY BuiltFields
  <1>2. GoodBuilder(b, P) /\ k \in Nat /\ s \in Nat /\ s <= MaxByte
        /\ Len(b.unlock) = Len(b.inputs) /\ Len(b.unlock) \in Nat
        /\ Len(b.consumed) = Len(b.inputs) /\ Len(b.inputs) \in Nat
    BY <1>0, GoodSizes, MaxByteAssumption
  <1>3. /\ d \in 4 .. MaxByte /\ Len(b.unlock[k]) = d /\ Len(b.unlock[k][d]) = 3
        /\ b.unlock[k][d][3] = 0
    BY <1>2, TransitionUnlocked
  <1>4. /\ ChainAt(P, b.inputs[k], b.consumed[k], d)
        /\ c = NewChain(ChainIDOf(WithID(b.inputs[k], b.consumed[k])), k - 1, d - 1, 0)
    BY DEF Transition, Succeeds
  <1>5. d \in 1 .. Len(b.consumed[k]) /\ Len(b.consumed[k]) \in Nat /\ pred.type = "chain"
    BY <1>4 DEF ChainAt, Standard
  <1>6. HasBlock(b.consumed, k - 1, d - 1) /\ BlockAt(b.consumed, k - 1, d - 1) = pred
    <2>1. Len(b.consumed) \in Nat /\ k \in 1 .. Len(b.consumed)
      BY <1>2
    <2> QED
      BY <1>5, <2>1, BlockIndex
  <1>7. HasBlock(b.unlock, k - 1, d - 1) /\ BlockAt(b.unlock, k - 1, d - 1) = b.unlock[k][d]
    <2>1. k \in 1 .. Len(b.unlock) /\ Len(b.unlock[k]) \in Nat /\ d \in 1 .. Len(b.unlock[k])
      BY <1>2, <1>3
    <2> QED
      BY <1>2, <2>1, BlockIndex
  <1>8. p.side = "produced" /\ p.out = s - 1 /\ p.blk = d - 1
    BY DEF Path
  <1>9. /\ HasUnlockParams(ctx, k - 1, d - 1) /\ UnlockParams(ctx, k - 1, d - 1) = b.unlock[k][d]
        /\ At(b.unlock[k][d], 2) = 0
    BY <1>1, <1>3, <1>7 DEF HasUnlockParams, UnlockParams, At
  <1>10. At(b.inputs, k - 1) = b.inputs[k]
    BY <1>2, ByteIndex
  <1>11. /\ pred.id = ZeroHash => pred = NewChainOrigin /\ c.id = blake2b(b.inputs[k])
         /\ pred.id # ZeroHash => c.id = pred.id
         /\ c.id # ZeroHash
    BY <1>4, StandardChainID DEF NewChain
  <1>12. c.prevOut = k - 1 /\ c.prevBlk = d - 1 /\ c.mode = 0
    BY <1>4 DEF NewChain
  <1> HIDE DEF p, c, pred
  <1>13. ValidPredecessor(ctx, c)
    BY <1>1, <1>3, <1>5, <1>6, <1>9, <1>10, <1>11, <1>12 DEF ValidPredecessor
  <1>14. s - 1 # MaxByte
    BY <1>2, MaxByteAssumption
  <1>15. EvalChain(ctx, p, c)
    BY <1>8, <1>11, <1>13, <1>14 DEF EvalChain
  <1> QED
    BY <1>15 DEF p, c

\* The types of the blocks of a standard output, by position.
LEMMA StandardBlocks ==
    ASSUME NEW P, NEW out, Standard(out, P), NEW d \in 1 .. Len(out)
    PROVE  /\ d = 1 => out[d].type = "amount" /\ out[d].value >= Len(out)
           /\ d = 2 => out[d].type = "timestamp" /\ out[d].time = TimestampOf(out)
           /\ d = 3 => out[d].type = "addressED25519" /\ out[d].addr = Signer
           /\ d > 3 => \/ out[d].type = "data"
                       \/ out[d].type = "senderAddressED25519" /\ out[d].addr = Signer
                       \/ out[d].type = "chain"
           /\ d > 3 /\ out[d].type = "chain" => d \in 4 .. Len(out)
  <1>1. Len(out) \in Nat
    BY DEF Standard
  <1>2. TimestampOf(out) = out[2].time
    BY StandardShape
  <1>3. d > 3 => d \in 4 .. Len(out)
    BY <1>1
  <1>4. out[3].type = "addressED25519" /\ out[3].addr = Signer
    BY DEF Standard, Owner, NewAddressED25519
  <1>5. d > 3 => StandardBlock(out[d], P)
    BY <1>3 DEF Standard
  <1>6. d > 3 => \/ out[d].type = "data"
                 \/ out[d].type = "senderAddressED25519" /\ out[d].addr = Signer
                 \/ out[d].type = "chain"
    BY <1>5 DEF StandardBlock, NewSenderED25519
  <1> QED
    BY <1>2, <1>3, <1>4, <1>6 DEF Standard

\* Every block of what is consumed evaluates to true.
LEMMA ConsumedBlockHolds ==
    ASSUME NEW P, NEW b, NEW ts, Ready(P, b, ts), NEW ctx, IsBuilt(ctx, b, ts),
           NEW k \in 1 .. Len(b.inputs), NEW d \in 1 .. Len(b.consumed[k])
    PROVE  EvalConstraint(ctx, Path("consumed", k - 1, d - 1), b.consumed[k][d])
  <1> DEFINE out == b.consumed[k]
             c == out[d]
             p == Path("consumed", k - 1, d - 1)
  <1>0. P \subseteq OutputID /\ GoodBuilder(b, P) /\ TimestampOf(out) < ts
    BY DEF Ready
  <1>1. Standard(out, P) /\ Len(out) \in Nat
    BY <1>0 DEF GoodBuilder, Standard
  <1>2. p.side = "consumed" /\ p.out = k - 1 /\ p.blk = d - 1
    BY DEF Path
  <1>3. CASE d = 1
    <2>1. c.type = "amount"
      BY <1>1, <1>3, StandardBlocks
    <2>2. EvalAmount(ctx, p, c)
      BY <1>2, <1>3 DEF EvalAmount, ConstraintIndexAmount
    <2> QED
      BY <2>1, <2>2 DEF EvalConstraint
  <1>4. CASE d = 2
    <2>1. c.type = "timestamp" /\ c.time < ts
      BY <1>0, <1>1, <1>4, StandardBlocks
    <2>2. ctx.tx.timestamp = ts
      BY BuiltFields
    <2>3. EvalTimestamp(ctx, p, c)
      BY <1>2, <1>4, <2>1, <2>2 DEF EvalTimestamp, ConstraintIndexTimestamp
    <2> QED
      BY <2>1, <2>3 DEF EvalConstraint
  <1>5. CASE d = 3
    <2>1. c.type = "addressED25519" /\ c.addr = Signer
      BY <1>1, <1>5, StandardBlocks
    <2>2. ctx.tx.unlock = b.unlock /\ ctx.tx.signature = [key |-> Signer, valid |-> TRUE]
      BY BuiltFields
    <2>3. Len(b.unlock[k]) \in Nat /\ 3 \in 1 .. Len(b.unlock[k]) /\ b.unlock[k][3] = <<MaxByte>>
      <3>1. Len(b.unlock[k]) \in Nat /\ Len(b.unlock[k]) > 2 /\ b.unlock[k][3] = <<MaxByte>>
        BY LockSigned
      <3> QED
        BY <3>1
    <2>4. k \in 1 .. Len(b.unlock) /\ Len(b.unlock) \in Nat
      BY <1>0, GoodSizes
    <2>5. HasBlock(b.unlock, k - 1, d - 1) /\ BlockAt(b.unlock, k - 1, d - 1) = <<MaxByte>>
      BY <1>5, <2>3, <2>4, BlockIndex
    <2>6. HasSelfUnlock(ctx, p) /\ SelfUnlock(ctx, p) = <<MaxByte>>
      BY <1>2, <2>2, <2>5 DEF HasSelfUnlock, HasUnlockParams, SelfUnlock, UnlockParams
    <2>7. UnlockedWithSigED25519(ctx, Signer)
      BY <2>2 DEF UnlockedWithSigED25519
    <2>8. Len(SelfUnlock(ctx, p)) = 1
      BY <2>6
    <2>9. EvalAddressED25519(ctx, p, Signer)
      BY <1>2, <1>5, <2>6, <2>7, <2>8 DEF EvalAddressED25519, ConstraintIndexLock
    <2> QED
      BY <2>1, <2>9 DEF EvalConstraint
  <1>6. CASE d > 3 /\ c.type = "chain"
    <2>1. d \in 4 .. Len(out)
      BY <1>1, <1>6
    <2>2. HasChainConstraint(out)
      BY <1>1, <1>6, <2>1, ChainIndex DEF Standard
    <2>3. PICK s \in 1 .. Len(b.outputs) : GoesOn(b, k, s)
      BY <1>0, <2>2 DEF GoodBuilder, Plain
    <2>4. PICK e \in Nat, time \in Nat : Transition(P, b, k, s, e, time)
      BY <1>0, <2>3, TransitionShape
    <2>5. e \in 4 .. Len(out) /\ out[e].type = "chain"
      BY <2>4 DEF Transition, ChainAt
    <2>6. e = d
      BY <1>1, <1>6, <2>1, <2>5 DEF Standard
    <2>7. EvalChain(ctx, p, c)
      BY <2>4, <2>6, ChainInputHolds
    <2> QED
      BY <1>6, <2>7 DEF EvalConstraint
  <1>7. CASE d > 3 /\ c.type # "chain"
    <2>1. c.type = "data" \/ c.type = "senderAddressED25519"
      BY <1>1, <1>7, StandardBlocks
    <2>2. EvalSender(ctx, p, c)
      BY <1>2 DEF EvalSender
    <2> QED
      BY <2>1, <2>2 DEF EvalConstraint
  <1> QED
    BY <1>1, <1>3, <1>4, <1>5, <1>6, <1>7

\* Every block of what is produced evaluates to true.
LEMMA ProducedBlockHolds ==
    ASSUME NEW P, NEW b, NEW ts, Ready(P, b, ts), NEW ctx, IsBuilt(ctx, b, ts),
           NEW s \in 1 .. Len(b.outputs), NEW d \in 1 .. Len(b.outputs[s])
    PROVE  EvalConstraint(ctx, Path("produced", s - 1, d - 1), b.outputs[s][d])
  <1> DEFINE out == b.outputs[s]
             c == out[d]
             p == Path("produced", s - 1, d - 1)
  <1>0. P \subseteq OutputID /\ GoodBuilder(b, P) /\ TimestampOf(out) = ts
    BY DEF Ready
  <1>1. Standard(out, P) /\ Len(out) \in Nat
    <2>1. Standard(out, P)
      BY <1>0, OutputStandard
    <2> QED
      BY <2>1 DEF Standard
  <1>2. p.side = "produced" /\ p.out = s - 1 /\ p.blk = d - 1
    BY DEF Path
  <1>3. /\ ctx.tx.outputs = b.outputs /\ ctx.tx.timestamp = ts
        /\ ctx.tx.signature = [key |-> Signer, valid |-> TRUE]
    BY BuiltFields
  <1>4. Len(b.outputs) \in Nat /\ Len(b.outputs) <= MaxByte /\ s \in Nat
    BY <1>0, GoodSizes
  <1>5. CASE d = 1
    <2>1. c.type = "amount" /\ c.value >= Len(out)
      BY <1>1, <1>5, StandardBlocks
    <2>2. At(Outputs(ctx, "produced"), s - 1) = out
      BY <1>3, <1>4, ByteIndex DEF Outputs
    <2>3. EvalAmount(ctx, p, c)
      BY <1>2, <1>5, <2>1, <2>2
      DEF EvalAmount, ConstraintIndexAmount, StorageDepositEnough, OutputSize
    <2> QED
      BY <2>1, <2>3 DEF EvalConstraint
  <1>6. CASE d = 2
    <2>1. c.type = "timestamp" /\ c.time = ts
      BY <1>0, <1>1, <1>6, StandardBlocks
    <2>2. EvalTimestamp(ctx, p, c)
      BY <1>2, <1>3, <1>6, <2>1 DEF EvalTimestamp, ConstraintIndexTimestamp
    <2> QED
      BY <2>1, <2>2 DEF EvalConstraint
  <1>7. CASE d = 3
    <2>1. c.type = "addressED25519"
      BY <1>1, <1>7, StandardBlocks
    <2>2. EvalAddressED25519(ctx, p, c.addr)
      BY <1>2, <1>7 DEF EvalAddressED25519, ConstraintIndexLock
    <2> QED
      BY <2>1, <2>2 DEF EvalConstraint
  <1>8. CASE d > 3 /\ c.type = "chain"
    <2>1. d \in 4 .. Len(out)
      BY <1>1, <1>8
    <2>2. EvalChain(ctx, p, c)
      <3>1. CASE ClientOutput(out)
        <4>1. d - 1 \in 3 .. Len(out) - 1 /\ (d - 1) + 1 = d
          BY <1>1, <2>1
        <4>2. At(out, d - 1) = c
          BY <4>1 DEF At
        <4>3. c = NewChainOrigin
          BY <1>8, <3>1, <4>1, <4>2 DEF ClientOutput, ConstraintIndexLock, NewSenderED25519
        <4>4. s - 1 # MaxByte
          BY <1>4, MaxByteAssumption
        <4>5. NewChainOrigin.id = ZeroHash
          BY DEF NewChainOrigin, NewChain
        <4> QED
          BY <1>2, <4>3, <4>4, <4>5 DEF EvalChain
      <3>2. CASE \E k \in 1 .. Len(b.inputs) : GoesOn(b, k, s)
        <4>1. PICK k \in 1 .. Len(b.inputs) : GoesOn(b, k, s)
          BY <3>2
        <4>2. PICK e \in Nat, time \in Nat : Transition(P, b, k, s, e, time)
          BY <1>0, <4>1, TransitionShape
        <4>3. e \in 4 .. Len(out) /\ out[e].type = "chain"
          BY <4>2 DEF Transition, ChainAt, Succeeds
        <4>4. e = d
          BY <1>1, <1>8, <2>1, <4>3 DEF Standard
        <4> QED
          BY <4>2, <4>4, ChainOutputHolds
      <3> QED
        BY <1>0, <3>1, <3>2 DEF GoodBuilder
    <2> QED
      BY <1>8, <2>2 DEF EvalConstraint
  <1>9. CASE d > 3 /\ c.type # "chain"
    <2>1. c.type = "data" \/ (c.type = "senderAddressED25519" /\ c.addr = Signer)
      BY <1>1, <1>9, StandardBlocks
    <2>2. c.addr = Signer => EvalSender(ctx, p, c)
      BY <1>3 DEF EvalSender
    <2> QED
      BY <2>1, <2>2 DEF EvalConstraint
  <1> QED
    BY <1>1, <1>5, <1>6, <1>7, <1>8, <1>9

\* Both sides of the transaction validate, up to the sums.
LEMMA BuiltSides ==
    ASSUME NEW P, NEW b, NEW ts, Ready(P, b, ts), NEW ctx, IsBuilt(ctx, b, ts),
           NoOverflow(b.consumed), NoOverflow(b.outputs)
    PROVE  ValidateOutputs(ctx, "consumed") /\ ValidateOutputs(ctx, "produced")
  <1>0. P \subseteq OutputID /\ GoodBuilder(b, P)
    BY DEF Ready
  <1>1. Outputs(ctx, "consumed") = b.consumed /\ Outputs(ctx, "produced") = b.outputs
    BY BuiltFields DEF Outputs
  <1>2. /\ Len(b.consumed) = Len(b.inputs) /\ Len(b.inputs) \in Nat /\ Len(b.outputs) \in Nat
    BY <1>0, GoodSizes
  <1>3. ASSUME NEW i \in 0 .. Len(b.consumed) - 1
        PROVE  RunOutput(ctx, "consumed", i) /\ OutputParses(At(b.consumed, i))
    <2>1. PICK k \in 1 .. Len(b.inputs) : k - 1 = i /\ k = i + 1
      BY <1>2
    <2>2. At(b.consumed, i) = b.consumed[k] /\ Standard(b.consumed[k], P)
      BY <1>0, <1>2, <2>1 DEF At, GoodBuilder
    <2>3. \A d \in 1 .. Len(b.consumed[k]) :
              EvalConstraint(ctx, Path("consumed", k - 1, d - 1), b.consumed[k][d])
      BY ConsumedBlockHolds
    <2> QED
      BY <1>1, <2>1, <2>2, <2>3, StandardShape DEF RunOutput
  <1>4. ASSUME NEW i \in 0 .. Len(b.outputs) - 1
        PROVE  RunOutput(ctx, "produced", i) /\ OutputParses(At(b.outputs, i))
    <2>1. PICK s \in 1 .. Len(b.outputs) : s - 1 = i /\ s = i + 1
      BY <1>2
    <2>2. At(b.outputs, i) = b.outputs[s] /\ Standard(b.outputs[s], P)
      BY <1>0, <2>1, OutputStandard DEF At
    <2>3. \A d \in 1 .. Len(b.outputs[s]) :
              EvalConstraint(ctx, Path("produced", s - 1, d - 1), b.outputs[s][d])
      BY ProducedBlockHolds
    <2>4. \A d, e \in 1 .. Len(b.outputs[s]) : b.outputs[s][d] = b.outputs[s][e] => d = e
      BY <2>2 DEF Standard
    <2> QED
      BY <1>1, <2>1, <2>2, <2>3, <2>4, StandardShape DEF RunOutput
  <1> QED
    BY <1>1, <1>3, <1>4 DEF ValidateOutputs

-----------------------------------------------------------------------------
(***************************************************************************)
(* What the caller did right is accepted: the transaction.                 *)
(***************************************************************************)

\* The finished transaction has the shape of a transaction.
LEMMA BuiltTyped ==
    ASSUME NEW P, NEW b, P \subseteq OutputID, GoodBuilder(b, P), b.inputs # <<>>, NEW ts \in Nat
    PROVE  SignED25519(b, Signer, ts) \in Transaction
  <1> DEFINE tx == SignED25519(b, Signer, ts)
  <1>1. /\ tx.inputs = b.inputs /\ tx.unlock = b.unlock /\ tx.outputs = b.outputs
        /\ tx.signature = [key |-> Signer, valid |-> TRUE] /\ tx.timestamp = ts
        /\ tx.inputCommitment = <<b.consumed>>
        /\ tx = [inputs |-> tx.inputs, unlock |-> tx.unlock, outputs |-> tx.outputs,
                 signature |-> tx.signature, timestamp |-> tx.timestamp,
                 inputCommitment |-> tx.inputCommitment]
    BY DEF SignED25519, blake2b
  <1>2. /\ b.consumed \in Seq(Output) /\ b.inputs \in Seq(P) /\ b.unlock \in Seq(UnlockBlocks)
        /\ b.outputs \in Seq(Output)
        /\ Len(b.consumed) <= MaxByte + 1 /\ Len(b.inputs) <= MaxByte + 1
        /\ Len(b.unlock) <= MaxByte + 1 /\ Len(b.outputs) <= MaxByte + 1
    BY GoodSizes, MaxByteAssumption
  <1> HIDE DEF tx
  <1>3. b.inputs \in Seq(OutputID)
    BY <1>2
  <1>4. tx.inputs \in Array(OutputID) \ {<<>>}
    BY <1>1, <1>2, <1>3 DEF Array
  <1>5. tx.unlock \in Array(Array(Seq(Byte))) /\ tx.outputs \in Array(Output)
    BY <1>1, <1>2 DEF Array, UnlockBlocks
  <1>6. tx.signature \in [key : Addresses, valid : BOOLEAN]
    BY <1>1, ClientsAssumption, GenesisAssumption
  <1>7. tx.inputCommitment \in Seq(Array(Output))
    <2>1. b.consumed \in Array(Output)
      BY <1>2 DEF Array
    <2> QED
      BY <1>1, <2>1
  <1>8. tx \in Transaction
    BY <1>1, <1>4, <1>5, <1>6, <1>7 DEF Transaction
  <1> QED
    BY <1>8 DEF tx

\* The caller did what is left to him: the ledger accepts the transaction.
LEMMA GoodIsAccepted ==
    ASSUME BuilderInv, NEW b, GoodBuilder(b, ProducedIDs), ConsumesProduced(b, History),
           NEW ts, CallerDidRight(b, ts), Aligned(b)
    PROVE  Accepted(SignED25519(b, Signer, ts))
  <1>1. PICK tx : tx = SignED25519(b, Signer, ts)
    OBVIOUS
  <1>2. PICK P : P = ProducedIDs
    OBVIOUS
  <1>3. /\ ts \in Nat /\ b.inputs # <<>>
        /\ \A k, l \in 1 .. Len(b.inputs) : b.inputs[k] = b.inputs[l] => k = l
        /\ ToSet(b.inputs) \subseteq DOMAIN utxo
        /\ AmountsOf(b.consumed) = AmountsOf(b.outputs)
        /\ \A out \in ToSet(b.consumed) : TimestampOf(out) < ts
        /\ \A out \in ToSet(b.outputs) : TimestampOf(out) = ts
    BY DEF CallerDidRight
  <1>4. P \subseteq OutputID /\ \A oid \in DOMAIN utxo : utxo[oid] = History[oid]
    BY <1>2, UnspentProduced
  <1>5. GoodBuilder(b, P)
    BY <1>2
  <1>6. /\ b.consumed \in Seq(Output) /\ b.inputs \in Seq(P) /\ b.outputs \in Seq(Output)
        /\ Len(b.consumed) = Len(b.inputs) /\ Len(b.inputs) \in Nat /\ Len(b.outputs) \in Nat
    BY <1>5, GoodSizes
  <1>7. /\ DOMAIN b.consumed = 1 .. Len(b.inputs) /\ DOMAIN b.inputs = 1 .. Len(b.inputs)
        /\ DOMAIN b.outputs = 1 .. Len(b.outputs)
    BY <1>6
  <1>8. /\ \A k \in 1 .. Len(b.inputs) : b.inputs[k] \in DOMAIN utxo
        /\ \A k \in 1 .. Len(b.inputs) : TimestampOf(b.consumed[k]) < ts
        /\ \A s \in 1 .. Len(b.outputs) : TimestampOf(b.outputs[s]) = ts
    BY <1>3, <1>7 DEF ToSet
  <1>9. Ready(P, b, ts)
    BY <1>3, <1>4, <1>5, <1>8 DEF Ready
  <1>10. \A k \in 1 .. Len(b.inputs) : b.consumed[k] = utxo[b.inputs[k]]
    BY <1>4, <1>8 DEF ConsumesProduced
  <1>11. tx \in Transaction
    BY <1>1, <1>3, <1>4, <1>5, BuiltTyped
  <1>12. tx.inputs = b.inputs
    BY <1>1 DEF SignED25519
  <1>13. InputsFound(tx)
    BY <1>3, <1>8, <1>12 DEF InputsFound, Inputs
  <1>14. ConsumedOutputs(tx) = b.consumed
    <2>1. ConsumedOutputs(tx) = [k \in 1 .. Len(b.inputs) |-> utxo[b.inputs[k]]]
      BY <1>12 DEF ConsumedOutputs
    <2>2. b.consumed = [k \in 1 .. Len(b.inputs) |-> b.consumed[k]]
      <3>1. b.consumed = [k \in 1 .. Len(b.consumed) |-> b.consumed[k]]
        BY <1>6, SeqIsFunction
      <3> QED
        BY <1>6, <3>1
    <2> QED
      BY <1>10, <2>1, <2>2
  <1>15. PICK ctx : ctx = Context(tx, ConsumedOutputs(tx))
    OBVIOUS
  <1>16. IsBuilt(ctx, b, ts)
    BY <1>1, <1>14, <1>15 DEF IsBuilt
  <1>17. AmountsOf(b.consumed) <= MaxUint64
    <2>1. AmountsOf(b.consumed) <= Supply
      <3>1. Balanced(utxo)
        BY DEF BuilderInv, SupplyInv
      <3> QED
        <4>1. PICK outs : outs = b.consumed
          OBVIOUS
        <4>2. PICK e : e = b.inputs
          OBVIOUS
        <4>3. PICK state : state = utxo
          OBVIOUS
        <4>4. /\ Balanced(state) /\ Len(outs) \in Nat /\ DOMAIN outs = 1 .. Len(outs)
              /\ \A k, l \in 1 .. Len(outs) : e[k] = e[l] => k = l
              /\ \A k \in 1 .. Len(outs) : e[k] \in DOMAIN state /\ outs[k] = state[e[k]]
          BY <1>3, <1>6, <1>7, <1>8, <1>10, <3>1, <4>1, <4>2, <4>3
        <4>5. AmountsOf(outs) <= Supply
          BY <4>4, ConsumedFits
        <4> QED
          BY <4>1, <4>5
    <2>2. Supply \in 0 .. MaxUint64
      BY GenesisAssumption DEF Amount
    <2>3. AmountsOf(b.consumed) \in Int
      <3>1. \A k \in 1 .. Len(b.consumed) : AmountOf(b.consumed[k]) \in Nat
        BY <1>5, <1>6, StandardShape DEF GoodBuilder, Amount
      <3>2. PICK f : RunningTotals(f, b.consumed, Len(b.consumed))
        BY <1>6, <1>7, <3>1, TotalsExist
      <3> QED
        BY <3>2, <1>6 DEF RunningTotals
    <2> QED
      BY <2>1, <2>2, <2>3, MaxUint64Assumption
  <1>18. NoOverflow(b.consumed) /\ OutputSum(b.consumed) = AmountsOf(b.consumed)
    <2>1. \A k \in 1 .. Len(b.consumed) : AmountOf(b.consumed[k]) \in Nat
      BY <1>5, <1>6, StandardShape DEF GoodBuilder, Amount
    <2> QED
      BY <1>6, <1>7, <1>17, <2>1, TotalsFit
  <1>19. NoOverflow(b.outputs) /\ OutputSum(b.outputs) = AmountsOf(b.outputs)
    <2>1. \A s \in 1 .. Len(b.outputs) : AmountOf(b.outputs[s]) \in Nat
      <3>1. \A s \in 1 .. Len(b.outputs) : Standard(b.outputs[s], P)
        BY <1>4, <1>5, OutputStandard
      <3> QED
        BY <3>1, StandardShape DEF Amount
    <2> QED
      BY <1>3, <1>6, <1>7, <1>17, <2>1, TotalsFit
  <1>20. ValidateOutputs(ctx, "consumed") /\ ValidateOutputs(ctx, "produced")
    BY <1>9, <1>16, <1>18, <1>19, BuiltSides
  <1>21. /\ ctx.consumed = b.consumed /\ ctx.tx.outputs = b.outputs
         /\ ctx.tx.inputCommitment = blake2b(b.consumed)
    BY <1>16, BuiltFields
  <1>22. Validate(ctx)
    BY <1>3, <1>18, <1>19, <1>20, <1>21 DEF Validate, ValidateInputCommitment
  <1>23. Accepted(tx)
    BY <1>11, <1>13, <1>15, <1>22 DEF Accepted
  <1> QED
    BY <1>1, <1>23

\* Finish: whatever the clients put together call by call, in any order and
\* next to other clients, is accepted if the caller did what is left to him.
THEOREM BuildersAreAccepted == BuilderSpec => []BuiltIsAccepted
  <1>1. BuilderInv => BuiltIsAccepted
    <2> SUFFICES ASSUME BuilderInv, NEW c \in Clients, NEW ts \in FinishTimes(txs),
                        CallerDidRight(txb[c], ts), Aligned(txb[c])
                 PROVE  Accepted(Finished(c, ts))
      BY DEF BuiltIsAccepted
    <2>1. PICK b : b = txb[c]
      OBVIOUS
    <2>2. GoodBuilder(b, ProducedIDs) /\ ConsumesProduced(b, History)
      BY <2>1 DEF BuilderInv
    <2>3. Accepted(SignED25519(b, Signer, ts))
      BY <2>1, <2>2, GoodIsAccepted
    <2> QED
      BY <2>1, <2>3 DEF Finished
  <1> QED
    BY <1>1, BuildersStayGood, PTL
=============================================================================
