---------------------------- MODULE Constraints ----------------------------
(***************************************************************************)
(* The constraint library of EasyUTXO: every block of an output is a       *)
(* predicate that is evaluated twice, once in the transaction that         *)
(* produces the output and once in the transaction that consumes it.       *)
(*                                                                         *)
(* A block is a record whose "type" is the name of the EasyFL function its *)
(* bytecode calls.  An output is the sequence of its blocks; indices are   *)
(* the byte indices of the source, counted from 0 (see At).  Unlock        *)
(* parameters are sequences of bytes.                                      *)
(*                                                                         *)
(* EasyFL panics (a missing element, a wrong length, the prefix of another *)
(* constraint) are caught by checkConstraint and reject the transaction.   *)
(* Every operator below is therefore FALSE where the code panics.          *)
(***************************************************************************)
EXTENDS Integers, Sequences

CONSTANTS
    Addresses,   \* ED25519 addresses: hashes of public keys
    Data,        \* contents of plain data blocks: records with "elements"
    MaxByte,     \* the largest index of a lazy array, 0xff in the code
    MaxUint64    \* the largest token amount

ASSUME MaxByteAssumption == MaxByte \in Nat /\ MaxByte > 2

ASSUME MaxUint64Assumption == MaxUint64 \in Nat \ {0}

Byte == 0 .. MaxByte

Amount == 0 .. MaxUint64

(***************************************************************************)
(* blake2b is collision free and never returns the all-0 hash.             *)
(***************************************************************************)
blake2b(x) == <<x>>

ZeroHash == <<>>

(***************************************************************************)
(* Elements of lazy arrays, indexed from 0.                                *)
(***************************************************************************)
Has(arr, i) == i \in 0 .. Len(arr) - 1

At(arr, i) == arr[i + 1]

(***************************************************************************)
(* Mandatory blocks of an output.                                          *)
(***************************************************************************)
ConstraintIndexAmount == 0
ConstraintIndexTimestamp == 1
ConstraintIndexLock == 2

-----------------------------------------------------------------------------
(***************************************************************************)
(* Blocks.                                                                 *)
(***************************************************************************)
OutputID == [tx : Nat, idx : Byte]

ChainID == {id \in Seq(OutputID) : Len(id) <= 1}   \* ZeroHash or blake2b(oid)

NewAmount(a) == [type |-> "amount", value |-> a]
NewTimestamp(ts) == [type |-> "timestamp", time |-> ts]
NewAddressED25519(a) == [type |-> "addressED25519", addr |-> a]
NewChainLock(id) == [type |-> "chainLock", id |-> id]
NewDeadlineLock(ts, main, expiry) ==
    [type |-> "deadlineLock", deadline |-> ts, main |-> main, expiry |-> expiry]
NewChain(id, prevOut, prevBlk, mode) ==
    [type |-> "chain", id |-> id, prevOut |-> prevOut, prevBlk |-> prevBlk,
     mode |-> mode]
NewTimelock(ts) == [type |-> "timelock", time |-> ts]
NewSenderED25519(a) == [type |-> "senderAddressED25519", addr |-> a]
NewRoyalties(a, amount) ==
    [type |-> "royaltiesED25519", addr |-> a, value |-> amount]
NewImmutable(chainBlk, dataBlk) ==
    [type |-> "immutable", chainBlk |-> chainBlk, dataBlk |-> dataBlk]
NewCommitToSibling(idx, hash) ==
    [type |-> "commitToSibling", idx |-> idx, hash |-> hash]
NewData(d) == [type |-> "data", data |-> d]

(***************************************************************************)
(* The bytes of a data block may happen to be a lazy array: d.elements are *)
(* its elements, each the block it would be in an output, or <<>> if the   *)
(* bytes are no array.  A block that calls a constraint is never read as   *)
(* an array: the prefix of its bytecode stands for more than 1000          *)
(* elements, and the block is shorter than that.                           *)
(***************************************************************************)
IsData(c) == c.type = "data"

\* The array read from the data d, and then from the data along the path in it.
ArrayAt(d, path) ==
    LET arr[n \in 0 .. Len(path)] ==
            IF n = 0 THEN d.elements
            ELSE IF Has(arr[n - 1], path[n]) /\ IsData(At(arr[n - 1], path[n]))
                 THEN At(arr[n - 1], path[n]).data.elements
                 ELSE <<>>
    IN  arr[Len(path)]

(***************************************************************************)
(* The constraint data of every chain origin: the zero identifier and      *)
(* 0xffffff.                                                               *)
(***************************************************************************)
NewChainOrigin == NewChain(ZeroHash, MaxByte, MaxByte, MaxByte)

IsOrigin(c) == c = NewChainOrigin

DestroyUnlockParams == <<MaxByte, MaxByte, MaxByte>>

(***************************************************************************)
(* What LockFromBytes accepts at the lock block.  The two locks inside a   *)
(* deadline lock can only be ED25519 addresses (AccountableFromBytes).     *)
(***************************************************************************)
LockNames == {"addressED25519", "deadlineLock", "chainLock"}

IsLock(c) == c.type \in LockNames

(***************************************************************************)
(* The accounts under which the indexer lists an output with this lock.    *)
(* An account identifier is the bytecode of an address or chain lock.      *)
(***************************************************************************)
IndexableTags(lock) ==
    CASE lock.type = "deadlineLock" ->
             {NewAddressED25519(lock.main), NewAddressED25519(lock.expiry)}
      [] OTHER -> {lock}

-----------------------------------------------------------------------------
(***************************************************************************)
(* The validation context: the transaction and the outputs it consumes.    *)
(* A path names a block: the side (branch of the tree), the index of the   *)
(* output and the index of the block.                                      *)
(***************************************************************************)
Context(tx, consumed) == [tx |-> tx, consumed |-> consumed]

Path(side, out, blk) == [side |-> side, out |-> out, blk |-> blk]

Outputs(ctx, side) == IF side = "consumed" THEN ctx.consumed ELSE ctx.tx.outputs

HasBlock(outs, o, b) == Has(outs, o) /\ Has(At(outs, o), b)

BlockAt(outs, o, b) == At(At(outs, o), b)

\* The block at the path of the invocation.
Self(ctx, p) == BlockAt(Outputs(ctx, p.side), p.out, p.blk)

\* Unlock parameters of block b of the consumed output o.
HasUnlockParams(ctx, o, b) == HasBlock(ctx.tx.unlock, o, b)

UnlockParams(ctx, o, b) == BlockAt(ctx.tx.unlock, o, b)

HasSelfUnlock(ctx, p) == HasUnlockParams(ctx, p.out, p.blk)

SelfUnlock(ctx, p) == UnlockParams(ctx, p.out, p.blk)

OutputSize(out) == Len(out)   \* bytes of an output, one per block

-----------------------------------------------------------------------------
(***************************************************************************)
(* amount, timestamp, timelock, senderAddressED25519                       *)
(***************************************************************************)
StorageDepositEnough(ctx, p, c) ==
    c.value >= OutputSize(At(Outputs(ctx, p.side), p.out))

EvalAmount(ctx, p, c) ==
    /\ p.blk = ConstraintIndexAmount
    /\ p.side = "consumed" \/ StorageDepositEnough(ctx, p, c)

\* Mutant: lessOrEqualThan instead of lessThan on the consumed side.
TimestampNotStrict(ctx, p, c) ==
    /\ p.blk = ConstraintIndexTimestamp
    /\ \/ p.side = "produced" /\ c.time = ctx.tx.timestamp
       \/ p.side = "consumed" /\ c.time <= ctx.tx.timestamp

EvalTimestamp(ctx, p, c) ==
    /\ p.blk = ConstraintIndexTimestamp
    /\ \/ p.side = "produced" /\ c.time = ctx.tx.timestamp
       \/ p.side = "consumed" /\ c.time < ctx.tx.timestamp

\* Mutant: the time lock opens one tick early.
TimelockNotStrict(ctx, p, c) ==
    \/ p.side = "produced" /\ ctx.tx.timestamp < c.time
    \/ p.side = "consumed" /\ c.time <= ctx.tx.timestamp

EvalTimelock(ctx, p, c) ==
    \/ p.side = "produced" /\ ctx.tx.timestamp < c.time
    \/ p.side = "consumed" /\ c.time < ctx.tx.timestamp

\* Mutant: the sender is compared when the output is consumed.
SenderOnWrongSide(ctx, p, c) ==
    p.side = "produced" \/ c.addr = ctx.tx.signature.key

\* The public key is read from the signature, which is not verified here.
EvalSender(ctx, p, c) ==
    p.side = "consumed" \/ c.addr = ctx.tx.signature.key

-----------------------------------------------------------------------------
(***************************************************************************)
(* Locks                                                                   *)
(***************************************************************************)

\* The signature is valid for the essence of the transaction and its public
\* key hashes to the address.
UnlockedWithSigED25519(ctx, addr) ==
    /\ addr = ctx.tx.signature.key
    /\ ctx.tx.signature.valid

\* Mutant: an output may refer to itself.
ReferenceToSelf(ctx, p) ==
    LET ref == At(SelfUnlock(ctx, p), 0)
    IN  /\ ref <= p.out
        /\ HasBlock(ctx.consumed, ref, ConstraintIndexLock)
        /\ BlockAt(ctx.consumed, ref, ConstraintIndexLock) = Self(ctx, p)

\* The unlock parameter is the index of a consumed output, strictly smaller
\* than the own one, with exactly the same lock.
UnlockedByReference(ctx, p) ==
    LET ref == At(SelfUnlock(ctx, p), 0)
    IN  /\ ref < p.out
        /\ HasBlock(ctx.consumed, ref, ConstraintIndexLock)
        /\ BlockAt(ctx.consumed, ref, ConstraintIndexLock) = Self(ctx, p)

\* lessThan panics unless the unlock parameter has one byte, like the index.
EvalAddressED25519(ctx, p, addr) ==
    /\ p.blk = ConstraintIndexLock
    /\ \/ p.side = "produced"
       \/ /\ p.side = "consumed"
          /\ HasSelfUnlock(ctx, p) /\ Len(SelfUnlock(ctx, p)) = 1
          /\ \/ UnlockedByReference(ctx, p)
             \/ UnlockedWithSigED25519(ctx, addr)

EvalDeadlineLock(ctx, p, c) ==
    /\ p.blk = ConstraintIndexLock
    /\ IF c.deadline < ctx.tx.timestamp
       THEN EvalAddressED25519(ctx, p, c.main)
       ELSE EvalAddressED25519(ctx, p, c.expiry)

\* The identifier of the chain at block b of the consumed output o: an origin
\* has no identifier yet, it is the hash of the output's own ID.
ConsumedChainID(ctx, o, b) ==
    LET c == BlockAt(ctx.consumed, o, b)
    IN  IF c.id = ZeroHash THEN blake2b(At(ctx.tx.inputs, o)) ELSE c.id

\* Mutant: a chain that is being destroyed still opens its locks.
ChainUnlockAnyMode(ctx, u, id) ==
    LET o == At(u, 0)
        b == At(u, 1)
    IN  /\ HasBlock(ctx.consumed, o, b)
        /\ BlockAt(ctx.consumed, o, b).type = "chain"
        /\ id = ConsumedChainID(ctx, o, b)

\* The referenced constraint is a consumed chain with the identifier of the
\* lock, and that chain makes a state transition (mode 0).
ValidChainUnlock(ctx, u, id) ==
    LET o == At(u, 0)
        b == At(u, 1)
    IN  /\ HasBlock(ctx.consumed, o, b)
        /\ BlockAt(ctx.consumed, o, b).type = "chain"
        /\ id = ConsumedChainID(ctx, o, b)
        /\ HasUnlockParams(ctx, o, b) /\ Len(UnlockParams(ctx, o, b)) > 2
        /\ At(UnlockParams(ctx, o, b), 2) = 0

EvalChainLock(ctx, p, c) ==
    /\ p.blk = ConstraintIndexLock
    /\ \/ p.side = "produced"
       \/ /\ p.side = "consumed"
          /\ HasSelfUnlock(ctx, p) /\ Len(SelfUnlock(ctx, p)) > 1
          /\ At(SelfUnlock(ctx, p), 0) # p.out
          /\ ValidChainUnlock(ctx, SelfUnlock(ctx, p), c.id)

-----------------------------------------------------------------------------
(***************************************************************************)
(* chain                                                                   *)
(***************************************************************************)

\* Mutant: the first identifier of a chain is not compared with its origin.
PredecessorAnyID(ctx, c) ==
    /\ HasBlock(ctx.consumed, c.prevOut, c.prevBlk)
    /\ LET pred == BlockAt(ctx.consumed, c.prevOut, c.prevBlk)
       IN  /\ pred.type = "chain"
           /\ pred = NewChainOrigin \/ c.id = pred.id
    /\ HasUnlockParams(ctx, c.prevOut, c.prevBlk)
    /\ Len(UnlockParams(ctx, c.prevOut, c.prevBlk)) > 2
    /\ c.mode = At(UnlockParams(ctx, c.prevOut, c.prevBlk), 2)

\* Produced side: the constraint points to its predecessor among the consumed
\* constraints, has its identifier and the mode of its unlock parameters.
ValidPredecessor(ctx, c) ==
    /\ HasBlock(ctx.consumed, c.prevOut, c.prevBlk)
    /\ LET pred == BlockAt(ctx.consumed, c.prevOut, c.prevBlk)
       IN  /\ pred.type = "chain"
           /\ IF pred.id = ZeroHash
              THEN /\ pred = NewChainOrigin
                   /\ c.id = blake2b(At(ctx.tx.inputs, c.prevOut))
              ELSE c.id = pred.id
    /\ HasUnlockParams(ctx, c.prevOut, c.prevBlk)
    /\ Len(UnlockParams(ctx, c.prevOut, c.prevBlk)) > 2
    /\ c.mode = At(UnlockParams(ctx, c.prevOut, c.prevBlk), 2)

\* Consumed side: the unlock parameters point to the successor, which points
\* back and has the same identifier.
ValidSuccessor(ctx, p, c) ==
    /\ Len(SelfUnlock(ctx, p)) > 1
    /\ LET o == At(SelfUnlock(ctx, p), 0)
           b == At(SelfUnlock(ctx, p), 1)
       IN  /\ HasBlock(ctx.tx.outputs, o, b)
           /\ LET succ == BlockAt(ctx.tx.outputs, o, b)
              IN  /\ succ.type = "chain"
                  /\ IF c.id = ZeroHash THEN c = NewChainOrigin ELSE succ.id = c.id
                  /\ succ.prevOut = p.out /\ succ.prevBlk = p.blk

EvalChain(ctx, p, c) ==
    /\ p.out # MaxByte
    /\ \/ /\ p.side = "produced"
          /\ IF c.id = ZeroHash THEN c = NewChainOrigin ELSE ValidPredecessor(ctx, c)
       \/ /\ p.side = "consumed"
          /\ HasSelfUnlock(ctx, p)
          /\ \/ SelfUnlock(ctx, p) = DestroyUnlockParams
             \/ ValidSuccessor(ctx, p, c)

-----------------------------------------------------------------------------
(***************************************************************************)
(* royaltiesED25519, commitToSibling, immutable                            *)
(***************************************************************************)

\* Mutant: any amount is enough.
PaysAnyAmount(arr, c) ==
    /\ Has(arr, ConstraintIndexLock)
    /\ At(arr, ConstraintIndexLock) = NewAddressED25519(c.addr)

\* What reads as an array has the lock of the beneficiary where an output has
\* its lock, and at least the amount where an output has its amount.
PaysRoyalties(arr, c) ==
    /\ Has(arr, ConstraintIndexLock)
    /\ At(arr, ConstraintIndexLock) = NewAddressED25519(c.addr)
    /\ At(arr, ConstraintIndexAmount).type = "amount"
    /\ c.value <= At(arr, ConstraintIndexAmount).value

\* The path leads into a data block of an output.
IntoData(outs, path) ==
    /\ Len(path) > 1
    /\ HasBlock(outs, At(path, 0), At(path, 1))
    /\ IsData(BlockAt(outs, At(path, 0), At(path, 1)))

\* producedOutputByIndex appends the unlock parameters to the path of the
\* produced outputs, however long they are.  Without any, the array of all
\* outputs would have an output where the lock should be.
EvalRoyalties(ctx, p, c) ==
    \/ p.side = "produced"
    \/ /\ p.side = "consumed"
       /\ HasSelfUnlock(ctx, p)
       /\ LET outs == ctx.tx.outputs
              path == SelfUnlock(ctx, p)
          IN  \/ /\ Len(path) = 1 /\ Has(outs, At(path, 0))
                 /\ PaysRoyalties(At(outs, At(path, 0)), c)
              \/ /\ IntoData(outs, path)
                 /\ PaysRoyalties(ArrayAt(BlockAt(outs, At(path, 0), At(path, 1)).data,
                                          SubSeq(path, 3, Len(path))), c)

\* Mutant: the sibling only has to exist.
SiblingUnhashed(ctx, p, c) ==
    \/ p.side = "consumed" /\ c.idx # p.out
    \/ p.side = "produced" /\ Has(ctx.tx.outputs, c.idx)

EvalCommitToSibling(ctx, p, c) ==
    \/ p.side = "consumed" /\ c.idx # p.out
    \/ /\ p.side = "produced"
       /\ Has(ctx.tx.outputs, c.idx)
       /\ c.hash = blake2b(At(ctx.tx.outputs, c.idx))

\* Mutant: the constraint is repeated, the data is not compared.
ImmutableDataDropped(ctx, p, c) ==
    LET chainUnlock == UnlockParams(ctx, p.out, c.chainBlk)
        o == At(chainUnlock, 0)
        d == At(SelfUnlock(ctx, p), 0)
        i == At(SelfUnlock(ctx, p), 1)
    IN  /\ HasBlock(ctx.tx.outputs, o, d) /\ HasBlock(ctx.tx.outputs, o, i)
        /\ BlockAt(ctx.tx.outputs, o, i) = NewImmutable(At(chainUnlock, 1), d)

\* Consumed side: the successor of the sibling chain repeats the data block
\* and the immutable constraint, at the indices in the unlock parameters.
ImmutableRepeated(ctx, p, c) ==
    LET chainUnlock == UnlockParams(ctx, p.out, c.chainBlk)
        o == At(chainUnlock, 0)
        d == At(SelfUnlock(ctx, p), 0)
        i == At(SelfUnlock(ctx, p), 1)
    IN  /\ HasBlock(ctx.tx.outputs, o, d) /\ HasBlock(ctx.tx.outputs, o, i)
        /\ BlockAt(ctx.tx.outputs, o, d) = BlockAt(ctx.consumed, p.out, c.dataBlk)
        /\ BlockAt(ctx.tx.outputs, o, i) = NewImmutable(At(chainUnlock, 1), d)

EvalImmutable(ctx, p, c) ==
    \/ /\ p.side = "produced"
       /\ HasBlock(ctx.tx.outputs, p.out, c.chainBlk)
       /\ BlockAt(ctx.tx.outputs, p.out, c.chainBlk).type = "chain"
       /\ HasBlock(ctx.tx.outputs, p.out, c.dataBlk)
    \/ /\ p.side = "consumed"
       /\ HasBlock(ctx.consumed, p.out, c.dataBlk)
       /\ HasUnlockParams(ctx, p.out, c.chainBlk)
       /\ Len(UnlockParams(ctx, p.out, c.chainBlk)) > 1
       /\ HasSelfUnlock(ctx, p) /\ Len(SelfUnlock(ctx, p)) > 1
       /\ ImmutableRepeated(ctx, p, c)

-----------------------------------------------------------------------------
(***************************************************************************)
(* The dispatch on the function called by the block.  A plain data block   *)
(* evaluates to itself, which is not empty.                                *)
(***************************************************************************)
EvalConstraint(ctx, p, c) ==
    \/ c.type = "amount" /\ EvalAmount(ctx, p, c)
    \/ c.type = "timestamp" /\ EvalTimestamp(ctx, p, c)
    \/ c.type = "addressED25519" /\ EvalAddressED25519(ctx, p, c.addr)
    \/ c.type = "deadlineLock" /\ EvalDeadlineLock(ctx, p, c)
    \/ c.type = "chainLock" /\ EvalChainLock(ctx, p, c)
    \/ c.type = "chain" /\ EvalChain(ctx, p, c)
    \/ c.type = "timelock" /\ EvalTimelock(ctx, p, c)
    \/ c.type = "senderAddressED25519" /\ EvalSender(ctx, p, c)
    \/ c.type = "royaltiesED25519" /\ EvalRoyalties(ctx, p, c)
    \/ c.type = "commitToSibling" /\ EvalCommitToSibling(ctx, p, c)
    \/ c.type = "immutable" /\ EvalImmutable(ctx, p, c)
    \/ c.type = "data"
=============================================================================
