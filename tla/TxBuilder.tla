------------------------------ MODULE TxBuilder ------------------------------
(***************************************************************************)
(* The transaction builder: what clients use to make transactions out of   *)
(* outputs they read from the ledger.  Pure operators: a builder is a      *)
(* record, a transfer is described by a TransferData record, and the       *)
(* result is a transaction for the ledger.                                 *)
(***************************************************************************)
EXTENDS Ledger, SequencesExt

-----------------------------------------------------------------------------
(***************************************************************************)
(* Outputs as the builder parses them.                                     *)
(***************************************************************************)

\* OutputFromBytes: unlike the ledger, the builder insists on the timestamp.
OutputFromBytes(out) ==
    /\ Len(out) >= 3
    /\ At(out, ConstraintIndexAmount).type = "amount"
    /\ At(out, ConstraintIndexTimestamp).type = "timestamp"
    /\ IsLock(LockOf(out))

TimestampOf(out) == At(out, ConstraintIndexTimestamp).time

OutputBasic(amount, ts, lock) == <<NewAmount(amount), NewTimestamp(ts), lock>>

\* PutConstraint: the array grows with empty blocks if it has to.
PutConstraint(arr, i, c) ==
    [k \in 1 .. Max({Len(arr), i + 1}) |->
        IF k = i + 1 THEN c ELSE IF k <= Len(arr) THEN arr[k] ELSE <<>>]

WithAmount(out, amount) == PutConstraint(out, ConstraintIndexAmount, NewAmount(amount))

WithTimestamp(out, ts) == PutConstraint(out, ConstraintIndexTimestamp, NewTimestamp(ts))

\* ChainConstraint: the index of the first chain constraint after the lock,
\* 0xff if there is none.
ChainConstraintIndex(out) ==
    Min({MaxByte} \cup {b \in ConstraintIndexLock + 1 .. Len(out) - 1 : At(out, b).type = "chain"})

HasChainConstraint(out) == ChainConstraintIndex(out) # MaxByte

\* An output with its ID, as the queries return it.
WithID(oid, out) == [id |-> oid, out |-> out]

\* ParseChainConstraints: the chain an output belongs to.
ChainIDOf(o) ==
    LET c == At(o.out, ChainConstraintIndex(o.out))
    IN  IF IsOrigin(c) THEN blake2b(o.id) ELSE c.id

\* UnlockableWith: what the builder believes about locks and time.
UnlockableWith(lock, acc, ts) ==
    IF lock.type = "deadlineLock"
    THEN acc = NewAddressED25519(IF ts <= lock.deadline THEN lock.main ELSE lock.expiry)
    ELSE acc = lock

\* ParseAndSortOutputData: the outputs in ascending (or descending) order of
\* their amounts, equal amounts in any order.
SortedByAmount(outs, desc) ==
    {s \in SetToSeqs(outs) :
        \A i, j \in 1 .. Len(s) :
            i < j => IF desc THEN AmountOf(s[i].out) >= AmountOf(s[j].out)
                     ELSE AmountOf(s[i].out) <= AmountOf(s[j].out)}

-----------------------------------------------------------------------------
(***************************************************************************)
(* TransactionBuilder.                                                     *)
(***************************************************************************)
NewTransactionBuilder == [consumed |-> <<>>, inputs |-> <<>>, unlock |-> <<>>, outputs |-> <<>>]

NumInputs(txb) == Len(txb.inputs)

CanConsume(txb) == NumInputs(txb) <= MaxByte

\* The index of the consumed output is NumInputs before the call.
ConsumeOutput(txb, o) ==
    [txb EXCEPT !.consumed = Append(@, o.out), !.inputs = Append(@, o.id),
                !.unlock = Append(@, <<>>)]

CanProduce(txb) == Len(txb.outputs) <= MaxByte

ProduceOutput(txb, out) == [txb EXCEPT !.outputs = Append(@, out)]

\* Panics if there is no such input.
CanPutUnlockParams(txb, o) == Has(txb.unlock, o)

PutUnlockParams(txb, o, b, data) == [txb EXCEPT !.unlock[o + 1] = PutConstraint(@, b, data)]

\* Unlock parameters provided by the client, in their order.
PutUnlockData(txb, list) ==
    FoldLeft(LAMBDA b, d : PutUnlockParams(b, d.out, d.blk, d.data), txb, list)

PutSignatureUnlock(txb, o, b) == PutUnlockParams(txb, o, b, <<MaxByte>>)

\* The finished transaction: input commitment, timestamp, signature.
SignED25519(txb, key, ts) ==
    [inputs |-> txb.inputs, unlock |-> txb.unlock, outputs |-> txb.outputs,
     signature |-> [key |-> key, valid |-> TRUE],
     timestamp |-> ts, inputCommitment |-> blake2b(txb.consumed)]

-----------------------------------------------------------------------------
(***************************************************************************)
(* TransferData: key and account of the sender, the outputs that were read *)
(* for it, at most one chain output, timestamp, target lock, amount, and   *)
(* what else is wanted.                                                    *)
(***************************************************************************)
NewTransferData(key, source, ts) ==
    [key |-> key, source |-> source, outputs |-> <<>>, chainOutput |-> <<>>, timestamp |-> ts,
     lock |-> source, amount |-> 0, adjust |-> FALSE, addSender |-> FALSE,
     addConstraints |-> <<>>, unlockData |-> <<>>]

\* The tentative output has the added constraints but not the sender.
AdjustedAmount(par) ==
    IF ~par.adjust THEN par.amount
    ELSE Max({par.amount,
              MinimumStorageDeposit(OutputBasic(par.amount, 0, par.lock) \o par.addConstraints)})

\* Outputs without their IDs, and what they hold.
Contents(outs) == [k \in 1 .. Len(outs) |-> outs[k].out]

AmountsOf(outs) == MapThenSumSet(LAMBDA k : AmountOf(outs[k]), 1 .. Len(outs))

SumOf(outs) == AmountsOf(Contents(outs))

\* outputsToConsumeSimple: outputs in their order until there is enough.
OutputsToConsume(par, amount) ==
    LET enough == {n \in 1 .. Len(par.outputs) : SumOf(SubSeq(par.outputs, 1, n)) >= amount}
    IN  SubSeq(par.outputs, 1, Min({Len(par.outputs)} \cup enough))

\* Mutant: the timestamps of the inputs are ignored.
TimestampAsGiven(par, consumed) == par.timestamp

\* The timestamp moves behind the ones of the consumed outputs.  It is a uint32
\* in the code: behind its last value it would be 0, which is left out here.
TransferTimestamp(par, consumed) ==
    Max({par.timestamp} \cup {TimestampOf(consumed[k].out) + 1 : k \in 1 .. Len(consumed)})

MainOutput(par, amount, ts) ==
    OutputBasic(amount, ts, par.lock)
        \o (IF par.addSender THEN <<NewSenderED25519(par.key)>> ELSE <<>>)
        \o par.addConstraints

\* PushConstraint fails if the output has all the blocks it can have.
CanPushConstraints(par) == Len(MainOutput(par, 0, 0)) <= MaxByte + 1

ConsumeAll(txb, outs) ==
    [txb EXCEPT !.consumed = @ \o Contents(outs),
                !.inputs = @ \o [k \in 1 .. Len(outs) |-> outs[k].id],
                !.unlock = @ \o [k \in 1 .. Len(outs) |-> <<>>]]

\* The unlock blocks of consumed outputs that only need their lock unlocked.
LockUnlock(data) == PutConstraint(<<>>, ConstraintIndexLock, data)

-----------------------------------------------------------------------------
(***************************************************************************)
(* MakeSimpleTransferTransactionOutputs: from an address.                  *)
(***************************************************************************)
CanMakeSimpleTransfer(par) ==
    /\ CanPushConstraints(par)
    /\ Len(OutputsToConsume(par, AdjustedAmount(par))) <= MaxByte + 1
    /\ SumOf(OutputsToConsume(par, AdjustedAmount(par))) >= AdjustedAmount(par)
    /\ \A d \in ToSet(par.unlockData) :   \* otherwise PutUnlockParams panics
           d.out < Len(OutputsToConsume(par, AdjustedAmount(par)))

\* Mutant: the remainder goes to the target.
RemainderToTarget(par, rest, ts) == OutputBasic(rest, ts, par.lock)

Remainder(par, rest, ts) == OutputBasic(rest, ts, par.source)

\* The remainder, if there is one, is the first output.  The first input is
\* unlocked by the signature, the others refer to it; then come the unlock
\* parameters that the caller provides.
MakeSimpleTransfer(par) ==
    LET amount == AdjustedAmount(par)
        consumed == OutputsToConsume(par, amount)
        ts == TransferTimestamp(par, consumed)
        rest == SumOf(consumed) - amount
        remainder == IF rest > 0 THEN <<Remainder(par, rest, ts)>> ELSE <<>>
        txb == [ConsumeAll(NewTransactionBuilder, consumed) EXCEPT
                    !.outputs = remainder \o <<MainOutput(par, amount, ts)>>,
                    !.unlock = [k \in 1 .. Len(consumed) |->
                                   LockUnlock(IF k = 1 THEN <<MaxByte>> ELSE <<0>>)]]
    IN  SignED25519(PutUnlockData(txb, par.unlockData), par.key, ts)

(***************************************************************************)
(* MakeChainTransferTransactionOutputs: from the account of a chain.  The  *)
(* chain output is the first input and its successor the first output; it  *)
(* also pays what the outputs locked in the chain do not cover.            *)
(***************************************************************************)
CanMakeChainTransfer(par) ==
    LET amount == AdjustedAmount(par)
        consumed == OutputsToConsume(par, amount)
    IN  /\ CanPushConstraints(par)
        /\ Len(consumed) <= MaxByte
        /\ SumOf(consumed) + AmountOf(par.chainOutput[1].out) > amount

\* Mutant: what follows the lock and the chain constraint is not copied.
SuccessorBasic(o, amount, ts, predIdx) ==
    OutputBasic(amount, ts, LockOf(o.out))
        \o <<NewChain(ChainIDOf(o), predIdx, ConstraintIndexLock + 1, 0)>>

\* Mutant: the successor keeps the predecessor's chain constraint.
SuccessorUnchanged(o, amount, ts, predIdx) == WithTimestamp(WithAmount(o.out, amount), ts)

\* The successor of a chain output: new amount and timestamp, and a chain
\* constraint that points to input predIdx.
ChainSuccessor(o, amount, ts, predIdx) ==
    LET blk == ChainConstraintIndex(o.out)
    IN  PutConstraint(WithTimestamp(WithAmount(o.out, amount), ts), blk,
                      NewChain(ChainIDOf(o), predIdx, blk, 0))

MakeChainTransfer(par) ==
    LET amount == AdjustedAmount(par)
        consumed == OutputsToConsume(par, amount)
        ts == TransferTimestamp(par, consumed)   \* not behind the chain output's own
        pred == par.chainOutput[1]
        blk == ChainConstraintIndex(pred.out)
        rest == SumOf(consumed) + AmountOf(pred.out) - amount
        txb == [ConsumeAll(NewTransactionBuilder, <<pred>> \o consumed) EXCEPT
                    !.outputs = <<ChainSuccessor(pred, rest, ts, 0), MainOutput(par, amount, ts)>>,
                    !.unlock = <<PutConstraint(LockUnlock(<<MaxByte>>), blk, <<0, blk, 0>>)>>
                               \o [k \in 1 .. Len(consumed) |-> LockUnlock(<<0, blk>>)]]
    IN  SignED25519(txb, par.key, ts)

CanMakeTransfer(par) ==
    IF par.chainOutput = <<>> THEN CanMakeSimpleTransfer(par) ELSE CanMakeChainTransfer(par)

MakeTransferTransaction(par) ==
    IF par.chainOutput = <<>> THEN MakeSimpleTransfer(par) ELSE MakeChainTransfer(par)

-----------------------------------------------------------------------------
(***************************************************************************)
(* InsertSimpleChainTransition: consume a chain output and produce it      *)
(* again with a new timestamp.                                             *)
(***************************************************************************)
CanInsertTransition(txb, o) == HasChainConstraint(o.out) /\ CanConsume(txb) /\ CanProduce(txb)

\* Mutant: the successor refers to the number of inputs after the call.
PredecessorOffByOne(txb, o, ts) ==
    LET pred == NumInputs(txb)
        succ == Len(txb.outputs)
        blk == ChainConstraintIndex(o.out)
    IN  PutUnlockParams(
            ProduceOutput(ConsumeOutput(txb, o), ChainSuccessor(o, AmountOf(o.out), ts, pred + 1)),
            pred, blk, <<succ, blk, 0>>)

\* The builder before the last statement of the method.
TransitionInserted(txb, o, ts) ==
    LET pred == NumInputs(txb)
        succ == Len(txb.outputs)
        blk == ChainConstraintIndex(o.out)
    IN  PutUnlockParams(
            ProduceOutput(ConsumeOutput(txb, o), ChainSuccessor(o, AmountOf(o.out), ts, pred)),
            pred, blk, <<succ, blk, 0>>)

\* The input whose lock gets the signature is named by the index of the
\* successor among the outputs; the method panics if there is no such input.
TransitionPanics(txb, o, ts) ==
    ~CanPutUnlockParams(TransitionInserted(txb, o, ts), Len(txb.outputs))

InsertSimpleChainTransition(txb, o, ts) ==
    PutSignatureUnlock(TransitionInserted(txb, o, ts), Len(txb.outputs), ConstraintIndexLock)
==============================================================================
