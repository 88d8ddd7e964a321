------------------------------- MODULE Ledger -------------------------------
(***************************************************************************)
(* The ledger state: the set of unspent outputs and the only operation     *)
(* that changes it, Updatable.Update, which builds the validation context  *)
(* of a transaction, validates it and replaces the outputs it consumes by  *)
(* the outputs it produces.  A transaction that is rejected changes        *)
(* nothing.                                                                *)
(*                                                                         *)
(* txs is a history variable: the transactions accepted so far.  It is     *)
(* also the hash oracle: the ID of a transaction is its position in txs    *)
(* if the very same transaction was accepted before, and the next position *)
(* otherwise.  The genesis output belongs to transaction number 0.         *)
(***************************************************************************)
EXTENDS Constraints, FiniteSetsExt

CONSTANTS
    GenesisAddress,   \* owner of the genesis output
    Supply,           \* its amount
    GenesisTime,      \* its timestamp
    MaxTxs,           \* bound: transactions accepted in one behaviour
    Submitted(_, _)   \* the transactions offered, given utxo and txs

ASSUME GenesisAssumption ==
    /\ GenesisAddress \in Addresses
    /\ Supply \in Amount
    /\ GenesisTime \in Nat
    /\ MaxTxs \in Nat

VARIABLES
    utxo,   \* the trie: a function from the IDs of the unspent outputs
    txs     \* the accepted transactions, in order

vars == <<utxo, txs>>

GenesisOutputID == [tx |-> 0, idx |-> 0]

GenesisOutput ==
    <<NewAmount(Supply), NewTimestamp(GenesisTime), NewAddressED25519(GenesisAddress)>>

-----------------------------------------------------------------------------
(***************************************************************************)
(* Transactions: the shape of what parses.  A commitment to a sibling is   *)
(* limited to siblings without such a commitment.  A transaction without   *)
(* inputs is left out: it can balance only without outputs, and then it    *)
(* changes nothing.                                                        *)
(***************************************************************************)
BasicBlock ==
    [type : {"amount"}, value : Amount]
    \cup [type : {"timestamp", "timelock"}, time : Nat]
    \cup [type : {"addressED25519", "senderAddressED25519"}, addr : Addresses]
    \cup [type : {"chainLock"}, id : ChainID]
    \cup [type : {"deadlineLock"}, deadline : Nat, main : Addresses, expiry : Addresses]
    \cup [type : {"chain"}, id : ChainID, prevOut : Byte, prevBlk : Byte, mode : Byte]
    \cup [type : {"royaltiesED25519"}, addr : Addresses, value : Amount]
    \cup [type : {"immutable"}, chainBlk : Byte, dataBlk : Byte]
    \cup [type : {"data"}, data : Data]

Block ==
    BasicBlock
    \cup [type : {"commitToSibling"}, idx : Byte, hash : Seq(Seq(BasicBlock))]

\* A lazy array: one byte is enough to index it.
Array(S) == {arr \in Seq(S) : Len(arr) <= MaxByte + 1}

Output == Array(Block)

Transaction ==
    [inputs : Array(OutputID) \ {<<>>},
     unlock : Array(Array(Seq(Byte))),     \* per consumed output, per block
     outputs : Array(Output),
     signature : [key : Addresses, valid : BOOLEAN],
     timestamp : Nat,
     inputCommitment : Seq(Array(Output))]

Inputs(tx) == {tx.inputs[k] : k \in 1 .. Len(tx.inputs)}

NewOutputID(id, idx) == [tx |-> id, idx |-> idx]

\* Mutant: the ID is the hash of the inputs only.
InputsIdentify(tx) ==
    IF \E i \in 1 .. Len(txs) : txs[i].inputs = tx.inputs
    THEN CHOOSE i \in 1 .. Len(txs) : txs[i].inputs = tx.inputs
    ELSE Len(txs) + 1

\* The ID of a transaction: the hash of its bytes.
TransactionID(tx) ==
    IF \E i \in 1 .. Len(txs) : txs[i] = tx
    THEN CHOOSE i \in 1 .. Len(txs) : txs[i] = tx
    ELSE Len(txs) + 1

\* The IDs of the outputs of a transaction with the given ID.
OutputIDsOf(tx, id) == {NewOutputID(id, k - 1) : k \in 1 .. Len(tx.outputs)}

-----------------------------------------------------------------------------
(***************************************************************************)
(* Validation                                                              *)
(***************************************************************************)

\* Mutant: repeated inputs are not detected.
InputsMayRepeat(tx) == Inputs(tx) \subseteq DOMAIN utxo

\* No input is repeated and every one is in the state.
InputsFound(tx) ==
    /\ \A k, l \in 1 .. Len(tx.inputs) : tx.inputs[k] = tx.inputs[l] => k = l
    /\ Inputs(tx) \subseteq DOMAIN utxo

ConsumedOutputs(tx) == [k \in 1 .. Len(tx.inputs) |-> utxo[tx.inputs[k]]]

\* runOutput: no produced output has the same block twice, and every block
\* evaluates to true.
RunOutput(ctx, side, i) ==
    LET out == At(Outputs(ctx, side), i)
    IN  /\ side = "produced" =>
               \A b, d \in 1 .. Len(out) : out[b] = out[d] => b = d
        /\ \A b \in 1 .. Len(out) : EvalConstraint(ctx, Path(side, i, b - 1), out[b])

IsAmount(c) == c.type = "amount"

AmountOf(out) == At(out, ConstraintIndexAmount).value

LockOf(out) == At(out, ConstraintIndexLock)

MinimumStorageDeposit(out) == OutputSize(out)

\* The amount and the lock parse, and the amount covers the deposit.
OutputParses(out) ==
    /\ Has(out, ConstraintIndexLock)
    /\ IsAmount(At(out, ConstraintIndexAmount))
    /\ AmountOf(out) >= MinimumStorageDeposit(out)
    /\ IsLock(LockOf(out))

\* uint64 sums of the first i outputs, for every i.
PartialSums(outs) ==
    LET sum[i \in 0 .. Len(outs)] ==
            IF i = 0 THEN 0 ELSE (sum[i - 1] + AmountOf(outs[i])) % (MaxUint64 + 1)
    IN  sum

\* Mutant: the sum of the amounts may wrap around.
OverflowUnchecked(outs) == TRUE

NoOverflow(outs) ==
    \A i \in 1 .. Len(outs) : AmountOf(outs[i]) <= MaxUint64 - PartialSums(outs)[i - 1]

ValidateOutputs(ctx, side) ==
    /\ \A i \in 0 .. Len(Outputs(ctx, side)) - 1 :
           /\ RunOutput(ctx, side, i)
           /\ OutputParses(At(Outputs(ctx, side), i))
    /\ NoOverflow(Outputs(ctx, side))

OutputSum(outs) == PartialSums(outs)[Len(outs)]

ValidateInputCommitment(ctx) == ctx.tx.inputCommitment = blake2b(ctx.consumed)

Validate(ctx) ==
    /\ ValidateOutputs(ctx, "consumed")
    /\ ValidateOutputs(ctx, "produced")
    /\ ValidateInputCommitment(ctx)
    /\ OutputSum(ctx.consumed) = OutputSum(ctx.tx.outputs)

\* Mutant: the consumed outputs stay in the trie.
TrieKeepsInputs(tx, id) ==
    [oid \in DOMAIN utxo \cup OutputIDsOf(tx, id) |->
        IF oid \in OutputIDsOf(tx, id) THEN At(tx.outputs, oid.idx) ELSE utxo[oid]]

\* Delete the consumed outputs, then add the produced ones.
UpdateTrie(tx, id) ==
    [oid \in (DOMAIN utxo \ Inputs(tx)) \cup OutputIDsOf(tx, id) |->
        IF oid \in OutputIDsOf(tx, id) THEN At(tx.outputs, oid.idx) ELSE utxo[oid]]

Accepted(tx) ==
    /\ tx \in Transaction
    /\ InputsFound(tx)
    /\ Validate(Context(tx, ConsumedOutputs(tx)))

Record(tx) == IF TransactionID(tx) \in 1 .. Len(txs) THEN txs ELSE Append(txs, tx)

-----------------------------------------------------------------------------
InitLedgerState ==
    /\ utxo = [oid \in {GenesisOutputID} |-> GenesisOutput]
    /\ txs = <<>>

Update(tx) ==
    /\ Accepted(tx) = TRUE   \* a value, so that TLC does not split its disjunctions
    /\ utxo' = UpdateTrie(tx, TransactionID(tx))
    /\ txs' = Record(tx)

Init == InitLedgerState

Next ==
    /\ Len(txs) < MaxTxs   \* bound
    /\ \E tx \in Submitted(utxo, txs) : Update(tx)

Spec == Init /\ [][Next]_vars
-----------------------------------------------------------------------------
(***************************************************************************)
(* Vocabulary of the properties.                                           *)
(***************************************************************************)
TxNumbers == 1 .. Len(txs)

\* The IDs of everything produced so far.
ProducedIDs == {GenesisOutputID} \cup UNION {OutputIDsOf(txs[i], i) : i \in TxNumbers}

\* The IDs of everything consumed so far.
SpentIDs == UNION {Inputs(txs[i]) : i \in TxNumbers}

\* The output with a given ID, spent or not.
OutputOf(oid) ==
    IF oid = GenesisOutputID THEN GenesisOutput ELSE At(txs[oid.tx].outputs, oid.idx)

\* The validation context of the i-th accepted transaction.
ContextOf(i) ==
    Context(txs[i], [k \in 1 .. Len(txs[i].inputs) |-> OutputOf(txs[i].inputs[k])])

\* The timestamp of the transaction with the given number.
TimeOf(i) == IF i = 0 THEN GenesisTime ELSE txs[i].timestamp

\* Blocks of an output, as a set.
BlocksOf(out) == {out[b] : b \in 1 .. Len(out)}

\* Identifiers of the chains an output is part of.
ChainIDsOf(oid, out) ==
    {IF c.id = ZeroHash THEN blake2b(oid) ELSE c.id :
        c \in {d \in BlocksOf(out) : d.type = "chain"}}

-----------------------------------------------------------------------------
(***************************************************************************)
(* The type invariant.                                                     *)
(***************************************************************************)
TypeOK ==
    /\ txs \in Seq(Transaction)
    /\ Len(txs) <= MaxTxs
    /\ DOMAIN utxo \subseteq OutputID
    /\ \A oid \in DOMAIN utxo : utxo[oid] \in Output

\* Tokens are neither created nor destroyed: the unspent outputs always hold
\* the initial supply (the balance and overflow checks of Validate).
SupplyConserved ==
    MapThenSumSet(LAMBDA oid : AmountOf(utxo[oid]), DOMAIN utxo) = Supply

\* An output is consumed at most once in the life of the ledger, even if a
\* transaction is submitted again (repeated inputs, deletion of the inputs).
SpentOnce ==
    \A i, j \in TxNumbers :
        \A k \in 1 .. Len(txs[i].inputs), l \in 1 .. Len(txs[j].inputs) :
            txs[i].inputs[k] = txs[j].inputs[l] => i = j /\ k = l

\* The state is exactly what was produced and not consumed, with its content.
UtxoExact ==
    /\ DOMAIN utxo = ProducedIDs \ SpentIDs
    /\ \A oid \in DOMAIN utxo : utxo[oid] = OutputOf(oid)

\* Time moves forward along every spend of an output with a timestamp: the
\* consumer is strictly later than the producer (both sides of timestamp).
CausalTime ==
    \A i \in TxNumbers : \A oid \in Inputs(txs[i]) :
        At(OutputOf(oid), ConstraintIndexTimestamp).type = "timestamp" =>
            TimeOf(oid.tx) < TimeOf(i)

\* An output locked with an address, directly or in a deadline lock, is
\* consumed only by a transaction its owner signed: a chain of references
\* ends in a signature (unlockedByReference).
SpendAuthorised ==
    \A i \in TxNumbers : \A oid \in Inputs(txs[i]) :
        LET lock == LockOf(OutputOf(oid))
        IN  /\ lock.type = "addressED25519" =>
                   txs[i].signature.valid /\ txs[i].signature.key = lock.addr
            /\ lock.type = "deadlineLock" =>
                   /\ txs[i].signature.valid
                   /\ txs[i].signature.key \in {lock.main, lock.expiry}

\* The sender recorded in an output really signed the transaction, although
\* senderAddressED25519 only looks at the public key: unless all the inputs
\* are controlled by chains, some input had the signature verified.
SenderAuthentic ==
    \A i \in TxNumbers : \A k \in 1 .. Len(txs[i].outputs) :
        \A c \in BlocksOf(txs[i].outputs[k]) :
            /\ c.type = "senderAddressED25519"
            /\ \E oid \in Inputs(txs[i]) : LockOf(OutputOf(oid)).type # "chainLock"
            => txs[i].signature.valid /\ txs[i].signature.key = c.addr

\* What is under a time lock is consumed strictly after it, and so strictly
\* after the transaction that locked it.
TimelockHolds ==
    \A i \in TxNumbers : \A oid \in Inputs(txs[i]) :
        \A c \in BlocksOf(OutputOf(oid)) :
            c.type = "timelock" => TimeOf(oid.tx) < c.time /\ c.time < TimeOf(i)

\* The identifier of a chain is the ID of an output that was produced as a
\* chain origin and has been consumed: nobody can make up a chain.
ChainProvenance ==
    \A i \in TxNumbers : \A k \in 1 .. Len(txs[i].outputs) :
        \A c \in BlocksOf(txs[i].outputs[k]) :
            c.type = "chain" /\ c.id # ZeroHash =>
                \E origin \in ProducedIDs :
                    /\ c.id = blake2b(origin)
                    /\ origin.tx < i
                    /\ NewChainOrigin \in BlocksOf(OutputOf(origin))
                    /\ \E j \in 1 .. i : origin \in Inputs(txs[j])

\* An output locked in a chain is consumed only together with an output of
\* that chain, and the chain goes on: the transaction also produces an output
\* of it in a state transition (chainLock relies on chain for this).
ChainLockControlled ==
    \A i \in TxNumbers : \A oid \in Inputs(txs[i]) :
        LET lock == LockOf(OutputOf(oid))
        IN  lock.type = "chainLock" =>
                /\ \E ctl \in Inputs(txs[i]) \ {oid} :
                       lock.id \in ChainIDsOf(ctl, OutputOf(ctl))
                /\ \E k \in 1 .. Len(txs[i].outputs) :
                       \E c \in BlocksOf(txs[i].outputs[k]) :
                           c.type = "chain" /\ c.id = lock.id /\ c.mode = 0

\* Data bound to a chain by the immutable constraint is found again, bound in
\* the same way, in an output of the same chain of the consuming transaction.
\* The consumed side relies on what the produced side checked earlier.
ImmutableKept ==
    \A i \in TxNumbers : \A k \in 1 .. Len(txs[i].inputs) :
        LET oid == txs[i].inputs[k]
            out == OutputOf(oid)
        IN  \A c \in BlocksOf(out) : c.type = "immutable" =>
                \E l \in 1 .. Len(txs[i].outputs) : \E d \in BlocksOf(txs[i].outputs[l]) :
                    LET succ == txs[i].outputs[l]
                    IN  /\ d.type = "immutable"
                        /\ Has(succ, d.dataBlk) /\ Has(succ, d.chainBlk)
                        /\ At(succ, d.dataBlk) = At(out, c.dataBlk)
                        /\ At(succ, d.chainBlk).type = "chain"
                        /\ At(succ, d.chainBlk).id =
                               ConsumedChainID(ContextOf(i), k - 1, c.chainBlk)

\* An output of the i-th transaction pays the royalties c.
PaidBy(i, c) ==
    \E l \in 1 .. Len(txs[i].outputs) :
        /\ LockOf(txs[i].outputs[l]) = NewAddressED25519(c.addr)
        /\ AmountOf(txs[i].outputs[l]) >= c.value

\* Royalties are paid with the amount that was agreed on when the constraint
\* was written, unless the unlock parameters lead into a data block of a
\* produced output: nothing else passes for the payment.
RoyaltiesPaidUnlessData ==
    \A i \in TxNumbers : \A k \in 1 .. Len(txs[i].inputs) :
        \A b \in 1 .. Len(OutputOf(txs[i].inputs[k])) :
            LET c == OutputOf(txs[i].inputs[k])[b]
            IN  c.type = "royaltiesED25519" =>
                    \/ PaidBy(i, c)
                    \/ IntoData(txs[i].outputs, UnlockParams(ContextOf(i), k - 1, b - 1))

\* The sibling an unspent output commits to was produced with it and is a
\* different output, whatever happened to either of them since.
SiblingCommitted ==
    \A oid \in DOMAIN utxo : \A c \in BlocksOf(utxo[oid]) :
        c.type = "commitToSibling" =>
            LET sibling == NewOutputID(oid.tx, c.idx)
            IN  /\ sibling # oid
                /\ sibling \in ProducedIDs
                /\ c.hash = blake2b(OutputOf(sibling))

-----------------------------------------------------------------------------
(***************************************************************************)
(* What comments and tests of the repository say and the code does not do. *)
(***************************************************************************)

\* TestDeadlineLock: up to the deadline the output belongs to the main
\* account, after it to the expiry account.
DeadlineRespected ==
    \A i \in TxNumbers : \A oid \in Inputs(txs[i]) :
        LET lock == LockOf(OutputOf(oid))
        IN  lock.type = "deadlineLock" =>
                txs[i].signature.key =
                    IF TimeOf(i) <= lock.deadline THEN lock.main ELSE lock.expiry

\* royalties.go: "enforces sending at least amount $1 to the address $0".
RoyaltiesPaid ==
    \A i \in TxNumbers : \A oid \in Inputs(txs[i]) : \A c \in BlocksOf(OutputOf(oid)) :
        c.type = "royaltiesED25519" => PaidBy(i, c)

\* chain.go: "Each chain represents a sequence of state changes": at any time
\* at most one unspent output is the state of the chain.
ChainIsSequence ==
    \A x, y \in DOMAIN utxo :
        ChainIDsOf(x, utxo[x]) \cap ChainIDsOf(y, utxo[y]) # {} => x = y

\* indexChainID: "only 1 chain constraint is possible" on an output.
SingleChainConstraint ==
    \A oid \in DOMAIN utxo : \A b, d \in 1 .. Len(utxo[oid]) :
        utxo[oid][b].type = "chain" /\ utxo[oid][d].type = "chain" => b = d

\* "Mandatory output block indices": every output has its timestamp at the
\* second block.
TimestampMandatory ==
    \A oid \in DOMAIN utxo : At(utxo[oid], ConstraintIndexTimestamp).type = "timestamp"

\* commitToSibling on the consumed side: "should not commit to itself".  An
\* output that commits to another output satisfies its constraint at any
\* position among the inputs.
CommitToOtherAccepted ==
    \A oid \in DOMAIN utxo : \A b \in 1 .. Len(utxo[oid]) :
        utxo[oid][b].type = "commitToSibling" /\ utxo[oid][b].idx # oid.idx =>
            \A k \in 0 .. 1 :
                EvalCommitToSibling(<<>>, Path("consumed", k, b - 1), utxo[oid][b])
=============================================================================
