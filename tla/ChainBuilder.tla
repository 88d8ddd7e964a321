---------------------------- MODULE ChainBuilder -----------------------------
(***************************************************************************)
(* Clients that put transactions together call by call: they consume       *)
(* outputs, produce others and insert chain transitions, in any order, and *)
(* submit the result.  Each client has a builder; all sign with the same   *)
(* key, and another client may be faster with the same chain.              *)
(***************************************************************************)
EXTENDS TxBuilder

CONSTANTS
    Clients,
    Signer,         \* the address of the key of all clients
    Products(_),    \* outputs that clients produce with a given timestamp
    Now(_),         \* the clock of the clients, given txs
    FinishTimes(_), \* timestamps of finished transactions, given txs
    MaxSize         \* bound: inputs, and outputs, of what each client builds

\* The clients own the genesis output, which covers its deposit.  A chain is
\* refused at index 0xff of the inputs or outputs.
ASSUME ClientsAssumption ==
    /\ Signer = GenesisAddress
    /\ Supply >= MinimumStorageDeposit(GenesisOutput)
    /\ MaxSize \in [Clients -> 0 .. MaxByte]

VARIABLE txb        \* the builder of each client

builderVars == <<utxo, txs, txb>>

InitBuilders ==
    /\ InitLedgerState
    /\ txb = [c \in Clients |-> NewTransactionBuilder]

\* An output without a chain is consumed with the signature for its lock.
ConsumePlain(c, oid) ==
    /\ NumInputs(txb[c]) < MaxSize[c]   \* bound, below CanConsume
    /\ ~HasChainConstraint(utxo[oid])
    /\ txb' = [txb EXCEPT ![c] =
                 PutSignatureUnlock(ConsumeOutput(@, WithID(oid, utxo[oid])),
                                    NumInputs(@), ConstraintIndexLock)]
    /\ UNCHANGED vars

\* What the clients produce next to the transitions: outputs of their own, with
\* at most a chain origin, data and the sender after the lock.
ClientOutput(out) ==
    /\ out \in Output
    /\ OutputFromBytes(out)
    /\ Len(out) <= MaxByte /\ IsInjective(out)
    /\ AmountOf(out) >= MinimumStorageDeposit(out)
    /\ LockOf(out) = NewAddressED25519(Signer)
    /\ \A b \in ConstraintIndexLock + 1 .. Len(out) - 1 :
           \/ At(out, b) \in {NewChainOrigin, NewSenderED25519(Signer)}
           \/ At(out, b).type = "data"

Produce(c, out) ==
    /\ ClientOutput(out)
    /\ Len(txb[c].outputs) < MaxSize[c]   \* bound, below CanProduce
    /\ txb' = [txb EXCEPT ![c] = ProduceOutput(@, out)]
    /\ UNCHANGED vars

\* A transition that panics ends the client's work on this transaction.
InsertTransition(c, oid, ts) ==
    LET o == WithID(oid, utxo[oid])
    IN  /\ ts \in Nat
        /\ NumInputs(txb[c]) < MaxSize[c] /\ Len(txb[c].outputs) < MaxSize[c]   \* bound
        /\ OutputFromBytes(o.out)
        /\ CanInsertTransition(txb[c], o)
        /\ txb' = [txb EXCEPT ![c] =
                     IF TransitionPanics(@, o, ts)
                     THEN NewTransactionBuilder
                     ELSE InsertSimpleChainTransition(@, o, ts)]
        /\ UNCHANGED vars

Finished(c, ts) == SignED25519(txb[c], Signer, ts)

\* Whether the ledger takes the transaction or not, the builder is done with.
Submit(c, ts) ==
    /\ Len(txs) < MaxTxs   \* bound
    /\ txb[c] # NewTransactionBuilder
    /\ txb' = [txb EXCEPT ![c] = NewTransactionBuilder]
    /\ IF Accepted(Finished(c, ts)) THEN Update(Finished(c, ts)) ELSE UNCHANGED vars

BuilderNext ==
    \E c \in Clients :
        \/ \E oid \in DOMAIN utxo : ConsumePlain(c, oid)
        \/ \E out \in Products(Now(txs)) : Produce(c, out)
        \/ \E oid \in DOMAIN utxo : InsertTransition(c, oid, Now(txs))
        \/ \E ts \in FinishTimes(txs) : Submit(c, ts)

BuilderSpec == InitBuilders /\ [][BuilderNext]_builderVars

-----------------------------------------------------------------------------
(***************************************************************************)
(* Properties.                                                             *)
(***************************************************************************)

\* The inputs consumed by transitions: their chain constraint is unlocked.
TransitionInputs(b) == {k \in 1 .. Len(b.inputs) : Len(b.unlock[k]) > ConstraintIndexLock + 1}

\* The transitions of a builder were inserted when it had as many inputs as
\* outputs, and the signature opens the lock of each of them.
Aligned(b) == \A k \in TransitionInputs(b) : Last(b.unlock[k])[1] = k - 1

\* What the caller is responsible for: no output twice, all of them unspent,
\* nothing left over, and the time.
CallerDidRight(b, ts) ==
    /\ ts \in Nat
    /\ \A k, l \in 1 .. Len(b.inputs) : b.inputs[k] = b.inputs[l] => k = l
    /\ b.inputs # <<>>
    /\ ToSet(b.inputs) \subseteq DOMAIN utxo
    /\ AmountsOf(b.consumed) = AmountsOf(b.outputs)
    /\ \A out \in ToSet(b.consumed) : TimestampOf(out) < ts
    /\ \A out \in ToSet(b.outputs) : TimestampOf(out) = ts

\* What is put together in this way is accepted, with any number of
\* transitions next to plain inputs and outputs, also when the builder was
\* started before the transactions of other clients.
BuiltIsAccepted ==
    \A c \in Clients, ts \in FinishTimes(txs) :
        CallerDidRight(txb[c], ts) /\ Aligned(txb[c]) => Accepted(Finished(c, ts))

\* An output without its timestamp and its chain constraint.
Substance(out) ==
    [k \in 1 .. Len(out) |->
        IF k - 1 \in {ConstraintIndexTimestamp, ChainConstraintIndex(out)} THEN <<>> ELSE out[k]]

\* InsertSimpleChainTransition "produces identical output, only modifies
\* timestamp": over every transaction, each chain goes on in exactly one output
\* that differs from its last state in nothing but that.
ChainsGoOnUnchanged ==
    [][\A oid \in DOMAIN utxo : \A id \in ChainIDsOf(oid, utxo[oid]) :
          \E succ \in DOMAIN utxo' :
              /\ {x \in DOMAIN utxo' : id \in ChainIDsOf(x, utxo'[x])} = {succ}
              /\ Substance(utxo'[succ]) = Substance(utxo[oid])]_builderVars

-----------------------------------------------------------------------------
\* InsertSimpleChainTransition "unlocks chain-input lock with signature
\* reference": the input of every transition has its lock unlocked.
TransitionUnlocksLock ==
    \A c \in Clients : \A k \in TransitionInputs(txb[c]) :
        txb[c].unlock[k][ConstraintIndexLock + 1] = <<MaxByte>>
==============================================================================
