------------------------------- MODULE Wallet --------------------------------
(***************************************************************************)
(* Clients of UTXODB: they read an account through the indexer, keep what  *)
(* they read as transfer data, and later make a transaction of it and add  *)
(* it to the ledger.  Between the two other transfers may have consumed    *)
(* the same outputs; the same data may be used twice.                      *)
(*                                                                         *)
(* A call that returns an error changes nothing and is not a step.         *)
(***************************************************************************)
EXTENDS UTXODB, TxBuilder

CONSTANTS
    Accounts(_),   \* the accounts clients open, given utxo: key, account, order
    Requests(_),   \* what they ask for, given utxo: fields of TransferData
    FaucetCalls,   \* arguments of TokensFromFaucet: address and amount
    Times,         \* timestamps given by clients
    MaxDrafts      \* bound: transfer data prepared in one behaviour

\* A timestamp of 0 stands for the clock.
ASSUME WalletAssumption ==
    /\ Times \subseteq Nat \ {0}
    /\ Supply >= MinimumStorageDeposit(GenesisOutput)

VARIABLE drafts    \* transfer data prepared so far

walletVars == <<utxo, txs, accounts, chains, pending, lost, reader, drafts>>

Lock == {c \in Block : IsLock(c)}

\* The arguments of MakeTransferData, and of the methods that fill in the rest.
AccountRequest == [key : Addresses, account : Lock, desc : BOOLEAN]

TransferRequest ==
    [lock : Lock, amount : Amount, adjust : BOOLEAN, addSender : BOOLEAN,
     addConstraints : Seq(Block), unlockData : Seq([out : Byte, blk : Byte, data : Seq(Byte)])]

OpenedAccounts == {a \in Accounts(utxo) : a \in AccountRequest}

TransferRequests == {req \in Requests(utxo) : req \in TransferRequest}

\* The outputs that the indexer lists for an account, read from the state.
Listed(acc) == {WithID(oid, utxo[oid]) : oid \in GetUTXOsLockedInAccount(acc, utxo)}

\* ParseAndSortOutputData fails as a whole if one of the outputs does not
\* parse.
AllParse(outs) == \A o \in outs : OutputFromBytes(o.out)

Unlockable(acc, ts) == {o \in Listed(acc) : UnlockableWith(LockOf(o.out), acc, ts)}

-----------------------------------------------------------------------------
InitWallet == InitUTXODB /\ drafts = {}

\* makeTransferInputsED25519.
MakeTransferInputsED25519(key, acc, ts, desc) ==
    /\ acc.type = "addressED25519"
    /\ AllParse(Listed(acc))
    /\ \E outs \in SortedByAmount(Unlockable(acc, ts), desc) :
           drafts' = drafts \cup {[NewTransferData(key, acc, ts) EXCEPT !.outputs = outs]}

\* makeTransferDataChainLock and GetChainAccount.
MakeTransferDataChainLock(key, acc, ts, desc) ==
    /\ acc.type = "chainLock"
    /\ HasUTXOForChainID(acc.id, utxo)
    /\ LET oid == GetUTXOForChainID(acc.id, utxo)
       IN  /\ OutputFromBytes(utxo[oid]) /\ HasChainConstraint(utxo[oid])
           /\ AllParse(Listed(acc))
           /\ \E outs \in SortedByAmount(Listed(acc), desc) :
                  drafts' = drafts \cup
                      {[NewTransferData(key, acc, ts) EXCEPT
                            !.outputs = outs, !.chainOutput = <<WithID(oid, utxo[oid])>>]}

MakeTransferData(key, acc, ts, desc) ==
    /\ pending = 0
    /\ Cardinality(drafts) < MaxDrafts   \* bound
    /\ MakeTransferInputsED25519(key, acc, ts, desc) \/ MakeTransferDataChainLock(key, acc, ts, desc)
    /\ UNCHANGED <<utxo, txs, accounts, chains, pending, lost, reader>>

\* The transfer data completed with what the client asks for.
Completed(draft, req) ==
    [draft EXCEPT !.lock = req.lock, !.amount = req.amount, !.adjust = req.adjust,
                  !.addSender = req.addSender, !.addConstraints = req.addConstraints,
                  !.unlockData = req.unlockData]

\* DoTransferTx: make the transaction and add it.
DoTransferTx(par) ==
    /\ pending = 0
    /\ Len(txs) < MaxTxs   \* bound
    /\ CanMakeTransfer(par)
    /\ UpdateState(MakeTransferTransaction(par))
    /\ UNCHANGED drafts

\* What the faucet builds: from the genesis account, adjusted to the deposit.
FaucetData(outs, to, amount, now) ==
    [NewTransferData(GenesisAddress, NewAddressED25519(GenesisAddress), now) EXCEPT
        !.outputs = outs, !.amount = amount, !.adjust = TRUE, !.lock = NewAddressED25519(to)]

TokensFromFaucet(to, amount, now) ==
    /\ AllParse(Listed(NewAddressED25519(GenesisAddress)))
    /\ \E outs \in SortedByAmount(Listed(NewAddressED25519(GenesisAddress)), FALSE) :
           DoTransferTx(FaucetData(outs, to, amount, now))

WalletNext ==
    \/ \E a \in OpenedAccounts, ts \in Times : MakeTransferData(a.key, a.account, ts, a.desc)
    \/ \E draft \in drafts, req \in TransferRequests : DoTransferTx(Completed(draft, req))
    \/ \E c \in FaucetCalls, now \in Times : TokensFromFaucet(c.to, c.amount, now)
    \/ (UpdateIndexer \/ UpdateIndexerFails) /\ UNCHANGED drafts

WalletSpec == InitWallet /\ [][WalletNext]_walletVars

-----------------------------------------------------------------------------
(***************************************************************************)
(* Properties.                                                             *)
(***************************************************************************)

\* The transfers that clients may ask for in this state.
Transfers == {Completed(draft, req) : draft \in drafts, req \in TransferRequests}

Selected(par) == OutputsToConsume(par, AdjustedAmount(par))

\* An output that its owner can consume with the unlock parameters the builder
\* writes: no constraint that needs others, no time lock that is still closed.
EasilySpent(out, lock, ts) ==
    /\ LockOf(out) = lock
    /\ \A b \in ConstraintIndexLock + 1 .. Len(out) - 1 :
           \/ At(out, b).type = "senderAddressED25519"
           \/ At(out, b).type = "timelock" /\ At(out, b).time < ts

\* What holds where it is produced, whatever else is in the transaction.
HoldsWhenProduced(c, tx) ==
    \/ c.type \in {"data", "royaltiesED25519"}
    \/ c \in {NewChainOrigin, NewSenderED25519(tx.signature.key)}
    \/ c.type = "timelock" /\ tx.timestamp < c.time

\* The outputs of a transaction cover their deposits, and the constraints added
\* to the main one, all different, hold when it is produced.
ProducedInOrder(par, tx) ==
    /\ \A k \in 1 .. Len(tx.outputs) : AmountOf(tx.outputs[k]) >= MinimumStorageDeposit(tx.outputs[k])
    /\ IsInjective(Last(tx.outputs))
    /\ \A c \in ToSet(par.addConstraints) : HoldsWhenProduced(c, tx)

\* A chain output under the control of the key, with nothing but the chain
\* after its lock.
ChainReady(par, tx) ==
    LET out == par.chainOutput[1].out
    IN  /\ LockOf(out) = NewAddressED25519(par.key)
        /\ Len(out) = 4
        /\ TimestampOf(out) < tx.timestamp

Ordinary(par, tx) ==
    /\ par.unlockData = <<>>
    /\ ProducedInOrder(par, tx)
    /\ \A o \in ToSet(Selected(par)) : EasilySpent(o.out, par.source, tx.timestamp)
    /\ IF par.chainOutput = <<>>
       THEN par.source = NewAddressED25519(par.key)
       ELSE ChainReady(par, tx)

\* What the builder makes of ordinary outputs is accepted as long as all the
\* outputs that were read are still unspent, and never afterwards: selection,
\* timestamps, remainder, references and chain transition agree with the
\* constraints of the ledger, however old the data is.
TransferAcceptedIffFresh ==
    \A par \in Transfers :
        CanMakeTransfer(par) =>
            LET tx == MakeTransferTransaction(par)
            IN  /\ Accepted(tx) => Inputs(tx) \subseteq DOMAIN utxo
                /\ Inputs(tx) \subseteq DOMAIN utxo /\ Ordinary(par, tx) => Accepted(tx)

\* Tokens under a lock, in a state.
LockedIn(lock, state) ==
    MapThenSumSet(LAMBDA oid : AmountOf(state[oid]),
                  {oid \in DOMAIN state : LockOf(state[oid]) = lock})

Locks(state) == {LockOf(state[oid]) : oid \in DOMAIN state}

\* The locks a transfer takes tokens from.
Payers(par) == {par.source} \cup {LockOf(o.out) : o \in ToSet(par.outputs \o par.chainOutput)}

\* A transfer that went through moved exactly the amount: the target has that
\* much more, and nobody but target and payers has more or less than before.
MovesAmount(par) ==
    /\ par.lock \notin Payers(par) =>
           LockedIn(par.lock, utxo') = LockedIn(par.lock, utxo) + AdjustedAmount(par)
    /\ \A lock \in (Locks(utxo) \cup Locks(utxo')) \ (Payers(par) \cup {par.lock}) :
           LockedIn(lock, utxo') = LockedIn(lock, utxo)

TransferMovesAmount == [][\A par \in Transfers : DoTransferTx(par) => MovesAmount(par)]_walletVars

-----------------------------------------------------------------------------
(***************************************************************************)
(* What comments of the repository say and the code does not do.           *)
(***************************************************************************)

\* AdjustedAmount: "adjust amount to minimum storage deposit requirements".
AdjustedCoversDeposit ==
    \A par \in Transfers :
        par.adjust =>
            LET amount == AdjustedAmount(par)
            IN  amount >= MinimumStorageDeposit(MainOutput(par, amount, par.timestamp))

\* MakeChainTransferTransactionOutputs: "we are trying to consume non-chain
\* outputs for the amount".
SelectsNonChainOutputs ==
    \A par \in Transfers :
        par.chainOutput # <<>> =>
            \A o \in ToSet(Selected(par)) : ~HasChainConstraint(o.out)

\* A transaction of the owner that consumes one output at a given time.
SpendAlone(o, key, ts) ==
    MakeSimpleTransfer([NewTransferData(key, LockOf(o.out), ts) EXCEPT
        !.outputs = <<o>>, !.amount = AmountOf(o.out)])

\* Balance "returns balance of address unlockable at timestamp ts": what counts
\* at a time can be consumed by the owner at that time.
BalanceIsUnlockable ==
    \A a \in OpenedAccounts : \A ts \in Times : \A o \in Unlockable(a.account, ts) :
        a.account = NewAddressED25519(a.key) /\ TimestampOf(o.out) < ts =>
            Accepted(SpendAlone(o, a.key, ts))
==============================================================================
