----------------------------- MODULE StateStore ------------------------------
(***************************************************************************)
(* The ledger state in its key/value store.  A root stands for a content   *)
(* of the trie, and the store keeps every version that was committed: an   *)
(* Updatable can be opened with any of these roots, after a crash or to    *)
(* begin another branch.  Update first moves the root of the Updatable and *)
(* then commits the batch, which may fail.                                 *)
(*                                                                         *)
(* utxo is the content at the root of the Updatable, whether or not the    *)
(* store has it; txs are the transactions of all the branches.             *)
(***************************************************************************)
EXTENDS Ledger

VARIABLE stored   \* the contents whose roots are in the store

storeVars == <<utxo, txs, stored>>

\* The Updatable can read its state: otherwise Readable panics.
RootStored == utxo \in stored

\* HasTransaction: an output of the transaction is in the state.
HasTransaction(id, state) == \E oid \in DOMAIN state : oid.tx = id

InitStore == InitLedgerState /\ stored = {utxo}

\* Updatable.Update.
UpdateCommitted(tx) ==
    /\ RootStored
    /\ Update(tx)
    /\ stored' = stored \cup {utxo'}

\* The batch is not written; the root has moved nevertheless.
UpdateNotCommitted(tx) ==
    /\ RootStored
    /\ Update(tx)
    /\ UNCHANGED stored

\* NewUpdatable with a root that the store has.
NewUpdatable ==
    /\ \E state \in stored : utxo' = state
    /\ UNCHANGED <<txs, stored>>

StoreNext ==
    \/ /\ Len(txs) < MaxTxs   \* bound
       /\ \E tx \in Submitted(utxo, txs) : UpdateCommitted(tx) \/ UpdateNotCommitted(tx)
    \/ NewUpdatable

StoreSpec == InitStore /\ [][StoreNext]_storeVars

-----------------------------------------------------------------------------
(***************************************************************************)
(* Properties.                                                             *)
(***************************************************************************)

\* Every version that can be opened holds the whole supply, whatever failed,
\* was opened again or went on in another branch before.
BranchesBalanced ==
    \A state \in stored :
        MapThenSumSet(LAMBDA oid : AmountOf(state[oid]), DOMAIN state) = Supply

\* The output with an ID is the same one in every version: readers of
\* different branches never disagree about an output both of them have.
BranchesAgree ==
    \A s, t \in stored : \A oid \in DOMAIN s \cap DOMAIN t : s[oid] = t[oid]

\* A transaction accepted in a version is not accepted again later in the same
\* branch: versions that follow one another never hold an output together with
\* an output that consumed it.
NoOutputWithItsSpender ==
    \A state \in stored : \A oid \in DOMAIN state :
        \A i \in TxNumbers : oid \in Inputs(txs[i]) => ~HasTransaction(i, state)

-----------------------------------------------------------------------------
\* NewUpdatable: "After updated, the root changes. Suitable for chained updates
\* of the ledger state": the state of an Updatable can be read and updated.
ChainedUpdatesPossible == RootStored
==============================================================================
