-------------------------- MODULE ConcurrentIndexer --------------------------
(***************************************************************************)
(* UTXODB with queries while Indexer.Update writes.  The queries take the  *)
(* mutex of the indexer, Update does not, so a query may come between two  *)
(* records of the batch.  The store writes the records of a batch in any   *)
(* order, one value for each key.                                          *)
(*                                                                         *)
(* AddTransaction is one call: the goroutine that updated the state goes   *)
(* on to write the index until this is done or has failed.                 *)
(***************************************************************************)
EXTENDS UTXODB

VARIABLE written   \* keys of the pending batch that are written already

concurrentVars == <<utxo, txs, accounts, chains, pending, lost, reader, written>>

\* The keys that the commands of a transaction write or delete.
AccountKeys(i) == DeletedRecords(i) \cup AddedRecords(i)

ChainKeys(i) == DeletedChains(i) \cup {r[1] : r \in AddedChains(i)}

InitConcurrent == InitUTXODB /\ written = {}

\* Both kinds of keys as they are in the store, with the byte of the partition.
Keys(i) ==
    {<<"account", r>> : r \in AccountKeys(i)} \cup {<<"chain", id>> : id \in ChainKeys(i)}

WriteAccountKey(r) ==
    /\ pending # 0
    /\ r \in AccountKeys(pending)
    /\ <<"account", r>> \notin written
    /\ accounts' = IF r \in AddedRecords(pending) THEN accounts \cup {r} ELSE accounts \ {r}
    /\ written' = written \cup {<<"account", r>>}
    /\ UNCHANGED <<utxo, txs, chains, pending, lost, reader>>

\* The chain partition after one key has the value that the commands leave.
WithKey(id, after) ==
    [x \in (DOMAIN chains \ {id}) \cup (DOMAIN after \cap {id}) |->
        IF x = id THEN after[x] ELSE chains[x]]

WriteChainKey(id) ==
    /\ pending # 0
    /\ id \in ChainKeys(pending)
    /\ <<"chain", id>> \notin written
    /\ chains' = WithKey(id, RunChainCommands(pending))
    /\ written' = written \cup {<<"chain", id>>}
    /\ UNCHANGED <<utxo, txs, accounts, pending, lost, reader>>

UpdateReturns ==
    /\ pending # 0
    /\ written = Keys(pending)
    /\ pending' = 0
    /\ written' = {}
    /\ UNCHANGED <<utxo, txs, accounts, chains, lost, reader>>

\* Fails before the first record.
UpdateReturnsError == UpdateIndexerFails /\ written = {} /\ UNCHANGED written

WriteIndex ==
    \/ \E r \in AccountKeys(pending) : WriteAccountKey(r)
    \/ \E id \in ChainKeys(pending) : WriteChainKey(id)
    \/ UpdateReturns
    \/ UpdateReturnsError

ConcurrentNext ==
    \/ (AddTransaction \/ StateReader) /\ UNCHANGED written
    \/ pending # 0 /\ WriteIndex

\* The goroutine in AddTransaction runs until the call returns.
ConcurrentSpec ==
    InitConcurrent /\ [][ConcurrentNext]_concurrentVars /\ WF_concurrentVars(pending # 0 /\ WriteIndex)

-----------------------------------------------------------------------------
\* An output of the i-th transaction is spent, or a query with the state as it
\* is now lists it under every account of its lock.
Visible(i) ==
    \A oid \in OutputIDsOf(txs[i], i) \cap DOMAIN utxo :
        \A acc \in IndexableTags(LockOf(utxo[oid])) :
            oid \in GetUTXOsLockedInAccount(acc, utxo)

\* The index catches up: once a transaction is in the state, its outputs become
\* visible, unless its index update fails; queries in between do not hinder it.
IndexCatchesUp ==
    \A i \in 1 .. MaxTxs :
        i \in TxNumbers ~> i \in lost \/ (i \in TxNumbers /\ pending # i /\ Visible(i))
==============================================================================
