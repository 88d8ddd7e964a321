------------------------------- MODULE UTXODB -------------------------------
(***************************************************************************)
(* UTXODB: the ledger state composed with the indexer.  AddTransaction     *)
(* first updates the state and then the indexer, in another database       *)
(* transaction that may fail; the state is never rolled back.  Readers     *)
(* hold a state of their own (StateReader returns a snapshot at the root   *)
(* of that moment) and resolve what they find in the indexer with it, so   *)
(* an index newer than the snapshot, or one that missed an update, meets   *)
(* an older or newer state.                                                *)
(*                                                                         *)
(* Calls to UTXODB are sequential; a snapshot may be kept across calls.    *)
(***************************************************************************)
EXTENDS Ledger

VARIABLES
    accounts,   \* indexer, account partition: pairs <<account, output ID>>
    chains,     \* indexer, chain partition: a function from chain IDs
    pending,    \* number of the transaction whose index update is due, or 0
    lost,       \* numbers of the transactions whose index update failed
    reader      \* the state some reader holds

dbVars == <<utxo, txs, accounts, chains, pending, lost, reader>>

-----------------------------------------------------------------------------
(***************************************************************************)
(* The commands that Validate makes for the indexer, for the i-th accepted *)
(* transaction.                                                            *)
(***************************************************************************)

\* indexLock: one record per account of the lock.
AccountRecords(oid, out) == {<<acc, oid>> : acc \in IndexableTags(LockOf(out))}

\* Mutant: only the main account of a deadline lock is cleaned up.
DeletedMainOnly(i) ==
    {<<IF LockOf(OutputOf(oid)).type = "deadlineLock"
       THEN NewAddressED25519(LockOf(OutputOf(oid)).main)
       ELSE LockOf(OutputOf(oid)), oid>> : oid \in Inputs(txs[i])}

DeletedRecords(i) == UNION {AccountRecords(oid, OutputOf(oid)) : oid \in Inputs(txs[i])}

\* Mutant: only the main account of a deadline lock gets a record.
AddedMainOnly(i) ==
    {<<IF LockOf(OutputOf(oid)).type = "deadlineLock"
       THEN NewAddressED25519(LockOf(OutputOf(oid)).main)
       ELSE LockOf(OutputOf(oid)), oid>> : oid \in OutputIDsOf(txs[i], i)}

AddedRecords(i) == UNION {AccountRecords(oid, OutputOf(oid)) : oid \in OutputIDsOf(txs[i], i)}

\* indexChainID looks at the blocks after the lock and stops at the first
\* chain constraint.
FirstChainBlocks(out) ==
    {b \in ConstraintIndexLock + 1 .. Len(out) - 1 :
        /\ At(out, b).type = "chain"
        /\ \A d \in ConstraintIndexLock + 1 .. b - 1 : At(out, d).type # "chain"}

\* Mutant: an origin is indexed under the zero identifier.
OriginUnderZero(oid, c) == c.id

\* The identifier under which an output is indexed; an origin has none yet.
IndexedChainID(oid, c) == IF IsOrigin(c) THEN blake2b(oid) ELSE c.id

\* Mutant: the record of a destroyed chain stays.
NoChainDeleted(i) == {}

\* Chains destroyed by the transaction: the consumed chain constraint is
\* unlocked with 0xffffff.
DeletedChains(i) ==
    UNION {{IndexedChainID(txs[i].inputs[k], At(ContextOf(i).consumed[k], b)) :
                b \in {d \in FirstChainBlocks(ContextOf(i).consumed[k]) :
                          UnlockParams(ContextOf(i), k - 1, d) = DestroyUnlockParams}} :
           k \in 1 .. Len(txs[i].inputs)}

\* Chain records written by the produced outputs, as pairs of an identifier
\* and the index of the output.
AddedChains(i) ==
    UNION {{<<IndexedChainID(NewOutputID(i, k - 1), At(txs[i].outputs[k], b)), k - 1>> :
                b \in FirstChainBlocks(txs[i].outputs[k])} :
           k \in 1 .. Len(txs[i].outputs)}

\* Commands run in order: the deletions of the consumed side first, then the
\* writes of the produced outputs; the last write of a key stays.
RunChainCommands(i) ==
    LET added == {r[1] : r \in AddedChains(i)}
    IN  [id \in (DOMAIN chains \ DeletedChains(i)) \cup added |->
            IF id \in added
            THEN NewOutputID(i, Max({r[2] : r \in {q \in AddedChains(i) : q[1] = id}}))
            ELSE chains[id]]

-----------------------------------------------------------------------------
InitUTXODB ==
    /\ InitLedgerState
    /\ accounts = {<<NewAddressED25519(GenesisAddress), GenesisOutputID>>}
    /\ chains = [id \in {} |-> GenesisOutputID]
    /\ pending = 0
    /\ lost = {}
    /\ reader = utxo

\* First half of AddTransaction: state.Update.
UpdateState(tx) ==
    /\ Update(tx)
    /\ pending' = TransactionID(tx)
    /\ UNCHANGED <<accounts, chains, lost, reader>>

\* Second half: indexer.Update writes all the commands in one batch ...
UpdateIndexer ==
    /\ pending # 0
    /\ accounts' = (accounts \ DeletedRecords(pending)) \cup AddedRecords(pending)
    /\ chains' = RunChainCommands(pending)
    /\ pending' = 0
    /\ UNCHANGED <<utxo, txs, lost, reader>>

\* ... or none of them; AddTransaction reports the error and returns.
UpdateIndexerFails ==
    /\ pending # 0
    /\ lost' = lost \cup {pending}
    /\ pending' = 0
    /\ UNCHANGED <<utxo, txs, accounts, chains, reader>>

\* StateReader takes a snapshot of the state, at any moment.
StateReader ==
    /\ reader' = utxo
    /\ UNCHANGED <<utxo, txs, accounts, chains, pending, lost>>

AddTransaction ==
    /\ pending = 0
    /\ Len(txs) < MaxTxs   \* bound
    /\ \E tx \in Submitted(utxo, txs) : UpdateState(tx)

DBNext == AddTransaction \/ UpdateIndexer \/ UpdateIndexerFails \/ StateReader

DBSpec == InitUTXODB /\ [][DBNext]_dbVars

-----------------------------------------------------------------------------
(***************************************************************************)
(* Queries of the indexer with a state reader.                             *)
(***************************************************************************)

\* Mutant: the iteration is not limited to the prefix of the account.
WholePartition(acc, state) == {r[2] : r \in {q \in accounts : q[2] \in DOMAIN state}}

\* Output IDs listed for the account, without the ones that the reader's
\* state does not have.
GetUTXOsLockedInAccount(acc, state) ==
    {r[2] : r \in {q \in accounts : q[1] = acc /\ q[2] \in DOMAIN state}}

\* The query fails without a record and if the state has no such output.
HasUTXOForChainID(id, state) == id \in DOMAIN chains /\ chains[id] \in DOMAIN state

GetUTXOForChainID(id, state) == chains[id]

-----------------------------------------------------------------------------
AllAccounts == {r[1] : r \in accounts} \cup
               UNION {IndexableTags(LockOf(OutputOf(oid))) : oid \in ProducedIDs}

\* Outputs whose index records are due or were lost with a failed update.
Unindexed ==
    UNION {Inputs(txs[i]) \cup OutputIDsOf(txs[i], i) : i \in lost \cup ({pending} \ {0})}

DBTypeOK ==
    /\ TypeOK
    /\ \A r \in accounts : IsLock(r[1]) /\ r[2] \in OutputID
    /\ \A id \in DOMAIN chains : id \in ChainID \ {ZeroHash} /\ chains[id] \in OutputID
    /\ pending \in {0} \cup TxNumbers
    /\ lost \subseteq TxNumbers
    /\ DOMAIN reader \subseteq ProducedIDs

\* The account partition lists an output exactly under the accounts of its
\* lock, exactly as long as it is unspent.  A failed index update spoils the
\* records of the outputs of that transaction, and no others.
AccountsExact ==
    \A oid \in ProducedIDs \ Unindexed : \A acc \in AllAccounts :
        <<acc, oid>> \in accounts <=>
            oid \in DOMAIN utxo /\ acc \in IndexableTags(LockOf(OutputOf(oid)))

\* Whatever is missing or stale in the index, a query returns outputs that
\* the reader's state has and that are locked in the account.
AccountReadSound ==
    \A acc \in AllAccounts : \A oid \in GetUTXOsLockedInAccount(acc, reader) :
        acc \in IndexableTags(LockOf(reader[oid]))

\* A query with an old snapshot misses only outputs that were spent since:
\* everything in the snapshot that is still unspent is returned.
AccountReadComplete ==
    \A oid \in (DOMAIN reader \cap DOMAIN utxo) \ Unindexed :
        \A acc \in IndexableTags(LockOf(reader[oid])) :
            oid \in GetUTXOsLockedInAccount(acc, reader)

\* The chain record of an identifier always leads to an output of that very
\* chain, with any snapshot, after failed updates and in forked chains too.
ChainReadSound ==
    \A id \in DOMAIN chains :
        HasUTXOForChainID(id, reader) =>
            id \in ChainIDsOf(chains[id], reader[GetUTXOForChainID(id, reader)])

\* The i-th transaction treats chains as sequences of states: no output has
\* two chain constraints and no consumed one has two successors, or one
\* although it is destroyed.
SuccessorsOf(i, k, b) ==
    {l \in 1 .. Len(txs[i].outputs) : \E c \in BlocksOf(txs[i].outputs[l]) :
        c.type = "chain" /\ c.prevOut = k - 1 /\ c.prevBlk = b}

ChainSets(out) == {b \in 0 .. Len(out) - 1 : At(out, b).type = "chain"}

LinearChains ==
    \A i \in TxNumbers :
        /\ \A l \in 1 .. Len(txs[i].outputs) : \A b, d \in ChainSets(txs[i].outputs[l]) :
               b = d /\ b > ConstraintIndexLock
        /\ \A k \in 1 .. Len(txs[i].inputs) : \A b \in ChainSets(ContextOf(i).consumed[k]) :
               \A l, m \in SuccessorsOf(i, k, b) :
                   l = m /\ UnlockParams(ContextOf(i), k - 1, b) # DestroyUnlockParams

\* As long as chains are linear and no index update failed, the chain
\* partition has a record exactly for the chains that exist, and it points to
\* the one unspent output of the chain.
ChainsExact ==
    pending = 0 /\ lost = {} /\ LinearChains =>
        /\ \A oid \in DOMAIN utxo : \A id \in ChainIDsOf(oid, utxo[oid]) :
               id \in DOMAIN chains /\ chains[id] = oid
        /\ \A id \in DOMAIN chains :
               chains[id] \in DOMAIN utxo /\ id \in ChainIDsOf(chains[id], utxo[chains[id]])
=============================================================================
