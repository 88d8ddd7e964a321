---------------------------- MODULE StorageProofs ----------------------------
(***************************************************************************)
(* Proofs about the two stores.  First UTXODB and ConcurrentIndexer: what  *)
(* the index promises whatever is submitted, whichever index updates fail  *)
(* and however old the state of a reader is.  Then StateStore: the         *)
(* versions of the state, whichever commits fail and wherever the ledger   *)
(* is opened again.                                                        *)
(***************************************************************************)
EXTENDS ConcurrentIndexer, StateStore, SupplyProofs

-----------------------------------------------------------------------------
(***************************************************************************)
(* UTXODB.                                                                 *)
(***************************************************************************)

(***************************************************************************)
(* The inductive invariant.  The index update that is due is the one of    *)
(* the last transaction; a record is one of an output that was produced,   *)
(* under an account of its lock; the records of an output whose updates    *)
(* were all made are there exactly as long as it is unspent.               *)
(***************************************************************************)
PendingIsLast == pending \in {0, Len(txs)} /\ lost \subseteq TxNumbers

RecordsRight ==
    \A r \in accounts :
        \E oid \in ProducedIDs : r \in AccountRecords(oid, OutputOf(oid))

ReaderRight == \A oid \in DOMAIN reader : oid \in ProducedIDs /\ reader[oid] = OutputOf(oid)

RecordsCurrent ==
    \A oid \in ProducedIDs \ Unindexed : \A acc \in IndexableTags(LockOf(OutputOf(oid))) :
        <<acc, oid>> \in accounts <=> oid \in DOMAIN utxo

ChainRecordsRight ==
    \A id \in DOMAIN chains :
        chains[id] \in ProducedIDs /\ id \in ChainIDsOf(chains[id], OutputOf(chains[id]))

DBInv ==
    /\ IInv
    /\ HistoryValid
    /\ PendingIsLast
    /\ RecordsRight
    /\ ReaderRight
    /\ RecordsCurrent
    /\ ChainRecordsRight

-----------------------------------------------------------------------------
\* A record names its output: the records of two outputs are different.
LEMMA RecordOf ==
    ASSUME NEW oid, NEW acc, NEW id, NEW out
    PROVE  <<acc, oid>> \in AccountRecords(id, out) <=>
               oid = id /\ acc \in IndexableTags(LockOf(out))
  BY DEF AccountRecords

\* The genesis output is listed, and there is no other.
LEMMA InitDBInv == InitUTXODB => DBInv
  <1> SUFFICES ASSUME InitUTXODB PROVE DBInv
    OBVIOUS
  <1>1. IInv /\ HistoryValid
    BY InitIInv, InitHistoryValid DEF InitUTXODB, Init
  <1>2. /\ txs = <<>> /\ Len(txs) = 0 /\ TxNumbers = {}
        /\ DOMAIN utxo = {GenesisOutputID} /\ utxo[GenesisOutputID] = GenesisOutput
        /\ reader = utxo /\ pending = 0 /\ lost = {} /\ DOMAIN chains = {}
        /\ accounts = {<<NewAddressED25519(GenesisAddress), GenesisOutputID>>}
    BY DEF InitUTXODB, InitLedgerState, TxNumbers
  <1>3. ProducedIDs = {GenesisOutputID} /\ OutputOf(GenesisOutputID) = GenesisOutput
    BY <1>2 DEF ProducedIDs, OutputOf
  <1>4. LockOf(GenesisOutput) = NewAddressED25519(GenesisAddress)
    BY DEF LockOf, At, ConstraintIndexLock, GenesisOutput
  <1>5. IndexableTags(LockOf(GenesisOutput)) = {NewAddressED25519(GenesisAddress)}
    BY <1>4 DEF IndexableTags, NewAddressED25519
  <1>6. PendingIsLast /\ ReaderRight /\ ChainRecordsRight
    BY <1>2, <1>3 DEF PendingIsLast, ReaderRight, ChainRecordsRight
  <1>7. RecordsRight
    BY <1>2, <1>3, <1>5, RecordOf DEF RecordsRight
  <1>8. RecordsCurrent
    BY <1>2, <1>3, <1>5 DEF RecordsCurrent
  <1> QED
    BY <1>1, <1>6, <1>7, <1>8 DEF DBInv

\* First half of AddTransaction: the outputs the transaction touches become
\* unindexed, the others stay as they were.
LEMMA UpdateStateDBInv ==
    ASSUME DBInv, NEW tx, UpdateState(tx), pending = 0, Len(txs) < MaxTxs
    PROVE  DBInv'
  <1> DEFINE n == Len(txs) + 1
  <1>1. UpdateState(tx)
    OBVIOUS
  <1>2. /\ Update(tx) /\ Len(txs) < MaxTxs /\ pending = 0 /\ IInv
        /\ accounts' = accounts /\ chains' = chains /\ lost' = lost /\ reader' = reader
    BY DEF UpdateState, DBInv
  <1>3. IInv' /\ HistoryValid'
    BY <1>2, UpdateTypeOK, UpdateUtxoExact, UpdateSpentOnce, UpdateHistoryValid DEF DBInv, IInv
  <1>4. /\ Accepted(tx) /\ tx \in Transaction
        /\ n \in Nat /\ n # 0 /\ n \notin TxNumbers
        /\ \A i \in TxNumbers : txs'[i] = txs[i]
        /\ txs' = Append(txs, tx) /\ txs'[n] = tx
        /\ TxNumbers' = TxNumbers \cup {n}
        /\ utxo' = UpdateTrie(tx, n)
    BY <1>2, UpdateEffect DEF IInv, TypeOK
  <1>5. /\ ProducedIDs' = ProducedIDs \cup OutputIDsOf(tx, n)
        /\ \A oid \in ProducedIDs : OutputOf(oid)' = OutputOf(oid)
        /\ \A oid \in OutputIDsOf(tx, n) : oid \notin ProducedIDs
    BY <1>2, UpdateProduced
  <1>6. pending' = n
    <2>1. \A i \in 1 .. Len(txs) : txs[i] # tx
      BY <1>2, <1>4, AcceptedIsNew DEF TxNumbers
    <2> QED
      BY <1>1, <2>1 DEF UpdateState, TransactionID
  <1>7. PendingIsLast'
    <2>1. Len(txs') = n
      BY <1>2, <1>4 DEF IInv, TypeOK
    <2> QED
      BY <1>2, <1>4, <1>6, <2>1 DEF PendingIsLast, DBInv
  <1>8. RecordsRight'
    <2>1. ASSUME NEW r \in accounts
          PROVE  \E oid \in ProducedIDs' : r \in AccountRecords(oid, OutputOf(oid)')
      BY <1>5, <2>1 DEF DBInv, RecordsRight
    <2> QED
      BY <1>2, <2>1 DEF RecordsRight, AccountRecords
  <1>9. ReaderRight'
    BY <1>2, <1>5 DEF DBInv, ReaderRight
  <1>10. ChainRecordsRight'
    <2>1. ASSUME NEW id \in DOMAIN chains, NEW oid, oid = chains[id]
          PROVE  oid \in ProducedIDs' /\ id \in ChainIDsOf(oid, OutputOf(oid)')
      <3>1. oid \in ProducedIDs /\ id \in ChainIDsOf(oid, OutputOf(oid))
        BY <2>1 DEF DBInv, ChainRecordsRight
      <3> QED
        BY <1>5, <3>1
    <2> QED
      BY <1>2, <2>1 DEF ChainRecordsRight, ChainIDsOf
  <1>11. Unindexed' = UNION {Inputs(txs'[i]) \cup OutputIDsOf(txs'[i], i) : i \in lost \cup {n}}
    BY <1>2, <1>4, <1>6 DEF Unindexed, Inputs, OutputIDsOf, NewOutputID
  <1>12. lost \subseteq TxNumbers
    BY DEF DBInv, PendingIsLast
  <1>13. Unindexed' = Unindexed \cup Inputs(tx) \cup OutputIDsOf(tx, n)
    <2>1. \A i \in lost : txs'[i] = txs[i]
      BY <1>4, <1>12
    <2>2. Unindexed = UNION {Inputs(txs[i]) \cup OutputIDsOf(txs[i], i) : i \in lost}
      BY <1>2 DEF Unindexed
    <2> HIDE DEF n
    <2>3. \A i \in lost \cup {n} :
              Inputs(txs'[i]) \cup OutputIDsOf(txs'[i], i) =
                  IF i = n THEN Inputs(tx) \cup OutputIDsOf(tx, n)
                  ELSE Inputs(txs[i]) \cup OutputIDsOf(txs[i], i)
      BY <1>4, <2>1
    <2>4. n \notin lost
      BY <1>4, <1>12
    <2> QED
      BY <1>11, <2>2, <2>3, <2>4
  <1>14. RecordsCurrent'
    <2>1. ASSUME NEW oid \in ProducedIDs' \ Unindexed'
          PROVE  /\ oid \in ProducedIDs \ Unindexed
                 /\ OutputOf(oid)' = OutputOf(oid)
                 /\ oid \in DOMAIN utxo' <=> oid \in DOMAIN utxo
      BY <1>4, <1>5, <1>13, <2>1 DEF UpdateTrie
    <2>2. ASSUME NEW oid \in ProducedIDs' \ Unindexed',
                 NEW acc \in IndexableTags(LockOf(OutputOf(oid)'))
          PROVE  <<acc, oid>> \in accounts' <=> oid \in DOMAIN utxo'
      BY <1>2, <2>1, <2>2 DEF DBInv, RecordsCurrent
    <2> QED
      BY <2>2 DEF RecordsCurrent, IndexableTags, LockOf, At
  <1> QED
    BY <1>3, <1>7, <1>8, <1>9, <1>10, <1>14 DEF DBInv

LEMMA AddTransactionDBInv ==
    ASSUME DBInv, AddTransaction
    PROVE  DBInv'
  BY UpdateStateDBInv DEF AddTransaction

-----------------------------------------------------------------------------
\* What the index update of the last transaction finds: its outputs are all
\* unspent and its inputs are older outputs, spent now.
LEMMA PendingTransaction ==
    ASSUME DBInv, pending # 0
    PROVE  /\ pending \in TxNumbers
           /\ OutputIDsOf(txs[pending], pending) \subseteq ProducedIDs
           /\ OutputIDsOf(txs[pending], pending) \subseteq DOMAIN utxo
           /\ Inputs(txs[pending]) \subseteq ProducedIDs
           /\ Inputs(txs[pending]) \cap DOMAIN utxo = {}
           /\ Inputs(txs[pending]) \cap OutputIDsOf(txs[pending], pending) = {}
  <1>1. pending \in TxNumbers /\ pending = Len(txs) /\ pending \in Nat
    BY DEF DBInv, PendingIsLast, IInv, TypeOK, TxNumbers
  <1>2. OutputIDsOf(txs[pending], pending) \subseteq ProducedIDs
    BY <1>1 DEF ProducedIDs
  <1>3. ASSUME NEW i \in TxNumbers, NEW oid \in Inputs(txs[i])
        PROVE  oid \in ProducedIDs /\ oid \notin OutputIDsOf(txs[pending], pending)
    <2>1. oid \in ProducedIDs /\ oid.tx < i /\ i <= pending /\ i \in Nat
      BY <1>1, <1>3 DEF DBInv, IInv, InputsOlder, TxNumbers
    <2>2. oid.tx \in Nat
      BY <2>1, ProducedShape DEF DBInv, IInv, TypeOK
    <2>3. oid.tx # pending
      BY <1>1, <2>1, <2>2
    <2> QED
      BY <2>1, <2>3, OutputIDsShape
  <1>4. OutputIDsOf(txs[pending], pending) \cap SpentIDs = {}
    BY <1>3 DEF SpentIDs
  <1>5. Inputs(txs[pending]) \subseteq SpentIDs
    BY <1>1 DEF SpentIDs
  <1>6. DOMAIN utxo = ProducedIDs \ SpentIDs
    BY DEF DBInv, IInv, UtxoExact
  <1> QED
    BY <1>1, <1>2, <1>3, <1>4, <1>5, <1>6

\* The records that the commands of the pending transaction delete and add.
LEMMA PendingRecords ==
    ASSUME NEW oid, NEW acc \in IndexableTags(LockOf(OutputOf(oid)))
    PROVE  /\ <<acc, oid>> \in DeletedRecords(pending) <=> oid \in Inputs(txs[pending])
           /\ <<acc, oid>> \in AddedRecords(pending) <=>
                  oid \in OutputIDsOf(txs[pending], pending)
  BY RecordOf DEF DeletedRecords, AddedRecords

\* The records of the outputs the pending transaction touched become current,
\* and no other record changes.
LEMMA RecordsBecomeCurrent ==
    ASSUME DBInv, pending # 0, pending' = 0, lost' = lost, utxo' = utxo, txs' = txs,
           accounts' = (accounts \ DeletedRecords(pending)) \cup AddedRecords(pending)
    PROVE  RecordsRight' /\ RecordsCurrent'
  <1>1. /\ pending # 0 /\ pending' = 0 /\ lost' = lost /\ utxo' = utxo /\ txs' = txs
        /\ accounts' = (accounts \ DeletedRecords(pending)) \cup AddedRecords(pending)
    OBVIOUS
  <1>2. ProducedIDs' = ProducedIDs /\ \A oid : OutputOf(oid)' = OutputOf(oid)
    BY <1>1 DEF ProducedIDs, OutputOf, TxNumbers
  <1>3. RecordsRight'
    <2>1. ASSUME NEW r \in accounts'
          PROVE  \E oid \in ProducedIDs : r \in AccountRecords(oid, OutputOf(oid))
      <3>1. CASE r \in accounts
        BY <3>1 DEF DBInv, RecordsRight
      <3>2. CASE r \in AddedRecords(pending)
        BY <1>1, <3>2, PendingTransaction DEF AddedRecords
      <3> QED
        BY <1>1, <2>1, <3>1, <3>2
    <2> QED
      BY <1>2, <2>1 DEF RecordsRight, AccountRecords
  <1>4. Unindexed' = UNION {Inputs(txs[i]) \cup OutputIDsOf(txs[i], i) : i \in lost}
    BY <1>1 DEF Unindexed
  <1>5. Unindexed = Unindexed' \cup Inputs(txs[pending]) \cup OutputIDsOf(txs[pending], pending)
    <2>1. {pending} \ {0} = {pending}
      BY <1>1
    <2> QED
      BY <1>4, <2>1 DEF Unindexed
  <1>6. ASSUME NEW oid \in ProducedIDs \ Unindexed',
               NEW acc \in IndexableTags(LockOf(OutputOf(oid)))
        PROVE  <<acc, oid>> \in accounts' <=> oid \in DOMAIN utxo
    <2>1. CASE oid \in OutputIDsOf(txs[pending], pending)
      BY <1>1, <2>1, PendingTransaction, PendingRecords
    <2>2. CASE oid \in Inputs(txs[pending])
      BY <1>1, <2>2, PendingTransaction, PendingRecords
    <2>3. CASE oid \in ProducedIDs \ Unindexed
      <3>1. oid \notin Inputs(txs[pending]) /\ oid \notin OutputIDsOf(txs[pending], pending)
        BY <1>5, <2>3
      <3>2. <<acc, oid>> \in accounts' <=> <<acc, oid>> \in accounts
        BY <1>1, <3>1, PendingRecords
      <3> QED
        BY <2>3, <3>2 DEF DBInv, RecordsCurrent
    <2> QED
      BY <1>5, <2>1, <2>2, <2>3
  <1> QED
    BY <1>1, <1>2, <1>3, <1>6 DEF RecordsCurrent

-----------------------------------------------------------------------------
\* A nonempty set of natural numbers with a bound has a maximum.
LEMMA MaxIsElement ==
    ASSUME NEW m \in Nat, NEW T, T \subseteq 0 .. m, T # {}
    PROVE  Max(T) \in T
  <1> DEFINE R == {y \in 0 .. m : m - y \in T}
  <1>1. R \subseteq Nat
    OBVIOUS
  <1>2. PICK x \in T : TRUE
    OBVIOUS
  <1>3. m - x \in R
    BY <1>2
  <1>4. PICK y \in R : \A z \in R : ~ (z < y)
    BY <1>1, <1>3, LeastNumber
  <1>5. m - y \in T /\ y \in 0 .. m
    BY <1>4
  <1>6. ASSUME NEW t \in T
        PROVE  m - y >= t
    <2>1. m - t \in 0 .. m /\ m - (m - t) = t /\ t \in 0 .. m
      BY <1>6
    <2>2. m - t \in R
      BY <2>1
    <2>3. ~ (m - t < y)
      BY <1>4, <2>2
    <2> QED
      BY <1>5, <2>1, <2>3
  <1>7. \E z \in T : \A t \in T : z >= t
    BY <1>5, <1>6
  <1> QED
    BY <1>7 DEF Max

\* A chain record that the produced outputs write belongs to an output with
\* that identifier (indexChainID).
LEMMA AddedChainRight ==
    ASSUME IInv, HistoryValid, NEW i \in TxNumbers, NEW r \in AddedChains(i)
    PROVE  /\ r[2] \in 0 .. MaxByte
           /\ NewOutputID(i, r[2]) \in ProducedIDs
           /\ r[1] \in ChainIDsOf(NewOutputID(i, r[2]), OutputOf(NewOutputID(i, r[2])))
  <1>1. PICK k \in 1 .. Len(txs[i].outputs) : \E b \in FirstChainBlocks(txs[i].outputs[k]) :
            r = <<IndexedChainID(NewOutputID(i, k - 1), At(txs[i].outputs[k], b)), k - 1>>
    BY DEF AddedChains
  <1>2. PICK b \in FirstChainBlocks(txs[i].outputs[k]) :
            r = <<IndexedChainID(NewOutputID(i, k - 1), At(txs[i].outputs[k], b)), k - 1>>
    BY <1>1
  <1> DEFINE oid == NewOutputID(i, k - 1)
             c == At(txs[i].outputs[k], b)
  <1>3. txs[i] \in Transaction /\ i \in Nat /\ i > 0
    BY DEF IInv, TypeOK, TxNumbers
  <1>4. /\ txs[i].outputs \in Seq(Output) /\ Len(txs[i].outputs) \in Nat
        /\ Len(txs[i].outputs) <= MaxByte + 1
    BY <1>3, TransactionShape
  <1>5. r[2] = k - 1 /\ r[1] = IndexedChainID(oid, c)
    BY <1>2
  <1>6. k - 1 \in 0 .. MaxByte
    BY <1>4, MaxByteAssumption
  <1>7. oid \in ProducedIDs
    <2>1. oid \in OutputIDsOf(txs[i], i)
      BY DEF OutputIDsOf
    <2> QED
      BY <2>1 DEF ProducedIDs
  <1>8. OutputOf(oid) = txs[i].outputs[k]
    <2>1. oid.tx = i /\ oid.idx = k - 1 /\ oid # GenesisOutputID
      BY <1>3 DEF NewOutputID, GenesisOutputID
    <2> QED
      BY <1>4, <2>1 DEF OutputOf, At
  <1>9. c \in BlocksOf(txs[i].outputs[k]) /\ c.type = "chain"
    <2>1. txs[i].outputs[k] \in Output
      BY <1>4
    <2>2. Len(txs[i].outputs[k]) \in Nat
      BY <2>1 DEF Output, Array
    <2>3. b + 1 \in 1 .. Len(txs[i].outputs[k])
      BY <1>2, <2>2 DEF FirstChainBlocks, ConstraintIndexLock
    <2> QED
      BY <1>2, <2>3 DEF BlocksOf, At, FirstChainBlocks
  <1>10. IndexedChainID(oid, c) = IF c.id = ZeroHash THEN blake2b(oid) ELSE c.id
    <2>1. PICK d \in 1 .. Len(txs[i].outputs[k]) : c = txs[i].outputs[k][d]
      BY <1>9 DEF BlocksOf
    <2> DEFINE p == Path("produced", k - 1, d - 1)
    <2>2. EvalConstraint(ContextOf(i), p, c)
      BY <2>1, ProducedValid
    <2>3. p.side = "produced"
      BY DEF Path
    <2> HIDE DEF p, c
    <2>4. EvalChain(ContextOf(i), p, c)
      BY <1>9, <2>2 DEF EvalConstraint
    <2>5. c.id = ZeroHash => c = NewChainOrigin
      BY <2>3, <2>4 DEF EvalChain
    <2>6. c = NewChainOrigin => c.id = ZeroHash
      BY DEF NewChainOrigin, NewChain
    <2> QED
      BY <2>5, <2>6 DEF IndexedChainID, IsOrigin
  <1> QED
    BY <1>5, <1>6, <1>7, <1>8, <1>9, <1>10 DEF ChainIDsOf

\* The commands keep the records right: the last write of a key wins.
LEMMA CommandsKeepChains ==
    ASSUME DBInv, pending # 0, NEW id \in DOMAIN RunChainCommands(pending),
           NEW oid, oid = RunChainCommands(pending)[id]
    PROVE  oid \in ProducedIDs /\ id \in ChainIDsOf(oid, OutputOf(oid))
  <1>1. pending \in TxNumbers /\ IInv /\ HistoryValid
    BY PendingTransaction DEF DBInv
  <1> DEFINE added == {r[1] : r \in AddedChains(pending)}
             writes == {r[2] : r \in {q \in AddedChains(pending) : q[1] = id}}
  <1>2. /\ id \in DOMAIN chains \cup added
        /\ oid = IF id \in added THEN NewOutputID(pending, Max(writes)) ELSE chains[id]
    BY DEF RunChainCommands
  <1>3. CASE id \notin added
    <2>1. id \in DOMAIN chains /\ oid = chains[id]
      BY <1>2, <1>3
    <2> QED
      BY <2>1 DEF DBInv, ChainRecordsRight
  <1>4. CASE id \in added
    <2>1. writes # {} /\ writes \subseteq 0 .. MaxByte
      BY <1>1, <1>4, AddedChainRight
    <2>2. Max(writes) \in writes
      BY <2>1, MaxIsElement, MaxByteAssumption
    <2>3. PICK r \in AddedChains(pending) : r[1] = id /\ r[2] = Max(writes)
      BY <2>2
    <2>4. oid = NewOutputID(pending, r[2])
      BY <1>2, <1>4, <2>3
    <2> QED
      BY <1>1, <2>3, <2>4, AddedChainRight
  <1> QED
    BY <1>3, <1>4

\* The batch as a whole keeps the chain records right.
LEMMA UpdateIndexerChains ==
    ASSUME DBInv, UpdateIndexer
    PROVE  ChainRecordsRight'
  <1>1. /\ pending # 0 /\ utxo' = utxo /\ txs' = txs
        /\ chains' = RunChainCommands(pending)
    BY DEF UpdateIndexer
  <1>2. ProducedIDs' = ProducedIDs /\ \A oid : OutputOf(oid)' = OutputOf(oid)
    BY <1>1 DEF ProducedIDs, OutputOf, TxNumbers
  <1>3. ASSUME NEW id \in DOMAIN chains', NEW oid, oid = chains'[id]
        PROVE  oid \in ProducedIDs /\ id \in ChainIDsOf(oid, OutputOf(oid))
    BY <1>1, <1>3, CommandsKeepChains
  <1> QED
    BY <1>1, <1>2, <1>3 DEF ChainRecordsRight, ChainIDsOf

-----------------------------------------------------------------------------
\* A step that leaves the ledger alone keeps what is said of the ledger.
LEMMA LedgerUnchanged ==
    ASSUME IInv, HistoryValid, utxo' = utxo, txs' = txs
    PROVE  /\ IInv' /\ HistoryValid'
           /\ ProducedIDs' = ProducedIDs /\ TxNumbers' = TxNumbers
           /\ \A oid : OutputOf(oid)' = OutputOf(oid)
  <1>1. IInv' /\ HistoryValid'
    BY NextIInv, NextHistoryValid DEF vars
  <1> QED
    BY <1>1 DEF ProducedIDs, OutputOf, TxNumbers

\* Every step of UTXODB keeps the invariant.
LEMMA NextDBInv == DBInv /\ [DBNext]_dbVars => DBInv'
  <1> SUFFICES ASSUME DBInv, [DBNext]_dbVars PROVE DBInv'
    OBVIOUS
  <1>1. CASE AddTransaction
    BY <1>1, AddTransactionDBInv
  <1>2. CASE UpdateIndexer
    <2>1. utxo' = utxo /\ txs' = txs /\ pending' = 0 /\ lost' = lost /\ reader' = reader
      BY <1>2 DEF UpdateIndexer
    <2>2. IInv' /\ HistoryValid' /\ ReaderRight' /\ PendingIsLast'
      BY <2>1, LedgerUnchanged DEF DBInv, ReaderRight, PendingIsLast
    <2>3. RecordsRight' /\ RecordsCurrent'
      BY <1>2, <2>1, RecordsBecomeCurrent DEF UpdateIndexer
    <2> QED
      BY <1>2, <2>2, <2>3, UpdateIndexerChains DEF DBInv
  <1>3. ASSUME UNCHANGED <<utxo, txs, accounts, chains>>,
               \A oid \in DOMAIN reader' : oid \in ProducedIDs /\ reader'[oid] = OutputOf(oid),
               pending' \in {0, Len(txs)}, lost' \subseteq TxNumbers,
               Unindexed' = Unindexed
        PROVE  DBInv'
    <2>1. /\ IInv' /\ HistoryValid'
          /\ ProducedIDs' = ProducedIDs /\ TxNumbers' = TxNumbers
          /\ \A oid : OutputOf(oid)' = OutputOf(oid)
      BY <1>3, LedgerUnchanged DEF DBInv
    <2>2. PendingIsLast' /\ ReaderRight'
      BY <1>3, <2>1 DEF PendingIsLast, ReaderRight
    <2>3. RecordsRight'
      BY <1>3, <2>1 DEF DBInv, RecordsRight, AccountRecords
    <2>4. RecordsCurrent'
      BY <1>3, <2>1 DEF DBInv, RecordsCurrent
    <2>5. ChainRecordsRight'
      BY <1>3, <2>1 DEF DBInv, ChainRecordsRight, ChainIDsOf
    <2> QED
      BY <2>1, <2>2, <2>3, <2>4, <2>5 DEF DBInv
  <1>4. CASE UpdateIndexerFails
    <2>1. /\ pending # 0 /\ lost' = lost \cup {pending} /\ pending' = 0
          /\ utxo' = utxo /\ txs' = txs /\ UNCHANGED <<accounts, chains, reader>>
      BY <1>4 DEF UpdateIndexerFails
    <2>2. lost' \cup ({pending'} \ {0}) = lost \cup ({pending} \ {0})
      BY <2>1
    <2>3. Unindexed' = Unindexed
      BY <2>1, <2>2 DEF Unindexed
    <2>4. lost' \subseteq TxNumbers
      BY <2>1, PendingTransaction DEF DBInv, PendingIsLast
    <2> QED
      BY <1>3, <2>1, <2>3, <2>4 DEF DBInv, ReaderRight
  <1>5. CASE StateReader
    <2>1. reader' = utxo /\ UNCHANGED <<utxo, txs, accounts, chains, pending, lost>>
      BY <1>5 DEF StateReader
    <2>2. Unindexed' = Unindexed
      BY <2>1 DEF Unindexed
    <2>3. \A oid \in DOMAIN utxo : oid \in ProducedIDs /\ utxo[oid] = OutputOf(oid)
      BY DEF DBInv, IInv, UtxoExact
    <2> QED
      BY <1>3, <2>1, <2>2, <2>3 DEF DBInv, PendingIsLast
  <1>6. CASE UNCHANGED dbVars
    <2>1. UNCHANGED <<utxo, txs, accounts, chains, pending, lost, reader>>
      BY <1>6 DEF dbVars
    <2>2. Unindexed' = Unindexed
      BY <2>1 DEF Unindexed
    <2> QED
      BY <1>3, <2>1, <2>2 DEF DBInv, PendingIsLast, ReaderRight
  <1> QED
    BY <1>1, <1>2, <1>4, <1>5, <1>6 DEF DBNext

\* The invariant holds in every state of UTXODB.
THEOREM IndexInductive == DBSpec => []DBInv
  BY InitDBInv, NextDBInv, PTL DEF DBSpec

\* The locks of what was produced parse, so an account is a lock as well.
LEMMA AccountIsLock ==
    ASSUME IInv, HistoryValid, NEW oid \in ProducedIDs,
           NEW acc \in IndexableTags(LockOf(OutputOf(oid)))
    PROVE  IsLock(acc)
  <1>1. IsLock(LockOf(OutputOf(oid)))
    <2>1. CASE oid = GenesisOutputID
      <3>1. LockOf(OutputOf(oid)) = NewAddressED25519(GenesisAddress)
        BY <2>1 DEF OutputOf, LockOf, At, ConstraintIndexLock, GenesisOutput
      <3> QED
        BY <3>1 DEF IsLock, LockNames, NewAddressED25519
    <2>2. CASE oid # GenesisOutputID
      <3>1. TypeOK
        BY DEF IInv
      <3>2. oid.tx \in TxNumbers
        BY <2>2, <3>1, ProducedShape
      <3>3. PICK k \in 1 .. Len(txs[oid.tx].outputs) : oid = [tx |-> oid.tx, idx |-> k - 1]
        BY <2>2, <3>1, ProducedShape
      <3>4. Len(txs[oid.tx].outputs) \in Nat
        BY <3>1, <3>2, TransactionShape DEF TypeOK, TxNumbers
      <3>5. OutputOf(oid) = txs[oid.tx].outputs[k]
        <4>1. oid.idx = k - 1
          BY <3>3
        <4> QED
          BY <2>2, <3>4, <4>1 DEF OutputOf, At
      <3>6. OutputParses(txs[oid.tx].outputs[k])
        BY <3>2, ProducedValid
      <3> QED
        BY <3>5, <3>6 DEF OutputParses
    <2> QED
      BY <2>1, <2>2
  <1>2. acc = LockOf(OutputOf(oid)) \/ acc.type = "addressED25519"
    <2>1. CASE LockOf(OutputOf(oid)).type = "deadlineLock"
      BY <2>1 DEF IndexableTags, NewAddressED25519
    <2>2. CASE LockOf(OutputOf(oid)).type # "deadlineLock"
      BY <2>2 DEF IndexableTags
    <2> QED
      BY <2>1, <2>2
  <1> QED
    BY <1>1, <1>2 DEF IsLock, LockNames

\* An output is part of a chain under an identifier that is not zero.
LEMMA ChainIDTyped ==
    ASSUME TypeOK, NEW oid \in ProducedIDs, NEW id \in ChainIDsOf(oid, OutputOf(oid))
    PROVE  oid \in OutputID /\ id \in ChainID \ {ZeroHash}
  <1>1. oid \in OutputID
    BY ProducedTyped
  <1>2. PICK c \in BlocksOf(OutputOf(oid)) :
            c.type = "chain" /\ id = IF c.id = ZeroHash THEN blake2b(oid) ELSE c.id
    BY DEF ChainIDsOf
  <1>3. c \in Block
    BY OutputTyped DEF BlocksOf, Output, Array
  <1>4. c.id \in ChainID
    BY <1>2, <1>3 DEF Block, BasicBlock
  <1>5. blake2b(oid) \in ChainID /\ blake2b(oid) # ZeroHash
    BY <1>1 DEF blake2b, ZeroHash, ChainID
  <1> QED
    BY <1>1, <1>2, <1>4, <1>5

\* Type correctness of UTXODB: the accounts in the index are locks that parse,
\* no chain record has the zero identifier, and a snapshot holds only outputs
\* that were produced.
THEOREM IndexTypeCorrect == DBSpec => []DBTypeOK
  <1>1. DBInv => DBTypeOK
    <2> SUFFICES ASSUME DBInv PROVE DBTypeOK
      OBVIOUS
    <2>1. TypeOK /\ IInv /\ HistoryValid
      BY DEF DBInv, IInv
    <2>2. ASSUME NEW r \in accounts
          PROVE  IsLock(r[1]) /\ r[2] \in OutputID
      <3>1. PICK oid \in ProducedIDs : r \in AccountRecords(oid, OutputOf(oid))
        BY DEF DBInv, RecordsRight
      <3>2. r[1] \in IndexableTags(LockOf(OutputOf(oid))) /\ r[2] = oid
        BY <3>1 DEF AccountRecords
      <3> QED
        BY <2>1, <3>2, AccountIsLock, ProducedTyped
    <2>3. ASSUME NEW id \in DOMAIN chains
          PROVE  id \in ChainID \ {ZeroHash} /\ chains[id] \in OutputID
      BY <2>1, ChainIDTyped DEF DBInv, ChainRecordsRight
    <2>4. pending \in {0} \cup TxNumbers
      BY PendingTransaction
    <2> QED
      BY <2>1, <2>2, <2>3, <2>4 DEF DBTypeOK, DBInv, PendingIsLast, ReaderRight
  <1> QED
    BY <1>1, IndexInductive, PTL

\* The account partition is exact, except for the outputs of transactions
\* whose index update is due or has failed (indexLock, AddTransaction).
THEOREM AccountsAreExact == DBSpec => []AccountsExact
  <1>1. DBInv => AccountsExact
    <2> SUFFICES ASSUME DBInv, NEW oid \in ProducedIDs \ Unindexed, NEW acc
                 PROVE  <<acc, oid>> \in accounts <=>
                            oid \in DOMAIN utxo /\ acc \in IndexableTags(LockOf(OutputOf(oid)))
      BY DEF AccountsExact
    <2>1. <<acc, oid>> \in accounts => acc \in IndexableTags(LockOf(OutputOf(oid)))
      BY RecordOf DEF DBInv, RecordsRight
    <2> QED
      BY <2>1 DEF DBInv, RecordsCurrent
  <1> QED
    BY <1>1, IndexInductive, PTL

\* Every account record is one of an output with the account in its lock.
LEMMA SoundFromInvariant == DBInv => AccountReadSound
  <1> SUFFICES ASSUME DBInv, NEW acc, NEW oid \in GetUTXOsLockedInAccount(acc, reader)
               PROVE  acc \in IndexableTags(LockOf(reader[oid]))
    BY DEF AccountReadSound
  <1>1. PICK r \in accounts : r[1] = acc /\ r[2] = oid /\ oid \in DOMAIN reader
    BY DEF GetUTXOsLockedInAccount
  <1>2. PICK id \in ProducedIDs : r \in AccountRecords(id, OutputOf(id))
    BY <1>1 DEF DBInv, RecordsRight
  <1>3. id = oid /\ acc \in IndexableTags(LockOf(OutputOf(oid)))
    BY <1>1, <1>2 DEF AccountRecords
  <1>4. reader[oid] = OutputOf(oid)
    BY <1>1 DEF DBInv, ReaderRight
  <1> QED
    BY <1>3, <1>4

\* A query returns only outputs that are locked in the account, whatever is
\* stale or missing in the index (GetUTXOsLockedInAccount).
THEOREM AccountReadIsSound == DBSpec => []AccountReadSound
  BY SoundFromInvariant, IndexInductive, PTL

\* What a snapshot and the state both have is listed.
LEMMA CompleteFromInvariant == DBInv => AccountReadComplete
  <1> SUFFICES ASSUME DBInv, NEW oid \in (DOMAIN reader \cap DOMAIN utxo) \ Unindexed,
                      NEW acc \in IndexableTags(LockOf(reader[oid]))
               PROVE  oid \in GetUTXOsLockedInAccount(acc, reader)
    BY DEF AccountReadComplete
  <1>1. oid \in ProducedIDs /\ reader[oid] = OutputOf(oid)
    BY DEF DBInv, ReaderRight
  <1>2. <<acc, oid>> \in accounts
    BY <1>1 DEF DBInv, RecordsCurrent
  <1> QED
    BY <1>2 DEF GetUTXOsLockedInAccount

\* A query with an old snapshot misses nothing that is still unspent.
THEOREM AccountReadIsComplete == DBSpec => []AccountReadComplete
  BY CompleteFromInvariant, IndexInductive, PTL

\* Every chain record is one of an output of the chain.
LEMMA ChainFromInvariant == DBInv => ChainReadSound
  <1> SUFFICES ASSUME DBInv, NEW id \in DOMAIN chains, HasUTXOForChainID(id, reader)
               PROVE  id \in ChainIDsOf(chains[id], reader[GetUTXOForChainID(id, reader)])
    BY DEF ChainReadSound
  <1>1. reader[chains[id]] = OutputOf(chains[id])
    BY DEF DBInv, ReaderRight, HasUTXOForChainID
  <1>2. id \in ChainIDsOf(chains[id], OutputOf(chains[id]))
    BY DEF DBInv, ChainRecordsRight
  <1> QED
    BY <1>1, <1>2 DEF GetUTXOForChainID

\* A chain record leads to an output of that very chain, with any snapshot and
\* after any failed update (GetUTXOForChainID).
THEOREM ChainReadIsSound == DBSpec => []ChainReadSound
  BY ChainFromInvariant, IndexInductive, PTL

-----------------------------------------------------------------------------
(***************************************************************************)
(* The chain partition is exact as long as chains are linear and no index  *)
(* update was lost.  While an update is due, the partition is still exact  *)
(* for the outputs that were unspent before the last transaction.          *)
(***************************************************************************)
IndexedIDs ==
    IF pending = 0 THEN DOMAIN utxo
    ELSE (DOMAIN utxo \ OutputIDsOf(txs[pending], pending)) \cup Inputs(txs[pending])

ChainsCurrent ==
    lost = {} /\ LinearChains =>
        /\ \A oid \in IndexedIDs : \A id \in ChainIDsOf(oid, OutputOf(oid)) :
               id \in DOMAIN chains /\ chains[id] = oid
        /\ \A id \in DOMAIN chains : chains[id] \in IndexedIDs

ChainIndexInv == DBInv /\ ChainsCurrent

\* The chain constraints of what was produced, with the position of each.
LEMMA ChainBlock ==
    ASSUME IInv, HistoryValid, NEW oid \in ProducedIDs, NEW id \in ChainIDsOf(oid, OutputOf(oid))
    PROVE  /\ oid # GenesisOutputID /\ oid.tx \in TxNumbers
           /\ \E k \in 1 .. Len(txs[oid.tx].outputs) :
                  oid = NewOutputID(oid.tx, k - 1) /\ OutputOf(oid) = txs[oid.tx].outputs[k]
           /\ \E b \in ChainSets(OutputOf(oid)) :
                  /\ b \in Nat /\ b + 1 \in 1 .. Len(OutputOf(oid))
                  /\ At(OutputOf(oid), b) \in BlocksOf(OutputOf(oid))
                  /\ id = IndexedChainID(oid, At(OutputOf(oid), b))
                  /\ id = IF At(OutputOf(oid), b).id = ZeroHash THEN blake2b(oid)
                          ELSE At(OutputOf(oid), b).id
  <1>1. PICK c \in BlocksOf(OutputOf(oid)) :
            c.type = "chain" /\ id = IF c.id = ZeroHash THEN blake2b(oid) ELSE c.id
    BY DEF ChainIDsOf
  <1>2. PICK d \in 1 .. Len(OutputOf(oid)) : c = OutputOf(oid)[d]
    BY DEF BlocksOf
  <1>3. oid # GenesisOutputID
    <2> SUFFICES ASSUME oid = GenesisOutputID PROVE FALSE
      OBVIOUS
    <2>1. OutputOf(oid) = GenesisOutput /\ d \in {1, 2, 3}
      BY <1>2 DEF OutputOf, GenesisOutput
    <2> QED
      BY <1>1, <1>2, <2>1 DEF GenesisOutput, NewAmount, NewTimestamp, NewAddressED25519
  <1>4. TypeOK /\ OutputOf(oid) \in Output /\ Len(OutputOf(oid)) \in Nat
    BY OutputTyped DEF IInv
  <1>5. oid.tx \in TxNumbers
    BY <1>3, <1>4, ProducedShape
  <1>6. PICK k \in 1 .. Len(txs[oid.tx].outputs) : oid = [tx |-> oid.tx, idx |-> k - 1]
    BY <1>3, <1>4, ProducedShape
  <1>7. OutputOf(oid) = txs[oid.tx].outputs[k]
    <2>1. oid.idx = k - 1
      BY <1>6
    <2>2. Len(txs[oid.tx].outputs) \in Nat
      BY <1>4, <1>5, TransactionShape DEF TypeOK, TxNumbers
    <2> QED
      BY <1>3, <2>1, <2>2 DEF OutputOf, At
  <1>8. oid = NewOutputID(oid.tx, k - 1)
    BY <1>6 DEF NewOutputID
  <1>9. PICK b \in Nat : b + 1 = d /\ b \in 0 .. Len(OutputOf(oid)) - 1
    BY <1>4
  <1>10. At(OutputOf(oid), b) = c
    BY <1>2, <1>9 DEF At
  <1>11. c = NewChainOrigin <=> c.id = ZeroHash
    <2> DEFINE p == Path("produced", oid.idx, d - 1)
    <2>1. EvalConstraint(ContextOf(oid.tx), p, c)
      BY <1>2, <1>3, ProducedBlockEvaluated
    <2>2. p.side = "produced"
      BY DEF Path
    <2> HIDE DEF p
    <2>3. EvalChain(ContextOf(oid.tx), p, c)
      BY <1>1, <2>1 DEF EvalConstraint
    <2>4. c.id = ZeroHash => c = NewChainOrigin
      BY <2>2, <2>3 DEF EvalChain
    <2>5. c = NewChainOrigin => c.id = ZeroHash
      BY DEF NewChainOrigin, NewChain
    <2> QED
      BY <2>4, <2>5
  <1>12. id = IndexedChainID(oid, c)
    BY <1>1, <1>11 DEF IndexedChainID, IsOrigin
  <1>13. b \in ChainSets(OutputOf(oid))
    BY <1>1, <1>9, <1>10 DEF ChainSets
  <1> QED
    BY <1>1, <1>2, <1>3, <1>5, <1>7, <1>8, <1>9, <1>10, <1>12, <1>13

\* Where chains are linear, an output has one chain constraint, and that is
\* the one the indexer finds.
LEMMA OneChainBlock ==
    ASSUME IInv, HistoryValid, LinearChains, NEW oid \in ProducedIDs,
           NEW id \in ChainIDsOf(oid, OutputOf(oid))
    PROVE  /\ ChainIDsOf(oid, OutputOf(oid)) = {id}
           /\ \A b, d \in ChainSets(OutputOf(oid)) : b = d
           /\ \A b \in ChainSets(OutputOf(oid)) :
                  /\ b \in FirstChainBlocks(OutputOf(oid))
                  /\ id = IndexedChainID(oid, At(OutputOf(oid), b))
  <1>1. /\ oid.tx \in TxNumbers
        /\ \E k \in 1 .. Len(txs[oid.tx].outputs) :
               oid = NewOutputID(oid.tx, k - 1) /\ OutputOf(oid) = txs[oid.tx].outputs[k]
    BY ChainBlock
  <1>2. \A b, d \in ChainSets(OutputOf(oid)) : b = d /\ b > ConstraintIndexLock
    BY <1>1 DEF LinearChains
  <1>3. \A x \in ChainIDsOf(oid, OutputOf(oid)) : \A b \in ChainSets(OutputOf(oid)) :
            x = IndexedChainID(oid, At(OutputOf(oid), b))
    BY <1>2, ChainBlock
  <1>4. PICK b \in ChainSets(OutputOf(oid)) : id = IndexedChainID(oid, At(OutputOf(oid), b))
    BY ChainBlock
  <1>5. ASSUME NEW d \in ChainSets(OutputOf(oid))
        PROVE  d \in FirstChainBlocks(OutputOf(oid))
    <2>1. Len(OutputOf(oid)) \in Nat
      BY OutputTyped DEF IInv
    <2>2. d \in 0 .. Len(OutputOf(oid)) - 1 /\ At(OutputOf(oid), d).type = "chain" /\ d > 2
      BY <1>2 DEF ChainSets, ConstraintIndexLock
    <2>3. ASSUME NEW e \in 3 .. d - 1
          PROVE  At(OutputOf(oid), e).type # "chain"
      <3>1. e \in 0 .. Len(OutputOf(oid)) - 1 /\ e # d
        BY <2>1, <2>2
      <3> QED
        BY <1>2, <3>1 DEF ChainSets
    <2> QED
      BY <2>1, <2>2, <2>3 DEF FirstChainBlocks, ConstraintIndexLock
  <1> QED
    BY <1>2, <1>3, <1>4, <1>5

\* The records that a transaction writes: every chain among its outputs.
LEMMA AddedChainsComplete ==
    ASSUME IInv, HistoryValid, LinearChains, NEW i \in TxNumbers,
           NEW k \in 1 .. Len(txs[i].outputs), NEW oid, oid = NewOutputID(i, k - 1),
           oid \in ProducedIDs, OutputOf(oid) = txs[i].outputs[k],
           NEW id \in ChainIDsOf(oid, OutputOf(oid))
    PROVE  <<id, k - 1>> \in AddedChains(i)
  <1>1. PICK b \in ChainSets(OutputOf(oid)) : TRUE
    BY ChainBlock
  <1>2. b \in FirstChainBlocks(OutputOf(oid)) /\ id = IndexedChainID(oid, At(OutputOf(oid), b))
    BY OneChainBlock
  <1>3. b \in FirstChainBlocks(txs[i].outputs[k])
    BY <1>2
  <1>4. <<IndexedChainID(NewOutputID(i, k - 1), At(txs[i].outputs[k], b)), k - 1>> \in AddedChains(i)
    <2> DEFINE S == {<<IndexedChainID(NewOutputID(i, k - 1), At(txs[i].outputs[k], d)), k - 1>> :
                         d \in FirstChainBlocks(txs[i].outputs[k])}
    <2>1. S \subseteq AddedChains(i)
      BY Zenon DEF AddedChains
    <2>2. <<IndexedChainID(NewOutputID(i, k - 1), At(txs[i].outputs[k], b)), k - 1>> \in S
      BY <1>3
    <2> QED
      BY <2>1, <2>2
  <1> QED
    BY <1>2, <1>4

\* An output of the i-th transaction, by its position.
LEMMA OutputAt ==
    ASSUME IInv, NEW i \in TxNumbers, NEW k \in 1 .. Len(txs[i].outputs),
           NEW oid, oid = NewOutputID(i, k - 1)
    PROVE  /\ oid \in ProducedIDs /\ oid \in OutputIDsOf(txs[i], i) /\ oid.tx = i
           /\ OutputOf(oid) = txs[i].outputs[k] /\ k \in Nat
  <1>1. txs[i] \in Transaction /\ i \in Nat /\ i > 0
    BY DEF IInv, TypeOK, TxNumbers
  <1>2. Len(txs[i].outputs) \in Nat
    BY <1>1, TransactionShape
  <1>3. oid \in OutputIDsOf(txs[i], i)
    BY DEF OutputIDsOf
  <1>4. oid \in ProducedIDs
    BY <1>3 DEF ProducedIDs
  <1>5. oid.tx = i /\ oid.idx = k - 1 /\ oid # GenesisOutputID
    BY <1>1 DEF NewOutputID, GenesisOutputID
  <1>6. OutputOf(oid) = txs[i].outputs[k]
    BY <1>2, <1>5 DEF OutputOf, At
  <1> QED
    BY <1>2, <1>3, <1>4, <1>5, <1>6

\* The identifier of a chain is that of an output that is not newer than the
\* output that has it, and older unless the output is the origin itself.
LEMMA ChainIDIsOlder ==
    ASSUME IInv, HistoryValid, NEW oid \in ProducedIDs, NEW id \in ChainIDsOf(oid, OutputOf(oid)),
           NEW other \in ProducedIDs, id = blake2b(other)
    PROVE  other = oid \/ other.tx < oid.tx
  <1>1. /\ oid.tx \in TxNumbers
        /\ \E k \in 1 .. Len(txs[oid.tx].outputs) : OutputOf(oid) = txs[oid.tx].outputs[k]
    BY ChainBlock
  <1>2. PICK c \in BlocksOf(OutputOf(oid)) :
            c.type = "chain" /\ id = IF c.id = ZeroHash THEN blake2b(oid) ELSE c.id
    BY DEF ChainIDsOf
  <1>3. CASE c.id = ZeroHash
    BY <1>2, <1>3 DEF blake2b
  <1>4. CASE c.id # ZeroHash
    <2>1. HasOrigin(c.id, oid.tx)
      BY <1>1, <1>2, <1>4, ProvenanceAlways DEF Provenance
    <2>2. PICK origin \in ProducedIDs : c.id = blake2b(origin) /\ origin.tx < oid.tx
      BY <2>1 DEF HasOrigin
    <2>3. origin = other
      BY <1>2, <1>4, <2>2 DEF blake2b
    <2> QED
      BY <2>2, <2>3
  <1> QED
    BY <1>3, <1>4

\* A produced chain is an origin or has its predecessor among the inputs.
LEMMA ChainComesFrom ==
    ASSUME IInv, HistoryValid, NEW i \in TxNumbers, NEW k \in 1 .. Len(txs[i].outputs),
           NEW oid, oid = NewOutputID(i, k - 1), NEW id \in ChainIDsOf(oid, OutputOf(oid))
    PROVE  \/ id = blake2b(oid)
           \/ \E m \in 1 .. Len(txs[i].inputs) :
                  /\ id \in ChainIDsOf(txs[i].inputs[m], OutputOf(txs[i].inputs[m]))
                  /\ \E b \in ChainSets(OutputOf(txs[i].inputs[m])) : k \in SuccessorsOf(i, m, b)
  <1>1. OutputOf(oid) = txs[i].outputs[k]
    BY OutputAt
  <1>2. PICK c \in BlocksOf(txs[i].outputs[k]) :
            c.type = "chain" /\ id = IF c.id = ZeroHash THEN blake2b(oid) ELSE c.id
    BY <1>1 DEF ChainIDsOf
  <1>3. PICK d \in 1 .. Len(txs[i].outputs[k]) : c = txs[i].outputs[k][d]
    BY DEF BlocksOf
  <1>4. CASE c.id = ZeroHash
    BY <1>2, <1>4
  <1>5. CASE c.id # ZeroHash
    <2> DEFINE p == Path("produced", k - 1, d - 1)
    <2>1. EvalConstraint(ContextOf(i), p, c) /\ ContextOf(i).tx = txs[i]
      BY <1>3, ProducedValid
    <2>2. p.side = "produced"
      BY DEF Path
    <2> HIDE DEF p
    <2>3. EvalChain(ContextOf(i), p, c)
      BY <1>2, <2>1 DEF EvalConstraint
    <2>4. ValidPredecessor(ContextOf(i), c)
      BY <1>5, <2>2, <2>3 DEF EvalChain
    <2>5. HasBlock(ContextOf(i).consumed, c.prevOut, c.prevBlk)
      BY <2>4 DEF ValidPredecessor
    <2>6. PICK m : m = c.prevOut + 1
      OBVIOUS
    <2>7. PICK x : x = txs[i].inputs[m]
      OBVIOUS
    <2>8. PICK pred : pred = BlockAt(ContextOf(i).consumed, c.prevOut, c.prevBlk)
      OBVIOUS
    <2>9. /\ c.prevOut \in Nat /\ c.prevBlk \in Nat
          /\ m \in 1 .. Len(txs[i].inputs)
          /\ c.prevBlk + 1 \in 1 .. Len(OutputOf(x))
          /\ pred = OutputOf(x)[c.prevBlk + 1]
      BY <2>5, <2>6, <2>7, <2>8, ConsumedAt
    <2>10. /\ pred.type = "chain"
           /\ pred.id = ZeroHash => c.id = blake2b(x)
           /\ pred.id # ZeroHash => c.id = pred.id
      BY <2>1, <2>4, <2>6, <2>7, <2>8 DEF ValidPredecessor, At
    <2>11. id \in ChainIDsOf(x, OutputOf(x))
      BY <1>2, <1>5, <2>9, <2>10 DEF ChainIDsOf, BlocksOf
    <2>12. c.prevBlk \in ChainSets(OutputOf(x))
      <3>1. x \in ProducedIDs
        BY <2>7, <2>9 DEF IInv, InputsOlder, Inputs
      <3>2. Len(OutputOf(x)) \in Nat
        BY <3>1, OutputTyped DEF IInv
      <3> QED
        BY <2>9, <2>10, <3>2 DEF ChainSets, At
    <2>13. k \in SuccessorsOf(i, m, c.prevBlk)
      BY <1>2, <2>6, <2>9 DEF SuccessorsOf
    <2> QED
      BY <2>7, <2>9, <2>11, <2>12, <2>13
  <1> QED
    BY <1>4, <1>5

\* The identifier that indexChainID takes is the one of the chain: among what
\* was produced the zero identifier is that of an origin.
LEMMA IndexedAsChain ==
    ASSUME IInv, HistoryValid, NEW oid \in ProducedIDs,
           NEW b \in FirstChainBlocks(OutputOf(oid))
    PROVE  IndexedChainID(oid, At(OutputOf(oid), b)) \in ChainIDsOf(oid, OutputOf(oid))
  <1>1. PICK c : c = At(OutputOf(oid), b)
    OBVIOUS
  <1>2. Len(OutputOf(oid)) \in Nat
    BY OutputTyped DEF IInv
  <1>3. b + 1 \in 1 .. Len(OutputOf(oid)) /\ b \in 0 .. Len(OutputOf(oid)) - 1
    BY <1>2 DEF FirstChainBlocks, ConstraintIndexLock
  <1>4. c \in BlocksOf(OutputOf(oid)) /\ c.type = "chain"
    BY <1>1, <1>3 DEF BlocksOf, At, FirstChainBlocks
  <1>5. PICK id : id = IF c.id = ZeroHash THEN blake2b(oid) ELSE c.id
    OBVIOUS
  <1>6. id \in ChainIDsOf(oid, OutputOf(oid))
    BY <1>4, <1>5 DEF ChainIDsOf
  <1>7. oid # GenesisOutputID
    BY <1>6, ChainBlock
  <1>8. c = OutputOf(oid)[b + 1]
    BY <1>1 DEF At
  <1>9. IndexedChainID(oid, c) = id
    <2> DEFINE p == Path("produced", oid.idx, (b + 1) - 1)
    <2>1. EvalConstraint(ContextOf(oid.tx), p, c)
      BY <1>3, <1>7, <1>8, ProducedBlockEvaluated
    <2>2. p.side = "produced"
      BY DEF Path
    <2> HIDE DEF p
    <2>3. EvalChain(ContextOf(oid.tx), p, c)
      BY <1>4, <2>1 DEF EvalConstraint
    <2>4. c.id = ZeroHash => c = NewChainOrigin
      BY <2>2, <2>3 DEF EvalChain
    <2>5. c = NewChainOrigin => c.id = ZeroHash
      BY DEF NewChainOrigin, NewChain
    <2> QED
      BY <1>5, <2>4, <2>5 DEF IndexedChainID, IsOrigin
  <1> QED
    BY <1>1, <1>6, <1>9

\* What a transaction consumed.
LEMMA ConsumedIs ==
    ASSUME IInv, HistoryValid, NEW i \in TxNumbers, NEW m \in 1 .. Len(txs[i].inputs)
    PROVE  /\ txs[i].inputs[m] \in ProducedIDs
           /\ txs[i].inputs[m] \in Inputs(txs[i])
           /\ ContextOf(i).consumed[m] = OutputOf(txs[i].inputs[m])
           /\ Len(ContextOf(i).consumed) = Len(txs[i].inputs)
           /\ Len(txs[i].inputs) \in Nat
  <1>1. Len(txs[i].inputs) \in Nat
    BY TransactionShape DEF IInv, TypeOK, TxNumbers
  <1>2. ContextOf(i).consumed = [k \in 1 .. Len(txs[i].inputs) |-> OutputOf(txs[i].inputs[k])]
    BY DEF ContextOf, Context
  <1> QED
    BY <1>1, <1>2 DEF IInv, InputsOlder, Inputs

\* A transaction produces no chain twice, if it consumes none twice.
LEMMA NewChainsUnique ==
    ASSUME IInv, HistoryValid, LinearChains, NEW i \in TxNumbers,
           \A x, y \in Inputs(txs[i]) : \A c \in ChainIDsOf(x, OutputOf(x)) :
               c \in ChainIDsOf(y, OutputOf(y)) => x = y,
           NEW k \in 1 .. Len(txs[i].outputs), NEW l \in 1 .. Len(txs[i].outputs),
           NEW id \in ChainIDsOf(NewOutputID(i, k - 1), OutputOf(NewOutputID(i, k - 1))),
           id \in ChainIDsOf(NewOutputID(i, l - 1), OutputOf(NewOutputID(i, l - 1)))
    PROVE  k = l
  <1>1. PICK p : p = NewOutputID(i, k - 1)
    OBVIOUS
  <1>2. PICK q : q = NewOutputID(i, l - 1)
    OBVIOUS
  <1>3. /\ p \in ProducedIDs /\ p.tx = i /\ k \in Nat
        /\ q \in ProducedIDs /\ q.tx = i /\ l \in Nat /\ i \in Nat
    BY <1>1, <1>2, OutputAt DEF IInv, TypeOK, TxNumbers
  <1>4. p = q => k = l
    <2>1. p.idx = k - 1 /\ q.idx = l - 1
      BY <1>1, <1>2 DEF NewOutputID
    <2> QED
      BY <1>3, <2>1
  <1>5. id \in ChainIDsOf(p, OutputOf(p)) /\ id \in ChainIDsOf(q, OutputOf(q))
    BY <1>1, <1>2
  <1>6. CASE id = blake2b(p)
    <2>1. p = q \/ p.tx < q.tx
      BY <1>3, <1>5, <1>6, ChainIDIsOlder
    <2> QED
      BY <1>3, <1>4, <2>1
  <1>7. CASE id = blake2b(q)
    <2>1. q = p \/ q.tx < p.tx
      BY <1>3, <1>5, <1>7, ChainIDIsOlder
    <2> QED
      BY <1>3, <1>4, <2>1
  <1>8. CASE id # blake2b(p) /\ id # blake2b(q)
    <2>1. PICK m \in 1 .. Len(txs[i].inputs) :
              /\ id \in ChainIDsOf(txs[i].inputs[m], OutputOf(txs[i].inputs[m]))
              /\ \E b \in ChainSets(OutputOf(txs[i].inputs[m])) : k \in SuccessorsOf(i, m, b)
      BY <1>1, <1>5, <1>8, ChainComesFrom
    <2>2. PICK n \in 1 .. Len(txs[i].inputs) :
              /\ id \in ChainIDsOf(txs[i].inputs[n], OutputOf(txs[i].inputs[n]))
              /\ \E b \in ChainSets(OutputOf(txs[i].inputs[n])) : l \in SuccessorsOf(i, n, b)
      BY <1>2, <1>5, <1>8, ChainComesFrom
    <2>3. txs[i].inputs[m] = txs[i].inputs[n]
      BY <2>1, <2>2, ConsumedIs
    <2>4. m = n
      BY <2>3 DEF IInv, SpentOnce
    <2>5. PICK x : x = txs[i].inputs[m]
      OBVIOUS
    <2>6. x \in ProducedIDs /\ ContextOf(i).consumed[m] = OutputOf(x)
      BY <2>5, ConsumedIs
    <2>7. PICK b \in ChainSets(OutputOf(x)) : k \in SuccessorsOf(i, m, b)
      BY <2>1, <2>5
    <2>8. PICK d \in ChainSets(OutputOf(x)) : l \in SuccessorsOf(i, m, d)
      BY <2>2, <2>4, <2>5
    <2>9. b = d
      BY <2>1, <2>5, <2>6, OneChainBlock
    <2>10. b \in ChainSets(ContextOf(i).consumed[m])
      BY <2>6
    <2> QED
      BY <2>7, <2>8, <2>9, <2>10 DEF LinearChains
  <1> QED
    BY <1>6, <1>7, <1>8

\* A record is deleted only for a chain that the transaction consumes.
LEMMA DeletedChainConsumed ==
    ASSUME IInv, HistoryValid, NEW i \in TxNumbers, NEW id \in DeletedChains(i)
    PROVE  \E x \in Inputs(txs[i]) : x \in ProducedIDs /\ id \in ChainIDsOf(x, OutputOf(x))
  <1>1. PICK m \in 1 .. Len(txs[i].inputs) : \E b \in FirstChainBlocks(ContextOf(i).consumed[m]) :
            id = IndexedChainID(txs[i].inputs[m], At(ContextOf(i).consumed[m], b))
    BY DEF DeletedChains
  <1>2. PICK x : x = txs[i].inputs[m]
    OBVIOUS
  <1>3. x \in ProducedIDs /\ x \in Inputs(txs[i]) /\ ContextOf(i).consumed[m] = OutputOf(x)
    BY <1>2, ConsumedIs
  <1>4. PICK b \in FirstChainBlocks(OutputOf(x)) : id = IndexedChainID(x, At(OutputOf(x), b))
    BY <1>1, <1>2, <1>3
  <1> QED
    BY <1>3, <1>4, IndexedAsChain

\* A consumed chain whose record is not deleted goes on in an output of the
\* same transaction.
LEMMA ChainContinues ==
    ASSUME IInv, HistoryValid, LinearChains, NEW i \in TxNumbers,
           NEW x \in Inputs(txs[i]), NEW id \in ChainIDsOf(x, OutputOf(x)),
           id \notin DeletedChains(i)
    PROVE  \E k \in 1 .. Len(txs[i].outputs) :
               id \in ChainIDsOf(NewOutputID(i, k - 1), OutputOf(NewOutputID(i, k - 1)))
  <1>1. PICK m \in 1 .. Len(txs[i].inputs) : x = txs[i].inputs[m]
    BY DEF Inputs
  <1>2. /\ x \in ProducedIDs /\ ContextOf(i).consumed[m] = OutputOf(x)
        /\ Len(ContextOf(i).consumed) = Len(txs[i].inputs) /\ Len(txs[i].inputs) \in Nat
    BY <1>1, ConsumedIs
  <1>3. PICK b \in ChainSets(OutputOf(x)) :
            /\ b \in Nat /\ b + 1 \in 1 .. Len(OutputOf(x))
            /\ id = IndexedChainID(x, At(OutputOf(x), b))
            /\ id = IF At(OutputOf(x), b).id = ZeroHash THEN blake2b(x)
                    ELSE At(OutputOf(x), b).id
    BY <1>2, ChainBlock
  <1>4. b \in FirstChainBlocks(OutputOf(x))
    BY <1>2, OneChainBlock
  <1>5. PICK u : u = UnlockParams(ContextOf(i), m - 1, b)
    OBVIOUS
  <1>6. u # DestroyUnlockParams
    <2> SUFFICES ASSUME u = DestroyUnlockParams PROVE FALSE
      OBVIOUS
    <2> DEFINE S == {IndexedChainID(txs[i].inputs[m], At(ContextOf(i).consumed[m], e)) :
                        e \in {d \in FirstChainBlocks(ContextOf(i).consumed[m]) :
                                  UnlockParams(ContextOf(i), m - 1, d) = DestroyUnlockParams}}
    <2>1. S \subseteq DeletedChains(i)
      BY Zenon DEF DeletedChains
    <2>2. /\ b \in FirstChainBlocks(ContextOf(i).consumed[m])
          /\ UnlockParams(ContextOf(i), m - 1, b) = DestroyUnlockParams
          /\ id = IndexedChainID(txs[i].inputs[m], At(ContextOf(i).consumed[m], b))
      BY <1>1, <1>2, <1>3, <1>4, <1>5
    <2>3. id \in S
      BY <2>2
    <2> QED
      BY <2>1, <2>3
  <1>7. PICK o : o = m - 1
    OBVIOUS
  <1>8. Len(OutputOf(x)) \in Nat
    BY <1>2, OutputTyped DEF IInv
  <1>9. /\ HasBlock(ContextOf(i).consumed, o, b)
        /\ BlockAt(ContextOf(i).consumed, o, b) = At(OutputOf(x), b)
        /\ At(ContextOf(i).tx.inputs, o) = x
    <2>1. o + 1 = m /\ o \in 0 .. Len(ContextOf(i).consumed) - 1
      BY <1>2, <1>7
    <2>2. At(ContextOf(i).consumed, o) = OutputOf(x)
      BY <1>2, <2>1 DEF At
    <2>3. b \in 0 .. Len(OutputOf(x)) - 1
      BY <1>3, <1>8
    <2> QED
      BY <1>1, <2>1, <2>2, <2>3, ContextShape DEF HasBlock, Has, BlockAt, At
  <1>10. At(OutputOf(x), b).type = "chain"
    BY DEF ChainSets
  <1>11. PICK succ : succ = BlockAt(txs[i].outputs, At(u, 0), At(u, 1))
    OBVIOUS
  <1>12. /\ HasBlock(txs[i].outputs, At(u, 0), At(u, 1))
         /\ succ.type = "chain"
         /\ succ.id = ConsumedChainID(ContextOf(i), o, b)
    BY <1>5, <1>6, <1>7, <1>9, <1>10, <1>11, ChainGoesOn
  <1>13. succ.id = id
    BY <1>3, <1>9, <1>12 DEF ConsumedChainID
  <1>14. id # ZeroHash
    BY <1>2, ChainIDTyped DEF IInv
  <1>15. PICK k : k = At(u, 0) + 1
    OBVIOUS
  <1>16. /\ k \in 1 .. Len(txs[i].outputs)
         /\ succ \in BlocksOf(txs[i].outputs[k])
    <2>1. /\ At(u, 0) + 1 \in 1 .. Len(txs[i].outputs)
          /\ At(u, 1) + 1 \in 1 .. Len(txs[i].outputs[At(u, 0) + 1])
          /\ succ = txs[i].outputs[At(u, 0) + 1][At(u, 1) + 1]
      BY <1>11, <1>12, ProducedAt
    <2> QED
      BY <1>15, <2>1 DEF BlocksOf
  <1>17. OutputOf(NewOutputID(i, k - 1)) = txs[i].outputs[k]
    BY <1>16, OutputAt
  <1> QED
    BY <1>12, <1>13, <1>14, <1>16, <1>17 DEF ChainIDsOf

\* No two outputs of those the partition covers are in the same chain, and
\* what the pending transaction consumed is among them.
LEMMA IndexedUnique ==
    ASSUME ChainIndexInv, pending # 0, lost = {}, LinearChains
    PROVE  \A x, y \in Inputs(txs[pending]) : \A c \in ChainIDsOf(x, OutputOf(x)) :
               c \in ChainIDsOf(y, OutputOf(y)) => x = y
  <1>1. Inputs(txs[pending]) \subseteq IndexedIDs
    BY DEF IndexedIDs
  <1> QED
    BY <1>1 DEF ChainIndexInv, ChainsCurrent

\* The batch writes the record of every chain among the new outputs.
LEMMA ChainWritten ==
    ASSUME ChainIndexInv, pending # 0, lost = {}, LinearChains,
           NEW k \in 1 .. Len(txs[pending].outputs), NEW oid, oid = NewOutputID(pending, k - 1),
           NEW id \in ChainIDsOf(oid, OutputOf(oid))
    PROVE  id \in DOMAIN RunChainCommands(pending) /\ RunChainCommands(pending)[id] = oid
  <1>1. PICK i \in TxNumbers : i = pending
    BY PendingTransaction DEF ChainIndexInv
  <1>2. IInv /\ HistoryValid
    BY DEF ChainIndexInv, DBInv
  <1>3. /\ oid \in ProducedIDs /\ OutputOf(oid) = txs[pending].outputs[k] /\ k \in Nat
        /\ pending \in TxNumbers
    BY <1>1, <1>2, OutputAt
  <1>4. <<id, k - 1>> \in AddedChains(pending)
    BY <1>2, <1>3, AddedChainsComplete
  <1> DEFINE added == {r[1] : r \in AddedChains(pending)}
             writes == {r[2] : r \in {q \in AddedChains(pending) : q[1] = id}}
  <1>5. id \in added /\ writes # {}
    BY <1>4
  <1>6. ASSUME NEW w \in writes
        PROVE  w = k - 1 /\ w \in 0 .. MaxByte
    <2>1. PICK r \in AddedChains(pending) : r[1] = id /\ r[2] = w
      OBVIOUS
    <2>2. PICK l \in 1 .. Len(txs[pending].outputs) : r[2] = l - 1
      BY <2>1 DEF AddedChains
    <2>3. /\ w \in 0 .. MaxByte
          /\ id \in ChainIDsOf(NewOutputID(pending, w), OutputOf(NewOutputID(pending, w)))
      BY <1>2, <1>3, <2>1, AddedChainRight
    <2>4. id \in ChainIDsOf(NewOutputID(pending, l - 1), OutputOf(NewOutputID(pending, l - 1)))
      BY <2>1, <2>2, <2>3
    <2>5. id \in ChainIDsOf(NewOutputID(pending, k - 1), OutputOf(NewOutputID(pending, k - 1)))
      OBVIOUS
    <2>6. k = l
      BY <1>2, <1>3, <2>4, <2>5, IndexedUnique, NewChainsUnique
    <2> QED
      BY <2>1, <2>2, <2>3, <2>6
  <1>7. Max(writes) \in writes
    <2>1. writes \subseteq 0 .. MaxByte
      BY <1>6
    <2> QED
      BY <1>5, <2>1, MaxIsElement, MaxByteAssumption
  <1>8. Max(writes) = k - 1
    BY <1>6, <1>7
  <1>9. id \in DOMAIN RunChainCommands(pending)
    BY <1>5 DEF RunChainCommands
  <1>10. RunChainCommands(pending)[id] = NewOutputID(pending, Max(writes))
    BY <1>5, <1>9 DEF RunChainCommands
  <1> QED
    BY <1>8, <1>9, <1>10

\* The batch leaves the records of other chains as they are.
LEMMA ChainKept ==
    ASSUME NEW id \in DOMAIN chains, id \notin DeletedChains(pending),
           \A r \in AddedChains(pending) : r[1] # id
    PROVE  id \in DOMAIN RunChainCommands(pending) /\ RunChainCommands(pending)[id] = chains[id]
  BY DEF RunChainCommands

\* After the batch the partition is exact for the outputs unspent now.
LEMMA CommandsMakeCurrent ==
    ASSUME ChainIndexInv, pending # 0, lost = {}, LinearChains
    PROVE  /\ \A oid \in DOMAIN utxo : \A id \in ChainIDsOf(oid, OutputOf(oid)) :
                  /\ id \in DOMAIN RunChainCommands(pending)
                  /\ RunChainCommands(pending)[id] = oid
           /\ \A id \in DOMAIN RunChainCommands(pending) :
                  RunChainCommands(pending)[id] \in DOMAIN utxo
  <1>1. PICK i \in TxNumbers : i = pending
    BY PendingTransaction DEF ChainIndexInv
  <1>2. IInv /\ HistoryValid /\ DBInv
    BY DEF ChainIndexInv, DBInv
  <1>3. /\ \A oid \in IndexedIDs : \A id \in ChainIDsOf(oid, OutputOf(oid)) :
               id \in DOMAIN chains /\ chains[id] = oid
        /\ \A id \in DOMAIN chains : chains[id] \in IndexedIDs
    BY DEF ChainIndexInv, ChainsCurrent
  <1>4. /\ \A oid \in DOMAIN utxo : oid \in OutputIDsOf(txs[i], i) \/ oid \in IndexedIDs
        /\ \A oid \in IndexedIDs : oid \in DOMAIN utxo \/ oid \in Inputs(txs[i])
        /\ \A oid \in DOMAIN utxo : oid \notin Inputs(txs[i])
        /\ Inputs(txs[i]) \subseteq IndexedIDs
        /\ OutputIDsOf(txs[i], i) \subseteq DOMAIN utxo
    BY <1>1, <1>2, PendingTransaction DEF IndexedIDs
  <1>5. ASSUME NEW r \in AddedChains(i)
        PROVE  \E k \in 1 .. Len(txs[i].outputs) :
                   r[1] \in ChainIDsOf(NewOutputID(i, k - 1), OutputOf(NewOutputID(i, k - 1)))
    <2>1. PICK k \in 1 .. Len(txs[i].outputs) : r[2] = k - 1
      BY DEF AddedChains
    <2>2. r[1] \in ChainIDsOf(NewOutputID(i, r[2]), OutputOf(NewOutputID(i, r[2])))
      BY <1>2, AddedChainRight
    <2> QED
      BY <2>1, <2>2
  <1>6. ASSUME NEW oid \in IndexedIDs, oid \notin Inputs(txs[i]),
               NEW id \in ChainIDsOf(oid, OutputOf(oid))
        PROVE  /\ id \in DOMAIN RunChainCommands(pending)
               /\ RunChainCommands(pending)[id] = oid
    <2>1. id \in DOMAIN chains /\ chains[id] = oid
      BY <1>3
    <2>2. ASSUME NEW x \in Inputs(txs[i]), id \in ChainIDsOf(x, OutputOf(x))
          PROVE  FALSE
      BY <1>3, <1>4, <1>6, <2>1, <2>2
    <2>3. id \notin DeletedChains(i)
      BY <1>2, <2>2, DeletedChainConsumed
    <2>4. ASSUME NEW k \in 1 .. Len(txs[i].outputs),
                 id \in ChainIDsOf(NewOutputID(i, k - 1), OutputOf(NewOutputID(i, k - 1)))
          PROVE  FALSE
      <3>1. id = blake2b(NewOutputID(i, k - 1))
        BY <1>2, <2>2, <2>4, ChainComesFrom, ConsumedIs
      <3>2. PICK new : new = NewOutputID(i, k - 1)
        OBVIOUS
      <3>3. new \in ProducedIDs /\ new.tx = i /\ new \in OutputIDsOf(txs[i], i)
        BY <1>2, <3>2, OutputAt
      <3>4. oid \in ProducedIDs /\ oid \notin OutputIDsOf(txs[i], i)
        <4>1. oid \in DOMAIN utxo \ OutputIDsOf(txs[i], i)
          BY <1>1, <1>6 DEF IndexedIDs
        <4> QED
          BY <1>2, <4>1 DEF IInv, UtxoExact
      <3>5. new = oid \/ i < oid.tx
        BY <1>2, <3>1, <3>2, <3>3, <3>4, ChainIDIsOlder
      <3>6. oid.tx \in Nat /\ oid.tx <= i /\ i \in Nat
        <4>1. oid.tx \in TxNumbers
          BY <1>2, <3>4, ChainBlock
        <4> QED
          BY <1>1, <1>2, <4>1 DEF DBInv, PendingIsLast, TxNumbers, IInv, TypeOK
      <3> QED
        BY <3>3, <3>4, <3>5, <3>6
    <2>5. \A r \in AddedChains(i) : r[1] # id
      BY <1>5, <2>4
    <2> QED
      BY <1>1, <2>1, <2>3, <2>5, ChainKept
  <1>7. ASSUME NEW oid \in DOMAIN utxo, NEW id \in ChainIDsOf(oid, OutputOf(oid))
        PROVE  /\ id \in DOMAIN RunChainCommands(pending)
               /\ RunChainCommands(pending)[id] = oid
    <2>1. CASE oid \in OutputIDsOf(txs[i], i)
      <3>1. PICK k \in 1 .. Len(txs[i].outputs) : oid = NewOutputID(i, k - 1)
        BY <2>1 DEF OutputIDsOf
      <3> QED
        BY <1>1, <3>1, ChainWritten
    <2>2. CASE oid \in IndexedIDs
      BY <1>4, <1>6, <2>2
    <2> QED
      BY <1>4, <2>1, <2>2
  <1>8. ASSUME NEW id \in DOMAIN RunChainCommands(pending)
        PROVE  RunChainCommands(pending)[id] \in DOMAIN utxo
    <2>1. CASE \E r \in AddedChains(i) : r[1] = id
      <3>1. PICK k \in 1 .. Len(txs[i].outputs) :
                id \in ChainIDsOf(NewOutputID(i, k - 1), OutputOf(NewOutputID(i, k - 1)))
        BY <1>5, <2>1
      <3>2. NewOutputID(i, k - 1) \in DOMAIN utxo
        BY <1>2, <1>4, OutputAt
      <3> QED
        BY <1>7, <3>1, <3>2
    <2>2. CASE \A r \in AddedChains(i) : r[1] # id
      <3>1. id \in DOMAIN chains /\ id \notin DeletedChains(i)
        BY <1>1, <2>2 DEF RunChainCommands
      <3>2. RunChainCommands(pending)[id] = chains[id]
        BY <1>1, <2>2, <3>1, ChainKept
      <3>3. PICK x \in IndexedIDs : x = chains[id]
        BY <1>3, <3>1
      <3>4. id \in ChainIDsOf(x, OutputOf(x))
        BY <1>2, <3>1, <3>3 DEF DBInv, ChainRecordsRight
      <3>5. x \notin Inputs(txs[i])
        <4> SUFFICES ASSUME x \in Inputs(txs[i]) PROVE FALSE
          OBVIOUS
        <4>1. PICK k \in 1 .. Len(txs[i].outputs) :
                  id \in ChainIDsOf(NewOutputID(i, k - 1), OutputOf(NewOutputID(i, k - 1)))
          BY <1>2, <3>1, <3>4, ChainContinues
        <4>2. PICK new : new = NewOutputID(i, k - 1)
          OBVIOUS
        <4>3. new \in ProducedIDs /\ OutputOf(new) = txs[i].outputs[k]
          BY <1>2, <4>2, OutputAt
        <4>4. id \in ChainIDsOf(new, OutputOf(new))
          BY <4>1, <4>2
        <4>5. <<id, k - 1>> \in AddedChains(i)
          BY <1>2, <4>2, <4>3, <4>4, AddedChainsComplete
        <4>6. <<id, k - 1>>[1] = id
          OBVIOUS
        <4> QED
          BY <2>2, <4>5, <4>6
      <3> QED
        BY <1>4, <3>2, <3>3, <3>5
    <2> QED
      BY <2>1, <2>2
  <1> QED
    BY <1>7, <1>8

\* A history that is linear was linear before its last transaction: the
\* contexts of the older ones are the same.
LEMMA LinearBefore ==
    ASSUME IInv, NEW tx, Update(tx), LinearChains'
    PROVE  LinearChains
  <1>1. PICK n \in Nat : n = Len(txs) + 1
    BY DEF IInv, TypeOK
  <1>2. \A i \in TxNumbers : txs'[i] = txs[i] /\ i \in TxNumbers'
    BY <1>1, UpdateEffect
  <1>3. \A oid \in ProducedIDs : OutputOf(oid)' = OutputOf(oid)
    BY <1>1, UpdateProduced
  <1>4. ASSUME NEW i \in TxNumbers
        PROVE  ContextOf(i)' = ContextOf(i)
    <2>1. \A k \in 1 .. Len(txs[i].inputs) : txs[i].inputs[k] \in ProducedIDs
      BY DEF IInv, InputsOlder, Inputs
    <2>2. txs'[i] = txs[i]
      BY <1>2
    <2> QED
      BY <1>3, <2>1, <2>2 DEF ContextOf, Context
  <1>5. ASSUME NEW i \in TxNumbers, NEW k, NEW b
        PROVE  SuccessorsOf(i, k, b)' = SuccessorsOf(i, k, b)
    BY <1>2 DEF SuccessorsOf, BlocksOf
  <1>6. ASSUME NEW i \in TxNumbers
        PROVE  /\ \A l \in 1 .. Len(txs[i].outputs) : \A b, d \in ChainSets(txs[i].outputs[l]) :
                      b = d /\ b > ConstraintIndexLock
               /\ \A k \in 1 .. Len(txs[i].inputs) : \A b \in ChainSets(ContextOf(i).consumed[k]) :
                      \A l, m \in SuccessorsOf(i, k, b) :
                          l = m /\ UnlockParams(ContextOf(i), k - 1, b) # DestroyUnlockParams
    <2>1. i \in TxNumbers' /\ txs'[i] = txs[i] /\ ContextOf(i)' = ContextOf(i)
      BY <1>2, <1>4
    <2>2. \A k, b : SuccessorsOf(i, k, b)' = SuccessorsOf(i, k, b)
      BY <1>5
    <2>3. /\ \A l \in 1 .. Len(txs'[i].outputs) : \A b, d \in ChainSets(txs'[i].outputs[l]) :
                 b = d /\ b > ConstraintIndexLock
          /\ \A k \in 1 .. Len(txs'[i].inputs) : \A b \in ChainSets(ContextOf(i)'.consumed[k]) :
                 \A l, m \in SuccessorsOf(i, k, b)' :
                     l = m /\ UnlockParams(ContextOf(i)', k - 1, b) # DestroyUnlockParams
      BY <2>1 DEF LinearChains, ChainSets, UnlockParams, At
    <2> QED
      BY <2>1, <2>2, <2>3
  <1> QED
    BY <1>6 DEF LinearChains

\* A step that leaves the ledger and the chain records alone.
LEMMA ChainsUntouched ==
    ASSUME ChainsCurrent, utxo' = utxo, txs' = txs, chains' = chains,
           pending' = pending, lost' = lost
    PROVE  ChainsCurrent'
  <1>1. /\ IndexedIDs' = IndexedIDs
        /\ \A oid : OutputOf(oid)' = OutputOf(oid)
        /\ LinearChains' = LinearChains
    BY DEF IndexedIDs, OutputOf, LinearChains, TxNumbers, ContextOf, SuccessorsOf
  <1> QED
    BY <1>1 DEF ChainsCurrent, ChainIDsOf

\* At genesis there is no chain.
LEMMA InitChainIndexInv == InitUTXODB => ChainIndexInv
  <1> SUFFICES ASSUME InitUTXODB PROVE ChainIndexInv
    OBVIOUS
  <1>1. DBInv
    BY InitDBInv
  <1>2. DOMAIN utxo = {GenesisOutputID} /\ pending = 0 /\ DOMAIN chains = {}
    BY DEF InitUTXODB, InitLedgerState
  <1>3. IndexedIDs = {GenesisOutputID} /\ GenesisOutputID \in ProducedIDs
    BY <1>2 DEF IndexedIDs, ProducedIDs
  <1>4. ChainIDsOf(GenesisOutputID, OutputOf(GenesisOutputID)) = {}
    BY <1>1, <1>3, ChainBlock DEF DBInv
  <1> QED
    BY <1>1, <1>2, <1>3, <1>4 DEF ChainIndexInv, ChainsCurrent

\* Every step keeps the chain records current.
LEMMA NextChainIndexInv == ChainIndexInv /\ [DBNext]_dbVars => ChainIndexInv'
  <1> SUFFICES ASSUME ChainIndexInv, [DBNext]_dbVars PROVE ChainsCurrent'
    BY NextDBInv DEF ChainIndexInv
  <1>1. DBInv /\ IInv /\ HistoryValid /\ ChainsCurrent
    BY DEF ChainIndexInv, DBInv
  <1>2. CASE AddTransaction
    <2>1. PICK tx \in Submitted(utxo, txs) : UpdateState(tx)
      BY <1>2 DEF AddTransaction
    <2>2. pending = 0 /\ Update(tx) /\ chains' = chains /\ lost' = lost
      BY <1>2, <2>1 DEF AddTransaction, UpdateState
    <2>3. PICK n \in Nat : n = Len(txs) + 1
      BY <1>1 DEF IInv, TypeOK
    <2>4. /\ txs'[n] = tx /\ utxo' = UpdateTrie(tx, n) /\ Accepted(tx)
          /\ n # 0
      BY <1>1, <2>2, <2>3, UpdateEffect
    <2>5. pending' = n
      <3>1. \A i \in 1 .. Len(txs) : txs[i] # tx
        BY <1>1, <2>4, AcceptedIsNew DEF TxNumbers
      <3> QED
        BY <2>1, <2>3, <3>1 DEF UpdateState, TransactionID
    <2>6. /\ \A oid \in ProducedIDs : OutputOf(oid)' = OutputOf(oid)
          /\ \A oid \in OutputIDsOf(tx, n) : oid \notin ProducedIDs
      BY <1>1, <2>2, <2>3, UpdateProduced
    <2>7. DOMAIN utxo \subseteq ProducedIDs
      BY <1>1 DEF IInv, UtxoExact
    <2>8. Inputs(tx) \subseteq DOMAIN utxo
      BY <2>4 DEF Accepted, InputsFound
    <2>9. IndexedIDs = DOMAIN utxo
      BY <2>2 DEF IndexedIDs
    <2>10. IndexedIDs' = DOMAIN utxo
      <3>1. DOMAIN utxo' = (DOMAIN utxo \ Inputs(tx)) \cup OutputIDsOf(tx, n)
        BY <2>4 DEF UpdateTrie
      <3>2. IndexedIDs' = (DOMAIN utxo' \ OutputIDsOf(tx, n)) \cup Inputs(tx)
        BY <2>4, <2>5 DEF IndexedIDs, OutputIDsOf, Inputs
      <3> QED
        BY <2>6, <2>7, <2>8, <3>1, <3>2
    <2>11. LinearChains' => LinearChains
      BY <1>1, <2>2, LinearBefore
    <2>12. \A oid \in DOMAIN utxo : OutputOf(oid)' = OutputOf(oid)
      BY <2>6, <2>7
    <2> QED
      BY <1>1, <2>2, <2>9, <2>10, <2>11, <2>12 DEF ChainsCurrent, ChainIDsOf
  <1>3. CASE UpdateIndexer
    <2>1. /\ pending # 0 /\ utxo' = utxo /\ txs' = txs /\ pending' = 0 /\ lost' = lost
          /\ chains' = RunChainCommands(pending)
      BY <1>3 DEF UpdateIndexer
    <2>2. /\ IndexedIDs' = DOMAIN utxo
          /\ \A oid : OutputOf(oid)' = OutputOf(oid)
          /\ LinearChains' = LinearChains
      BY <2>1 DEF IndexedIDs, OutputOf, LinearChains, TxNumbers, ContextOf, SuccessorsOf
    <2>3. ASSUME lost = {}, LinearChains
          PROVE  /\ \A oid \in DOMAIN utxo : \A id \in ChainIDsOf(oid, OutputOf(oid)) :
                        id \in DOMAIN chains' /\ chains'[id] = oid
                 /\ \A id \in DOMAIN chains' : chains'[id] \in DOMAIN utxo
      BY <2>1, <2>3, CommandsMakeCurrent
    <2> QED
      BY <2>1, <2>2, <2>3 DEF ChainsCurrent, ChainIDsOf
  <1>4. CASE UpdateIndexerFails
    BY <1>4 DEF UpdateIndexerFails, ChainsCurrent
  <1>5. CASE StateReader
    BY <1>1, <1>5, ChainsUntouched DEF StateReader
  <1>6. CASE UNCHANGED dbVars
    BY <1>1, <1>6, ChainsUntouched DEF dbVars
  <1> QED
    BY <1>2, <1>3, <1>4, <1>5, <1>6 DEF DBNext

\* In a history of linear chains without lost updates the chain partition has
\* one record for every chain there is, and it leads to the unspent output of
\* the chain (indexChainID and the order of the commands in Update).
THEOREM ChainsAreExact == DBSpec => []ChainsExact
  <1>1. ChainIndexInv => ChainsExact
    <2> SUFFICES ASSUME ChainIndexInv, pending = 0, lost = {}, LinearChains
                 PROVE  /\ \A oid \in DOMAIN utxo : \A id \in ChainIDsOf(oid, utxo[oid]) :
                               id \in DOMAIN chains /\ chains[id] = oid
                        /\ \A id \in DOMAIN chains :
                               /\ chains[id] \in DOMAIN utxo
                               /\ id \in ChainIDsOf(chains[id], utxo[chains[id]])
      BY DEF ChainsExact
    <2>1. \A oid \in DOMAIN utxo : utxo[oid] = OutputOf(oid)
      BY DEF ChainIndexInv, DBInv, IInv, UtxoExact
    <2>2. IndexedIDs = DOMAIN utxo
      BY DEF IndexedIDs
    <2>3. \A id \in DOMAIN chains : id \in ChainIDsOf(chains[id], OutputOf(chains[id]))
      BY DEF ChainIndexInv, DBInv, ChainRecordsRight
    <2> QED
      BY <2>1, <2>2, <2>3 DEF ChainIndexInv, ChainsCurrent
  <1>2. DBSpec => []ChainIndexInv
    BY InitChainIndexInv, NextChainIndexInv, PTL DEF DBSpec
  <1> QED
    BY <1>1, <1>2, PTL

-----------------------------------------------------------------------------
(***************************************************************************)
(* Proofs about ConcurrentIndexer: what queries are promised while the     *)
(* index is being written, at every point between two records of a batch   *)
(* and in whatever order the store writes them.                            *)
(***************************************************************************)
(***************************************************************************)
(* The invariant of UTXODB does not speak of the records of the pending    *)
(* transaction.  What makes them current when Update returns is that each  *)
(* written key has its final value.                                        *)
(***************************************************************************)
WrittenIsFinal ==
    /\ pending = 0 => written = {}
    /\ \A r \in AccountKeys(pending) :
           <<"account", r>> \in written => (r \in accounts <=> r \in AddedRecords(pending))

ConcurrentInv == DBInv /\ WrittenIsFinal

-----------------------------------------------------------------------------
\* The keys of a transaction depend on the history only.
LEMMA KeysUnchanged ==
    ASSUME utxo' = utxo, txs' = txs, pending' = pending
    PROVE  /\ AccountKeys(pending)' = AccountKeys(pending)
           /\ AddedRecords(pending)' = AddedRecords(pending)
  BY DEF AccountKeys, AddedRecords, DeletedRecords, AccountRecords, OutputOf

\* Initially nothing is pending and nothing is written.
LEMMA InitConcurrentInv == InitConcurrent => ConcurrentInv
  BY InitDBInv DEF InitConcurrent, ConcurrentInv, WrittenIsFinal

\* One account record of the batch: it is final, and no record of an output
\* that the pending transaction did not touch changes.
LEMMA WriteAccountKeyInv ==
    ASSUME ConcurrentInv, NEW r, WriteAccountKey(r)
    PROVE  ConcurrentInv'
  <1>1. /\ pending # 0 /\ r \in AccountKeys(pending)
        /\ accounts' = IF r \in AddedRecords(pending) THEN accounts \cup {r} ELSE accounts \ {r}
        /\ written' = written \cup {<<"account", r>>}
        /\ utxo' = utxo /\ txs' = txs /\ chains' = chains /\ pending' = pending
        /\ lost' = lost /\ reader' = reader
    BY DEF WriteAccountKey
  <1>2. DBInv
    BY DEF ConcurrentInv
  <1>3. /\ IInv' /\ HistoryValid'
        /\ ProducedIDs' = ProducedIDs /\ TxNumbers' = TxNumbers
        /\ \A oid : OutputOf(oid)' = OutputOf(oid)
    BY <1>1, <1>2, LedgerUnchanged DEF DBInv
  <1>4. Unindexed' = Unindexed
    BY <1>1 DEF Unindexed
  <1>5. PendingIsLast' /\ ReaderRight'
    BY <1>1, <1>2, <1>3 DEF DBInv, PendingIsLast, ReaderRight
  <1>6. ChainRecordsRight'
    BY <1>1, <1>2, <1>3 DEF DBInv, ChainRecordsRight, ChainIDsOf
  <1>7. RecordsRight'
    <2>1. ASSUME NEW q \in accounts'
          PROVE  \E oid \in ProducedIDs : q \in AccountRecords(oid, OutputOf(oid))
      <3>1. CASE q \in accounts
        BY <1>2, <3>1 DEF DBInv, RecordsRight
      <3>2. CASE q \in AddedRecords(pending)
        BY <1>1, <1>2, <3>2, PendingTransaction DEF AddedRecords
      <3> QED
        BY <1>1, <2>1, <3>1, <3>2
    <2> QED
      BY <1>3, <2>1 DEF RecordsRight, AccountRecords
  <1>8. RecordsCurrent'
    <2>1. ASSUME NEW oid \in ProducedIDs \ Unindexed,
                 NEW acc \in IndexableTags(LockOf(OutputOf(oid)))
          PROVE  <<acc, oid>> \in accounts' <=> oid \in DOMAIN utxo
      <3>1. oid \notin Inputs(txs[pending]) /\ oid \notin OutputIDsOf(txs[pending], pending)
        BY <1>1, <2>1 DEF Unindexed
      <3>2. <<acc, oid>> # r
        BY <1>1, <3>1, PendingRecords DEF AccountKeys
      <3>3. <<acc, oid>> \in accounts' <=> <<acc, oid>> \in accounts
        BY <1>1, <3>2
      <3> QED
        BY <1>2, <3>3 DEF DBInv, RecordsCurrent
    <2> QED
      BY <1>1, <1>3, <1>4, <2>1 DEF RecordsCurrent
  <1>9. WrittenIsFinal'
    <2>1. ASSUME NEW q \in AccountKeys(pending), <<"account", q>> \in written'
          PROVE  q \in accounts' <=> q \in AddedRecords(pending)
      <3>1. CASE q = r
        BY <1>1, <3>1
      <3>2. CASE q # r
        <4>1. <<"account", q>> \in written
          BY <1>1, <2>1, <3>2
        <4>2. q \in accounts' <=> q \in accounts
          BY <1>1, <3>2
        <4> QED
          BY <4>1, <4>2 DEF ConcurrentInv, WrittenIsFinal
      <3> QED
        BY <3>1, <3>2
    <2> QED
      BY <1>1, <2>1, KeysUnchanged DEF WrittenIsFinal
  <1> QED
    BY <1>3, <1>5, <1>6, <1>7, <1>8, <1>9 DEF ConcurrentInv, DBInv

\* One chain record of the batch gets the value that the commands leave.
LEMMA WriteChainKeyInv ==
    ASSUME ConcurrentInv, NEW id, WriteChainKey(id)
    PROVE  ConcurrentInv'
  <1>1. /\ pending # 0
        /\ chains' = WithKey(id, RunChainCommands(pending))
        /\ written' = written \cup {<<"chain", id>>}
        /\ utxo' = utxo /\ txs' = txs /\ accounts' = accounts /\ pending' = pending
        /\ lost' = lost /\ reader' = reader
    BY DEF WriteChainKey
  <1>2. DBInv
    BY DEF ConcurrentInv
  <1>3. /\ IInv' /\ HistoryValid'
        /\ ProducedIDs' = ProducedIDs /\ TxNumbers' = TxNumbers
        /\ \A oid : OutputOf(oid)' = OutputOf(oid)
    BY <1>1, <1>2, LedgerUnchanged DEF DBInv
  <1>4. Unindexed' = Unindexed
    BY <1>1 DEF Unindexed
  <1>5. PendingIsLast' /\ ReaderRight'
    BY <1>1, <1>2, <1>3 DEF DBInv, PendingIsLast, ReaderRight
  <1>6. RecordsRight'
    BY <1>1, <1>2, <1>3 DEF DBInv, RecordsRight, AccountRecords
  <1>7. RecordsCurrent'
    BY <1>1, <1>2, <1>3, <1>4 DEF DBInv, RecordsCurrent
  <1>8. ChainRecordsRight'
    <2>1. ASSUME NEW x \in DOMAIN chains', NEW oid, oid = chains'[x]
          PROVE  oid \in ProducedIDs /\ x \in ChainIDsOf(oid, OutputOf(oid))
      <3>1. CASE x = id
        <4>1. x \in DOMAIN RunChainCommands(pending) /\ oid = RunChainCommands(pending)[x]
          BY <1>1, <2>1, <3>1 DEF WithKey
        <4> QED
          BY <1>1, <1>2, <4>1, CommandsKeepChains
      <3>2. CASE x # id
        <4>1. x \in DOMAIN chains /\ oid = chains[x]
          BY <1>1, <2>1, <3>2 DEF WithKey
        <4> QED
          BY <1>2, <4>1 DEF DBInv, ChainRecordsRight
      <3> QED
        BY <3>1, <3>2
    <2> QED
      BY <1>3, <2>1 DEF ChainRecordsRight, ChainIDsOf
  <1>9. WrittenIsFinal'
    <2>1. \A r : <<"account", r>> \in written' => <<"account", r>> \in written
      BY <1>1
    <2> QED
      BY <1>1, <2>1, KeysUnchanged DEF ConcurrentInv, WrittenIsFinal
  <1> QED
    BY <1>3, <1>5, <1>6, <1>7, <1>8, <1>9 DEF ConcurrentInv, DBInv

\* Update returns when all keys are written: the records of the transaction
\* are then as if they had been written at once.
LEMMA UpdateReturnsInv ==
    ASSUME ConcurrentInv, UpdateReturns
    PROVE  ConcurrentInv'
  <1>1. /\ pending # 0 /\ written = Keys(pending) /\ pending' = 0 /\ written' = {}
        /\ utxo' = utxo /\ txs' = txs /\ accounts' = accounts /\ chains' = chains
        /\ lost' = lost /\ reader' = reader
    BY DEF UpdateReturns
  <1>2. DBInv
    BY DEF ConcurrentInv
  <1>3. \A r \in AccountKeys(pending) : r \in accounts <=> r \in AddedRecords(pending)
    BY <1>1 DEF ConcurrentInv, WrittenIsFinal, Keys
  <1>4. accounts' = (accounts \ DeletedRecords(pending)) \cup AddedRecords(pending)
    BY <1>1, <1>3 DEF AccountKeys
  <1>5. RecordsRight' /\ RecordsCurrent'
    BY <1>1, <1>2, <1>4, RecordsBecomeCurrent
  <1>6. /\ IInv' /\ HistoryValid'
        /\ ProducedIDs' = ProducedIDs /\ TxNumbers' = TxNumbers
        /\ \A oid : OutputOf(oid)' = OutputOf(oid)
    BY <1>1, <1>2, LedgerUnchanged DEF DBInv
  <1>7. PendingIsLast' /\ ReaderRight' /\ ChainRecordsRight'
    BY <1>1, <1>2, <1>6 DEF DBInv, PendingIsLast, ReaderRight, ChainRecordsRight, ChainIDsOf
  <1>8. WrittenIsFinal'
    BY <1>1 DEF WrittenIsFinal
  <1> QED
    BY <1>5, <1>6, <1>7, <1>8 DEF ConcurrentInv, DBInv

\* Every step keeps the invariant.
LEMMA NextConcurrentInv == ConcurrentInv /\ [ConcurrentNext]_concurrentVars => ConcurrentInv'
  <1> SUFFICES ASSUME ConcurrentInv, [ConcurrentNext]_concurrentVars PROVE ConcurrentInv'
    OBVIOUS
  <1>1. DBInv /\ WrittenIsFinal
    BY DEF ConcurrentInv
  <1>2. CASE AddTransaction /\ UNCHANGED written
    <2>1. pending = 0 /\ written' = {}
      BY <1>1, <1>2 DEF AddTransaction, WrittenIsFinal
    <2>2. WrittenIsFinal'
      BY <2>1 DEF WrittenIsFinal
    <2> QED
      BY <1>1, <1>2, <2>2, AddTransactionDBInv DEF ConcurrentInv
  <1>3. CASE StateReader /\ UNCHANGED written
    <2>1. DBInv'
      BY <1>1, <1>3, NextDBInv DEF DBNext
    <2>2. utxo' = utxo /\ txs' = txs /\ pending' = pending /\ accounts' = accounts
      BY <1>3 DEF StateReader
    <2>3. WrittenIsFinal'
      BY <1>1, <1>3, <2>2, KeysUnchanged DEF WrittenIsFinal
    <2> QED
      BY <2>1, <2>3 DEF ConcurrentInv
  <1>4. CASE WriteIndex
    <2>1. CASE UpdateReturnsError
      <3>1. DBInv'
        BY <1>1, <2>1, NextDBInv DEF DBNext, UpdateReturnsError
      <3>2. WrittenIsFinal'
        BY <2>1 DEF UpdateReturnsError, WrittenIsFinal
      <3> QED
        BY <3>1, <3>2 DEF ConcurrentInv
    <2> QED
      BY <1>4, <2>1, WriteAccountKeyInv, WriteChainKeyInv, UpdateReturnsInv DEF WriteIndex
  <1>5. CASE UNCHANGED concurrentVars
    <2>1. UNCHANGED dbVars /\ written' = written
      BY <1>5 DEF concurrentVars, dbVars
    <2>2. DBInv'
      BY <1>1, <2>1, NextDBInv
    <2>3. utxo' = utxo /\ txs' = txs /\ pending' = pending /\ accounts' = accounts
      BY <2>1 DEF dbVars
    <2>4. WrittenIsFinal'
      BY <1>1, <2>1, <2>3, KeysUnchanged DEF WrittenIsFinal
    <2> QED
      BY <2>2, <2>4 DEF ConcurrentInv
  <1> QED
    BY <1>2, <1>3, <1>4, <1>5 DEF ConcurrentNext

\* The invariant holds at every point of every index update.
THEOREM ConcurrentInductive == ConcurrentSpec => []ConcurrentInv
  BY InitConcurrentInv, NextConcurrentInv, PTL DEF ConcurrentSpec

\* The three read properties hold for a query at any moment of an index
\* update, although Update does not take the mutex of the queries: what a query
\* returns belongs to the account or chain, and it misses nothing unspent of
\* the transactions before the one that is being indexed.
THEOREM ReadsDuringUpdate ==
    ConcurrentSpec => [](AccountReadSound /\ AccountReadComplete /\ ChainReadSound)
  <1>1. ConcurrentInv => AccountReadSound /\ AccountReadComplete /\ ChainReadSound
    BY SoundFromInvariant, CompleteFromInvariant, ChainFromInvariant DEF ConcurrentInv
  <1> QED
    BY <1>1, ConcurrentInductive, PTL

-----------------------------------------------------------------------------
(***************************************************************************)
(* StateStore.                                                             *)
(***************************************************************************)

(***************************************************************************)
(* A version is what a set A of transactions leaves: A is the branch that  *)
(* leads to it, and contains with a transaction those whose outputs it     *)
(* consumes.                                                               *)
(***************************************************************************)
ProducedBy(A) == {GenesisOutputID} \cup UNION {OutputIDsOf(txs[i], i) : i \in A}

SpentBy(A) == UNION {Inputs(txs[i]) : i \in A}

IsBranch(A) == A \subseteq TxNumbers /\ SpentBy(A) \subseteq ProducedBy(A)

IsVersion(state) ==
    /\ \A oid \in DOMAIN state : state[oid] = OutputOf(oid)
    /\ \E A \in SUBSET TxNumbers : IsBranch(A) /\ DOMAIN state = ProducedBy(A) \ SpentBy(A)

StoreInv ==
    /\ TypeOK
    /\ InputsOlder
    /\ IsVersion(utxo)
    /\ \A state \in stored : IsVersion(state)

-----------------------------------------------------------------------------
\* A branch is made of recorded outputs.
LEMMA VersionProduced ==
    ASSUME NEW state, IsVersion(state)
    PROVE  DOMAIN state \subseteq ProducedIDs
  BY DEF IsVersion, ProducedBy, ProducedIDs

\* Initially the only version is the genesis one, of the empty branch.
LEMMA InitStoreInv == InitStore => StoreInv
  <1> SUFFICES ASSUME InitStore PROVE StoreInv
    OBVIOUS
  <1>1. IInv
    BY InitIInv DEF InitStore, Init
  <1>2. /\ stored = {utxo} /\ DOMAIN utxo = {GenesisOutputID}
    BY DEF InitStore, InitLedgerState
  <1>3. IsBranch({}) /\ ProducedBy({}) = {GenesisOutputID} /\ SpentBy({}) = {}
    BY DEF IsBranch, ProducedBy, SpentBy
  <1>4. IsVersion(utxo)
    BY <1>1, <1>2, <1>3 DEF IsVersion, IInv, UtxoExact
  <1> QED
    BY <1>1, <1>2, <1>4 DEF StoreInv, IInv

\* What Update does to the history when the transaction may have been accepted
\* before, in another branch: its ID is the number it has or gets.
LEMMA BranchUpdate ==
    ASSUME StoreInv, NEW tx, Update(tx), NEW n, n = TransactionID(tx)
    PROVE  /\ tx \in Transaction /\ Inputs(tx) \subseteq DOMAIN utxo
           /\ n \in TxNumbers' /\ n \in Nat /\ n > 0 /\ txs'[n] = tx
           /\ n \in TxNumbers \/ n = Len(txs) + 1
           /\ TxNumbers \subseteq TxNumbers' /\ TxNumbers' \subseteq TxNumbers \cup {n}
           /\ \A i \in TxNumbers : txs'[i] = txs[i]
           /\ txs' \in Seq(Transaction) /\ Len(txs') \in {Len(txs), Len(txs) + 1}
           /\ utxo' = UpdateTrie(tx, n)
  <1>1. txs \in Seq(Transaction) /\ Len(txs) \in Nat
    BY DEF StoreInv, TypeOK
  <1>2. tx \in Transaction /\ Inputs(tx) \subseteq DOMAIN utxo
    BY DEF Update, Accepted, InputsFound
  <1>3. utxo' = UpdateTrie(tx, n)
    BY DEF Update
  <1>4. CASE \E i \in 1 .. Len(txs) : txs[i] = tx
    <2>1. n \in 1 .. Len(txs) /\ txs[n] = tx
      BY <1>4 DEF TransactionID
    <2>2. txs' = txs
      BY <2>1 DEF Update, Record
    <2> QED
      BY <1>1, <1>2, <1>3, <2>1, <2>2 DEF TxNumbers
  <1>5. CASE ~ \E i \in 1 .. Len(txs) : txs[i] = tx
    <2>1. n = Len(txs) + 1
      BY <1>5 DEF TransactionID
    <2>2. txs' = Append(txs, tx)
      BY <1>1, <2>1 DEF Update, Record
    <2>3. txs' \in Seq(Transaction) /\ Len(txs') = n /\ txs'[n] = tx
          /\ \A i \in 1 .. Len(txs) : txs'[i] = txs[i]
      BY <1>1, <1>2, <2>1, <2>2
    <2> QED
      BY <1>1, <1>2, <1>3, <2>1, <2>3 DEF TxNumbers
  <1> QED
    BY <1>4, <1>5

\* The vocabulary for what was produced and consumed does not change for the
\* transactions that are recorded already.
LEMMA HistoryKept ==
    ASSUME StoreInv, TxNumbers \subseteq TxNumbers', \A i \in TxNumbers : txs'[i] = txs[i]
    PROVE  /\ \A A \in SUBSET TxNumbers :
                  /\ ProducedBy(A)' = ProducedBy(A) /\ SpentBy(A)' = SpentBy(A)
                  /\ IsBranch(A) => IsBranch(A)'
           /\ ProducedIDs \subseteq ProducedIDs'
           /\ \A oid \in ProducedIDs : OutputOf(oid)' = OutputOf(oid)
           /\ \A state : IsVersion(state) => IsVersion(state)'
  <1>1. ASSUME NEW A \in SUBSET TxNumbers
        PROVE  /\ ProducedBy(A)' = ProducedBy(A) /\ SpentBy(A)' = SpentBy(A)
               /\ IsBranch(A) => IsBranch(A)'
    <2>1. \A i \in A : txs'[i] = txs[i]
      BY <1>1
    <2>2. ProducedBy(A)' = {GenesisOutputID} \cup UNION {OutputIDsOf(txs'[i], i) : i \in A}
      BY DEF ProducedBy, OutputIDsOf, NewOutputID, GenesisOutputID
    <2>3. SpentBy(A)' = UNION {Inputs(txs'[i]) : i \in A}
      BY DEF SpentBy, Inputs
    <2>4. ProducedBy(A)' = ProducedBy(A) /\ SpentBy(A)' = SpentBy(A)
      BY <2>1, <2>2, <2>3 DEF ProducedBy, SpentBy
    <2> QED
      BY <2>4 DEF IsBranch
  <1>2. ProducedIDs = ProducedBy(TxNumbers)
    BY DEF ProducedIDs, ProducedBy
  <1>3. ProducedIDs' = {GenesisOutputID} \cup UNION {OutputIDsOf(txs'[i], i) : i \in TxNumbers'}
    BY DEF ProducedIDs, OutputIDsOf, NewOutputID, GenesisOutputID
  <1>4. ProducedIDs \subseteq ProducedIDs'
    BY <1>3 DEF ProducedIDs
  <1>5. ASSUME NEW oid \in ProducedIDs
        PROVE  OutputOf(oid)' = OutputOf(oid)
    BY <1>5, ProducedShape DEF StoreInv, OutputOf, At, GenesisOutputID, GenesisOutput
  <1>6. ASSUME NEW state, IsVersion(state)
        PROVE  IsVersion(state)'
    <2>1. PICK A \in SUBSET TxNumbers : IsBranch(A) /\ DOMAIN state = ProducedBy(A) \ SpentBy(A)
      BY <1>6 DEF IsVersion
    <2>2. A \in SUBSET TxNumbers' /\ IsBranch(A)' /\ DOMAIN state = (ProducedBy(A) \ SpentBy(A))'
      BY <1>1, <2>1
    <2>3. \A oid \in DOMAIN state : state[oid] = OutputOf(oid)'
      BY <1>5, <1>6, VersionProduced DEF IsVersion
    <2> QED
      BY <2>2, <2>3 DEF IsVersion
  <1> QED
    BY <1>1, <1>4, <1>5, <1>6

-----------------------------------------------------------------------------
\* updateTrie makes a version out of a version: the branch grows by the
\* transaction, which is not in it yet although it may be in others.
LEMMA UpdateIsVersion ==
    ASSUME StoreInv, NEW tx, Update(tx)
    PROVE  IsVersion(utxo)'
  <1>0. PICK n : n = TransactionID(tx)
    OBVIOUS
  <1> DEFINE new == OutputIDsOf(tx, n)
  <1>1. /\ tx \in Transaction /\ Inputs(tx) \subseteq DOMAIN utxo
        /\ n \in TxNumbers' /\ n > 0 /\ n \in Nat /\ txs'[n] = tx
        /\ n \in TxNumbers \/ n = Len(txs) + 1
        /\ TxNumbers \subseteq TxNumbers'
        /\ \A i \in TxNumbers : txs'[i] = txs[i]
        /\ utxo' = UpdateTrie(tx, n)
    BY <1>0, BranchUpdate
  <1>2. /\ DOMAIN utxo' = (DOMAIN utxo \ Inputs(tx)) \cup new
        /\ \A oid \in DOMAIN utxo' :
               utxo'[oid] = IF oid \in new THEN At(tx.outputs, oid.idx) ELSE utxo[oid]
    BY <1>1 DEF UpdateTrie
  <1> HIDE DEF new
  <1>3. PICK A \in SUBSET TxNumbers : IsBranch(A) /\ DOMAIN utxo = ProducedBy(A) \ SpentBy(A)
    BY DEF StoreInv, IsVersion
  <1>4. n \notin A
    <2> SUFFICES ASSUME n \in A PROVE FALSE
      OBVIOUS
    <2>1. txs[n] = tx
      BY <1>1, <1>3
    <2>2. PICK oid \in Inputs(tx) : TRUE
      BY <1>1, TransactionShape
    <2>3. oid \in SpentBy(A)
      BY <2>1, <2>2 DEF SpentBy
    <2> QED
      BY <1>1, <1>3, <2>2, <2>3
  <1>5. /\ \A oid \in ProducedBy(A) : oid \notin new
        /\ \A oid \in new : oid.tx = n /\ oid # GenesisOutputID
    <2>1. ASSUME NEW oid \in new
          PROVE  oid.tx = n
      BY <2>1, OutputIDsShape DEF new
    <2>2. ASSUME NEW oid \in ProducedBy(A)
          PROVE  oid.tx # n
      <3>1. CASE oid = GenesisOutputID
        BY <1>1, <3>1 DEF GenesisOutputID
      <3>2. ASSUME NEW i \in A, oid \in OutputIDsOf(txs[i], i)
            PROVE  oid.tx # n
        <4>1. oid.tx = i
          BY <3>2, OutputIDsShape
        <4> QED
          BY <1>4, <4>1
      <3> QED
        BY <2>2, <3>1, <3>2 DEF ProducedBy
    <2>3. GenesisOutputID \in ProducedBy(A)
      BY DEF ProducedBy
    <2> QED
      BY <2>1, <2>2, <2>3
  <1>6. PICK B : B = A \cup {n}
    OBVIOUS
  <1>7. B \in SUBSET TxNumbers'
    BY <1>1, <1>6
  <1>8. \A i \in B : txs'[i] = IF i = n THEN tx ELSE txs[i]
    BY <1>1, <1>3, <1>6
  <1>9. /\ ProducedBy(B)' = {GenesisOutputID} \cup UNION {OutputIDsOf(txs'[i], i) : i \in B}
        /\ SpentBy(B)' = UNION {Inputs(txs'[i]) : i \in B}
    BY DEF ProducedBy, SpentBy, Inputs, OutputIDsOf, NewOutputID, GenesisOutputID
  <1>10. ProducedBy(B)' = ProducedBy(A) \cup new /\ SpentBy(B)' = SpentBy(A) \cup Inputs(tx)
    BY <1>4, <1>6, <1>8, <1>9 DEF ProducedBy, SpentBy, new
  <1>11. SpentBy(A) \subseteq ProducedBy(A) /\ Inputs(tx) \subseteq ProducedBy(A)
    BY <1>1, <1>3 DEF IsBranch
  <1>12. IsBranch(B)'
    BY <1>7, <1>10, <1>11 DEF IsBranch
  <1>13. DOMAIN utxo' = ProducedBy(B)' \ SpentBy(B)'
    BY <1>2, <1>3, <1>5, <1>10, <1>11
  <1>14. ASSUME NEW oid \in DOMAIN utxo'
         PROVE  utxo'[oid] = OutputOf(oid)'
    <2>1. CASE oid \in new
      BY <1>1, <1>2, <1>5, <1>14, <2>1 DEF OutputOf, At
    <2>2. CASE oid \notin new
      <3>1. oid \in DOMAIN utxo /\ utxo'[oid] = utxo[oid]
        BY <1>2, <1>14, <2>2
      <3>2. oid \in ProducedIDs /\ utxo[oid] = OutputOf(oid)
        BY <3>1, VersionProduced DEF StoreInv, IsVersion
      <3> QED
        BY <1>1, <3>1, <3>2, HistoryKept
    <2> QED
      BY <2>1, <2>2
  <1> QED
    BY <1>7, <1>12, <1>13, <1>14 DEF IsVersion

\* The types after an update.
LEMMA BranchTypeOK ==
    ASSUME StoreInv, NEW tx, Update(tx), Len(txs) < MaxTxs
    PROVE  TypeOK'
  <1> DEFINE n == TransactionID(tx)
             new == OutputIDsOf(tx, n)
  <1>1. /\ tx \in Transaction /\ n \in Nat
        /\ txs' \in Seq(Transaction) /\ Len(txs') \in {Len(txs), Len(txs) + 1}
        /\ utxo' = UpdateTrie(tx, n)
    BY BranchUpdate
  <1>2. /\ DOMAIN utxo' = (DOMAIN utxo \ Inputs(tx)) \cup new
        /\ \A oid \in DOMAIN utxo' :
               utxo'[oid] = IF oid \in new THEN At(tx.outputs, oid.idx) ELSE utxo[oid]
    BY <1>1 DEF UpdateTrie
  <1>3. tx.outputs \in Seq(Output) /\ Len(tx.outputs) \in Nat /\ Len(tx.outputs) <= MaxByte + 1
    BY <1>1, TransactionShape
  <1> HIDE DEF n
  <1>4. ASSUME NEW oid \in new
        PROVE  oid \in OutputID /\ At(tx.outputs, oid.idx) \in Output
    <2>1. PICK k \in 1 .. Len(tx.outputs) : oid = [tx |-> n, idx |-> k - 1]
      BY <1>4, OutputIDsShape
    <2>2. k - 1 \in Byte
      BY <1>3, <2>1, MaxByteAssumption DEF Byte
    <2>3. oid \in OutputID /\ oid.idx = k - 1
      BY <1>1, <2>1, <2>2 DEF OutputID
    <2>4. At(tx.outputs, oid.idx) = tx.outputs[k]
      BY <1>3, <2>3 DEF At
    <2> QED
      BY <1>3, <2>3, <2>4
  <1> HIDE DEF new
  <1>5. \A oid \in DOMAIN utxo' : oid \in OutputID /\ utxo'[oid] \in Output
    BY <1>2, <1>4 DEF StoreInv, TypeOK
  <1>6. Len(txs') <= MaxTxs
    BY <1>1, GenesisAssumption DEF StoreInv, TypeOK
  <1> QED
    BY <1>1, <1>5, <1>6 DEF TypeOK, Transaction, Output, OutputID

\* A transaction consumes outputs of transactions with smaller numbers, also
\* when it is accepted again.
LEMMA BranchInputsOlder ==
    ASSUME StoreInv, NEW tx, Update(tx)
    PROVE  InputsOlder'
  <1> DEFINE n == TransactionID(tx)
  <1>1. /\ Inputs(tx) \subseteq DOMAIN utxo
        /\ n \in TxNumbers \/ n = Len(txs) + 1
        /\ txs'[n] = tx
        /\ TxNumbers \subseteq TxNumbers' /\ TxNumbers' \subseteq TxNumbers \cup {n}
        /\ \A i \in TxNumbers : txs'[i] = txs[i]
    BY BranchUpdate
  <1> HIDE DEF n
  <1>2. ProducedIDs \subseteq ProducedIDs'
    BY <1>1, HistoryKept
  <1>3. ASSUME NEW i \in TxNumbers', NEW oid \in Inputs(txs'[i])
        PROVE  oid \in ProducedIDs' /\ oid.tx < i
    <2>1. CASE i \in TxNumbers
      BY <1>1, <1>2, <1>3, <2>1 DEF StoreInv, InputsOlder
    <2>2. CASE i \notin TxNumbers
      <3>1. i = Len(txs) + 1 /\ oid \in Inputs(tx)
        BY <1>1, <1>3, <2>2
      <3>2. oid \in ProducedIDs
        BY <1>1, <3>1, VersionProduced DEF StoreInv
      <3>3. oid.tx \in 0 .. Len(txs)
        BY <3>2, ProducedShape DEF StoreInv
      <3>4. Len(txs) \in Nat
        BY DEF StoreInv, TypeOK
      <3> QED
        BY <1>2, <3>1, <3>2, <3>3, <3>4
    <2> QED
      BY <2>1, <2>2
  <1> QED
    BY <1>3 DEF InputsOlder, Inputs

-----------------------------------------------------------------------------
\* Every step keeps the invariant: an update, committed or not, and opening
\* any version of the store.
LEMMA NextStoreInv == StoreInv /\ [StoreNext]_storeVars => StoreInv'
  <1> SUFFICES ASSUME StoreInv, [StoreNext]_storeVars PROVE StoreInv'
    OBVIOUS
  <1>1. ASSUME NEW tx, Update(tx), Len(txs) < MaxTxs, stored' \in {stored, stored \cup {utxo'}}
        PROVE  StoreInv'
    <2>1. TypeOK' /\ InputsOlder' /\ IsVersion(utxo)'
      BY <1>1, UpdateIsVersion, BranchTypeOK, BranchInputsOlder
    <2>2. ASSUME NEW state, IsVersion(state)
          PROVE  IsVersion(state)'
      BY <1>1, <2>2, BranchUpdate, HistoryKept
    <2>3. ASSUME NEW state \in stored'
          PROVE  IsVersion(state)'
      <3>1. CASE state \in stored
        BY <2>2, <3>1 DEF StoreInv
      <3>2. CASE state = utxo'
        BY <2>1, <3>2 DEF IsVersion
      <3> QED
        BY <1>1, <2>3, <3>1, <3>2
    <2> QED
      BY <2>1, <2>3 DEF StoreInv
  <1>2. ASSUME txs' = txs, stored' = stored, IsVersion(utxo')
        PROVE  StoreInv'
    <2>1. /\ TxNumbers' = TxNumbers /\ ProducedIDs' = ProducedIDs
          /\ \A oid : OutputOf(oid)' = OutputOf(oid)
      BY <1>2 DEF TxNumbers, ProducedIDs, OutputOf
    <2>2. \A oid \in DOMAIN utxo' : oid \in OutputID /\ utxo'[oid] \in Output
      <3>1. ASSUME NEW oid \in DOMAIN utxo'
            PROVE  oid \in ProducedIDs /\ utxo'[oid] = OutputOf(oid)
        BY <1>2, <3>1, VersionProduced DEF IsVersion
      <3> QED
        BY <3>1, OutputTyped, ProducedTyped DEF StoreInv
    <2>3. TypeOK'
      BY <1>2, <2>2 DEF StoreInv, TypeOK, Transaction, Output, OutputID
    <2>4. InputsOlder'
      BY <1>2, <2>1 DEF StoreInv, InputsOlder
    <2>5. \A A : ProducedBy(A)' = ProducedBy(A) /\ SpentBy(A)' = SpentBy(A)
                 /\ IsBranch(A)' = IsBranch(A)
      BY <1>2 DEF ProducedBy, SpentBy, IsBranch, TxNumbers
    <2>6. IsVersion(utxo)'
      BY <1>2, <2>1, <2>5 DEF IsVersion
    <2>7. ASSUME NEW state \in stored
          PROVE  IsVersion(state)'
      BY <2>1, <2>5, <2>7 DEF StoreInv, IsVersion
    <2> QED
      BY <1>2, <2>3, <2>4, <2>6, <2>7 DEF StoreInv
  <1>3. CASE StoreNext
    <2>1. ASSUME NEW tx, Len(txs) < MaxTxs, UpdateCommitted(tx) \/ UpdateNotCommitted(tx)
          PROVE  StoreInv'
      BY <1>1, <2>1 DEF UpdateCommitted, UpdateNotCommitted
    <2>2. CASE NewUpdatable
      BY <1>2, <2>2 DEF NewUpdatable, StoreInv
    <2> QED
      BY <1>3, <2>1, <2>2 DEF StoreNext
  <1>4. CASE UNCHANGED storeVars
    BY <1>2, <1>4 DEF storeVars, StoreInv
  <1> QED
    BY <1>3, <1>4

\* The invariant holds in every state of the store.
THEOREM StoreInductive == StoreSpec => []StoreInv
  BY InitStoreInv, NextStoreInv, PTL DEF StoreSpec

\* Readers of different branches never disagree about an output.
THEOREM BranchesDoAgree == StoreSpec => []BranchesAgree
  <1>1. StoreInv => BranchesAgree
    BY DEF StoreInv, IsVersion, BranchesAgree
  <1> QED
    BY <1>1, StoreInductive, PTL

\* A version has no output of a transaction together with one of its inputs.
LEMMA VersionWithoutSpender ==
    ASSUME NEW state, IsVersion(state), NEW oid \in DOMAIN state,
           NEW i \in TxNumbers, oid \in Inputs(txs[i]), HasTransaction(i, state)
    PROVE  FALSE
  <1>1. PICK A \in SUBSET TxNumbers : DOMAIN state = ProducedBy(A) \ SpentBy(A)
    BY DEF IsVersion
  <1>2. PICK other \in DOMAIN state : other.tx = i
    BY DEF HasTransaction
  <1>3. i # 0
    BY DEF TxNumbers
  <1>4. PICK j \in A : other \in OutputIDsOf(txs[j], j)
    BY <1>1, <1>2, <1>3 DEF ProducedBy, GenesisOutputID
  <1>5. j = i
    BY <1>2, <1>4, OutputIDsShape
  <1>6. oid \in SpentBy(A)
    BY <1>4, <1>5 DEF SpentBy
  <1> QED
    BY <1>1, <1>6

\* No version holds an output together with an output of a transaction that
\* consumed it, whatever failed or was accepted again before.
THEOREM NoOutputBesidesItsSpender == StoreSpec => []NoOutputWithItsSpender
  <1>1. StoreInv => NoOutputWithItsSpender
    BY VersionWithoutSpender DEF StoreInv, NoOutputWithItsSpender
  <1> QED
    BY <1>1, StoreInductive, PTL

-----------------------------------------------------------------------------
(***************************************************************************)
(* Every version holds the whole supply.  A transaction that is accepted   *)
(* again, in another branch, has the ID it had before; its outputs are     *)
(* nevertheless new in the version it is applied to, which has its inputs. *)
(***************************************************************************)
BranchInv == StoreInv /\ Balanced(utxo) /\ \A state \in stored : Balanced(state)

\* The outputs of an accepted transaction are not yet in its branch.
LEMMA BranchFresh ==
    ASSUME StoreInv, NEW tx, Update(tx), NEW n, n = TransactionID(tx)
    PROVE  OutputIDsOf(tx, n) \cap DOMAIN utxo = {}
  <1> SUFFICES ASSUME NEW oid \in OutputIDsOf(tx, n), oid \in DOMAIN utxo
               PROVE  FALSE
    OBVIOUS
  <1>1. /\ tx \in Transaction /\ Inputs(tx) \subseteq DOMAIN utxo
        /\ n \in Nat /\ n > 0
        /\ n \in TxNumbers \/ n = Len(txs) + 1
        /\ txs'[n] = tx /\ \A i \in TxNumbers : txs'[i] = txs[i]
    BY BranchUpdate
  <1>2. oid.tx = n
    BY OutputIDsShape
  <1>3. n \in 0 .. Len(txs)
    <2>1. oid \in ProducedIDs
      BY VersionProduced DEF StoreInv
    <2> QED
      BY <1>2, <2>1, ProducedShape DEF StoreInv
  <1>4. n \in TxNumbers /\ txs[n] = tx
    <2>1. n # Len(txs) + 1
      BY <1>3 DEF StoreInv, TypeOK
    <2> QED
      BY <1>1, <2>1
  <1>5. PICK spent \in Inputs(tx) : spent \in DOMAIN utxo
    BY <1>1, TransactionShape
  <1>6. HasTransaction(n, utxo)
    BY <1>2 DEF HasTransaction
  <1> QED
    BY <1>4, <1>5, <1>6, VersionWithoutSpender DEF StoreInv

\* Every step keeps the versions balanced.
LEMMA NextBranchInv == BranchInv /\ [StoreNext]_storeVars => BranchInv'
  <1> SUFFICES ASSUME BranchInv, [StoreNext]_storeVars PROVE BranchInv'
    OBVIOUS
  <1>1. StoreInv /\ StoreInv' /\ TypeOK
    BY NextStoreInv DEF BranchInv, StoreInv
  <1>2. ASSUME NEW tx, Update(tx), stored' \in {stored, stored \cup {utxo'}}
        PROVE  BranchInv'
    <2>1. PICK n : n = TransactionID(tx)
      OBVIOUS
    <2>2. PICK next : next = utxo'
      OBVIOUS
    <2>3. Accepted(tx) /\ next = UpdateTrie(tx, n)
      BY <1>2, <2>1, <2>2 DEF Update
    <2>4. Executes(utxo, tx, n, ConsumedOutputs(tx), next)
      BY <1>1, <2>3, UpdateExecutes
    <2>5. OutputIDsOf(tx, n) \cap DOMAIN utxo = {}
      BY <1>1, <1>2, <2>1, BranchFresh
    <2>6. Balanced(next)
      BY <2>4, <2>5, TransactionBalances DEF BranchInv
    <2> QED
      BY <1>1, <1>2, <2>2, <2>6 DEF BranchInv
  <1>3. ASSUME stored' = stored, utxo' \in stored \cup {utxo}
        PROVE  BranchInv'
    <2>1. Balanced(utxo')
      BY <1>3 DEF BranchInv
    <2> QED
      BY <1>1, <1>3, <2>1 DEF BranchInv
  <1>4. CASE StoreNext
    <2>1. ASSUME NEW tx, UpdateCommitted(tx) \/ UpdateNotCommitted(tx)
          PROVE  BranchInv'
      BY <1>2, <2>1 DEF UpdateCommitted, UpdateNotCommitted
    <2>2. CASE NewUpdatable
      BY <1>3, <2>2 DEF NewUpdatable
    <2> QED
      BY <1>4, <2>1, <2>2 DEF StoreNext
  <1>5. CASE UNCHANGED storeVars
    BY <1>3, <1>5 DEF storeVars
  <1> QED
    BY <1>4, <1>5

\* Every version that can be opened holds the whole supply, whatever failed,
\* was opened again or went on in another branch before.
THEOREM BranchesAreBalanced == StoreSpec => []BranchesBalanced
  <1>1. InitStore => BranchInv
    <2> SUFFICES ASSUME InitStore PROVE BranchInv
      OBVIOUS
    <2>1. utxo = [oid \in {GenesisOutputID} |-> GenesisOutput] /\ stored = {utxo}
      BY DEF InitStore, InitLedgerState
    <2>2. Balanced(utxo)
      BY <2>1, GenesisBalanced
    <2> QED
      BY <2>1, <2>2, InitStoreInv DEF BranchInv
  <1>2. BranchInv => BranchesBalanced
    BY BalancedSum DEF BranchInv, BranchesBalanced
  <1> QED
    BY <1>1, <1>2, NextBranchInv, PTL DEF StoreSpec
==============================================================================
