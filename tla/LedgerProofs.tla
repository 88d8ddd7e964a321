---------------------------- MODULE LedgerProofs ----------------------------
(***************************************************************************)
(* Proofs about Ledger, for every value of the constants and in particular *)
(* for every set of transactions that is ever submitted.                   *)
(***************************************************************************)
EXTENDS Ledger, TLAPS, WellFoundedInduction

(***************************************************************************)
(* The inductive invariant: the state is what was produced and not         *)
(* consumed, nothing is consumed twice, and a transaction consumes only    *)
(* outputs of earlier ones.                                                *)
(***************************************************************************)
InputsOlder ==
    \A i \in TxNumbers : \A oid \in Inputs(txs[i]) :
        oid \in ProducedIDs /\ oid.tx < i

IInv == TypeOK /\ UtxoExact /\ SpentOnce /\ InputsOlder

-----------------------------------------------------------------------------
\* The types of the parts of a transaction that parses, and that it has inputs.
LEMMA TransactionShape ==
    ASSUME NEW tx \in Transaction
    PROVE  /\ tx.inputs \in Seq(OutputID)
           /\ Len(tx.inputs) \in Nat
           /\ Len(tx.inputs) > 0
           /\ Inputs(tx) \subseteq OutputID
           /\ Inputs(tx) # {}
           /\ tx.outputs \in Seq(Output)
           /\ Len(tx.outputs) \in Nat
           /\ Len(tx.outputs) <= MaxByte + 1
           /\ tx.timestamp \in Nat
  <1>1. tx.inputs \in Array(OutputID) \ {<<>>}
    BY DEF Transaction
  <1>2. tx.outputs \in Array(Output)
    BY DEF Transaction
  <1>3. tx.inputs \in Seq(OutputID) /\ tx.inputs # <<>>
    BY <1>1 DEF Array
  <1>4. Len(tx.inputs) \in Nat /\ Len(tx.inputs) > 0
    BY <1>3
  <1>5. Inputs(tx) \subseteq OutputID /\ tx.inputs[1] \in Inputs(tx)
    BY <1>3, <1>4 DEF Inputs
  <1>6. tx.outputs \in Seq(Output) /\ Len(tx.outputs) <= MaxByte + 1
    BY <1>2 DEF Array
  <1>7. tx.timestamp \in Nat
    BY DEF Transaction
  <1> QED
    BY <1>3, <1>4, <1>5, <1>6, <1>7

(***************************************************************************)
(* A transaction is never accepted twice, so an accepted one is new: its   *)
(* inputs are unspent, while the inputs of the recorded ones are spent.    *)
(***************************************************************************)
LEMMA AcceptedIsNew ==
    ASSUME IInv, NEW tx, Accepted(tx)
    PROVE  \A i \in TxNumbers : txs[i] # tx
  <1> SUFFICES ASSUME NEW i \in TxNumbers, txs[i] = tx
               PROVE  FALSE
    OBVIOUS
  <1>1. tx \in Transaction /\ Inputs(tx) \subseteq DOMAIN utxo
    BY DEF Accepted, InputsFound
  <1>2. PICK oid \in Inputs(tx) : TRUE
    BY <1>1, TransactionShape
  <1>3. oid \in SpentIDs
    BY <1>2 DEF SpentIDs
  <1>4. oid \notin SpentIDs
    BY <1>1, <1>2 DEF IInv, UtxoExact
  <1> QED
    BY <1>3, <1>4

-----------------------------------------------------------------------------
\* The output IDs of transaction n carry its number and an index below its
\* number of outputs (NewOutputID).
LEMMA OutputIDsShape ==
    ASSUME NEW t, NEW i, NEW oid
    PROVE  oid \in OutputIDsOf(t, i) <=>
               \E k \in 1 .. Len(t.outputs) : oid = [tx |-> i, idx |-> k - 1]
  BY DEF OutputIDsOf, NewOutputID

\* Everything produced so far has the number of a recorded transaction, or 0.
LEMMA ProducedShape ==
    ASSUME TypeOK, NEW oid \in ProducedIDs
    PROVE  /\ oid.tx \in 0 .. Len(txs)
           /\ oid # GenesisOutputID =>
                  /\ oid.tx \in TxNumbers
                  /\ \E k \in 1 .. Len(txs[oid.tx].outputs) :
                         oid = [tx |-> oid.tx, idx |-> k - 1]
  <1>1. Len(txs) \in Nat
    BY DEF TypeOK
  <1>2. CASE oid = GenesisOutputID
    BY <1>1, <1>2 DEF GenesisOutputID
  <1>3. CASE oid # GenesisOutputID
    <2>1. PICK i \in TxNumbers : oid \in OutputIDsOf(txs[i], i)
      BY <1>3 DEF ProducedIDs
    <2>2. PICK k \in 1 .. Len(txs[i].outputs) : oid = [tx |-> i, idx |-> k - 1]
      BY <2>1, OutputIDsShape
    <2>3. oid.tx = i
      BY <2>2
    <2>4. i \in 0 .. Len(txs)
      BY <1>1 DEF TxNumbers
    <2>5. \E l \in 1 .. Len(txs[oid.tx].outputs) : oid = [tx |-> oid.tx, idx |-> l - 1]
      BY <2>2, <2>3
    <2> QED
      BY <2>3, <2>4, <2>5
  <1> QED
    BY <1>2, <1>3

(***************************************************************************)
(* What an accepted transaction does to the history.                       *)
(***************************************************************************)
LEMMA UpdateEffect ==
    ASSUME IInv, NEW tx, Update(tx), NEW n, n = Len(txs) + 1
    PROVE  /\ Accepted(tx) /\ tx \in Transaction
           /\ n \in Nat /\ n \notin TxNumbers
           /\ \A i \in TxNumbers : i \in Nat /\ i < n /\ txs'[i] = txs[i]
           /\ txs' = Append(txs, tx) /\ txs'[n] = tx
           /\ TxNumbers' = TxNumbers \cup {n}
           /\ utxo' = UpdateTrie(tx, n)
  <1>1. txs \in Seq(Transaction) /\ Len(txs) \in Nat
    BY DEF IInv, TypeOK
  <1>2. Accepted(tx)
    BY DEF Update
  <1>3. tx \in Transaction
    BY <1>2 DEF Accepted
  <1>4. ~ \E i \in 1 .. Len(txs) : txs[i] = tx
    BY <1>2, AcceptedIsNew DEF TxNumbers
  <1>5. TransactionID(tx) = n
    BY <1>4 DEF TransactionID
  <1>6. txs' = Append(txs, tx)
    BY <1>1, <1>5 DEF Update, Record
  <1>7. utxo' = UpdateTrie(tx, n)
    BY <1>5 DEF Update
  <1>8. Len(txs') = n /\ txs'[n] = tx /\ \A i \in 1 .. Len(txs) : txs'[i] = txs[i]
    BY <1>1, <1>3, <1>6
  <1> QED
    BY <1>1, <1>2, <1>3, <1>6, <1>7, <1>8 DEF TxNumbers

\* updateTrie adds the outputs of the new transaction to what was ever
\* produced, under new IDs, and the content of older IDs does not change.
LEMMA UpdateProduced ==
    ASSUME IInv, NEW tx, Update(tx), NEW n, n = Len(txs) + 1
    PROVE  /\ ProducedIDs' = ProducedIDs \cup OutputIDsOf(tx, n)
           /\ SpentIDs' = SpentIDs \cup Inputs(tx)
           /\ \A oid \in ProducedIDs : OutputOf(oid)' = OutputOf(oid)
           /\ \A oid \in OutputIDsOf(tx, n) :
                  /\ oid \notin ProducedIDs
                  /\ oid.tx = n
                  /\ OutputOf(oid)' = At(tx.outputs, oid.idx)
  <1>1. /\ n \in Nat /\ n > 0 /\ n \notin TxNumbers
        /\ \A i \in TxNumbers : i < n /\ txs'[i] = txs[i]
        /\ txs'[n] = tx
        /\ TxNumbers' = TxNumbers \cup {n}
    BY UpdateEffect DEF IInv, TypeOK
  <1>2. TypeOK /\ Len(txs) \in Nat
    BY DEF IInv, TypeOK
  <1>3. ProducedIDs' = {GenesisOutputID} \cup UNION {OutputIDsOf(txs'[i], i) : i \in TxNumbers'}
    BY DEF ProducedIDs, OutputIDsOf, GenesisOutputID, NewOutputID
  <1>4. ProducedIDs' = ProducedIDs \cup OutputIDsOf(tx, n)
    BY <1>1, <1>3 DEF ProducedIDs
  <1>5. SpentIDs' = UNION {Inputs(txs'[i]) : i \in TxNumbers'}
    BY DEF SpentIDs, Inputs
  <1>6. SpentIDs' = SpentIDs \cup Inputs(tx)
    BY <1>1, <1>5 DEF SpentIDs
  <1>7. ASSUME NEW oid \in ProducedIDs
        PROVE  OutputOf(oid)' = OutputOf(oid)
    BY <1>1, <1>2, <1>7, ProducedShape DEF OutputOf, At, GenesisOutputID, GenesisOutput
  <1>8. ASSUME NEW oid \in OutputIDsOf(tx, n)
        PROVE  /\ oid \notin ProducedIDs
               /\ oid.tx = n
               /\ OutputOf(oid)' = At(tx.outputs, oid.idx)
    <2>1. oid.tx = n
      BY <1>8, OutputIDsShape
    <2>2. oid \notin ProducedIDs
      BY <1>1, <1>2, <2>1, ProducedShape
    <2>3. oid # GenesisOutputID
      BY <1>1, <2>1 DEF GenesisOutputID
    <2> QED
      BY <1>1, <2>1, <2>2, <2>3 DEF OutputOf, At
  <1> QED
    BY <1>4, <1>6, <1>7, <1>8

-----------------------------------------------------------------------------
(***************************************************************************)
(* The invariant holds initially.                                          *)
(***************************************************************************)
LEMMA GenesisTyped == GenesisOutputID \in OutputID /\ GenesisOutput \in Output
  <1>1. GenesisOutputID \in OutputID
    BY MaxByteAssumption DEF GenesisOutputID, OutputID, Byte
  <1>2. NewAmount(Supply) \in BasicBlock
    BY GenesisAssumption DEF NewAmount, BasicBlock
  <1>3. NewTimestamp(GenesisTime) \in BasicBlock
    BY GenesisAssumption DEF NewTimestamp, BasicBlock
  <1>4. NewAddressED25519(GenesisAddress) \in BasicBlock
    BY GenesisAssumption DEF NewAddressED25519, BasicBlock
  <1>5. GenesisOutput \in Seq(Block) /\ Len(GenesisOutput) = 3
    BY <1>2, <1>3, <1>4 DEF GenesisOutput, Block
  <1>6. Len(GenesisOutput) <= MaxByte + 1
    BY <1>5, MaxByteAssumption
  <1>7. GenesisOutput \in Array(Block)
    BY <1>5, <1>6 DEF Array
  <1> QED
    BY <1>1, <1>7 DEF Output

\* InitLedgerState establishes the inductive invariant.
LEMMA InitIInv == Init => IInv
  <1> SUFFICES ASSUME Init PROVE IInv
    OBVIOUS
  <1>1. /\ txs = <<>> /\ txs \in Seq(Transaction) /\ Len(txs) = 0 /\ TxNumbers = {}
        /\ DOMAIN utxo = {GenesisOutputID} /\ utxo[GenesisOutputID] = GenesisOutput
    BY DEF Init, InitLedgerState, TxNumbers
  <1>2. TypeOK
    BY <1>1, GenesisTyped, GenesisAssumption DEF TypeOK
  <1>3. ProducedIDs = {GenesisOutputID} /\ SpentIDs = {}
    BY <1>1 DEF ProducedIDs, SpentIDs
  <1>4. UtxoExact
    BY <1>1, <1>3 DEF UtxoExact, OutputOf
  <1>5. SpentOnce /\ InputsOlder
    BY <1>1 DEF SpentOnce, InputsOlder
  <1> QED
    BY <1>2, <1>4, <1>5 DEF IInv

(***************************************************************************)
(* The invariant is preserved by an accepted transaction.                  *)
(***************************************************************************)
LEMMA UpdateTypeOK ==
    ASSUME IInv, NEW tx, Update(tx), Len(txs) < MaxTxs
    PROVE  TypeOK'
  <1> DEFINE n == Len(txs) + 1
  <1> DEFINE new == OutputIDsOf(tx, n)
  <1>1. /\ tx \in Transaction /\ n \in Nat
        /\ txs' = Append(txs, tx)
        /\ utxo' = UpdateTrie(tx, n)
    BY UpdateEffect
  <1>2. txs \in Seq(Transaction) /\ Len(txs) \in Nat
    BY DEF IInv, TypeOK
  <1>3. txs' \in Seq(Transaction) /\ Len(txs') = n
    BY <1>1, <1>2
  <1>4. tx.outputs \in Seq(Output) /\ Len(tx.outputs) \in Nat /\ Len(tx.outputs) <= MaxByte + 1
    BY <1>1, TransactionShape
  <1>5. ASSUME NEW oid \in new
        PROVE  oid \in OutputID /\ At(tx.outputs, oid.idx) \in Output
    <2>1. PICK k \in 1 .. Len(tx.outputs) : oid = [tx |-> n, idx |-> k - 1]
      BY <1>5, OutputIDsShape
    <2>2. k - 1 \in Byte
      BY <1>4, <2>1, MaxByteAssumption DEF Byte
    <2>3. oid \in OutputID
      BY <1>1, <2>1, <2>2 DEF OutputID
    <2>4. At(tx.outputs, oid.idx) = tx.outputs[k]
      BY <1>4, <2>1 DEF At
    <2> QED
      BY <1>4, <2>1, <2>3, <2>4
  <1>6. DOMAIN utxo' = (DOMAIN utxo \ Inputs(tx)) \cup new
    BY <1>1 DEF UpdateTrie
  <1>7. \A oid \in DOMAIN utxo' :
            utxo'[oid] = IF oid \in new THEN At(tx.outputs, oid.idx) ELSE utxo[oid]
    BY <1>1, <1>6 DEF UpdateTrie
  <1>8. \A oid \in DOMAIN utxo : oid \in OutputID /\ utxo[oid] \in Output
    BY DEF IInv, TypeOK
  <1>9. \A oid \in DOMAIN utxo' : oid \in OutputID /\ utxo'[oid] \in Output
    BY <1>5, <1>6, <1>7, <1>8
  <1>10. Len(txs') <= MaxTxs
    BY <1>2, <1>3, GenesisAssumption
  <1> HIDE DEF n, new
  <1>11. /\ txs' \in Seq(Transaction)
         /\ Len(txs') <= MaxTxs
         /\ DOMAIN utxo' \subseteq OutputID
         /\ \A oid \in DOMAIN utxo' : utxo'[oid] \in Output
    BY <1>3, <1>9, <1>10
  <1> QED
    BY <1>11 DEF TypeOK, Transaction, Output, OutputID

\* Update keeps the trie equal to what was produced and not consumed.
LEMMA UpdateUtxoExact ==
    ASSUME IInv, NEW tx, Update(tx)
    PROVE  UtxoExact'
  <1> DEFINE n == Len(txs) + 1
  <1> DEFINE new == OutputIDsOf(tx, n)
  <1>1. /\ Accepted(tx) /\ utxo' = UpdateTrie(tx, n)
    BY UpdateEffect
  <1>2. /\ ProducedIDs' = ProducedIDs \cup new
        /\ SpentIDs' = SpentIDs \cup Inputs(tx)
        /\ \A oid \in ProducedIDs : OutputOf(oid)' = OutputOf(oid)
        /\ \A oid \in new : oid \notin ProducedIDs /\ OutputOf(oid)' = At(tx.outputs, oid.idx)
    BY UpdateProduced
  <1>3. Inputs(tx) \subseteq DOMAIN utxo
    BY <1>1 DEF Accepted, InputsFound
  <1>4. /\ DOMAIN utxo = ProducedIDs \ SpentIDs
        /\ \A oid \in DOMAIN utxo : utxo[oid] = OutputOf(oid)
    BY DEF IInv, UtxoExact
  <1>5. SpentIDs \subseteq ProducedIDs
    BY DEF IInv, InputsOlder, SpentIDs
  <1>6. DOMAIN utxo' = (DOMAIN utxo \ Inputs(tx)) \cup new
    BY <1>1 DEF UpdateTrie
  <1>7. \A oid \in DOMAIN utxo' :
            utxo'[oid] = IF oid \in new THEN At(tx.outputs, oid.idx) ELSE utxo[oid]
    BY <1>1, <1>6 DEF UpdateTrie
  <1> HIDE DEF new
  <1>8. DOMAIN utxo' = ProducedIDs' \ SpentIDs'
    BY <1>2, <1>3, <1>4, <1>5, <1>6
  <1>9. ASSUME NEW oid \in DOMAIN utxo'
        PROVE  utxo'[oid] = OutputOf(oid)'
    <2>1. CASE oid \in new
      BY <1>2, <1>7, <1>9, <2>1
    <2>2. CASE oid \notin new
      <3>1. oid \in DOMAIN utxo
        BY <1>6, <1>9, <2>2
      <3> QED
        BY <1>2, <1>4, <1>7, <1>9, <2>2, <3>1
    <2> QED
      BY <2>1, <2>2
  <1> QED
    BY <1>8, <1>9 DEF UtxoExact

\* Update never consumes what an earlier transaction consumed: the inputs it
\* finds in the state are unspent and different from each other.
LEMMA UpdateSpentOnce ==
    ASSUME IInv, NEW tx, Update(tx)
    PROVE  SpentOnce' /\ InputsOlder'
  <1> DEFINE n == Len(txs) + 1
  <1>1. /\ Accepted(tx) /\ tx \in Transaction
        /\ n \in Nat /\ n \notin TxNumbers
        /\ \A i \in TxNumbers : i \in Nat /\ i < n /\ txs'[i] = txs[i]
        /\ txs'[n] = tx
        /\ TxNumbers' = TxNumbers \cup {n}
    BY UpdateEffect
  <1>2. ProducedIDs \subseteq ProducedIDs'
    BY UpdateProduced
  <1>3. /\ Inputs(tx) \subseteq DOMAIN utxo
        /\ \A k, l \in 1 .. Len(tx.inputs) : tx.inputs[k] = tx.inputs[l] => k = l
    BY <1>1 DEF Accepted, InputsFound
  <1>4. Inputs(tx) \subseteq ProducedIDs /\ Inputs(tx) \cap SpentIDs = {}
    BY <1>3 DEF IInv, UtxoExact
  <1>5. ASSUME NEW oid \in ProducedIDs
        PROVE  oid.tx < n
    BY <1>5, ProducedShape DEF IInv, TypeOK
  <1> HIDE DEF n
  <1>6. InputsOlder'
    <2>1. ASSUME NEW i \in TxNumbers', NEW oid \in Inputs(txs'[i])
          PROVE  oid \in ProducedIDs' /\ oid.tx < i
      <3>1. CASE i = n
        BY <1>1, <1>2, <1>4, <1>5, <2>1, <3>1
      <3>2. CASE i \in TxNumbers
        BY <1>1, <1>2, <2>1, <3>2 DEF IInv, InputsOlder
      <3> QED
        BY <1>1, <3>1, <3>2
    <2> QED
      BY <2>1 DEF InputsOlder, Inputs
  <1>7. SpentOnce'
    <2>1. ASSUME NEW i \in TxNumbers, NEW k \in 1 .. Len(txs[i].inputs),
                 NEW l \in 1 .. Len(tx.inputs)
          PROVE  txs[i].inputs[k] # tx.inputs[l]
      <3>1. txs[i].inputs[k] \in SpentIDs
        BY DEF SpentIDs, Inputs
      <3>2. tx.inputs[l] \in Inputs(tx)
        BY DEF Inputs
      <3> QED
        BY <1>4, <3>1, <3>2
    <2>2. ASSUME NEW i \in TxNumbers', NEW j \in TxNumbers',
                 NEW k \in 1 .. Len(txs'[i].inputs), NEW l \in 1 .. Len(txs'[j].inputs),
                 txs'[i].inputs[k] = txs'[j].inputs[l]
          PROVE  i = j /\ k = l
      <3>1. CASE i = n /\ j = n
        BY <1>1, <1>3, <2>2, <3>1
      <3>2. CASE i \in TxNumbers /\ j \in TxNumbers
        <4>1. txs'[i] = txs[i] /\ txs'[j] = txs[j]
          BY <1>1, <3>2
        <4>2. SpentOnce
          BY DEF IInv
        <4> QED
          BY <2>2, <3>2, <4>1, <4>2 DEF SpentOnce
      <3>3. CASE i = n /\ j \in TxNumbers
        BY <1>1, <2>1, <2>2, <3>3
      <3>4. CASE i \in TxNumbers /\ j = n
        BY <1>1, <2>1, <2>2, <3>4
      <3> QED
        BY <1>1, <3>1, <3>2, <3>3, <3>4
    <2> QED
      BY <2>2 DEF SpentOnce
  <1> QED
    BY <1>6, <1>7

\* The inductive step: Update and stuttering preserve the invariant.
LEMMA NextIInv == IInv /\ [Next]_vars => IInv'
  <1> SUFFICES ASSUME IInv, [Next]_vars PROVE IInv'
    OBVIOUS
  <1>1. CASE Next
    <2>1. PICK tx \in Submitted(utxo, txs) : Len(txs) < MaxTxs /\ Update(tx)
      BY <1>1 DEF Next
    <2> QED
      BY <2>1, UpdateTypeOK, UpdateUtxoExact, UpdateSpentOnce DEF IInv
  <1>2. CASE UNCHANGED vars
    <2>1. utxo' = utxo /\ txs' = txs
      BY <1>2 DEF vars
    <2>2. TypeOK'
      BY <2>1 DEF IInv, TypeOK, Transaction, Output, OutputID
    <2>3. ProducedIDs' = ProducedIDs /\ SpentIDs' = SpentIDs /\ TxNumbers' = TxNumbers
      BY <2>1 DEF ProducedIDs, SpentIDs, TxNumbers
    <2>4. \A oid : OutputOf(oid)' = OutputOf(oid)
      BY <2>1 DEF OutputOf
    <2>5. UtxoExact'
      BY <2>1, <2>3, <2>4 DEF IInv, UtxoExact
    <2>6. SpentOnce' /\ InputsOlder'
      BY <2>1, <2>3 DEF IInv, SpentOnce, InputsOlder
    <2> QED
      BY <2>2, <2>5, <2>6 DEF IInv
  <1> QED
    BY <1>1, <1>2

\* The inductive invariant is an invariant of the ledger.
THEOREM Inductive == Spec => []IInv
  BY InitIInv, NextIInv, PTL DEF Spec

\* Type correctness of the ledger state and of the history.
THEOREM TypeCorrect == Spec => []TypeOK
  <1>1. IInv => TypeOK
    BY DEF IInv
  <1> QED
    BY <1>1, Inductive, PTL

\* No output is ever consumed twice, whatever is submitted.
THEOREM NoDoubleSpend == Spec => []SpentOnce
  <1>1. IInv => SpentOnce
    BY DEF IInv
  <1> QED
    BY <1>1, Inductive, PTL

\* The state is always exactly what was produced and not consumed.
THEOREM StateIsExact == Spec => []UtxoExact
  <1>1. IInv => UtxoExact
    BY DEF IInv
  <1> QED
    BY <1>1, Inductive, PTL

-----------------------------------------------------------------------------
(***************************************************************************)
(* The history stays valid: every recorded transaction satisfies Validate  *)
(* in the context of the outputs it consumed.  What the constraints        *)
(* promise about a transaction can then be read off its context.           *)
(***************************************************************************)
HistoryValid == \A i \in TxNumbers : Validate(ContextOf(i))

\* At genesis there is no transaction yet, so the history is valid.
LEMMA InitHistoryValid == Init => HistoryValid
  BY DEF Init, InitLedgerState, HistoryValid, TxNumbers

\* Update appends a transaction that Validate accepted and leaves the contexts
\* of the older ones as they are.
LEMMA UpdateHistoryValid ==
    ASSUME IInv, HistoryValid, NEW tx, Update(tx)
    PROVE  HistoryValid'
  <1>0. PICK n \in Nat : n = Len(txs) + 1
    BY DEF IInv, TypeOK
  <1>2. /\ Accepted(tx) /\ tx \in Transaction
        /\ \A i \in TxNumbers : txs'[i] = txs[i]
        /\ txs'[n] = tx
        /\ TxNumbers' = TxNumbers \cup {n}
    BY <1>0, UpdateEffect
  <1>3. \A oid \in ProducedIDs : OutputOf(oid)' = OutputOf(oid)
    BY <1>0, UpdateProduced
  <1>4. ASSUME NEW i \in TxNumbers
        PROVE  ContextOf(i)' = ContextOf(i)
    <2>1. \A k \in 1 .. Len(txs[i].inputs) : txs[i].inputs[k] \in ProducedIDs
      BY DEF IInv, InputsOlder, Inputs
    <2>2. txs'[i] = txs[i]
      BY <1>2
    <2> QED
      BY <1>3, <2>1, <2>2 DEF ContextOf, Context
  <1>5. ContextOf(n)' = Context(tx, ConsumedOutputs(tx))
    <2>1. ASSUME NEW k \in 1 .. Len(tx.inputs)
          PROVE  utxo[tx.inputs[k]] = OutputOf(tx.inputs[k])'
      <3>1. tx.inputs[k] \in DOMAIN utxo
        BY <1>2 DEF Accepted, InputsFound, Inputs
      <3> QED
        BY <1>3, <3>1 DEF IInv, UtxoExact
    <2> QED
      BY <1>2, <2>1 DEF ContextOf, Context, ConsumedOutputs
  <1>6. Validate(Context(tx, ConsumedOutputs(tx)))
    BY <1>2 DEF Accepted
  <1>7. ASSUME NEW i \in TxNumbers'
        PROVE  Validate(ContextOf(i)')
    <2>1. CASE i = n
      BY <1>5, <1>6, <2>1
    <2>2. CASE i \in TxNumbers
      BY <1>4, <2>2 DEF HistoryValid
    <2> QED
      BY <1>2, <1>7, <2>1, <2>2
  <1> QED
    BY <1>7 DEF HistoryValid

LEMMA NextHistoryValid == IInv /\ HistoryValid /\ [Next]_vars => HistoryValid'
  <1> SUFFICES ASSUME IInv, HistoryValid, [Next]_vars PROVE HistoryValid'
    OBVIOUS
  <1>1. CASE Next
    BY <1>1, UpdateHistoryValid DEF Next
  <1>2. CASE UNCHANGED vars
    BY <1>2 DEF vars, HistoryValid, ContextOf, OutputOf, TxNumbers
  <1> QED
    BY <1>1, <1>2

\* Every transaction in the history is valid in the context it was accepted in.
THEOREM HistoryIsValid == Spec => []HistoryValid
  BY InitHistoryValid, NextHistoryValid, Inductive, PTL DEF Spec

\* What the validation of the i-th transaction says about one of the outputs
\* it consumed, and about one of the outputs it produced.
LEMMA ConsumedValid ==
    ASSUME IInv, HistoryValid, NEW i \in TxNumbers,
           NEW k \in 1 .. Len(txs[i].inputs), NEW out, out = OutputOf(txs[i].inputs[k])
    PROVE  /\ OutputParses(out)
           /\ ContextOf(i).consumed[k] = out
           /\ ContextOf(i).tx = txs[i]
           /\ Len(ContextOf(i).consumed) = Len(txs[i].inputs)
           /\ \A b \in 1 .. Len(out) :
                  EvalConstraint(ContextOf(i), Path("consumed", k - 1, b - 1), out[b])
  <1>1. txs[i] \in Transaction
    BY DEF IInv, TypeOK, TxNumbers
  <1>2. Len(txs[i].inputs) \in Nat
    BY <1>1, TransactionShape
  <1>3. /\ ContextOf(i).consumed = [l \in 1 .. Len(txs[i].inputs) |-> OutputOf(txs[i].inputs[l])]
        /\ ContextOf(i).tx = txs[i]
    BY DEF ContextOf, Context
  <1>4. ContextOf(i).consumed[k] = out /\ Len(ContextOf(i).consumed) = Len(txs[i].inputs)
    BY <1>2, <1>3
  <1>5. Outputs(ContextOf(i), "consumed") = ContextOf(i).consumed
    BY DEF Outputs
  <1>6. k - 1 \in 0 .. Len(Outputs(ContextOf(i), "consumed")) - 1
    BY <1>2, <1>4, <1>5
  <1>7. At(Outputs(ContextOf(i), "consumed"), k - 1) = out
    BY <1>2, <1>4, <1>5 DEF At
  <1>8. ValidateOutputs(ContextOf(i), "consumed")
    BY DEF HistoryValid, Validate
  <1>9. RunOutput(ContextOf(i), "consumed", k - 1) /\ OutputParses(out)
    BY <1>6, <1>7, <1>8 DEF ValidateOutputs
  <1> QED
    BY <1>3, <1>4, <1>7, <1>9 DEF RunOutput

\* The same for produced outputs: every block of an output of a recorded
\* transaction was evaluated on the produced side, and the output parsed.
LEMMA ProducedValid ==
    ASSUME IInv, HistoryValid, NEW i \in TxNumbers,
           NEW k \in 1 .. Len(txs[i].outputs), NEW out, out = txs[i].outputs[k]
    PROVE  /\ OutputParses(out)
           /\ ContextOf(i).tx = txs[i]
           /\ \A b \in 1 .. Len(out) :
                  EvalConstraint(ContextOf(i), Path("produced", k - 1, b - 1), out[b])
  <1>1. txs[i] \in Transaction
    BY DEF IInv, TypeOK, TxNumbers
  <1>2. Len(txs[i].outputs) \in Nat
    BY <1>1, TransactionShape
  <1>3. ContextOf(i).tx = txs[i]
    BY DEF ContextOf, Context
  <1>4. Outputs(ContextOf(i), "produced") = txs[i].outputs
    BY <1>3 DEF Outputs
  <1>5. k - 1 \in 0 .. Len(Outputs(ContextOf(i), "produced")) - 1
    BY <1>2, <1>4
  <1>6. At(Outputs(ContextOf(i), "produced"), k - 1) = out
    BY <1>2, <1>4 DEF At
  <1>7. ValidateOutputs(ContextOf(i), "produced")
    BY DEF HistoryValid, Validate
  <1>8. RunOutput(ContextOf(i), "produced", k - 1) /\ OutputParses(out)
    BY <1>5, <1>6, <1>7 DEF ValidateOutputs
  <1> QED
    BY <1>3, <1>6, <1>8 DEF RunOutput

-----------------------------------------------------------------------------
(***************************************************************************)
(* What the constraints guarantee in every history, from the validity of   *)
(* the recorded transactions.                                              *)
(***************************************************************************)
\* A nonempty set of natural numbers has a least element; used to follow a
\* chain of references to its end.
LEMMA LeastNumber ==
    ASSUME NEW T, T \subseteq Nat, T # {}
    PROVE  \E x \in T : \A y \in T : ~ (y < x)
  <1>1. PICK x \in T : \A y \in T : ~ (<<y, x>> \in OpToRel(<, Nat))
    BY WFMin, NatLessThanWellFounded
  <1> QED
    BY <1>1 DEF OpToRel

\* Everything produced so far is an output.
LEMMA OutputTyped ==
    ASSUME TypeOK, NEW oid \in ProducedIDs
    PROVE  OutputOf(oid) \in Output /\ Len(OutputOf(oid)) \in Nat
  <1>1. CASE oid = GenesisOutputID
    BY <1>1, GenesisTyped DEF OutputOf, Output, Array
  <1>2. CASE oid # GenesisOutputID
    <2>1. oid.tx \in TxNumbers
      BY <1>2, ProducedShape
    <2>2. PICK k \in 1 .. Len(txs[oid.tx].outputs) : oid = [tx |-> oid.tx, idx |-> k - 1]
      BY <1>2, ProducedShape
    <2>3. txs[oid.tx] \in Transaction
      BY <2>1 DEF TypeOK, TxNumbers
    <2>4. txs[oid.tx].outputs \in Seq(Output) /\ Len(txs[oid.tx].outputs) \in Nat
      BY <2>3, TransactionShape
    <2>5. oid.idx = k - 1
      BY <2>2
    <2>6. OutputOf(oid) = txs[oid.tx].outputs[k]
      BY <1>2, <2>4, <2>5 DEF OutputOf, At
    <2>7. OutputOf(oid) \in Output
      BY <2>2, <2>4, <2>6
    <2> QED
      BY <2>7 DEF Output, Array
  <1> QED
    BY <1>1, <1>2

\* The IDs of what was produced are output IDs: the index is a byte.
LEMMA ProducedTyped ==
    ASSUME TypeOK, NEW oid \in ProducedIDs
    PROVE  oid \in OutputID
  <1>1. CASE oid = GenesisOutputID
    BY <1>1, GenesisTyped
  <1>2. CASE oid # GenesisOutputID
    <2>1. oid.tx \in TxNumbers
      BY <1>2, ProducedShape
    <2>2. PICK k \in 1 .. Len(txs[oid.tx].outputs) : oid = [tx |-> oid.tx, idx |-> k - 1]
      BY <1>2, ProducedShape
    <2>3. Len(txs[oid.tx].outputs) \in Nat /\ Len(txs[oid.tx].outputs) <= MaxByte + 1
      BY <2>1, TransactionShape DEF TypeOK, TxNumbers
    <2>4. k - 1 \in Byte /\ oid.tx \in Nat
      BY <2>1, <2>3, MaxByteAssumption DEF Byte, TxNumbers
    <2> QED
      BY <2>2, <2>4 DEF OutputID
  <1> QED
    BY <1>1, <1>2

\* The lock of a consumed output was evaluated.
LEMMA ConsumedLockEvaluated ==
    ASSUME IInv, HistoryValid, NEW i \in TxNumbers, NEW k \in 1 .. Len(txs[i].inputs),
           NEW out, out = OutputOf(txs[i].inputs[k])
    PROVE  /\ out \in Output /\ Len(out) \in Nat /\ Len(out) > 2
           /\ LockOf(out) = out[3] /\ IsLock(LockOf(out))
           /\ EvalConstraint(ContextOf(i), Path("consumed", k - 1, 2), LockOf(out))
           /\ Self(ContextOf(i), Path("consumed", k - 1, 2)) = LockOf(out)
  <1>1. txs[i].inputs[k] \in ProducedIDs
    BY DEF IInv, InputsOlder, Inputs
  <1>2. out \in Output /\ Len(out) \in Nat
    BY <1>1, OutputTyped DEF IInv
  <1>3. /\ OutputParses(out)
        /\ ContextOf(i).consumed[k] = out
        /\ \A b \in 1 .. Len(out) :
               EvalConstraint(ContextOf(i), Path("consumed", k - 1, b - 1), out[b])
    BY ConsumedValid
  <1>4. Len(out) > 2 /\ LockOf(out) = out[3] /\ IsLock(LockOf(out))
    BY <1>2, <1>3 DEF OutputParses, Has, LockOf, At, ConstraintIndexLock
  <1>5. EvalConstraint(ContextOf(i), Path("consumed", k - 1, 3 - 1), out[3])
    BY <1>2, <1>3, <1>4
  <1>6. k \in Nat
    BY DEF IInv
  <1>7. Self(ContextOf(i), Path("consumed", k - 1, 2)) = out[3]
    BY <1>3, <1>6 DEF Self, Path, Outputs, BlockAt, At
  <1> QED
    BY <1>2, <1>4, <1>5, <1>7

-----------------------------------------------------------------------------
(***************************************************************************)
(* Authorisation                                                           *)
(***************************************************************************)

\* The transaction is signed by an owner the lock names.
SignedFor(tx, lock) ==
    /\ tx.signature.valid
    /\ lock.type = "addressED25519" => tx.signature.key = lock.addr
    /\ lock.type = "deadlineLock" => tx.signature.key \in {lock.main, lock.expiry}

\* One step along a chain of references: a lock is satisfied by the signature
\* or by the same lock at a smaller input.
LEMMA SignedOrReferred ==
    ASSUME IInv, HistoryValid, NEW i \in TxNumbers, NEW k \in 1 .. Len(txs[i].inputs),
           NEW lock, lock = LockOf(OutputOf(txs[i].inputs[k])),
           lock.type \in {"addressED25519", "deadlineLock"}
    PROVE  \/ SignedFor(txs[i], lock)
           \/ \E r \in 1 .. Len(txs[i].inputs) :
                  r < k /\ LockOf(OutputOf(txs[i].inputs[r])) = lock
  <1> DEFINE ctx == ContextOf(i)
  <1> DEFINE p == Path("consumed", k - 1, 2)
  <1>1. EvalConstraint(ctx, p, lock) /\ Self(ctx, p) = lock
    BY ConsumedLockEvaluated
  <1>2. /\ ctx.tx = txs[i]
        /\ Len(ctx.consumed) = Len(txs[i].inputs)
        /\ \A r \in 1 .. Len(txs[i].inputs) :
               ctx.consumed[r] = OutputOf(txs[i].inputs[r])
    BY ConsumedValid
  <1>3. Len(txs[i].inputs) \in Nat
    BY TransactionShape DEF IInv, TypeOK, TxNumbers
  <1>4. p.side = "consumed" /\ p.out = k - 1 /\ p.blk = 2
    BY DEF Path
  <1> HIDE DEF ctx, p
  <1>5. PICK a : /\ EvalAddressED25519(ctx, p, a)
                 /\ lock.type = "addressED25519" => a = lock.addr
                 /\ lock.type = "deadlineLock" => a \in {lock.main, lock.expiry}
    <2>1. CASE lock.type = "addressED25519"
      <3>1. EvalAddressED25519(ctx, p, lock.addr)
        BY <1>1, <2>1 DEF EvalConstraint
      <3> QED
        BY <2>1, <3>1
    <2>2. CASE lock.type = "deadlineLock"
      <3>1. EvalDeadlineLock(ctx, p, lock)
        BY <1>1, <2>2 DEF EvalConstraint
      <3> QED
        BY <2>2, <3>1 DEF EvalDeadlineLock
    <2> QED
      BY <2>1, <2>2
  <1>6. UnlockedByReference(ctx, p) \/ UnlockedWithSigED25519(ctx, a)
    BY <1>4, <1>5 DEF EvalAddressED25519
  <1>7. CASE UnlockedWithSigED25519(ctx, a)
    BY <1>2, <1>5, <1>7 DEF UnlockedWithSigED25519, SignedFor
  <1>8. CASE UnlockedByReference(ctx, p)
    <2>1. PICK ref : /\ ref < p.out
                     /\ HasBlock(ctx.consumed, ref, ConstraintIndexLock)
                     /\ BlockAt(ctx.consumed, ref, ConstraintIndexLock) = Self(ctx, p)
      BY <1>8 DEF UnlockedByReference
    <2>2. ref \in 0 .. Len(txs[i].inputs) - 1
      BY <1>2, <2>1 DEF HasBlock, Has
    <2>3. ref + 1 \in 1 .. Len(txs[i].inputs) /\ ref + 1 < k
      BY <1>3, <1>4, <2>1, <2>2
    <2>4. LockOf(OutputOf(txs[i].inputs[ref + 1])) = lock
      BY <1>1, <1>2, <2>1, <2>3 DEF BlockAt, At, LockOf
    <2> QED
      BY <2>3, <2>4
  <1> QED
    BY <1>6, <1>7, <1>8

\* The least input with a given address lock cannot refer to a smaller one,
\* so its signature was verified: the end of every chain of references.
LEMMA Signed ==
    ASSUME IInv, HistoryValid, NEW i \in TxNumbers, NEW k \in 1 .. Len(txs[i].inputs),
           LockOf(OutputOf(txs[i].inputs[k])).type \in {"addressED25519", "deadlineLock"}
    PROVE  SignedFor(txs[i], LockOf(OutputOf(txs[i].inputs[k])))
  <1> DEFINE lock(r) == LockOf(OutputOf(txs[i].inputs[r]))
  <1> DEFINE Bad == {r \in 1 .. Len(txs[i].inputs) :
                        /\ lock(r).type \in {"addressED25519", "deadlineLock"}
                        /\ ~ SignedFor(txs[i], lock(r))}
  <1>1. SUFFICES ASSUME Bad # {} PROVE FALSE
    OBVIOUS
  <1>2. Bad \subseteq Nat
    OBVIOUS
  <1>3. PICK r \in Bad : \A q \in Bad : ~ (q < r)
    BY <1>1, <1>2, LeastNumber
  <1>4. PICK q \in 1 .. Len(txs[i].inputs) : q < r /\ lock(q) = lock(r)
    BY <1>3, SignedOrReferred
  <1> QED
    BY <1>3, <1>4

\* Nobody spends an output locked with an address, or with a deadline lock,
\* without the signature of an owner named in the lock.
THEOREM SpendIsAuthorised == Spec => []SpendAuthorised
  <1>1. IInv /\ HistoryValid => SpendAuthorised
    <2> SUFFICES ASSUME IInv, HistoryValid, NEW i \in TxNumbers, NEW oid \in Inputs(txs[i]),
                        NEW lock, lock = LockOf(OutputOf(oid)),
                        lock.type \in {"addressED25519", "deadlineLock"}
                 PROVE  SignedFor(txs[i], lock)
      BY DEF SpendAuthorised, SignedFor
    <2>1. PICK k \in 1 .. Len(txs[i].inputs) : oid = txs[i].inputs[k]
      BY DEF Inputs
    <2> QED
      BY <2>1, Signed
  <1> QED
    BY <1>1, Inductive, HistoryIsValid, PTL

\* The sender recorded in an output is the signer, unless chains control all
\* the inputs.
THEOREM SenderIsAuthentic == Spec => []SenderAuthentic
  <1>1. IInv /\ HistoryValid => SenderAuthentic
    <2> SUFFICES ASSUME IInv, HistoryValid, NEW i \in TxNumbers,
                        NEW k \in 1 .. Len(txs[i].outputs),
                        NEW c \in BlocksOf(txs[i].outputs[k]),
                        c.type = "senderAddressED25519",
                        NEW oid \in Inputs(txs[i]),
                        LockOf(OutputOf(oid)).type # "chainLock"
                 PROVE  txs[i].signature.valid /\ txs[i].signature.key = c.addr
      BY DEF SenderAuthentic
    <2>1. PICK l \in 1 .. Len(txs[i].inputs) : oid = txs[i].inputs[l]
      BY DEF Inputs
    <2>2. IsLock(LockOf(OutputOf(oid)))
      BY <2>1, ConsumedLockEvaluated
    <2>3. txs[i].signature.valid
      BY <2>1, <2>2, Signed DEF IsLock, LockNames, SignedFor
    <2>4. PICK b \in 1 .. Len(txs[i].outputs[k]) : c = txs[i].outputs[k][b]
      BY DEF BlocksOf
    <2> DEFINE p == Path("produced", k - 1, b - 1)
    <2>5. EvalConstraint(ContextOf(i), p, c) /\ ContextOf(i).tx = txs[i]
      BY <2>4, ProducedValid
    <2>6. p.side = "produced"
      BY DEF Path
    <2> HIDE DEF p
    <2>7. EvalSender(ContextOf(i), p, c)
      BY <2>5 DEF EvalConstraint
    <2> QED
      BY <2>3, <2>5, <2>6, <2>7 DEF EvalSender
  <1> QED
    BY <1>1, Inductive, HistoryIsValid, PTL

-----------------------------------------------------------------------------
(***************************************************************************)
(* Time                                                                    *)
(***************************************************************************)

\* The blocks of an output were evaluated when it was produced.
LEMMA ProducedBlockEvaluated ==
    ASSUME IInv, HistoryValid, NEW oid \in ProducedIDs, oid # GenesisOutputID,
           NEW b \in 1 .. Len(OutputOf(oid))
    PROVE  /\ oid.tx \in TxNumbers
           /\ ContextOf(oid.tx).tx = txs[oid.tx]
           /\ EvalConstraint(ContextOf(oid.tx), Path("produced", oid.idx, b - 1), OutputOf(oid)[b])
  <1>1. TypeOK
    BY DEF IInv
  <1>2. oid.tx \in TxNumbers
    BY <1>1, ProducedShape
  <1>3. PICK k \in 1 .. Len(txs[oid.tx].outputs) : oid = [tx |-> oid.tx, idx |-> k - 1]
    BY <1>1, ProducedShape
  <1>4. oid.idx = k - 1
    BY <1>3
  <1>5. Len(txs[oid.tx].outputs) \in Nat
    BY <1>1, <1>2, TransactionShape DEF TypeOK, TxNumbers
  <1>6. OutputOf(oid) = txs[oid.tx].outputs[k]
    BY <1>4, <1>5 DEF OutputOf, At
  <1> QED
    BY <1>2, <1>3, <1>4, <1>6, ProducedValid

\* The consumed side of a block: it was evaluated in the consuming transaction.
LEMMA ConsumedBlockEvaluated ==
    ASSUME IInv, HistoryValid, NEW i \in TxNumbers, NEW oid \in Inputs(txs[i]),
           NEW b \in 1 .. Len(OutputOf(oid))
    PROVE  /\ oid \in ProducedIDs
           /\ ContextOf(i).tx = txs[i]
           /\ \E k \in 1 .. Len(txs[i].inputs) :
                  /\ oid = txs[i].inputs[k]
                  /\ EvalConstraint(ContextOf(i), Path("consumed", k - 1, b - 1), OutputOf(oid)[b])
  <1>1. PICK k \in 1 .. Len(txs[i].inputs) : oid = txs[i].inputs[k]
    BY DEF Inputs
  <1>2. oid \in ProducedIDs
    BY DEF IInv, InputsOlder
  <1> QED
    BY <1>1, <1>2, ConsumedValid

\* Time moves strictly forward from the producer to the consumer of an output
\* with a timestamp.
THEOREM TimeIsCausal == Spec => []CausalTime
  <1>1. IInv /\ HistoryValid => CausalTime
    <2> SUFFICES ASSUME IInv, HistoryValid, NEW i \in TxNumbers, NEW oid \in Inputs(txs[i]),
                        At(OutputOf(oid), ConstraintIndexTimestamp).type = "timestamp"
                 PROVE  TimeOf(oid.tx) < TimeOf(i)
      BY DEF CausalTime
    <2> DEFINE c == OutputOf(oid)[2]
    <2>1. c.type = "timestamp"
      BY DEF At, ConstraintIndexTimestamp
    <2>2. PICK l \in 1 .. Len(txs[i].inputs) : oid = txs[i].inputs[l]
      BY DEF Inputs
    <2>3. Len(OutputOf(oid)) \in Nat /\ Len(OutputOf(oid)) > 2
      BY <2>2, ConsumedLockEvaluated
    <2>4. 2 \in 1 .. Len(OutputOf(oid))
      BY <2>3
    <2>5. i \in Nat /\ i # 0
      BY DEF TxNumbers, IInv, TypeOK
    <2> HIDE DEF c
    <2>6. c.time < TimeOf(i)
      <3>1. PICK k \in 1 .. Len(txs[i].inputs) :
                EvalConstraint(ContextOf(i), Path("consumed", k - 1, 2 - 1), c)
        BY <2>4, ConsumedBlockEvaluated DEF c
      <3>2. ContextOf(i).tx = txs[i]
        BY <2>4, ConsumedBlockEvaluated
      <3>3. EvalTimestamp(ContextOf(i), Path("consumed", k - 1, 2 - 1), c)
        BY <2>1, <3>1 DEF EvalConstraint
      <3> QED
        BY <2>5, <3>2, <3>3 DEF EvalTimestamp, Path, TimeOf
    <2>7. c.time = TimeOf(oid.tx)
      <3>1. oid \in ProducedIDs
        BY <2>4, ConsumedBlockEvaluated
      <3>2. CASE oid = GenesisOutputID
        BY <3>2 DEF c, OutputOf, GenesisOutput, GenesisOutputID, TimeOf, NewTimestamp
      <3>3. CASE oid # GenesisOutputID
        <4>1. /\ oid.tx \in TxNumbers
              /\ ContextOf(oid.tx).tx = txs[oid.tx]
              /\ EvalConstraint(ContextOf(oid.tx), Path("produced", oid.idx, 2 - 1), c)
          BY <2>4, <3>1, <3>3, ProducedBlockEvaluated DEF c
        <4>2. EvalTimestamp(ContextOf(oid.tx), Path("produced", oid.idx, 2 - 1), c)
          BY <2>1, <4>1 DEF EvalConstraint
        <4> QED
          BY <4>1, <4>2 DEF EvalTimestamp, Path, TimeOf, TxNumbers
      <3> QED
        BY <3>2, <3>3
    <2> QED
      BY <2>6, <2>7
  <1> QED
    BY <1>1, Inductive, HistoryIsValid, PTL

\* A time lock holds: it lies strictly between the transaction that writes it
\* and the transaction that consumes the output.
THEOREM TimelockIsRespected == Spec => []TimelockHolds
  <1>1. IInv /\ HistoryValid => TimelockHolds
    <2> SUFFICES ASSUME IInv, HistoryValid, NEW i \in TxNumbers, NEW oid \in Inputs(txs[i]),
                        NEW c \in BlocksOf(OutputOf(oid)), c.type = "timelock"
                 PROVE  TimeOf(oid.tx) < c.time /\ c.time < TimeOf(i)
      BY DEF TimelockHolds
    <2>1. PICK b \in 1 .. Len(OutputOf(oid)) : c = OutputOf(oid)[b]
      BY DEF BlocksOf
    <2>2. oid \in ProducedIDs
      BY <2>1, ConsumedBlockEvaluated
    <2>3. i \in Nat /\ i # 0
      BY DEF TxNumbers, IInv, TypeOK
    <2>4. c.time < TimeOf(i)
      <3>1. PICK k \in 1 .. Len(txs[i].inputs) :
                EvalConstraint(ContextOf(i), Path("consumed", k - 1, b - 1), c)
        BY <2>1, ConsumedBlockEvaluated
      <3>2. ContextOf(i).tx = txs[i]
        BY <2>1, ConsumedBlockEvaluated
      <3>3. EvalTimelock(ContextOf(i), Path("consumed", k - 1, b - 1), c)
        BY <3>1 DEF EvalConstraint
      <3> QED
        BY <2>3, <3>2, <3>3 DEF EvalTimelock, Path, TimeOf
    <2>5. oid # GenesisOutputID
      <3> SUFFICES ASSUME oid = GenesisOutputID PROVE FALSE
        OBVIOUS
      <3>1. OutputOf(oid) = GenesisOutput /\ b \in 1 .. Len(GenesisOutput)
        BY <2>1 DEF OutputOf
      <3>2. b \in {1, 2, 3}
        BY <3>1 DEF GenesisOutput
      <3> QED
        BY <2>1, <3>1, <3>2 DEF GenesisOutput, NewAmount, NewTimestamp, NewAddressED25519
    <2>6. TimeOf(oid.tx) < c.time
      <3>1. /\ oid.tx \in TxNumbers
            /\ ContextOf(oid.tx).tx = txs[oid.tx]
            /\ EvalConstraint(ContextOf(oid.tx), Path("produced", oid.idx, b - 1), c)
        BY <2>1, <2>2, <2>5, ProducedBlockEvaluated
      <3>2. EvalTimelock(ContextOf(oid.tx), Path("produced", oid.idx, b - 1), c)
        BY <3>1 DEF EvalConstraint
      <3> QED
        BY <3>1, <3>2 DEF EvalTimelock, Path, TimeOf, TxNumbers
    <2> QED
      BY <2>4, <2>6
  <1> QED
    BY <1>1, Inductive, HistoryIsValid, PTL

-----------------------------------------------------------------------------
(***************************************************************************)
(* Constraints that bind an output to other outputs, royalties and         *)
(* commitments to a sibling: what they guarantee in every history, proved  *)
(* from the validity of the recorded transactions (LedgerProofs).          *)
(***************************************************************************)
\* Whoever consumes an output with royalties pays them, in the same
\* transaction, to the beneficiary and in full, or has unlock parameters that
\* lead into a data block of that transaction.
THEOREM RoyaltiesArePaid == Spec => []RoyaltiesPaidUnlessData
  <1>1. IInv /\ HistoryValid => RoyaltiesPaidUnlessData
    <2> SUFFICES ASSUME IInv, HistoryValid, NEW i \in TxNumbers,
                        NEW k \in 1 .. Len(txs[i].inputs),
                        NEW b \in 1 .. Len(OutputOf(txs[i].inputs[k])),
                        NEW c, c = OutputOf(txs[i].inputs[k])[b],
                        c.type = "royaltiesED25519"
                 PROVE  \/ PaidBy(i, c)
                        \/ IntoData(txs[i].outputs, UnlockParams(ContextOf(i), k - 1, b - 1))
      BY DEF RoyaltiesPaidUnlessData
    <2> DEFINE outs == txs[i].outputs
               path == UnlockParams(ContextOf(i), k - 1, b - 1)
    <2>1. txs[i].inputs[k] \in Inputs(txs[i])
      BY DEF Inputs
    <2>2. EvalConstraint(ContextOf(i), Path("consumed", k - 1, b - 1), c)
      <3>1. PICK l \in 1 .. Len(txs[i].inputs) :
                /\ txs[i].inputs[k] = txs[i].inputs[l]
                /\ EvalConstraint(ContextOf(i), Path("consumed", l - 1, b - 1),
                                  OutputOf(txs[i].inputs[k])[b])
        BY <2>1, ConsumedBlockEvaluated
      <3>2. l = k
        BY <3>1 DEF IInv, SpentOnce
      <3> QED
        BY <3>1, <3>2
    <2>3. ContextOf(i).tx = txs[i]
      BY <2>1, ConsumedBlockEvaluated
    <2>4. EvalRoyalties(ContextOf(i), Path("consumed", k - 1, b - 1), c)
      BY <2>2 DEF EvalConstraint
    <2>5. SelfUnlock(ContextOf(i), Path("consumed", k - 1, b - 1)) = path
      BY DEF SelfUnlock, Path
    <2>6. CASE IntoData(outs, path)
      BY <2>6
    <2>7. CASE ~IntoData(outs, path)
      <3>1. Has(outs, At(path, 0)) /\ PaysRoyalties(At(outs, At(path, 0)), c)
        BY <2>3, <2>4, <2>5, <2>7 DEF EvalRoyalties, Path
      <3>2. Len(outs) \in Nat
        BY TransactionShape DEF IInv, TypeOK, TxNumbers
      <3>3. At(path, 0) + 1 \in 1 .. Len(outs)
        BY <3>1, <3>2 DEF Has
      <3>4. LockOf(outs[At(path, 0) + 1]) = NewAddressED25519(c.addr)
        BY <3>1 DEF PaysRoyalties, At, LockOf
      <3>5. c.value <= AmountOf(outs[At(path, 0) + 1])
        BY <3>1 DEF PaysRoyalties, At, AmountOf
      <3> QED
        BY <3>3, <3>4, <3>5 DEF PaidBy
    <2> QED
      BY <2>6, <2>7
  <1> QED
    BY <1>1, Inductive, HistoryIsValid, PTL

\* A commitment is about an output without commitments of its own.
LEMMA CommitmentTyped ==
    ASSUME NEW c \in Block, c.type = "commitToSibling"
    PROVE  c.hash \in Seq(Seq(BasicBlock)) /\ c \notin BasicBlock
  <1>1. c \notin BasicBlock
    BY DEF BasicBlock
  <1> QED
    BY <1>1 DEF Block

\* An unspent output never loses the sibling it commits to: the sibling was
\* produced in the same transaction, is another output and is what the hash
\* says.
THEOREM SiblingIsCommitted == Spec => []SiblingCommitted
  <1>1. IInv /\ HistoryValid => SiblingCommitted
    <2> SUFFICES ASSUME IInv, HistoryValid, NEW oid \in DOMAIN utxo,
                        NEW c \in BlocksOf(utxo[oid]), c.type = "commitToSibling",
                        NEW sibling, sibling = NewOutputID(oid.tx, c.idx)
                 PROVE  /\ sibling # oid
                        /\ sibling \in ProducedIDs
                        /\ c.hash = blake2b(OutputOf(sibling))
      BY DEF SiblingCommitted
    <2>1. oid \in ProducedIDs /\ utxo[oid] = OutputOf(oid)
      BY DEF IInv, UtxoExact
    <2>2. PICK b \in 1 .. Len(OutputOf(oid)) : c = OutputOf(oid)[b]
      BY <2>1 DEF BlocksOf
    <2>3. oid # GenesisOutputID
      <3> SUFFICES ASSUME oid = GenesisOutputID PROVE FALSE
        OBVIOUS
      <3>1. OutputOf(oid) = GenesisOutput /\ b \in 1 .. Len(GenesisOutput)
        BY <2>2 DEF OutputOf
      <3>2. b \in {1, 2, 3}
        BY <3>1 DEF GenesisOutput
      <3> QED
        BY <2>2, <3>1, <3>2 DEF GenesisOutput, NewAmount, NewTimestamp, NewAddressED25519
    <2>4. /\ oid.tx \in TxNumbers
          /\ ContextOf(oid.tx).tx = txs[oid.tx]
          /\ EvalConstraint(ContextOf(oid.tx), Path("produced", oid.idx, b - 1), c)
      BY <2>1, <2>2, <2>3, ProducedBlockEvaluated
    <2>5. EvalCommitToSibling(ContextOf(oid.tx), Path("produced", oid.idx, b - 1), c)
      BY <2>4 DEF EvalConstraint
    <2>6. /\ Has(txs[oid.tx].outputs, c.idx)
          /\ c.hash = blake2b(At(txs[oid.tx].outputs, c.idx))
      BY <2>4, <2>5 DEF EvalCommitToSibling, Path
    <2>7. sibling \in OutputIDsOf(txs[oid.tx], oid.tx)
      <3>1. Len(txs[oid.tx].outputs) \in Nat
        BY <2>4, TransactionShape DEF IInv, TypeOK, TxNumbers
      <3>2. c.idx + 1 \in 1 .. Len(txs[oid.tx].outputs) /\ (c.idx + 1) - 1 = c.idx
        BY <2>6, <3>1 DEF Has
      <3> QED
        BY <3>2 DEF OutputIDsOf
    <2>8. sibling \in ProducedIDs
      BY <2>4, <2>7 DEF ProducedIDs
    <2>9. OutputOf(sibling) = At(txs[oid.tx].outputs, c.idx)
      <3>1. sibling.tx = oid.tx /\ sibling.idx = c.idx /\ oid.tx # 0
        BY <2>4 DEF NewOutputID, TxNumbers, IInv, TypeOK
      <3>2. sibling # GenesisOutputID
        BY <3>1 DEF GenesisOutputID
      <3> QED
        BY <3>1, <3>2 DEF OutputOf
    <2>10. sibling # oid
      <3> SUFFICES ASSUME sibling = oid PROVE FALSE
        OBVIOUS
      <3>1. c.hash = <<OutputOf(oid)>>
        BY <2>6, <2>9 DEF blake2b
      <3>2. OutputOf(oid) \in Seq(Block)
        BY <2>1, OutputTyped DEF IInv, Output, Array
      <3>3. c \in Block
        BY <2>2, <3>2
      <3>4. c.hash \in Seq(Seq(BasicBlock)) /\ c \notin BasicBlock
        BY <3>3, CommitmentTyped
      <3>5. c.hash[1] \in Seq(BasicBlock)
        BY <3>1, <3>4
      <3> QED
        BY <2>2, <3>1, <3>4, <3>5
    <2> QED
      BY <2>6, <2>8, <2>9, <2>10
  <1> QED
    BY <1>1, Inductive, HistoryIsValid, PTL

-----------------------------------------------------------------------------
(***************************************************************************)
(* Chains: what the chain constraint and the constraints that rely on it   *)
(* guarantee together, proved from the validity of the recorded            *)
(* transactions (LedgerProofs).  The two sides of chain check each other:  *)
(* a consumed chain that is not destroyed names its successor, and the     *)
(* successor, being produced, checks the identifier and the mode.          *)
(***************************************************************************)
\* A block of the consumed side of a recorded transaction was evaluated.
LEMMA ConsumedAt ==
    ASSUME IInv, HistoryValid, NEW i \in TxNumbers, NEW o, NEW b,
           HasBlock(ContextOf(i).consumed, o, b)
    PROVE  /\ o \in Nat /\ b \in Nat
           /\ o + 1 \in 1 .. Len(txs[i].inputs)
           /\ b + 1 \in 1 .. Len(OutputOf(txs[i].inputs[o + 1]))
           /\ BlockAt(ContextOf(i).consumed, o, b) = OutputOf(txs[i].inputs[o + 1])[b + 1]
           /\ EvalConstraint(ContextOf(i), Path("consumed", o, b),
                             BlockAt(ContextOf(i).consumed, o, b))
  <1>1. Len(txs[i].inputs) \in Nat
    BY TransactionShape DEF IInv, TypeOK, TxNumbers
  <1>2. Len(ContextOf(i).consumed) = Len(txs[i].inputs)
    BY <1>1 DEF ContextOf, Context
  <1>3. o \in Nat /\ o + 1 \in 1 .. Len(txs[i].inputs) /\ (o + 1) - 1 = o
    BY <1>1, <1>2 DEF HasBlock, Has
  <1> DEFINE out == OutputOf(txs[i].inputs[o + 1])
  <1>4. /\ ContextOf(i).consumed[o + 1] = out
        /\ \A c \in 1 .. Len(out) :
               EvalConstraint(ContextOf(i), Path("consumed", o, c - 1), out[c])
    <2>1. PICK k \in 1 .. Len(txs[i].inputs) : k = o + 1
      BY <1>3
    <2>2. o = k - 1
      BY <1>3, <2>1
    <2> QED
      BY <2>1, <2>2, ConsumedValid
  <1>5. txs[i].inputs[o + 1] \in ProducedIDs
    BY <1>3 DEF IInv, InputsOlder, Inputs
  <1>6. Len(out) \in Nat
    BY <1>5, OutputTyped DEF IInv
  <1> HIDE DEF out
  <1>7. b \in Nat /\ b + 1 \in 1 .. Len(out) /\ (b + 1) - 1 = b
    BY <1>4, <1>6 DEF HasBlock, Has, At
  <1>8. BlockAt(ContextOf(i).consumed, o, b) = out[b + 1]
    BY <1>4 DEF BlockAt, At
  <1> QED
    BY <1>3, <1>4, <1>7, <1>8 DEF out

\* The same for the produced side.
LEMMA ProducedAt ==
    ASSUME IInv, HistoryValid, NEW i \in TxNumbers, NEW o, NEW b,
           HasBlock(txs[i].outputs, o, b)
    PROVE  /\ o \in Nat /\ b \in Nat
           /\ o + 1 \in 1 .. Len(txs[i].outputs)
           /\ b + 1 \in 1 .. Len(txs[i].outputs[o + 1])
           /\ BlockAt(txs[i].outputs, o, b) = txs[i].outputs[o + 1][b + 1]
           /\ EvalConstraint(ContextOf(i), Path("produced", o, b),
                             BlockAt(txs[i].outputs, o, b))
  <1>1. txs[i].outputs \in Seq(Output) /\ Len(txs[i].outputs) \in Nat
    BY TransactionShape DEF IInv, TypeOK, TxNumbers
  <1>2. o \in Nat /\ o + 1 \in 1 .. Len(txs[i].outputs) /\ (o + 1) - 1 = o
    BY <1>1 DEF HasBlock, Has
  <1> DEFINE out == txs[i].outputs[o + 1]
  <1>3. \A c \in 1 .. Len(out) :
            EvalConstraint(ContextOf(i), Path("produced", (o + 1) - 1, c - 1), out[c])
    BY <1>2, ProducedValid
  <1>4. out \in Output
    BY <1>1, <1>2
  <1>5. Len(out) \in Nat
    BY <1>4 DEF Output, Array
  <1> HIDE DEF out
  <1>6. b \in Nat /\ b + 1 \in 1 .. Len(out) /\ (b + 1) - 1 = b
    BY <1>5 DEF HasBlock, Has, At, out
  <1>7. BlockAt(txs[i].outputs, o, b) = out[b + 1]
    BY DEF BlockAt, At, out
  <1> QED
    BY <1>2, <1>3, <1>6, <1>7 DEF out

\* The context of a recorded transaction.
LEMMA ContextShape ==
    ASSUME NEW i \in TxNumbers
    PROVE  ContextOf(i).tx = txs[i]
  BY DEF ContextOf, Context

\* A produced chain constraint that is not an origin has a predecessor among
\* the consumed blocks.
LEMMA ProducedChain ==
    ASSUME IInv, HistoryValid, NEW i \in TxNumbers, NEW o, NEW b,
           HasBlock(txs[i].outputs, o, b),
           NEW c, c = BlockAt(txs[i].outputs, o, b), c.type = "chain"
    PROVE  /\ o # MaxByte
           /\ c.id = ZeroHash => c = NewChainOrigin
           /\ c.id # ZeroHash => ValidPredecessor(ContextOf(i), c)
  <1> DEFINE p == Path("produced", o, b)
  <1>1. EvalConstraint(ContextOf(i), p, c)
    BY ProducedAt
  <1>2. p.side = "produced" /\ p.out = o
    BY DEF Path
  <1> HIDE DEF p
  <1>3. EvalChain(ContextOf(i), p, c)
    BY <1>1 DEF EvalConstraint
  <1> QED
    BY <1>2, <1>3 DEF EvalChain

\* A consumed chain that is not destroyed goes on in the output that its
\* unlock parameters name, with its identifier and in the mode they give.
LEMMA ChainGoesOn ==
    ASSUME IInv, HistoryValid, NEW i \in TxNumbers, NEW o, NEW b,
           HasBlock(ContextOf(i).consumed, o, b),
           BlockAt(ContextOf(i).consumed, o, b).type = "chain",
           NEW u, u = UnlockParams(ContextOf(i), o, b), u # DestroyUnlockParams
    PROVE  LET succ == BlockAt(txs[i].outputs, At(u, 0), At(u, 1))
           IN  /\ HasBlock(txs[i].outputs, At(u, 0), At(u, 1))
               /\ At(u, 0) # MaxByte
               /\ succ.type = "chain"
               /\ succ.id = ConsumedChainID(ContextOf(i), o, b)
               /\ succ.mode = At(u, 2)
  <1> DEFINE pred == BlockAt(ContextOf(i).consumed, o, b)
  <1> DEFINE succ == BlockAt(txs[i].outputs, At(u, 0), At(u, 1))
  <1> DEFINE p == Path("consumed", o, b)
  <1>1. EvalConstraint(ContextOf(i), p, pred)
    BY ConsumedAt
  <1>2. p.side = "consumed" /\ p.out = o /\ p.blk = b
    BY DEF Path
  <1>3. ContextOf(i).tx = txs[i]
    BY ContextShape
  <1> HIDE DEF p, pred, succ
  <1>4. EvalChain(ContextOf(i), p, pred)
    BY <1>1 DEF EvalConstraint, pred
  <1>5. o # MaxByte /\ ValidSuccessor(ContextOf(i), p, pred)
    BY <1>2, <1>4 DEF EvalChain, SelfUnlock
  <1>6. /\ HasBlock(txs[i].outputs, At(u, 0), At(u, 1))
        /\ succ.type = "chain"
        /\ succ.prevOut = o /\ succ.prevBlk = b
    BY <1>2, <1>3, <1>5 DEF ValidSuccessor, SelfUnlock, succ
  <1>7. /\ At(u, 0) # MaxByte
        /\ succ.id = ZeroHash => succ = NewChainOrigin
        /\ succ.id # ZeroHash => ValidPredecessor(ContextOf(i), succ)
    BY <1>6, ProducedChain DEF succ
  <1>8. succ.id # ZeroHash
    BY <1>5, <1>6, <1>7 DEF NewChainOrigin, NewChain
  <1>9. ValidPredecessor(ContextOf(i), succ)
    BY <1>7, <1>8
  <1>10. succ.id = ConsumedChainID(ContextOf(i), o, b) /\ succ.mode = At(u, 2)
    BY <1>6, <1>9 DEF ValidPredecessor, ConsumedChainID
  <1> QED
    BY <1>6, <1>7, <1>10 DEF succ

-----------------------------------------------------------------------------
\* An output locked in a chain is spent only by a transaction that moves this
\* very chain, in mode 0; destroying the chain does not open the lock.
THEOREM ChainLockIsControlled == Spec => []ChainLockControlled
  <1>1. IInv /\ HistoryValid => ChainLockControlled
    <2> SUFFICES ASSUME IInv, HistoryValid, NEW i \in TxNumbers, NEW oid \in Inputs(txs[i]),
                        NEW lock, lock = LockOf(OutputOf(oid)), lock.type = "chainLock"
                 PROVE  /\ \E ctl \in Inputs(txs[i]) \ {oid} :
                               lock.id \in ChainIDsOf(ctl, OutputOf(ctl))
                        /\ \E k \in 1 .. Len(txs[i].outputs) :
                               \E c \in BlocksOf(txs[i].outputs[k]) :
                                   c.type = "chain" /\ c.id = lock.id /\ c.mode = 0
      BY DEF ChainLockControlled
    <2>1. PICK k \in 1 .. Len(txs[i].inputs) : oid = txs[i].inputs[k]
      BY DEF Inputs
    <2> DEFINE p == Path("consumed", k - 1, 2)
    <2> DEFINE ref == SelfUnlock(ContextOf(i), p)
    <2> DEFINE o == At(ref, 0)
    <2> DEFINE b == At(ref, 1)
    <2> DEFINE u == UnlockParams(ContextOf(i), o, b)
    <2>2. EvalConstraint(ContextOf(i), p, lock)
      BY <2>1, ConsumedLockEvaluated
    <2>3. p.side = "consumed" /\ p.out = k - 1
      BY DEF Path
    <2> HIDE DEF p
    <2>4. EvalChainLock(ContextOf(i), p, lock)
      BY <2>2 DEF EvalConstraint
    <2>5. o # k - 1 /\ ValidChainUnlock(ContextOf(i), ref, lock.id)
      BY <2>3, <2>4 DEF EvalChainLock
    <2> HIDE DEF ref
    <2>6. /\ HasBlock(ContextOf(i).consumed, o, b)
          /\ BlockAt(ContextOf(i).consumed, o, b).type = "chain"
          /\ lock.id = ConsumedChainID(ContextOf(i), o, b)
          /\ At(u, 2) = 0
      BY <2>5 DEF ValidChainUnlock
    <2> HIDE DEF o, b
    <2>7. /\ o \in Nat /\ b \in Nat
          /\ o + 1 \in 1 .. Len(txs[i].inputs)
          /\ b + 1 \in 1 .. Len(OutputOf(txs[i].inputs[o + 1]))
          /\ BlockAt(ContextOf(i).consumed, o, b) = OutputOf(txs[i].inputs[o + 1])[b + 1]
      BY <2>6, ConsumedAt
    <2>8. \E ctl \in Inputs(txs[i]) \ {oid} : lock.id \in ChainIDsOf(ctl, OutputOf(ctl))
      <3> DEFINE ctl == txs[i].inputs[o + 1]
      <3>1. ctl \in Inputs(txs[i])
        BY <2>7 DEF Inputs
      <3>2. ctl # oid
        <4>1. o + 1 # k
          BY <2>1, <2>5, <2>7
        <4>2. ctl = oid => o + 1 = k
          <5>1. SpentOnce
            BY DEF IInv
          <5>2. \A l, m \in 1 .. Len(txs[i].inputs) :
                   txs[i].inputs[l] = txs[i].inputs[m] => l = m
            BY <5>1, Zenon DEF SpentOnce
          <5> QED
            BY <2>1, <2>7, <5>2, Zenon
        <4> QED
          BY <4>1, <4>2
      <3>3. OutputOf(ctl)[b + 1] \in BlocksOf(OutputOf(ctl))
        BY <2>7 DEF BlocksOf
      <3>4. At(ContextOf(i).tx.inputs, o) = ctl
        BY ContextShape DEF At
      <3>5. lock.id = IF OutputOf(ctl)[b + 1].id = ZeroHash THEN blake2b(ctl)
                      ELSE OutputOf(ctl)[b + 1].id
        BY <2>6, <2>7, <3>4 DEF ConsumedChainID
      <3>6. OutputOf(ctl)[b + 1].type = "chain"
        BY <2>6, <2>7
      <3>7. lock.id \in ChainIDsOf(ctl, OutputOf(ctl))
        BY <3>3, <3>5, <3>6 DEF ChainIDsOf
      <3> QED
        BY <3>1, <3>2, <3>7
    <2>9. u # DestroyUnlockParams
      BY <2>6, MaxByteAssumption DEF DestroyUnlockParams, At
    <2> HIDE DEF u
    <2> DEFINE succ == BlockAt(txs[i].outputs, At(u, 0), At(u, 1))
    <2>10. /\ HasBlock(txs[i].outputs, At(u, 0), At(u, 1))
           /\ succ.type = "chain" /\ succ.id = lock.id /\ succ.mode = 0
      BY <2>6, <2>9, ChainGoesOn DEF u
    <2>11. \E l \in 1 .. Len(txs[i].outputs) : succ \in BlocksOf(txs[i].outputs[l])
      <3>1. /\ At(u, 0) + 1 \in 1 .. Len(txs[i].outputs)
            /\ At(u, 1) + 1 \in 1 .. Len(txs[i].outputs[At(u, 0) + 1])
            /\ succ = txs[i].outputs[At(u, 0) + 1][At(u, 1) + 1]
        BY <2>10, ProducedAt
      <3>2. succ \in BlocksOf(txs[i].outputs[At(u, 0) + 1])
        BY <3>1 DEF BlocksOf
      <3> QED
        BY <3>1, <3>2
    <2> QED
      BY <2>8, <2>10, <2>11
  <1> QED
    BY <1>1, Inductive, HistoryIsValid, PTL

\* Data bound to a chain is kept: when the output was produced its immutable
\* constraint found the chain, when it is consumed the chain must go on, and
\* the copy of the constraint is checked where it is produced.
THEOREM ImmutableIsKept == Spec => []ImmutableKept
  <1>1. IInv /\ HistoryValid => ImmutableKept
    <2> SUFFICES ASSUME IInv, HistoryValid, NEW i \in TxNumbers,
                        NEW k \in 1 .. Len(txs[i].inputs),
                        NEW oid, oid = txs[i].inputs[k],
                        NEW out, out = OutputOf(oid),
                        NEW c \in BlocksOf(out), c.type = "immutable"
                 PROVE  \E l \in 1 .. Len(txs[i].outputs) : \E d \in BlocksOf(txs[i].outputs[l]) :
                            LET succ == txs[i].outputs[l]
                            IN  /\ d.type = "immutable"
                                /\ Has(succ, d.dataBlk) /\ Has(succ, d.chainBlk)
                                /\ At(succ, d.dataBlk) = At(out, c.dataBlk)
                                /\ At(succ, d.chainBlk).type = "chain"
                                /\ At(succ, d.chainBlk).id =
                                       ConsumedChainID(ContextOf(i), k - 1, c.chainBlk)
      BY DEF ImmutableKept
    <2>1. PICK b \in 1 .. Len(out) : c = out[b]
      BY DEF BlocksOf
    <2>2. /\ ContextOf(i).consumed[k] = out
          /\ ContextOf(i).tx = txs[i]
          /\ Len(ContextOf(i).consumed) = Len(txs[i].inputs)
          /\ EvalConstraint(ContextOf(i), Path("consumed", k - 1, b - 1), c)
      BY <2>1, ConsumedValid
    <2> DEFINE p == Path("consumed", k - 1, b - 1)
    <2> DEFINE self == SelfUnlock(ContextOf(i), p)
    <2> DEFINE u == UnlockParams(ContextOf(i), k - 1, c.chainBlk)
    <2> DEFINE o == At(u, 0)
    <2> DEFINE d == At(self, 0)
    <2> DEFINE x == At(self, 1)
    <2>3. p.side = "consumed" /\ p.out = k - 1
      BY DEF Path
    <2>4. EvalImmutable(ContextOf(i), p, c)
      BY <2>2 DEF EvalConstraint
    <2> HIDE DEF p
    <2>5. /\ HasBlock(txs[i].outputs, o, d) /\ HasBlock(txs[i].outputs, o, x)
          /\ BlockAt(txs[i].outputs, o, d) = BlockAt(ContextOf(i).consumed, k - 1, c.dataBlk)
          /\ BlockAt(txs[i].outputs, o, x) = NewImmutable(At(u, 1), d)
      BY <2>2, <2>3, <2>4 DEF EvalImmutable, ImmutableRepeated
    <2> HIDE DEF self, d, x, o
    <2>6. Has(out, c.chainBlk) /\ At(out, c.chainBlk).type = "chain"
      <3>1. oid \in ProducedIDs
        BY DEF IInv, InputsOlder, Inputs
      <3>2. oid # GenesisOutputID
        <4> SUFFICES ASSUME oid = GenesisOutputID PROVE FALSE
          OBVIOUS
        <4>1. out = GenesisOutput /\ b \in {1, 2, 3}
          BY <2>1 DEF OutputOf, GenesisOutput
        <4> QED
          BY <2>1, <4>1 DEF GenesisOutput, NewAmount, NewTimestamp, NewAddressED25519
      <3> DEFINE q == Path("produced", oid.idx, b - 1)
      <3>3. /\ EvalConstraint(ContextOf(oid.tx), q, c)
            /\ ContextOf(oid.tx).tx = txs[oid.tx]
        BY <2>1, <3>1, <3>2, ProducedBlockEvaluated
      <3>4. q.side = "produced" /\ q.out = oid.idx
        BY DEF Path
      <3> HIDE DEF q
      <3>5. EvalImmutable(ContextOf(oid.tx), q, c)
        BY <3>3 DEF EvalConstraint
      <3>6. /\ HasBlock(txs[oid.tx].outputs, oid.idx, c.chainBlk)
            /\ BlockAt(txs[oid.tx].outputs, oid.idx, c.chainBlk).type = "chain"
        BY <3>3, <3>4, <3>5 DEF EvalImmutable
      <3>7. out = At(txs[oid.tx].outputs, oid.idx)
        BY <3>2 DEF OutputOf
      <3> QED
        BY <3>6, <3>7 DEF HasBlock, BlockAt
    <2>7. /\ HasBlock(ContextOf(i).consumed, k - 1, c.chainBlk)
          /\ BlockAt(ContextOf(i).consumed, k - 1, c.chainBlk).type = "chain"
          /\ BlockAt(ContextOf(i).consumed, k - 1, c.dataBlk) = At(out, c.dataBlk)
      <3>1. Len(txs[i].inputs) \in Nat
        BY TransactionShape DEF IInv, TypeOK, TxNumbers
      <3>2. Has(ContextOf(i).consumed, k - 1) /\ At(ContextOf(i).consumed, k - 1) = out
        BY <2>2, <3>1 DEF Has, At
      <3> QED
        BY <2>6, <3>2 DEF HasBlock, BlockAt
    <2>8. /\ HasBlock(txs[i].outputs, o, At(u, 1))
          /\ BlockAt(txs[i].outputs, o, At(u, 1)).type = "chain"
      <3> DEFINE copy == BlockAt(txs[i].outputs, o, x)
      <3> DEFINE q == Path("produced", o, x)
      <3>1. EvalConstraint(ContextOf(i), q, copy)
        BY <2>5, ProducedAt
      <3>2. q.side = "produced" /\ q.out = o
        BY DEF Path
      <3>3. copy.type = "immutable" /\ copy.chainBlk = At(u, 1)
        BY <2>5 DEF NewImmutable
      <3> HIDE DEF q, copy
      <3>4. EvalImmutable(ContextOf(i), q, copy)
        BY <3>1, <3>3 DEF EvalConstraint
      <3> QED
        BY <2>2, <3>2, <3>3, <3>4 DEF EvalImmutable
    <2>9. o # MaxByte
      BY <2>8, ProducedChain
    <2>10. u # DestroyUnlockParams
      BY <2>9 DEF o, At, DestroyUnlockParams
    <2> HIDE DEF u
    <2>11. BlockAt(txs[i].outputs, o, At(u, 1)).id = ConsumedChainID(ContextOf(i), k - 1, c.chainBlk)
      BY <2>7, <2>10, ChainGoesOn DEF u, o
    <2> DEFINE l == o + 1
    <2> DEFINE copy == NewImmutable(At(u, 1), d)
    <2>12. /\ l \in 1 .. Len(txs[i].outputs)
           /\ x + 1 \in 1 .. Len(txs[i].outputs[l])
           /\ copy = txs[i].outputs[l][x + 1]
      BY <2>5, ProducedAt
    <2>13. copy \in BlocksOf(txs[i].outputs[l])
      BY <2>12 DEF BlocksOf
    <2>14. copy.type = "immutable" /\ copy.dataBlk = d /\ copy.chainBlk = At(u, 1)
      BY DEF NewImmutable
    <2>15. At(txs[i].outputs, o) = txs[i].outputs[l]
      BY DEF At
    <2> HIDE DEF l, copy
    <2>16. /\ Has(txs[i].outputs[l], d) /\ Has(txs[i].outputs[l], At(u, 1))
           /\ At(txs[i].outputs[l], d) = At(out, c.dataBlk)
           /\ At(txs[i].outputs[l], At(u, 1)).type = "chain"
           /\ At(txs[i].outputs[l], At(u, 1)).id = ConsumedChainID(ContextOf(i), k - 1, c.chainBlk)
      BY <2>5, <2>7, <2>8, <2>11, <2>15 DEF HasBlock, BlockAt
    <2> QED
      BY <2>12, <2>13, <2>14, <2>16
  <1> QED
    BY <1>1, Inductive, HistoryIsValid, PTL

-----------------------------------------------------------------------------
(***************************************************************************)
(* Provenance: by induction on the number of the transaction.              *)
(***************************************************************************)

\* The identifier belongs to an origin that was consumed before or by i.
HasOrigin(id, i) ==
    \E origin \in ProducedIDs :
        /\ id = blake2b(origin)
        /\ origin.tx < i
        /\ NewChainOrigin \in BlocksOf(OutputOf(origin))
        /\ \E j \in 1 .. i : origin \in Inputs(txs[j])

\* What ChainProvenance says about one transaction.
Provenance(i) ==
    \A k \in 1 .. Len(txs[i].outputs) : \A c \in BlocksOf(txs[i].outputs[k]) :
        c.type = "chain" /\ c.id # ZeroHash => HasOrigin(c.id, i)

\* A chain that goes on has the identifier of its predecessor, which was
\* produced earlier, unless the predecessor is the origin itself.
LEMMA ProvenanceStep ==
    ASSUME IInv, HistoryValid, NEW i \in TxNumbers,
           \A j \in TxNumbers : j < i => Provenance(j)
    PROVE  Provenance(i)
  <1> SUFFICES ASSUME NEW k \in 1 .. Len(txs[i].outputs), NEW c \in BlocksOf(txs[i].outputs[k]),
                      c.type = "chain", c.id # ZeroHash
               PROVE  HasOrigin(c.id, i)
    BY DEF Provenance
  <1>1. PICK b \in 1 .. Len(txs[i].outputs[k]) : c = txs[i].outputs[k][b]
    BY DEF BlocksOf
  <1> DEFINE p == Path("produced", k - 1, b - 1)
  <1>2. EvalConstraint(ContextOf(i), p, c) /\ ContextOf(i).tx = txs[i]
    BY <1>1, ProducedValid
  <1>3. p.side = "produced"
    BY DEF Path
  <1> HIDE DEF p
  <1>4. EvalChain(ContextOf(i), p, c)
    BY <1>2 DEF EvalConstraint
  <1>5. ValidPredecessor(ContextOf(i), c)
    BY <1>3, <1>4 DEF EvalChain
  <1> DEFINE oid == txs[i].inputs[c.prevOut + 1]
  <1> DEFINE pred == BlockAt(ContextOf(i).consumed, c.prevOut, c.prevBlk)
  <1>6. HasBlock(ContextOf(i).consumed, c.prevOut, c.prevBlk)
    BY <1>5 DEF ValidPredecessor
  <1>7. /\ c.prevOut + 1 \in 1 .. Len(txs[i].inputs)
        /\ c.prevBlk + 1 \in 1 .. Len(OutputOf(oid))
        /\ pred = OutputOf(oid)[c.prevBlk + 1]
    BY <1>6, ConsumedAt
  <1>8. /\ pred.type = "chain"
        /\ pred.id = ZeroHash => pred = NewChainOrigin /\ c.id = blake2b(oid)
        /\ pred.id # ZeroHash => c.id = pred.id
    BY <1>2, <1>5 DEF ValidPredecessor, At
  <1>9. oid \in Inputs(txs[i])
    BY <1>7 DEF Inputs
  <1>10. pred \in BlocksOf(OutputOf(oid))
    BY <1>7 DEF BlocksOf
  <1> HIDE DEF oid, pred
  <1>11. oid \in ProducedIDs /\ oid.tx < i
    BY <1>9 DEF IInv, InputsOlder
  <1>12. i \in Nat /\ i \in 1 .. i
    BY DEF TxNumbers
  <1>13. CASE pred.id = ZeroHash
    BY <1>8, <1>9, <1>10, <1>11, <1>12, <1>13 DEF HasOrigin
  <1>14. CASE pred.id # ZeroHash
    <2>1. oid # GenesisOutputID
      BY <1>8, <1>10 DEF BlocksOf, OutputOf, GenesisOutput, NewAmount, NewTimestamp, NewAddressED25519
    <2>2. /\ oid.tx \in TxNumbers
          /\ \E l \in 1 .. Len(txs[oid.tx].outputs) : oid = [tx |-> oid.tx, idx |-> l - 1]
      BY <1>11, <2>1, ProducedShape DEF IInv
    <2>3. PICK l \in 1 .. Len(txs[oid.tx].outputs) : oid.idx = l - 1
      BY <2>2
    <2>4. OutputOf(oid) = txs[oid.tx].outputs[l]
      BY <2>1, <2>3 DEF OutputOf, At
    <2>5. HasOrigin(pred.id, oid.tx)
      BY <1>8, <1>10, <1>11, <1>14, <2>2, <2>4 DEF Provenance
    <2>6. PICK origin \in ProducedIDs :
              /\ pred.id = blake2b(origin)
              /\ origin.tx < oid.tx
              /\ NewChainOrigin \in BlocksOf(OutputOf(origin))
              /\ \E j \in 1 .. oid.tx : origin \in Inputs(txs[j])
      BY <2>5 DEF HasOrigin
    <2>7. oid.tx \in Nat /\ origin.tx \in Nat
      BY <2>2, <2>6, ProducedShape DEF TxNumbers, IInv
    <2>8. origin.tx < i /\ \E j \in 1 .. i : origin \in Inputs(txs[j])
      BY <1>11, <1>12, <2>6, <2>7
    <2> QED
      BY <1>8, <1>14, <2>6, <2>8 DEF HasOrigin
  <1> QED
    BY <1>13, <1>14

\* So it holds for every transaction: there is no first one without.
LEMMA ProvenanceAlways ==
    ASSUME IInv, HistoryValid
    PROVE  \A i \in TxNumbers : Provenance(i)
  <1> DEFINE Bad == {i \in TxNumbers : ~ Provenance(i)}
  <1>1. SUFFICES ASSUME Bad # {} PROVE FALSE
    OBVIOUS
  <1>2. Bad \subseteq Nat
    BY DEF TxNumbers
  <1>3. PICK i \in Bad : \A j \in Bad : ~ (j < i)
    BY <1>1, <1>2, LeastNumber
  <1> QED
    BY <1>3, ProvenanceStep

\* Every chain identifier in the history is that of a consumed origin: nobody
\* takes over a chain or makes one up.
THEOREM ChainsHaveProvenance == Spec => []ChainProvenance
  <1>1. IInv /\ HistoryValid => ChainProvenance
    BY ProvenanceAlways DEF ChainProvenance, Provenance, HasOrigin
  <1> QED
    BY <1>1, Inductive, HistoryIsValid, PTL
=============================================================================
