---------------------------- MODULE WalletProofs -----------------------------
(***************************************************************************)
(* Proofs about Wallet, for any accounts, requests and numbers of outputs: *)
(* what the drafts remember stays true of the history of the ledger, a     *)
(* transfer moves exactly the amount, and what the builder makes of        *)
(* ordinary outputs is accepted exactly as long as they are unspent.       *)
(***************************************************************************)
EXTENDS Wallet, StorageProofs, SequenceTheorems

-----------------------------------------------------------------------------
(***************************************************************************)
(* The inductive invariant.  A draft remembers outputs of the history, each *)
(* once, and the state of the chain whose account it reads.                *)
(***************************************************************************)
Recorded(history) == {WithID(oid, history[oid]) : oid \in DOMAIN history}

UnlockData == [out : Byte, blk : Byte, data : Seq(Byte)]

TransferData(history) ==
    [key : Addresses, source : Lock, outputs : Seq(Recorded(history)),
     chainOutput : Seq(Recorded(history)), timestamp : Nat \ {0}, lock : Lock,
     amount : Amount, adjust : BOOLEAN, addSender : BOOLEAN, addConstraints : Seq(Block),
     unlockData : Seq(UnlockData)]

\* The chain output o and the account of its chain.
ChainAccount(o, source) ==
    /\ OutputFromBytes(o.out) /\ HasChainConstraint(o.out)
    /\ \E id \in ChainIDsOf(o.id, o.out) : source = NewChainLock(id)

OutputsRight(outs) ==
    /\ \A k, l \in 1 .. Len(outs) : outs[k] = outs[l] => k = l
    /\ \A k \in 1 .. Len(outs) : OutputFromBytes(outs[k].out)

ChainRight(chain, source, history) ==
    \/ chain = <<>>
    \/ \E o \in Recorded(history) : chain = <<o>> /\ ChainAccount(o, source)

DraftRight(d, history) ==
    /\ d \in TransferData(history)
    /\ OutputsRight(d.outputs)
    /\ ChainRight(d.chainOutput, d.source, history)

WalletInv ==
    /\ DBInv
    /\ Balanced(utxo)
    /\ \A d \in drafts : DraftRight(d, History)

-----------------------------------------------------------------------------
(***************************************************************************)
(* Drafts.                                                                 *)
(***************************************************************************)
LEMMA RecordedShape ==
    ASSUME NEW history, NEW o \in Recorded(history)
    PROVE  o.id \in DOMAIN history /\ o.out = history[o.id] /\ o = WithID(o.id, o.out)
  BY DEF Recorded, WithID

LEMMA RecordedGrows ==
    ASSUME NEW history, NEW later, DOMAIN history \subseteq DOMAIN later,
           \A oid \in DOMAIN history : later[oid] = history[oid]
    PROVE  Recorded(history) \subseteq Recorded(later)
  BY DEF Recorded

LEMMA DraftStaysRight ==
    ASSUME NEW history, NEW later, DOMAIN history \subseteq DOMAIN later,
           \A oid \in DOMAIN history : later[oid] = history[oid],
           NEW d, DraftRight(d, history)
    PROVE  DraftRight(d, later)
  <1>1. PICK R, S : R = Recorded(history) /\ S = Recorded(later)
    OBVIOUS
  <1>2. R \subseteq S
    BY <1>1, RecordedGrows
  <1>3. Seq(R) \subseteq Seq(S)
    BY <1>2
  <1>4. TransferData(history) \subseteq TransferData(later)
    BY <1>1, <1>3, Zenon DEF TransferData
  <1>5. ChainRight(d.chainOutput, d.source, later)
    BY <1>1, <1>2, Zenon DEF DraftRight, ChainRight
  <1> QED
    BY <1>4, <1>5 DEF DraftRight

LEMMA CompletedRight ==
    ASSUME NEW history, NEW d, DraftRight(d, history), NEW req \in TransferRequest
    PROVE  /\ DraftRight(Completed(d, req), history)
           /\ Completed(d, req).outputs = d.outputs
  <1>1. d \in TransferData(history)
    BY DEF DraftRight
  <1>2. PICK par : par = Completed(d, req)
    OBVIOUS
  <1>3. /\ par.outputs = d.outputs /\ par.chainOutput = d.chainOutput /\ par.source = d.source
        /\ par \in TransferData(history)
    BY <1>1, <1>2 DEF Completed, TransferData, TransferRequest, UnlockData
  <1> QED
    BY <1>2, <1>3 DEF DraftRight

\* A sequence that SortedByAmount returns has the elements of the set, once each.
LEMMA SortedShape ==
    ASSUME NEW S, IsFiniteSet(S), NEW desc, NEW s \in SortedByAmount(S, desc)
    PROVE  /\ s \in Seq(S) /\ Len(s) \in Nat
           /\ \A k \in 1 .. Len(s) : s[k] \in S
           /\ \A k, l \in 1 .. Len(s) : s[k] = s[l] => k = l
  <1>1. PICK n \in Nat : n = Cardinality(S)
    BY FS_CardinalityType
  <1>2. s \in [1 .. n -> S] /\ \A i, j \in 1 .. n : i # j => s[i] # s[j]
    BY <1>1 DEF SortedByAmount, SetToSeqs
  <1>3. s \in Seq(S) /\ Len(s) = n
    BY <1>2
  <1> QED
    BY <1>2, <1>3

\* Unspent outputs, read with their IDs.
LEMMA ReadShape ==
    ASSUME IInv, Balanced(utxo), NEW S, S \subseteq DOMAIN utxo,
           NEW R, R = {WithID(oid, utxo[oid]) : oid \in S}
    PROVE  R \subseteq Recorded(History) /\ IsFiniteSet(R)
  <1>1. IsFiniteSet(S)
    BY FS_Subset DEF Balanced
  <1>2. PICK f : f = [oid \in S |-> WithID(oid, utxo[oid])]
    OBVIOUS
  <1>3. f \in Surjection(S, R)
    BY <1>2 DEF Surjection
  <1>4. IsFiniteSet(R)
    BY <1>1, <1>3, FS_Surjection
  <1>5. ASSUME NEW oid \in S
        PROVE  WithID(oid, utxo[oid]) \in Recorded(History)
    <2>1. oid \in ProducedIDs /\ utxo[oid] = OutputOf(oid)
      BY DEF IInv, UtxoExact
    <2>2. oid \in DOMAIN History /\ History[oid] = utxo[oid]
      BY <2>1 DEF History
    <2> QED
      BY <2>2 DEF Recorded
  <1> QED
    BY <1>4, <1>5

DraftOf(key, acc, ts, outs, chain, none) ==
    [key |-> key, source |-> acc, outputs |-> outs, chainOutput |-> chain, timestamp |-> ts,
     lock |-> acc, amount |-> 0, adjust |-> FALSE, addSender |-> FALSE, addConstraints |-> none,
     unlockData |-> none]

LEMMA DraftOfTyped ==
    ASSUME NEW history, NEW key \in Addresses, NEW acc \in Lock, NEW ts \in Nat \ {0},
           NEW outs \in Seq(Recorded(history)), NEW chain \in Seq(Recorded(history)),
           0 \in Amount, NEW none, none \in Seq(Block), none \in Seq(UnlockData)
    PROVE  DraftOf(key, acc, ts, outs, chain, none) \in TransferData(history)
  BY DEF TransferData, DraftOf

LEMMA DraftOfFields ==
    ASSUME NEW key, NEW acc, NEW ts, NEW outs, NEW chain, NEW none,
           NEW d, d = DraftOf(key, acc, ts, outs, chain, none)
    PROVE  d.outputs = outs /\ d.chainOutput = chain /\ d.source = acc
  BY DEF DraftOf

LEMMA NewDraftRight ==
    ASSUME NEW history, NEW key \in Addresses, NEW acc \in Lock, NEW ts \in Nat \ {0},
           NEW outs \in Seq(Recorded(history)), OutputsRight(outs),
           NEW chain \in Seq(Recorded(history)), ChainRight(chain, acc, history),
           NEW d, d = DraftOf(key, acc, ts, outs, chain, <<>>)
    PROVE  DraftRight(d, history)
  <1>1. 0 \in Amount /\ <<>> \in Seq(Block) /\ <<>> \in Seq(UnlockData)
    BY MaxUint64Assumption DEF Amount
  <1>2. PICK none : none = <<>>
    OBVIOUS
  <1>3. d \in TransferData(history)
    BY <1>1, <1>2, DraftOfTyped
  <1>4. d.outputs = outs /\ d.chainOutput = chain /\ d.source = acc
    BY DraftOfFields
  <1> QED
    BY <1>3, <1>4 DEF DraftRight

\* The lock of a chain account.
LEMMA ChainLockShape ==
    ASSUME NEW acc \in Lock, acc.type = "chainLock"
    PROVE  acc = NewChainLock(acc.id)
  BY DEF Lock, Block, BasicBlock, NewChainLock

\* What is read for an account are unspent outputs of the history.
LEMMA ListedShape ==
    ASSUME WalletInv, NEW acc
    PROVE  Listed(acc) \subseteq Recorded(History) /\ IsFiniteSet(Listed(acc))
  <1>1. IInv /\ Balanced(utxo)
    BY DEF WalletInv, DBInv
  <1>2. PICK S : S = GetUTXOsLockedInAccount(acc, utxo)
    OBVIOUS
  <1>3. S \subseteq DOMAIN utxo
    BY <1>2 DEF GetUTXOsLockedInAccount
  <1>4. Listed(acc) = {WithID(oid, utxo[oid]) : oid \in S}
    BY <1>2 DEF Listed
  <1> QED
    BY <1>1, <1>3, <1>4, ReadShape

LEMMA AddressDraft ==
    ASSUME WalletInv, NEW key \in Addresses, NEW acc \in Lock, NEW ts \in Nat \ {0}, NEW desc,
           AllParse(Listed(acc)), NEW outs \in SortedByAmount(Unlockable(acc, ts), desc),
           NEW d, d = [NewTransferData(key, acc, ts) EXCEPT !.outputs = outs]
    PROVE  DraftRight(d, History)
  <1>1. PICK R, S : R = Recorded(History) /\ S = Unlockable(acc, ts)
    OBVIOUS
  <1>2. S \subseteq Listed(acc) /\ Listed(acc) \subseteq R /\ IsFiniteSet(S)
    BY <1>1, ListedShape, FS_Subset DEF Unlockable
  <1>3. /\ outs \in Seq(S)
        /\ \A k \in 1 .. Len(outs) : outs[k] \in S
        /\ \A k, l \in 1 .. Len(outs) : outs[k] = outs[l] => k = l
    BY <1>1, <1>2, SortedShape
  <1>4. outs \in Seq(R) /\ <<>> \in Seq(R)
    BY <1>2, <1>3
  <1>5. \A k \in 1 .. Len(outs) : OutputFromBytes(outs[k].out)
    BY <1>2, <1>3 DEF AllParse
  <1>6. d = DraftOf(key, acc, ts, outs, <<>>, <<>>)
    BY DEF NewTransferData, DraftOf
  <1>7. OutputsRight(outs) /\ ChainRight(<<>>, acc, History)
    BY <1>3, <1>5 DEF OutputsRight, ChainRight
  <1> QED
    BY <1>1, <1>4, <1>6, <1>7, NewDraftRight

LEMMA ChainDraft ==
    ASSUME WalletInv, NEW key \in Addresses, NEW acc \in Lock, NEW ts \in Nat \ {0}, NEW desc,
           acc.type = "chainLock", HasUTXOForChainID(acc.id, utxo),
           NEW oid, oid = GetUTXOForChainID(acc.id, utxo),
           OutputFromBytes(utxo[oid]), HasChainConstraint(utxo[oid]),
           AllParse(Listed(acc)), NEW outs \in SortedByAmount(Listed(acc), desc),
           NEW d, d = [NewTransferData(key, acc, ts) EXCEPT
                          !.outputs = outs, !.chainOutput = <<WithID(oid, utxo[oid])>>]
    PROVE  DraftRight(d, History)
  <1>1. PICK R, o : R = Recorded(History) /\ o = WithID(oid, utxo[oid])
    OBVIOUS
  <1>2. Listed(acc) \subseteq R /\ IsFiniteSet(Listed(acc))
    BY <1>1, ListedShape
  <1>3. /\ outs \in Seq(Listed(acc))
        /\ \A k \in 1 .. Len(outs) : outs[k] \in Listed(acc)
        /\ \A k, l \in 1 .. Len(outs) : outs[k] = outs[l] => k = l
    BY <1>2, SortedShape
  <1>4. outs \in Seq(R)
    BY <1>2, <1>3
  <1>5. \A k \in 1 .. Len(outs) : OutputFromBytes(outs[k].out)
    BY <1>3 DEF AllParse
  <1>6. acc.id \in DOMAIN chains /\ oid = chains[acc.id] /\ oid \in DOMAIN utxo
    BY DEF HasUTXOForChainID, GetUTXOForChainID
  <1>7. utxo[oid] = OutputOf(oid) /\ oid \in ProducedIDs /\ acc.id \in ChainIDsOf(oid, utxo[oid])
    BY <1>6 DEF WalletInv, DBInv, IInv, UtxoExact, ChainRecordsRight
  <1>8. o \in R /\ <<o>> \in Seq(R) /\ o.id = oid /\ o.out = utxo[oid]
    BY <1>1, <1>7 DEF Recorded, History, WithID
  <1>9. ChainAccount(o, acc)
    BY <1>7, <1>8, ChainLockShape DEF ChainAccount
  <1>10. OutputsRight(outs) /\ ChainRight(<<o>>, acc, History)
    BY <1>1, <1>3, <1>5, <1>8, <1>9 DEF OutputsRight, ChainRight
  <1>11. d = DraftOf(key, acc, ts, outs, <<o>>, <<>>)
    BY <1>1 DEF NewTransferData, DraftOf
  <1> QED
    BY <1>1, <1>4, <1>8, <1>10, <1>11, NewDraftRight

LEMMA MakeTransferDataRight ==
    ASSUME WalletInv, NEW a \in AccountRequest, NEW ts \in Times,
           MakeTransferData(a.key, a.account, ts, a.desc)
    PROVE  WalletInv'
  <1>1. a.key \in Addresses /\ a.account \in Lock /\ ts \in Nat \ {0}
    BY WalletAssumption DEF AccountRequest
  <1>2. PICK d : DraftRight(d, History) /\ drafts' = drafts \cup {d}
    <2>1. CASE MakeTransferInputsED25519(a.key, a.account, ts, a.desc)
      BY <1>1, <2>1, AddressDraft DEF MakeTransferInputsED25519
    <2>2. CASE MakeTransferDataChainLock(a.key, a.account, ts, a.desc)
      <3> DEFINE oid == GetUTXOForChainID(a.account.id, utxo)
      <3>1. PICK outs \in SortedByAmount(Listed(a.account), a.desc) :
                drafts' = drafts \cup {[NewTransferData(a.key, a.account, ts) EXCEPT
                              !.outputs = outs, !.chainOutput = <<WithID(oid, utxo[oid])>>]}
        BY <2>2 DEF MakeTransferDataChainLock
      <3>2. /\ a.account.type = "chainLock" /\ HasUTXOForChainID(a.account.id, utxo)
            /\ OutputFromBytes(utxo[oid]) /\ HasChainConstraint(utxo[oid])
            /\ AllParse(Listed(a.account))
        BY <2>2 DEF MakeTransferDataChainLock
      <3> QED
        BY <1>1, <3>1, <3>2, ChainDraft
    <2> QED
      BY <2>1, <2>2 DEF MakeTransferData
  <1>3. UNCHANGED <<utxo, txs, accounts, chains, pending, lost, reader>>
    BY DEF MakeTransferData
  <1>4. History' = History /\ Balanced(utxo)'
    BY <1>3 DEF WalletInv, History, ProducedIDs, OutputOf, TxNumbers
  <1>5. DBInv'
    BY <1>3, NextDBInv DEF WalletInv, dbVars
  <1> QED
    BY <1>2, <1>4, <1>5 DEF WalletInv

\* The history only grows.
LEMMA HistoryGrows ==
    ASSUME IInv, NEW tx, Update(tx)
    PROVE  /\ DOMAIN History \subseteq DOMAIN History'
           /\ \A oid \in DOMAIN History : History'[oid] = History[oid]
  <1>1. PICK n : n = Len(txs) + 1
    OBVIOUS
  <1>2. ProducedIDs \subseteq ProducedIDs' /\ \A oid \in ProducedIDs : OutputOf(oid)' = OutputOf(oid)
    BY <1>1, UpdateProduced
  <1> QED
    BY <1>2 DEF History

LEMMA DoTransferInv ==
    ASSUME WalletInv, NEW par, DoTransferTx(par)
    PROVE  WalletInv'
  <1>1. PICK tx : tx = MakeTransferTransaction(par)
    OBVIOUS
  <1>2. UpdateState(tx) /\ Update(tx) /\ pending = 0 /\ Len(txs) < MaxTxs /\ drafts' = drafts
    BY <1>1 DEF DoTransferTx, UpdateState
  <1>3. IInv /\ DBInv /\ SupplyInv
    BY DEF WalletInv, DBInv, SupplyInv
  <1>4. DBInv'
    BY <1>2, <1>3, UpdateStateDBInv
  <1>5. Balanced(utxo)'
    BY <1>2, <1>3, UpdateSupplyInv DEF SupplyInv
  <1>6. PICK before, after : before = History /\ after = History'
    OBVIOUS
  <1>7. DOMAIN before \subseteq DOMAIN after /\ \A oid \in DOMAIN before : after[oid] = before[oid]
    BY <1>2, <1>3, <1>6, HistoryGrows
  <1>8. \A d \in drafts' : DraftRight(d, after)
    BY <1>2, <1>6, <1>7, DraftStaysRight DEF WalletInv
  <1> QED
    BY <1>4, <1>5, <1>6, <1>8 DEF WalletInv

LEMMA InitWalletInv == InitWallet => WalletInv
  <1> SUFFICES ASSUME InitWallet
               PROVE  WalletInv
    OBVIOUS
  <1>1. DBInv
    BY InitDBInv DEF InitWallet
  <1>2. Balanced(utxo)
    BY GenesisBalanced DEF InitWallet, InitUTXODB, InitLedgerState
  <1> QED
    BY <1>1, <1>2 DEF InitWallet, WalletInv

LEMMA NextWalletInv == WalletInv /\ [WalletNext]_walletVars => WalletInv'
  <1> SUFFICES ASSUME WalletInv, [WalletNext]_walletVars
               PROVE  WalletInv'
    OBVIOUS
  <1>1. CASE \E a \in OpenedAccounts, ts \in Times : MakeTransferData(a.key, a.account, ts, a.desc)
    BY <1>1, MakeTransferDataRight DEF OpenedAccounts
  <1>2. CASE \E draft \in drafts, req \in TransferRequests : DoTransferTx(Completed(draft, req))
    BY <1>2, DoTransferInv
  <1>3. CASE \E c \in FaucetCalls, now \in Times : TokensFromFaucet(c.to, c.amount, now)
    BY <1>3, DoTransferInv DEF TokensFromFaucet
  <1>4. CASE (UpdateIndexer \/ UpdateIndexerFails) /\ UNCHANGED drafts
    <2>1. DBInv'
      BY <1>4, NextDBInv DEF WalletInv, DBNext
    <2>2. UNCHANGED <<utxo, txs, drafts>>
      BY <1>4 DEF UpdateIndexer, UpdateIndexerFails
    <2>3. History' = History /\ Balanced(utxo)'
      BY <2>2 DEF WalletInv, History, ProducedIDs, OutputOf, TxNumbers
    <2> QED
      BY <2>1, <2>2, <2>3 DEF WalletInv
  <1>5. CASE UNCHANGED walletVars
    <2>1. DBInv'
      BY <1>5, NextDBInv DEF WalletInv, walletVars, dbVars
    <2>2. History' = History /\ Balanced(utxo)' /\ drafts' = drafts
      BY <1>5 DEF WalletInv, walletVars, History, ProducedIDs, OutputOf, TxNumbers
    <2> QED
      BY <2>1, <2>2 DEF WalletInv
  <1> QED
    BY <1>1, <1>2, <1>3, <1>4, <1>5 DEF WalletNext

\* What the drafts remember stays an output of the history, however old the
\* draft is, and the ledger and its index keep their invariants.
THEOREM WalletsStayRight == WalletSpec => []WalletInv
  <1> QED
    BY InitWalletInv, NextWalletInv, PTL DEF WalletSpec

-----------------------------------------------------------------------------
(***************************************************************************)
(* What the builder makes of transfer data.                                *)
(***************************************************************************)
BuilderOf(consumed, inputs, unlock, outputs) ==
    [consumed |-> consumed, inputs |-> inputs, unlock |-> unlock, outputs |-> outputs]

\* g folds the unlock parameters e into the builder b: the value for a set of
\* positions is the builder after the ones in the set.
PutsUnlocks(g, b, e, D) ==
    g = [s \in D |-> IF s = {} THEN b
                     ELSE PutUnlockParams(g[s \ {Max(s)}], e[Max(s)].out, e[Max(s)].blk, e[Max(s)].data)]

LEMMA PutsExist ==
    ASSUME NEW n \in Nat, NEW e, NEW b
    PROVE  \E g : PutsUnlocks(g, b, e, SUBSET (1 .. n))
  <1> DEFINE Put(g, s) ==
                 PutUnlockParams(g[s \ {Max(s)}], e[Max(s)].out, e[Max(s)].blk, e[Max(s)].data)
             Bad == {k \in Nat : ~ \E g : PutsUnlocks(g, b, e, SUBSET (1 .. k))}
  <1>1. Bad = {}
    <2> SUFFICES ASSUME Bad # {} PROVE FALSE
      OBVIOUS
    <2>1. Bad \subseteq Nat
      OBVIOUS
    <2>2. PICK k \in Bad : \A m \in Bad : ~ (m < k)
      BY <2>1, LeastNumber
    <2>3. k \in Nat /\ ~ \E g : PutsUnlocks(g, b, e, SUBSET (1 .. k))
      BY <2>2
    <2>4. CASE k = 0
      <3> DEFINE g == [s \in SUBSET (1 .. 0) |-> b]
      <3>1. \A s \in SUBSET (1 .. 0) : s = {}
        OBVIOUS
      <3>2. PutsUnlocks(g, b, e, SUBSET (1 .. 0))
        BY <3>1, Zenon DEF PutsUnlocks
      <3> QED
        BY <2>3, <2>4, <3>2
    <2>5. CASE k # 0
      <3>1. k - 1 \in Nat /\ k - 1 < k
        BY <2>3, <2>5
      <3>2. PICK g : PutsUnlocks(g, b, e, SUBSET (1 .. k - 1))
        BY <2>2, <3>1
      <3> DEFINE h == [s \in SUBSET (1 .. k) |-> IF s = {} THEN b ELSE Put(g, s)]
      <3>3. ASSUME NEW s \in SUBSET (1 .. k), s # {}
            PROVE  h[s \ {Max(s)}] = g[s \ {Max(s)}]
        <4>1. PICK m : m = Max(s)
          OBVIOUS
        <4>2. m \in s /\ \A y \in s : m >= y
          BY <2>3, <3>3, <4>1, LastPosition
        <4>3. PICK t : t = s \ {m}
          OBVIOUS
        <4>4. t \in SUBSET (1 .. k) /\ t \in SUBSET (1 .. k - 1)
          <5>1. ASSUME NEW y \in t
                PROVE  y \in 1 .. k - 1
            <6>1. y \in s /\ y # m /\ m >= y /\ m \in 1 .. k /\ y \in 1 .. k
              BY <3>3, <4>2, <4>3
            <6> QED
              BY <2>3, <6>1
          <5> QED
            BY <3>3, <4>3, <5>1
        <4>5. h[t] = IF t = {} THEN b ELSE Put(g, t)
          BY <4>4
        <4>6. g[t] = IF t = {} THEN b ELSE Put(g, t)
          BY <3>2, <4>4, Zenon DEF PutsUnlocks
        <4> QED
          BY <4>1, <4>3, <4>5, <4>6, Zenon
      <3>4. PutsUnlocks(h, b, e, SUBSET (1 .. k))
        BY <3>3 DEF PutsUnlocks
      <3> QED
        BY <2>3, <3>4
    <2> QED
      BY <2>4, <2>5
  <1> QED
    BY <1>1

\* The fold over the unlock data.
LEMMA PutsAreRecursive ==
    ASSUME NEW S, NEW e \in Seq(S), NEW b
    PROVE  \E g : /\ PutsUnlocks(g, b, e, SUBSET (1 .. Len(e)))
                  /\ PutUnlockData(b, e) = g[1 .. Len(e)]
  <1>1. Len(e) \in Nat /\ DOMAIN e = 1 .. Len(e)
    OBVIOUS
  <1>2. PICK g : PutsUnlocks(g, b, e, SUBSET (DOMAIN e))
    BY <1>1, PutsExist
  <1>3. g = [s \in SUBSET (DOMAIN e) |-> IF s = {} THEN b ELSE
                PutUnlockParams(g[s \ {Max(s)}], e[Max(s)].out, e[Max(s)].blk, e[Max(s)].data)]
    BY <1>2 DEF PutsUnlocks
  <1>4. \E h : /\ h = [s \in SUBSET (DOMAIN e) |-> IF s = {} THEN b ELSE
                          PutUnlockParams(h[s \ {Max(s)}], e[Max(s)].out, e[Max(s)].blk, e[Max(s)].data)]
               /\ PutUnlockData(b, e) = h[DOMAIN e]
    BY <1>3 DEF PutUnlockData, FoldLeft, MapThenFoldSet
  <1> QED
    BY <1>1, <1>4 DEF PutsUnlocks

LEMMA PutKeeps ==
    ASSUME NEW c, NEW i, NEW u, NEW o, NEW out, NEW blk, NEW data,
           NEW b, b = BuilderOf(c, i, u, o)
    PROVE  \E v : PutUnlockParams(b, out, blk, data) = BuilderOf(c, i, v, o)
  <1>1. PICK v : v = [u EXCEPT ![out + 1] = PutConstraint(@, blk, data)]
    OBVIOUS
  <1>2. [b EXCEPT !.unlock = v] = BuilderOf(c, i, v, o)
    BY DEF BuilderOf
  <1>3. PutUnlockParams(b, out, blk, data) = [b EXCEPT !.unlock = v]
    <2>1. b.unlock = u
      BY DEF BuilderOf
    <2> QED
      BY <1>1, <2>1 DEF PutUnlockParams
  <1> QED
    BY <1>2, <1>3

\* Unlock parameters that the client provides change the unlock blocks only.
LEMMA UnlocksPut ==
    ASSUME NEW S, NEW e \in Seq(S), NEW c, NEW i, NEW u, NEW o,
           NEW b, b = BuilderOf(c, i, u, o),
           NEW r, r = PutUnlockData(b, e)
    PROVE  /\ \E v : r = BuilderOf(c, i, v, o)
           /\ e = <<>> => r = b
  <1>1. Len(e) \in Nat
    OBVIOUS
  <1>2. PICK g : PutsUnlocks(g, b, e, SUBSET (1 .. Len(e))) /\ r = g[1 .. Len(e)]
    BY PutsAreRecursive
  <1>3. g[{}] = b
    BY <1>2, Zenon DEF PutsUnlocks
  <1>4. ASSUME NEW k \in 1 .. Len(e)
        PROVE  g[1 .. k] = PutUnlockParams(g[1 .. k - 1], e[k].out, e[k].blk, e[k].data)
    <2>1. 1 .. k \in SUBSET (1 .. Len(e)) /\ k \in 1 .. k /\ k \in Nat
      BY <1>1
    <2>2. Max(1 .. k) = k
      <3>1. Max(1 .. k) \in 1 .. k /\ \A y \in 1 .. k : Max(1 .. k) >= y
        BY <2>1, LastPosition
      <3> QED
        BY <2>1, <3>1
    <2>3. (1 .. k) \ {k} = 1 .. k - 1
      BY <2>1
    <2> QED
      BY <1>2, <2>1, <2>2, <2>3 DEF PutsUnlocks
  <1> DEFINE Bad == {k \in Nat : k <= Len(e) /\ ~ \E v : g[1 .. k] = BuilderOf(c, i, v, o)}
  <1>5. Bad = {}
    <2> SUFFICES ASSUME Bad # {} PROVE FALSE
      OBVIOUS
    <2>1. PICK k \in Bad : \A m \in Bad : ~ (m < k)
      BY LeastNumber
    <2>2. k # 0
      <3>1. 1 .. 0 = {}
        OBVIOUS
      <3> QED
        BY <1>3, <2>1, <3>1
    <2>3. k \in 1 .. Len(e) /\ k - 1 \in Nat /\ k - 1 < k /\ k - 1 <= Len(e)
      BY <1>1, <2>1, <2>2
    <2>4. PICK v : g[1 .. k - 1] = BuilderOf(c, i, v, o)
      BY <2>1, <2>3
    <2>5. \E w : g[1 .. k] = BuilderOf(c, i, w, o)
      BY <1>4, <2>3, <2>4, PutKeeps
    <2> QED
      BY <2>1, <2>5
  <1>6. \E v : r = BuilderOf(c, i, v, o)
    BY <1>1, <1>2, <1>5
  <1>7. ASSUME e = <<>>
        PROVE  r = b
    <2>1. 1 .. Len(e) = {}
      BY <1>7
    <2> QED
      BY <1>2, <1>3, <2>1
  <1> QED
    BY <1>6, <1>7

\* The outputs that are selected are the first ones that were read.
LEMMA SelectedShape ==
    ASSUME NEW R, NEW par, par.outputs \in Seq(R), NEW amount,
           NEW sel, sel = OutputsToConsume(par, amount)
    PROVE  /\ sel \in Seq(R) /\ Len(sel) \in 0 .. Len(par.outputs)
           /\ \A k \in 1 .. Len(sel) : sel[k] = par.outputs[k]
  <1>1. PICK outs : outs = par.outputs
    OBVIOUS
  <1>2. outs \in Seq(R) /\ Len(outs) \in Nat
    BY <1>1
  <1>3. PICK T : T = {Len(outs)} \cup {n \in 1 .. Len(outs) : SumOf(SubSeq(outs, 1, n)) >= amount}
    OBVIOUS
  <1>4. T \subseteq Nat /\ T # {} /\ \A n \in T : n <= Len(outs)
    BY <1>2, <1>3
  <1>5. PICK m : m = Min(T)
    OBVIOUS
  <1>6. \E x \in T : \A y \in T : x <= y
    <2>1. PICK x \in T : \A y \in T : ~ (y < x)
      BY <1>4, LeastNumber
    <2> QED
      BY <1>4, <2>1
  <1>7. m \in T
    BY <1>5, <1>6, Zenon DEF Min
  <1>8. m \in Nat /\ m <= Len(outs)
    BY <1>4, <1>7
  <1>9. sel = SubSeq(outs, 1, m)
    BY <1>1, <1>3, <1>5 DEF OutputsToConsume
  <1> QED
    BY <1>1, <1>2, <1>8, <1>9

Consumed(par) == par.chainOutput \o Selected(par)

IDsOf(outs) == [k \in 1 .. Len(outs) |-> outs[k].id]

TransferTime(par) == TransferTimestamp(par, Selected(par))

Target(par) == MainOutput(par, AdjustedAmount(par), TransferTime(par))

\* What is left for the sender, or for the chain.
LeftOver(par) ==
    IF par.chainOutput = <<>> THEN SumOf(Selected(par)) - AdjustedAmount(par)
    ELSE SumOf(Selected(par)) + AmountOf(par.chainOutput[1].out) - AdjustedAmount(par)

\* The first output: the remainder, if there is one, or the next state of the
\* chain.
Change(par) ==
    IF par.chainOutput = <<>>
    THEN IF LeftOver(par) > 0 THEN <<Remainder(par, LeftOver(par), TransferTime(par))>> ELSE <<>>
    ELSE <<ChainSuccessor(par.chainOutput[1], LeftOver(par), TransferTime(par), 0)>>

TransferOf(par, unlock) ==
    [inputs |-> IDsOf(Consumed(par)), unlock |-> unlock, outputs |-> Change(par) \o <<Target(par)>>,
     signature |-> [key |-> par.key, valid |-> TRUE], timestamp |-> TransferTime(par),
     inputCommitment |-> blake2b(Contents(Consumed(par)))]

SimpleUnlock(n) == [k \in 1 .. n |-> LockUnlock(IF k = 1 THEN <<MaxByte>> ELSE <<0>>)]

ChainUnlock(blk, n) ==
    <<PutConstraint(LockUnlock(<<MaxByte>>), blk, <<0, blk, 0>>)>>
        \o [k \in 1 .. n |-> LockUnlock(<<0, blk>>)]

LEMMA Pair ==
    ASSUME NEW s, NEW t
    PROVE  <<s>> \o <<t>> = <<s, t>>
  <1>1. PICK S : s \in S /\ t \in S
    BY \A T : T = {s, t} => s \in T /\ t \in T
  <1>2. PICK a, b : a = <<s>> /\ b = <<t>>
    OBVIOUS
  <1>3. a \in Seq(S) /\ b \in Seq(S) /\ Len(a) = 1 /\ Len(b) = 1 /\ a[1] = s /\ b[1] = t
    BY <1>1, <1>2
  <1>4. PICK r : r = a \o b
    OBVIOUS
  <1>5. r \in Seq(S) /\ Len(r) = 2 /\ r[1] = s /\ r[2] = t
    BY <1>3, <1>4, ConcatProperties
  <1>6. r = <<s, t>>
    BY <1>5
  <1> QED
    BY <1>2, <1>4, <1>6

LEMMA BuilderReads ==
    ASSUME NEW none, NEW c, NEW i, NEW v, NEW x, x = BuilderOf(none, none, none, none),
           NEW r, r = [x EXCEPT !.consumed = c, !.inputs = i, !.unlock = v]
    PROVE  r = BuilderOf(c, i, v, none)
  <1>1. /\ x = [consumed |-> x.consumed, inputs |-> x.inputs, unlock |-> x.unlock,
                outputs |-> x.outputs]
        /\ x.outputs = none
    BY DEF BuilderOf
  <1>2. r = [consumed |-> c, inputs |-> i, unlock |-> v, outputs |-> x.outputs]
    BY <1>1
  <1> QED
    BY <1>1, <1>2 DEF BuilderOf

Written(x, o, u) == [x EXCEPT !.outputs = o, !.unlock = u]

LEMMA BuilderWrites ==
    ASSUME NEW none, NEW c, NEW i, NEW v, NEW o, NEW u, NEW x, x = BuilderOf(c, i, v, none)
    PROVE  Written(x, o, u) = BuilderOf(c, i, u, o)
  <1>1. /\ x = [consumed |-> x.consumed, inputs |-> x.inputs, unlock |-> x.unlock,
                outputs |-> x.outputs]
        /\ x.consumed = c /\ x.inputs = i
    BY DEF BuilderOf
  <1>2. PICK r : r = [x EXCEPT !.outputs = o, !.unlock = u]
    OBVIOUS
  <1>3. r = [consumed |-> x.consumed, inputs |-> x.inputs, unlock |-> u, outputs |-> o]
    BY <1>1, <1>2
  <1> QED
    BY <1>1, <1>2, <1>3 DEF BuilderOf, Written

LEMMA ConsumeAllShape ==
    ASSUME NEW outs, Len(outs) \in Nat, NEW u, NEW o,
           NEW b, b = [ConsumeAll(NewTransactionBuilder, outs) EXCEPT !.outputs = o, !.unlock = u]
    PROVE  b = BuilderOf(Contents(outs), IDsOf(outs), u, o)
  <1>1. PICK c, i, l : /\ c = Contents(outs) /\ i = IDsOf(outs)
                       /\ l = [k \in 1 .. Len(outs) |-> <<>>]
    OBVIOUS
  <1>2. c = [k \in 1 .. Len(outs) |-> outs[k].out] /\ i = [k \in 1 .. Len(outs) |-> outs[k].id]
    BY <1>1 DEF Contents, IDsOf
  <1>3. \E S : c \in Seq(S)
    <2>1. c \in [1 .. Len(outs) -> {outs[k].out : k \in 1 .. Len(outs)}]
      BY <1>2
    <2> QED
      BY <2>1, FunctionIsSeq
  <1>4. \E S : i \in Seq(S)
    <2>1. i \in [1 .. Len(outs) -> {outs[k].id : k \in 1 .. Len(outs)}]
      BY <1>2
    <2> QED
      BY <2>1, FunctionIsSeq
  <1>5. <<>> \o c = c
    BY <1>3
  <1>6. <<>> \o i = i
    BY <1>4
  <1>7. PICK none, v : none = <<>> /\ v = <<>> \o l
    OBVIOUS
  <1>8. NewTransactionBuilder = BuilderOf(none, none, none, none)
    BY <1>7 DEF NewTransactionBuilder, BuilderOf
  <1>9. PICK x : x = BuilderOf(none, none, none, none)
    OBVIOUS
  <1>10. x.consumed = none /\ x.inputs = none /\ x.unlock = none
    BY <1>9 DEF BuilderOf
  <1>11. PICK y : y = ConsumeAll(x, outs)
    OBVIOUS
  <1>12. y = [x EXCEPT !.consumed = c, !.inputs = i, !.unlock = v]
    BY <1>1, <1>2, <1>5, <1>6, <1>7, <1>10, <1>11 DEF ConsumeAll
  <1>13. y = BuilderOf(c, i, v, none)
    BY <1>9, <1>12, BuilderReads
  <1>14. b = Written(y, o, u)
    BY <1>8, <1>9, <1>11 DEF Written
  <1> QED
    BY <1>1, <1>13, <1>14, BuilderWrites

LEMMA SimpleTransferShape ==
    ASSUME NEW R, NEW par, par.outputs \in Seq(R), par.unlockData \in Seq(UnlockData),
           par.chainOutput = <<>>
    PROVE  /\ Consumed(par) = Selected(par)
           /\ \E u : MakeTransferTransaction(par) = TransferOf(par, u)
           /\ par.unlockData = <<>> =>
                  MakeTransferTransaction(par) = TransferOf(par, SimpleUnlock(Len(Selected(par))))
  <1>1. PICK sel : sel = Selected(par)
    OBVIOUS
  <1>2. sel \in Seq(R) /\ Len(sel) \in Nat
    BY <1>1, SelectedShape DEF Selected
  <1>3. Consumed(par) = sel
    BY <1>1, <1>2 DEF Consumed
  <1>4. PICK outs, ids, cont : /\ outs = Change(par) \o <<Target(par)>>
                               /\ ids = IDsOf(sel) /\ cont = Contents(sel)
    OBVIOUS
  <1>5. PICK l : l = SimpleUnlock(Len(sel))
    OBVIOUS
  <1>6. PICK b : b = [ConsumeAll(NewTransactionBuilder, sel) EXCEPT !.outputs = outs, !.unlock = l]
    OBVIOUS
  <1>7. b = BuilderOf(cont, ids, l, outs)
    BY <1>2, <1>4, <1>6, ConsumeAllShape
  <1>8. PICK r : r = PutUnlockData(b, par.unlockData)
    OBVIOUS
  <1>9. (\E v : r = BuilderOf(cont, ids, v, outs)) /\ (par.unlockData = <<>> => r = b)
    BY <1>7, <1>8, UnlocksPut
  <1>10. MakeTransferTransaction(par) = SignED25519(r, par.key, TransferTime(par))
    BY <1>1, <1>4, <1>5, <1>6, <1>8
       DEF MakeTransferTransaction, MakeSimpleTransfer, Selected, Change, LeftOver, Target,
           TransferTime, SimpleUnlock
  <1>11. \A v : SignED25519(BuilderOf(cont, ids, v, outs), par.key, TransferTime(par)) =
                    TransferOf(par, v)
    BY <1>3, <1>4 DEF SignED25519, BuilderOf, TransferOf
  <1> QED
    BY <1>1, <1>3, <1>5, <1>7, <1>9, <1>10, <1>11

LEMMA ChainTransferShape ==
    ASSUME NEW R, NEW par, par.outputs \in Seq(R), NEW pred \in R, par.chainOutput = <<pred>>
    PROVE  /\ Consumed(par) = <<pred>> \o Selected(par)
           /\ MakeTransferTransaction(par) =
                  TransferOf(par, ChainUnlock(ChainConstraintIndex(pred.out), Len(Selected(par))))
  <1>1. PICK sel, all : sel = Selected(par) /\ all = <<pred>> \o sel
    OBVIOUS
  <1>2. sel \in Seq(R) /\ Len(sel) \in Nat
    BY <1>1, SelectedShape DEF Selected
  <1>3. Consumed(par) = all
    BY <1>1 DEF Consumed
  <1>4. Len(all) \in Nat
    BY <1>1, <1>2
  <1>5. par.chainOutput # <<>> /\ par.chainOutput[1] = pred
    OBVIOUS
  <1>6. PICK s, t : /\ s = ChainSuccessor(pred, LeftOver(par), TransferTime(par), 0)
                    /\ t = Target(par)
    OBVIOUS
  <1>7. PICK l : l = ChainUnlock(ChainConstraintIndex(pred.out), Len(sel))
    OBVIOUS
  <1>8. PICK b : b = [ConsumeAll(NewTransactionBuilder, all) EXCEPT !.outputs = <<s, t>>, !.unlock = l]
    OBVIOUS
  <1>9. b = BuilderOf(Contents(all), IDsOf(all), l, <<s, t>>)
    BY <1>4, <1>8, ConsumeAllShape
  <1>10. MakeTransferTransaction(par) = SignED25519(b, par.key, TransferTime(par))
    BY <1>1, <1>5, <1>6, <1>7, <1>8
       DEF MakeTransferTransaction, MakeChainTransfer, Selected, LeftOver, Target,
           TransferTime, ChainUnlock
  <1>11. Change(par) = <<s>>
    BY <1>5, <1>6 DEF Change
  <1>12. Change(par) \o <<Target(par)>> = <<s, t>>
    BY <1>6, <1>11, Pair
  <1>13. SignED25519(BuilderOf(Contents(all), IDsOf(all), l, <<s, t>>), par.key, TransferTime(par)) =
             TransferOf(par, l)
    BY <1>3, <1>12 DEF SignED25519, BuilderOf, TransferOf
  <1> QED
    BY <1>1, <1>3, <1>7, <1>9, <1>10, <1>13

-----------------------------------------------------------------------------
(***************************************************************************)
(* A transfer moves the amount.                                            *)
(***************************************************************************)
LockedIDs(lock, state) == {oid \in DOMAIN state : LockOf(state[oid]) = lock}

LEMMA LockedSum ==
    ASSUME NEW state, Balanced(state), NEW lock
    PROVE  /\ LockedIn(lock, state) = SumOver(AmountsIn(state), LockedIDs(lock, state))
           /\ LockedIDs(lock, state) \subseteq DOMAIN state
           /\ IsFiniteSet(LockedIDs(lock, state))
           /\ \A oid \in DOMAIN state : AmountsIn(state)[oid] \in Int
  <1>1. LockedIDs(lock, state) \subseteq DOMAIN state
    BY DEF LockedIDs
  <1>2. IsFiniteSet(LockedIDs(lock, state))
    BY <1>1, FS_Subset DEF Balanced
  <1>3. \A oid \in DOMAIN state : AmountsIn(state)[oid] \in Int
    BY DEF Balanced, AmountsIn, Amount
  <1>4. PICK S : S = LockedIDs(lock, state)
    OBVIOUS
  <1>5. LockedIn(lock, state) = MapThenSumSet(LAMBDA oid : AmountOf(state[oid]), S)
    BY <1>4 DEF LockedIn, LockedIDs
  <1>6. MapThenSumSet(LAMBDA oid : AmountOf(state[oid]), S) = SumOver(AmountsIn(state), S)
    BY <1>1, <1>2, <1>4, SumOfAmounts
  <1> QED
    BY <1>1, <1>2, <1>3, <1>4, <1>5, <1>6

\* Old outputs are replaced by new ones in a state.
Replaces(state, next, Old, New) ==
    /\ Balanced(state) /\ Balanced(next)
    /\ New \cap DOMAIN state = {}
    /\ DOMAIN next = (DOMAIN state \ Old) \cup New
    /\ \A oid \in DOMAIN state \ Old : next[oid] = state[oid]

LEMMA LockedAfter ==
    ASSUME NEW state, NEW next, NEW Old, NEW New, Replaces(state, next, Old, New),
           NEW lock, \A oid \in Old : LockOf(state[oid]) # lock
    PROVE  /\ (\A oid \in New : LockOf(next[oid]) # lock) =>
                  LockedIn(lock, next) = LockedIn(lock, state)
           /\ \A m \in New :
                  (\A oid \in New : LockOf(next[oid]) = lock <=> oid = m) =>
                      LockedIn(lock, next) = LockedIn(lock, state) + AmountOf(next[m])
  <1>1. PICK S, T, w, v : /\ S = LockedIDs(lock, state) /\ T = LockedIDs(lock, next)
                          /\ w = AmountsIn(state) /\ v = AmountsIn(next)
    OBVIOUS
  <1>2. /\ LockedIn(lock, state) = SumOver(w, S) /\ S \subseteq DOMAIN state /\ IsFiniteSet(S)
        /\ \A oid \in DOMAIN state : w[oid] \in Int
    BY <1>1, LockedSum DEF Replaces
  <1>3. /\ LockedIn(lock, next) = SumOver(v, T) /\ T \subseteq DOMAIN next /\ IsFiniteSet(T)
        /\ \A oid \in DOMAIN next : v[oid] \in Int
    BY <1>1, LockedSum DEF Replaces
  <1>4. \A oid \in S : oid \notin Old /\ oid \in DOMAIN next /\ oid \notin New /\ v[oid] = w[oid]
    BY <1>1, <1>2 DEF Replaces, LockedIDs, AmountsIn
  <1>5. SumOver(v, S) = SumOver(w, S)
    BY <1>2, <1>4, SumCongruent
  <1>6. \A x : x \in T <=> x \in S \/ (x \in New /\ LockOf(next[x]) = lock)
    BY <1>1 DEF Replaces, LockedIDs
  <1>7. ASSUME \A oid \in New : LockOf(next[oid]) # lock
        PROVE  LockedIn(lock, next) = LockedIn(lock, state)
    <2>1. T = S
      BY <1>6, <1>7
    <2> QED
      BY <1>2, <1>3, <1>5, <2>1
  <1>8. ASSUME NEW m \in New, \A oid \in New : LockOf(next[oid]) = lock <=> oid = m
        PROVE  LockedIn(lock, next) = LockedIn(lock, state) + AmountOf(next[m])
    <2>1. \A x : x \in T <=> x \in S \/ x = m
      BY <1>6, <1>8
    <2>2. m \notin S
      BY <1>4, <1>8
    <2>3. \A x \in T : v[x] \in Int
      BY <1>3
    <2>4. SumOver(v, T) = SumOver(v, S) + v[m]
      BY <1>2, <2>1, <2>2, <2>3, SumInsert
    <2>5. v[m] = AmountOf(next[m])
      BY <1>1, <1>8 DEF AmountsIn, Replaces
    <2> QED
      BY <1>2, <1>3, <1>5, <2>4, <2>5
  <1> QED
    BY <1>7, <1>8

LEMMA Join ==
    ASSUME NEW S, NEW s \in Seq(S), NEW t \in Seq(S), NEW r, r = s \o t
    PROVE  /\ r \in Seq(S) /\ Len(r) \in Nat /\ Len(s) \in Nat /\ Len(t) \in Nat
           /\ Len(r) = Len(s) + Len(t)
           /\ \A i \in 1 .. Len(s) : r[i] = s[i]
           /\ \A i \in 1 .. Len(t) : r[i + Len(s)] = t[i]
  <1>a. Len(s) \in Nat /\ Len(t) \in Nat
    OBVIOUS
  <1>1. PICK m, n : m = Len(s) /\ n = Len(t) /\ m \in Nat /\ n \in Nat
    BY <1>a
  <1>2. /\ r \in Seq(S) /\ Len(r) = m + n
        /\ \A i \in 1 .. m + n : r[i] = IF i <= m THEN s[i] ELSE t[i - m]
    BY <1>1, ConcatProperties
  <1>3. ASSUME NEW i \in 1 .. m
        PROVE  r[i] = s[i]
    BY <1>1, <1>2
  <1>4. ASSUME NEW i \in 1 .. n
        PROVE  r[i + m] = t[i]
    <2>1. i + m \in 1 .. m + n /\ ~ (i + m <= m) /\ (i + m) - m = i
      BY <1>1
    <2> QED
      BY <1>2, <2>1
  <1> QED
    BY <1>1, <1>2, <1>3, <1>4

\* The blocks of the main output.
MainBlocks(par, a, ts, m) ==
    LET x == IF par.addSender THEN 1 ELSE 0
    IN  /\ Len(m) = 3 + x + Len(par.addConstraints) /\ DOMAIN m = 1 .. Len(m)
        /\ m[1] = NewAmount(a) /\ m[2] = NewTimestamp(ts) /\ m[3] = par.lock
        /\ par.addSender => m[4] = NewSenderED25519(par.key)
        /\ \A k \in 1 .. Len(par.addConstraints) : m[k + 3 + x] = par.addConstraints[k]

LEMMA MainOutputShape ==
    ASSUME NEW par, par.addConstraints \in Seq(Block), NEW a, NEW ts
    PROVE  MainBlocks(par, a, ts, MainOutput(par, a, ts))
  <1>1. PICK S : /\ Block \subseteq S /\ NewAmount(a) \in S /\ NewTimestamp(ts) \in S
                 /\ par.lock \in S /\ NewSenderED25519(par.key) \in S
    <2> DEFINE S == Block \cup {NewAmount(a), NewTimestamp(ts), par.lock, NewSenderED25519(par.key)}
    <2> QED
      BY \A T : T = S => Block \subseteq T /\ NewAmount(a) \in T /\ NewTimestamp(ts) \in T
                         /\ par.lock \in T /\ NewSenderED25519(par.key) \in T
  <1>2. PICK c1, c2, c4 : c1 = NewAmount(a) /\ c2 = NewTimestamp(ts) /\ c4 = NewSenderED25519(par.key)
    OBVIOUS
  <1>3. PICK b, s, t : /\ b = OutputBasic(a, ts, par.lock)
                       /\ s = (IF par.addSender THEN <<c4>> ELSE <<>>)
                       /\ t = par.addConstraints
    OBVIOUS
  <1>4. b = <<c1, c2, par.lock>>
    BY <1>2, <1>3 DEF OutputBasic
  <1>5. b \in Seq(S) /\ Len(b) = 3 /\ b[1] = c1 /\ b[2] = c2 /\ b[3] = par.lock
    BY <1>1, <1>2, <1>4
  <1>6. s \in Seq(S) /\ Len(s) = (IF par.addSender THEN 1 ELSE 0) /\ (par.addSender => s[1] = c4)
    BY <1>1, <1>2, <1>3
  <1>7. t \in Seq(S) /\ Len(t) \in Nat
    BY <1>1, <1>3
  <1>8. PICK r, m : r = b \o s /\ m = r \o t
    OBVIOUS
  <1>9. /\ r \in Seq(S) /\ Len(r) = Len(b) + Len(s) /\ Len(s) \in Nat
        /\ \A i \in 1 .. Len(b) : r[i] = b[i]
        /\ \A i \in 1 .. Len(s) : r[i + Len(b)] = s[i]
    <2>1. b \in Seq(S)
      BY <1>5
    <2>2. s \in Seq(S)
      BY <1>6
    <2>3. r = b \o s
      BY <1>8
    <2> QED
      BY <2>1, <2>2, <2>3, Join
  <1>10. /\ m \in Seq(S) /\ Len(m) = Len(r) + Len(t) /\ Len(m) \in Nat
         /\ \A i \in 1 .. Len(r) : m[i] = r[i]
         /\ \A i \in 1 .. Len(t) : m[i + Len(r)] = t[i]
    BY <1>7, <1>8, <1>9, Join
  <1>11. /\ Len(r) = 3 + (IF par.addSender THEN 1 ELSE 0)
         /\ m[1] = c1 /\ m[2] = c2 /\ m[3] = par.lock
    BY <1>5, <1>6, <1>9, <1>10
  <1>12. par.addSender => m[4] = c4
    <2> SUFFICES ASSUME par.addSender PROVE m[4] = c4
      OBVIOUS
    <2>1. Len(s) = 1 /\ 1 \in 1 .. Len(s) /\ Len(b) = 3 /\ 1 + 3 = 4
      BY <1>5, <1>6
    <2>2. r[4] = c4
      BY <1>6, <1>9, <2>1
    <2> QED
      BY <1>10, <1>11, <2>2
  <1>13. m = MainOutput(par, a, ts)
    BY <1>2, <1>3, <1>8 DEF MainOutput
  <1>14. DOMAIN m = 1 .. Len(m)
    BY <1>10
  <1>15. MainBlocks(par, a, ts, m)
    <2>1. Len(m) = 3 + (IF par.addSender THEN 1 ELSE 0) + Len(par.addConstraints)
      BY <1>3, <1>7, <1>10, <1>11
    <2>2. PICK x : x = IF par.addSender THEN 1 ELSE 0
      OBVIOUS
    <2>3. ASSUME NEW k \in 1 .. Len(t)
          PROVE  m[k + 3 + x] = t[k]
      <3>1. k + 3 + x = k + Len(r)
        BY <1>7, <1>11, <2>2
      <3> QED
        BY <1>10, <3>1
    <2>4. \A k \in 1 .. Len(par.addConstraints) : m[k + 3 + x] = par.addConstraints[k]
      BY <1>3, <2>3
    <2> QED
      BY <1>2, <1>11, <1>12, <1>14, <2>1, <2>2, <2>4 DEF MainBlocks
  <1> QED
    BY <1>13, <1>15

\* The first chain constraint of an output.
LEMMA FirstChain ==
    ASSUME NEW out, Len(out) \in Nat, HasChainConstraint(out)
    PROVE  /\ ChainConstraintIndex(out) \in 3 .. Len(out) - 1
           /\ ChainConstraintIndex(out) < MaxByte
           /\ At(out, ChainConstraintIndex(out)).type = "chain"
  <1>1. PICK T : T = {MaxByte} \cup {b \in ConstraintIndexLock + 1 .. Len(out) - 1 : At(out, b).type = "chain"}
    OBVIOUS
  <1>2. T \subseteq Nat /\ T # {}
    BY <1>1, MaxByteAssumption DEF ConstraintIndexLock
  <1>3. \E x \in T : \A y \in T : x <= y
    <2>1. PICK x \in T : \A y \in T : ~ (y < x)
      BY <1>2, LeastNumber
    <2> QED
      BY <1>2, <2>1
  <1>4. PICK m : m = Min(T)
    OBVIOUS
  <1>5. m \in T /\ \A y \in T : m <= y
    BY <1>3, <1>4, Zenon DEF Min
  <1>6. m = ChainConstraintIndex(out) /\ m # MaxByte
    BY <1>1, <1>4 DEF ChainConstraintIndex, HasChainConstraint
  <1>7. MaxByte \in T
    BY <1>1
  <1>8. m \in 3 .. Len(out) - 1 /\ At(out, m).type = "chain"
    BY <1>1, <1>5, <1>6 DEF ConstraintIndexLock
  <1> QED
    BY <1>5, <1>6, <1>7, <1>8, MaxByteAssumption

\* The next state of a chain: amount, timestamp and chain constraint are new.
LEMMA SuccessorShape ==
    ASSUME NEW o, Len(o.out) \in Nat, OutputFromBytes(o.out), HasChainConstraint(o.out),
           NEW a, NEW ts, NEW idx, NEW s, s = ChainSuccessor(o, a, ts, idx),
           NEW blk, blk = ChainConstraintIndex(o.out)
    PROVE  /\ blk \in 3 .. Len(o.out) - 1 /\ blk < MaxByte
           /\ Len(s) = Len(o.out) /\ DOMAIN s = 1 .. Len(s)
           /\ s[1] = NewAmount(a) /\ s[2] = NewTimestamp(ts)
           /\ s[blk + 1] = NewChain(ChainIDOf(o), idx, blk, 0)
           /\ \A k \in 3 .. Len(s) : k # blk + 1 => s[k] = o.out[k]
  <1>1. PICK out, n : out = o.out /\ n = Len(out)
    OBVIOUS
  <1>2. n \in Nat /\ n >= 3 /\ blk \in 3 .. n - 1 /\ blk \in Nat /\ blk < MaxByte
    BY <1>1, FirstChain DEF OutputFromBytes
  <1>3. PICK c1, c2, c : /\ c1 = NewAmount(a) /\ c2 = NewTimestamp(ts)
                         /\ c = NewChain(ChainIDOf(o), idx, blk, 0)
    OBVIOUS
  <1>4. PICK r : r = PutConstraint(out, 0, c1)
    OBVIOUS
  <1>5. r = [k \in 1 .. n |-> IF k = 1 THEN c1 ELSE out[k]]
    BY <1>1, <1>2, <1>4, PutEffect
  <1>6. Len(r) = n
    BY <1>2, <1>5
  <1>7. PICK q : q = PutConstraint(r, 1, c2)
    OBVIOUS
  <1>8. q = [k \in 1 .. n |-> IF k = 2 THEN c2 ELSE r[k]]
    BY <1>2, <1>6, <1>7, PutEffect
  <1>9. Len(q) = n
    BY <1>2, <1>8
  <1>10. s = PutConstraint(q, blk, c)
    BY <1>1, <1>3, <1>4, <1>7
       DEF ChainSuccessor, WithTimestamp, WithAmount, ConstraintIndexAmount, ConstraintIndexTimestamp
  <1>11. s = [k \in 1 .. n |-> IF k = blk + 1 THEN c ELSE q[k]]
    BY <1>2, <1>9, <1>10, PutEffect
  <1>12. s = [k \in 1 .. n |-> IF k = 1 THEN c1 ELSE IF k = 2 THEN c2
                               ELSE IF k = blk + 1 THEN c ELSE out[k]]
    BY <1>2, <1>5, <1>8, <1>11
  <1>13. /\ Len(s) = n /\ DOMAIN s = 1 .. n /\ s[1] = c1 /\ s[2] = c2 /\ s[blk + 1] = c
         /\ \A k \in 3 .. n : k # blk + 1 => s[k] = out[k]
    BY <1>2, <1>12
  <1> QED
    BY <1>1, <1>2, <1>3, <1>13

\* The transfer data of a draft, taken apart.
LEMMA DraftParts ==
    ASSUME NEW history, \A oid \in DOMAIN history : history[oid] \in Output,
           NEW par, DraftRight(par, history)
    PROVE  /\ par.outputs \in Seq(Recorded(history)) /\ par.unlockData \in Seq(UnlockData)
           /\ par.addConstraints \in Seq(Block) /\ par.lock \in Lock /\ par.source \in Lock
           /\ par.amount \in Amount /\ par.key \in Addresses /\ par.timestamp \in Nat
           /\ par.addSender \in BOOLEAN /\ par.adjust \in BOOLEAN
           /\ \/ par.chainOutput = <<>>
              \/ \E o \in Recorded(history) : par.chainOutput = <<o>> /\ ChainAccount(o, par.source)
           /\ \A o \in Recorded(history) : o.out \in Output /\ Len(o.out) \in Nat
  <1>1. /\ par.outputs \in Seq(Recorded(history)) /\ par.unlockData \in Seq(UnlockData)
        /\ par.addConstraints \in Seq(Block) /\ par.lock \in Lock /\ par.source \in Lock
        /\ par.amount \in Amount /\ par.key \in Addresses /\ par.timestamp \in Nat
        /\ par.addSender \in BOOLEAN /\ par.adjust \in BOOLEAN
    BY DEF DraftRight, TransferData
  <1>2. \/ par.chainOutput = <<>>
        \/ \E o \in Recorded(history) : par.chainOutput = <<o>> /\ ChainAccount(o, par.source)
    BY DEF DraftRight, ChainRight
  <1>3. \A o \in Recorded(history) : o.out \in Output
    BY RecordedShape
  <1>4. \A o \in Recorded(history) : Len(o.out) \in Nat
    BY <1>3 DEF Output, Array
  <1> QED
    BY <1>1, <1>2, <1>3, <1>4

LEMMA HistoryTyped ==
    ASSUME TypeOK
    PROVE  \A oid \in DOMAIN History : History[oid] \in Output
  BY OutputTyped DEF History

\* Everything that is consumed was read for the transfer.
LEMMA ConsumedRead ==
    ASSUME NEW R, NEW par, par.outputs \in Seq(R),
           par.chainOutput = <<>> \/ \E o \in R : par.chainOutput = <<o>>,
           NEW all, all = Consumed(par)
    PROVE  /\ all \in Seq(R) /\ Len(all) \in Nat
           /\ \A k \in 1 .. Len(all) : all[k] \in R /\ LockOf(all[k].out) \in Payers(par)
           /\ par.chainOutput # <<>> => LockOf(par.chainOutput[1].out) \in Payers(par)
  <1>1. PICK sel, c, outs : sel = Selected(par) /\ c = par.chainOutput /\ outs = par.outputs
    OBVIOUS
  <1>2. /\ sel \in Seq(R) /\ Len(sel) \in 0 .. Len(outs)
        /\ \A k \in 1 .. Len(sel) : sel[k] = outs[k]
    BY <1>1, SelectedShape DEF Selected
  <1>3. c \in Seq(R)
    <2>1. CASE c = <<>>
      BY <2>1
    <2>2. CASE \E o \in R : c = <<o>>
      BY <2>2
    <2> QED
      BY <1>1, <2>1, <2>2
  <1>4. all = c \o sel
    BY <1>1 DEF Consumed
  <1>5. /\ all \in Seq(R) /\ Len(all) \in Nat /\ Len(all) = Len(c) + Len(sel) /\ Len(c) \in Nat
        /\ Len(sel) \in Nat
        /\ \A i \in 1 .. Len(c) : all[i] = c[i]
        /\ \A i \in 1 .. Len(sel) : all[i + Len(c)] = sel[i]
    BY <1>2, <1>3, <1>4, Join
  <1>6. PICK both : both = outs \o c
    OBVIOUS
  <1>7. outs \in Seq(R)
    BY <1>1
  <1>8. /\ both \in Seq(R) /\ Len(both) \in Nat /\ Len(both) = Len(outs) + Len(c) /\ Len(outs) \in Nat
        /\ \A i \in 1 .. Len(outs) : both[i] = outs[i]
        /\ \A i \in 1 .. Len(c) : both[i + Len(outs)] = c[i]
    BY <1>3, <1>6, <1>7, Join
  <1>9. DOMAIN both = 1 .. Len(both)
    BY <1>8
  <1>10. \A i \in 1 .. Len(both) : LockOf(both[i].out) \in Payers(par)
    BY <1>1, <1>6, <1>9 DEF Payers, ToSet
  <1>11. \A i \in 1 .. Len(c) : LockOf(c[i].out) \in Payers(par)
    <2> SUFFICES ASSUME NEW i \in 1 .. Len(c)
                 PROVE  LockOf(c[i].out) \in Payers(par)
      OBVIOUS
    <2>1. i + Len(outs) \in 1 .. Len(both)
      BY <1>5, <1>8
    <2> QED
      BY <1>8, <1>10, <2>1
  <1>12. \A i \in 1 .. Len(outs) : LockOf(outs[i].out) \in Payers(par)
    <2> SUFFICES ASSUME NEW i \in 1 .. Len(outs)
                 PROVE  LockOf(outs[i].out) \in Payers(par)
      OBVIOUS
    <2>1. i \in 1 .. Len(both)
      BY <1>5, <1>8
    <2> QED
      BY <1>8, <1>10, <2>1
  <1>13. ASSUME NEW k \in 1 .. Len(all)
         PROVE  all[k] \in R /\ LockOf(all[k].out) \in Payers(par)
    <2>1. all[k] \in R
      BY <1>5
    <2>2. CASE k <= Len(c)
      BY <1>5, <1>11, <2>1, <2>2
    <2>3. CASE ~ (k <= Len(c))
      <3>1. PICK i : i = k - Len(c)
        OBVIOUS
      <3>2. i \in 1 .. Len(sel) /\ i + Len(c) = k /\ i \in 1 .. Len(outs)
        BY <1>2, <1>5, <1>8, <2>3, <3>1
      <3>3. all[k] = outs[i]
        BY <1>2, <1>5, <3>2
      <3> QED
        BY <1>12, <2>1, <3>2, <3>3
    <2> QED
      BY <2>2, <2>3
  <1>14. par.chainOutput # <<>> => LockOf(par.chainOutput[1].out) \in Payers(par)
    <2> SUFFICES ASSUME par.chainOutput # <<>>
                 PROVE  LockOf(c[1].out) \in Payers(par)
      BY <1>1
    <2>1. 1 \in 1 .. Len(c)
      BY <1>1, <1>3
    <2> QED
      BY <1>11, <2>1
  <1> QED
    BY <1>5, <1>13, <1>14

\* The produced outputs: at most one before the main output, and that one goes
\* back to a payer.
LEMMA TransferOutputsShape ==
    ASSUME NEW history, \A oid \in DOMAIN history : history[oid] \in Output,
           NEW par, DraftRight(par, history),
           NEW outs, outs = Change(par) \o <<Target(par)>>
    PROVE  /\ Len(outs) \in {1, 2} /\ outs[Len(outs)] = Target(par)
           /\ Len(outs) = 2 => Change(par) = <<outs[1]>> /\ LockOf(outs[1]) \in Payers(par)
           /\ DOMAIN outs = 1 .. Len(outs)
  <1>1. PICK t, c : t = Target(par) /\ c = Change(par)
    OBVIOUS
  <1>2. c = <<>> \/ \E o : c = <<o>> /\ LockOf(o) \in Payers(par)
    <2>1. CASE par.chainOutput = <<>>
      <3>1. CASE LeftOver(par) > 0
        <4>1. PICK o : o = Remainder(par, LeftOver(par), TransferTime(par))
          OBVIOUS
        <4>2. c = <<o>>
          BY <1>1, <2>1, <3>1, <4>1 DEF Change
        <4>3. LockOf(o) = par.source
          BY <4>1 DEF Remainder, OutputBasic, LockOf, At, ConstraintIndexLock
        <4> QED
          BY <4>2, <4>3 DEF Payers
      <3> QED
        BY <1>1, <2>1, <3>1 DEF Change
    <2>2. CASE par.chainOutput # <<>>
      <3>1. PICK pred : pred = par.chainOutput[1]
        OBVIOUS
      <3>2. /\ pred \in Recorded(history) /\ OutputFromBytes(pred.out)
            /\ HasChainConstraint(pred.out) /\ Len(pred.out) \in Nat
        <4>1. PICK o \in Recorded(history) : par.chainOutput = <<o>> /\ ChainAccount(o, par.source)
          BY <2>2, DraftParts
        <4>2. pred = o
          BY <3>1, <4>1
        <4>3. Len(o.out) \in Nat
          BY DraftParts
        <4> QED
          BY <4>1, <4>2, <4>3 DEF ChainAccount
      <3>3. PICK s : s = ChainSuccessor(pred, LeftOver(par), TransferTime(par), 0)
        OBVIOUS
      <3>4. c = <<s>>
        BY <1>1, <2>2, <3>1, <3>3 DEF Change
      <3>5. PICK blk : blk = ChainConstraintIndex(pred.out)
        OBVIOUS
      <3>6. blk \in 3 .. Len(pred.out) - 1
        BY <3>2, <3>5, FirstChain
      <3>7. s[3] = pred.out[3]
        <4>1. Len(s) = Len(pred.out) /\ \A k \in 3 .. Len(s) : k # blk + 1 => s[k] = pred.out[k]
          BY <3>2, <3>3, <3>5, SuccessorShape
        <4>2. 3 \in 3 .. Len(pred.out) /\ 3 # blk + 1
          BY <3>2, <3>6
        <4> QED
          BY <4>1, <4>2
      <3>8. LockOf(s) = LockOf(pred.out)
        BY <3>7 DEF LockOf, At, ConstraintIndexLock
      <3>9. LockOf(pred.out) \in Payers(par)
        <4>1. PICK R, all : R = Recorded(history) /\ all = Consumed(par)
          OBVIOUS
        <4>2. par.outputs \in Seq(R) /\ (par.chainOutput = <<>> \/ \E o \in R : par.chainOutput = <<o>>)
          BY <4>1, DraftParts
        <4> QED
          BY <2>2, <3>1, <4>1, <4>2, ConsumedRead
      <3> QED
        BY <3>4, <3>8, <3>9
    <2> QED
      BY <2>1, <2>2
  <1>3. CASE c = <<>>
    <2>1. outs = <<t>>
      <3>1. PICK S : S = {t}
        OBVIOUS
      <3>2. <<t>> \in Seq(S)
        BY <3>1
      <3> QED
        BY <1>1, <1>3, <3>2
    <2> QED
      BY <1>1, <2>1
  <1>4. CASE \E o : c = <<o>> /\ LockOf(o) \in Payers(par)
    <2>1. PICK o : c = <<o>> /\ LockOf(o) \in Payers(par)
      BY <1>4
    <2>2. outs = <<o, t>>
      BY <1>1, <2>1, Pair
    <2> QED
      BY <1>1, <2>1, <2>2
  <1> QED
    BY <1>2, <1>3, <1>4

LEMMA TransferMoves ==
    ASSUME WalletInv, NEW par, DraftRight(par, History), DoTransferTx(par), Balanced(utxo)'
    PROVE  MovesAmount(par)
  <1>1. PICK tx, n, next : tx = MakeTransferTransaction(par) /\ n = Len(txs) + 1 /\ next = utxo'
    OBVIOUS
  <1>2. IInv /\ TypeOK /\ Balanced(utxo)
    BY DEF WalletInv, DBInv, IInv
  <1>3. Update(tx)
    BY <1>1 DEF DoTransferTx, UpdateState
  <1>4. Accepted(tx) /\ tx \in Transaction /\ next = UpdateTrie(tx, n)
    BY <1>1, <1>2, <1>3, UpdateEffect
  <1>5. OutputIDsOf(tx, n) \cap DOMAIN utxo = {}
    BY <1>1, <1>2, <1>3, UpdateFresh
  <1>6. PICK R, all, outs : R = Recorded(History) /\ all = Consumed(par)
                            /\ outs = Change(par) \o <<Target(par)>>
    OBVIOUS
  <1>7. \A oid \in DOMAIN History : History[oid] \in Output
    BY <1>2, HistoryTyped
  <1>8. /\ par.outputs \in Seq(R) /\ par.unlockData \in Seq(UnlockData)
        /\ par.addConstraints \in Seq(Block)
        /\ par.chainOutput = <<>> \/ \E o \in R : par.chainOutput = <<o>>
    BY <1>6, <1>7, DraftParts
  <1>9. \E u : tx = TransferOf(par, u)
    <2>1. CASE par.chainOutput = <<>>
      BY <1>1, <1>8, <2>1, SimpleTransferShape
    <2>2. CASE \E o \in R : par.chainOutput = <<o>>
      <3>1. PICK o \in R : par.chainOutput = <<o>>
        BY <2>2
      <3>2. tx = TransferOf(par, ChainUnlock(ChainConstraintIndex(o.out), Len(Selected(par))))
        BY <1>1, <1>8, <3>1, ChainTransferShape
      <3> QED
        BY <3>2
    <2> QED
      BY <1>8, <2>1, <2>2
  <1>10. tx.inputs = IDsOf(all) /\ tx.outputs = outs
    BY <1>6, <1>9 DEF TransferOf
  <1>11. /\ all \in Seq(R) /\ Len(all) \in Nat
         /\ \A k \in 1 .. Len(all) : all[k] \in R /\ LockOf(all[k].out) \in Payers(par)
    BY <1>6, <1>8, ConsumedRead
  <1>12. /\ Len(outs) \in {1, 2} /\ outs[Len(outs)] = Target(par)
         /\ Len(outs) = 2 => LockOf(outs[1]) \in Payers(par)
    BY <1>6, <1>7, TransferOutputsShape
  <1>13. Replaces(utxo, next, Inputs(tx), OutputIDsOf(tx, n))
    BY <1>1, <1>2, <1>4, <1>5 DEF Replaces, UpdateTrie
  <1>14. ASSUME NEW oid \in Inputs(tx)
         PROVE  LockOf(utxo[oid]) \in Payers(par)
    <2>1. oid \in DOMAIN utxo /\ utxo[oid] = OutputOf(oid)
      BY <1>2, <1>4 DEF Accepted, InputsFound, IInv, UtxoExact
    <2>2. PICK k \in 1 .. Len(all) : oid = all[k].id
      BY <1>10 DEF Inputs, IDsOf
    <2>3. all[k].id \in DOMAIN History /\ all[k].out = History[all[k].id]
      BY <1>6, <1>11, RecordedShape
    <2>4. all[k].out = utxo[oid]
      BY <2>1, <2>2, <2>3 DEF History
    <2> QED
      BY <1>11, <2>2, <2>4
  <1>15. PICK last : last = NewOutputID(n, Len(outs) - 1)
    OBVIOUS
  <1>16. OutputIDsOf(tx, n) = {NewOutputID(n, k - 1) : k \in 1 .. Len(outs)}
    BY <1>10 DEF OutputIDsOf
  <1>17. last \in OutputIDsOf(tx, n)
    <2>1. Len(outs) \in 1 .. Len(outs)
      BY <1>12
    <2> QED
      BY <1>15, <1>16, <2>1
  <1>18. \A oid \in OutputIDsOf(tx, n) : next[oid] = At(outs, oid.idx)
    BY <1>4, <1>10 DEF UpdateTrie
  <1>19. MainBlocks(par, AdjustedAmount(par), TransferTime(par), Target(par))
    BY <1>8, MainOutputShape DEF Target
  <1>20. next[last] = Target(par)
    BY <1>12, <1>15, <1>17, <1>18 DEF At, NewOutputID
  <1>21. LockOf(next[last]) = par.lock /\ AmountOf(next[last]) = AdjustedAmount(par)
    <2>1. PICK t : t = Target(par)
      OBVIOUS
    <2>2. t[1] = NewAmount(AdjustedAmount(par)) /\ t[3] = par.lock
      BY <1>19, <2>1 DEF MainBlocks
    <2>3. LockOf(t) = par.lock
      BY <2>2 DEF LockOf, At, ConstraintIndexLock
    <2>4. AmountOf(t) = AdjustedAmount(par)
      BY <2>2 DEF AmountOf, At, ConstraintIndexAmount, NewAmount
    <2> QED
      BY <1>20, <2>1, <2>3, <2>4
  <1>22. ASSUME NEW oid \in OutputIDsOf(tx, n), oid # last
         PROVE  LockOf(next[oid]) \in Payers(par)
    <2>1. PICK k \in 1 .. Len(outs) : oid = NewOutputID(n, k - 1)
      BY <1>16, <1>22
    <2>2. k = 1 /\ Len(outs) = 2
      BY <1>12, <1>15, <1>22, <2>1
    <2>3. oid.idx = 0
      BY <2>1, <2>2 DEF NewOutputID
    <2>4. next[oid] = outs[1]
      BY <1>18, <1>22, <2>3 DEF At
    <2> QED
      BY <1>12, <2>2, <2>4
  <1>23. ASSUME par.lock \notin Payers(par)
         PROVE  LockedIn(par.lock, next) = LockedIn(par.lock, utxo) + AdjustedAmount(par)
    <2>1. \A oid \in Inputs(tx) : LockOf(utxo[oid]) # par.lock
      BY <1>14, <1>23
    <2>2. \A oid \in OutputIDsOf(tx, n) : LockOf(next[oid]) = par.lock <=> oid = last
      BY <1>21, <1>22, <1>23
    <2>3. PICK Old, New : Old = Inputs(tx) /\ New = OutputIDsOf(tx, n)
      OBVIOUS
    <2> QED
      BY <1>13, <1>17, <1>21, <2>1, <2>2, <2>3, LockedAfter
  <1>24. ASSUME NEW lock, lock \notin Payers(par), lock # par.lock
         PROVE  LockedIn(lock, next) = LockedIn(lock, utxo)
    <2>1. \A oid \in Inputs(tx) : LockOf(utxo[oid]) # lock
      BY <1>14, <1>24
    <2>2. \A oid \in OutputIDsOf(tx, n) : LockOf(next[oid]) # lock
      BY <1>21, <1>22, <1>24
    <2>3. PICK Old, New : Old = Inputs(tx) /\ New = OutputIDsOf(tx, n)
      OBVIOUS
    <2> QED
      BY <1>13, <2>1, <2>2, <2>3, LockedAfter
  <1> QED
    BY <1>1, <1>23, <1>24 DEF MovesAmount

\* A transfer that goes through gives the target exactly the amount, and nobody
\* but the target and the payers has more or less than before.
THEOREM AmountIsMoved == WalletSpec => TransferMovesAmount
  <1>1. WalletInv /\ [WalletNext]_walletVars =>
            [\A par \in Transfers : DoTransferTx(par) => MovesAmount(par)]_walletVars
    <2> SUFFICES ASSUME WalletInv, [WalletNext]_walletVars, NEW par \in Transfers, DoTransferTx(par)
                 PROVE  MovesAmount(par)
      OBVIOUS
    <2>1. Balanced(utxo)'
      BY NextWalletInv DEF WalletInv
    <2>2. PICK draft \in drafts, req \in TransferRequests : par = Completed(draft, req)
      BY DEF Transfers
    <2>3. DraftRight(draft, History) /\ req \in TransferRequest
      BY <2>2 DEF WalletInv, TransferRequests
    <2>4. DraftRight(par, History)
      BY <2>2, <2>3, CompletedRight
    <2> QED
      BY <2>1, <2>4, TransferMoves
  <1> QED
    BY <1>1, InitWalletInv, NextWalletInv, PTL DEF WalletSpec, TransferMovesAmount

-----------------------------------------------------------------------------
(***************************************************************************)
(* What the builder makes of ordinary outputs that are unspent is          *)
(* accepted.                                                               *)
(***************************************************************************)
LEMMA LargestOf ==
    ASSUME NEW n \in Nat, NEW f, \A k \in 1 .. n : f[k] \in Nat, NEW a \in Nat,
           NEW T, T = {a} \cup {f[k] : k \in 1 .. n}
    PROVE  Max(T) \in T /\ Max(T) \in Nat /\ \A x \in T : x <= Max(T)
  <1> DEFINE Bound(m, u) == a <= u /\ \A k \in 1 .. m : f[k] <= u
             Bad == {m \in Nat : m <= n /\ ~ \E u \in Nat : Bound(m, u)}
             Bounds == {u \in Nat : Bound(n, u)}
  <1>1. Bad = {}
    <2> SUFFICES ASSUME Bad # {} PROVE FALSE
      OBVIOUS
    <2>1. PICK m \in Bad : \A k \in Bad : ~ (k < m)
      BY LeastNumber
    <2>2. m # 0
      <3>1. Bound(0, a)
        OBVIOUS
      <3> QED
        BY <2>1, <3>1
    <2>3. m - 1 \in Nat /\ m - 1 < m /\ m \in 1 .. n /\ m - 1 <= n
      BY <2>1, <2>2
    <2>4. PICK u \in Nat : Bound(m - 1, u)
      <3>1. m - 1 \notin Bad
        BY <2>1, <2>3
      <3> HIDE DEF Bound
      <3> QED
        BY <2>3, <3>1
    <2>5. PICK v \in Nat : u <= v /\ f[m] <= v
      <3>1. f[m] \in Nat
        BY <2>3
      <3>2. CASE u <= f[m]
        BY <3>1, <3>2
      <3>3. CASE ~ (u <= f[m])
        BY <3>1, <3>3
      <3> QED
        BY <3>2, <3>3
    <2>6. Bound(m, v)
      <3>1. ASSUME NEW k \in 1 .. m
            PROVE  f[k] <= v
        <4>1. CASE k = m
          BY <2>5, <4>1
        <4>2. CASE k # m
          <5>1. k \in 1 .. m - 1 /\ k \in 1 .. n
            BY <2>3, <4>2
          <5>2. f[k] <= u /\ f[k] \in Nat
            BY <2>4, <5>1
          <5> QED
            BY <2>5, <5>2
        <4> QED
          BY <4>1, <4>2
      <3>2. a <= v
        BY <2>4, <2>5
      <3> QED
        BY <3>1, <3>2
    <2> QED
      BY <2>1, <2>3, <2>6
  <1>2. Bounds # {} /\ Bounds \subseteq Nat
    <2> HIDE DEF Bound
    <2>1. n \notin Bad /\ n <= n
      BY <1>1
    <2>2. \E u \in Nat : Bound(n, u)
      BY <2>1
    <2> QED
      BY <2>2
  <1>3. PICK u \in Bounds : \A v \in Bounds : ~ (v < u)
    BY <1>2, LeastNumber
  <1>4. u \in Nat /\ \A x \in T : x <= u /\ x \in Nat
    BY <1>3
  <1>5. u \in T
    <2> SUFFICES ASSUME u \notin T PROVE FALSE
      OBVIOUS
    <2>1. a < u /\ \A k \in 1 .. n : f[k] < u
      BY <1>4
    <2>2. u - 1 \in Nat /\ u - 1 < u
      BY <1>4, <2>1
    <2>3. Bound(n, u - 1)
      BY <1>4, <2>1, <2>2
    <2> QED
      BY <1>3, <2>2, <2>3
  <1> HIDE DEF Bounds, Bad, Bound
  <1>6. \E x \in T : \A y \in T : x >= y
    BY <1>4, <1>5
  <1>7. PICK z : z = Max(T)
    OBVIOUS
  <1>8. z \in T /\ \A y \in T : z >= y
    BY <1>6, <1>7, Zenon DEF Max
  <1> QED
    BY <1>4, <1>7, <1>8

\* The timestamp of a transfer is behind all that it selects.
LEMMA TimestampBehind ==
    ASSUME NEW par, par.timestamp \in Nat, NEW sel, Len(sel) \in Nat,
           \A k \in 1 .. Len(sel) : TimestampOf(sel[k].out) \in Nat,
           NEW ts, ts = TransferTimestamp(par, sel)
    PROVE  ts \in Nat /\ \A k \in 1 .. Len(sel) : TimestampOf(sel[k].out) < ts
  <1>1. PICK f : f = [k \in 1 .. Len(sel) |-> TimestampOf(sel[k].out) + 1]
    OBVIOUS
  <1>2. PICK T : T = {par.timestamp} \cup {f[k] : k \in 1 .. Len(sel)}
    OBVIOUS
  <1>3. T = {par.timestamp} \cup {TimestampOf(sel[k].out) + 1 : k \in 1 .. Len(sel)}
    BY <1>1, <1>2
  <1>4. ts = Max(T)
    BY <1>3 DEF TransferTimestamp
  <1>5. \A k \in 1 .. Len(sel) : f[k] \in Nat /\ f[k] = TimestampOf(sel[k].out) + 1
    BY <1>1
  <1>6. ts \in Nat /\ \A x \in T : x <= ts
    <2>1. PICK n \in Nat : n = Len(sel)
      OBVIOUS
    <2>2. /\ \A k \in 1 .. n : f[k] \in Nat
          /\ T = {par.timestamp} \cup {f[k] : k \in 1 .. n}
      BY <1>2, <1>5, <2>1
    <2>3. Max(T) \in Nat /\ \A x \in T : x <= Max(T)
      <3> HIDE <2>1
      <3> QED
        BY <2>2, LargestOf
    <2> QED
      BY <1>4, <2>3
  <1>7. ASSUME NEW k \in 1 .. Len(sel)
        PROVE  TimestampOf(sel[k].out) < ts
    <2>1. f[k] \in T
      BY <1>2
    <2>2. f[k] <= ts /\ f[k] \in Nat /\ f[k] = TimestampOf(sel[k].out) + 1
      BY <1>5, <1>6, <2>1
    <2> QED
      BY <1>6, <2>2
  <1> QED
    BY <1>6, <1>7

\* An unspent output is valid; of its chain constraints, only an origin has no
\* identifier.
LEMMA UnspentValid ==
    ASSUME IInv, HistoryValid, NEW oid \in DOMAIN utxo, NEW out, out = utxo[oid]
    PROVE  /\ oid \in OutputID /\ out \in Output /\ OutputParses(out)
           /\ \A b \in 1 .. Len(out) :
                  out[b].type = "chain" /\ out[b].id = ZeroHash => out[b] = NewChainOrigin
  <1>1. oid \in ProducedIDs /\ out = OutputOf(oid) /\ TypeOK
    BY DEF IInv, UtxoExact
  <1>2. oid \in OutputID /\ out \in Output
    BY DEF IInv, TypeOK
  <1>3. CASE oid = GenesisOutputID
    <2>1. out = GenesisOutput
      BY <1>1, <1>3 DEF OutputOf
    <2>2. PICK c1, c2, c3 : /\ c1 = NewAmount(Supply) /\ c2 = NewTimestamp(GenesisTime)
                            /\ c3 = NewAddressED25519(GenesisAddress)
      OBVIOUS
    <2>3. c1.type = "amount" /\ c1.value = Supply /\ c2.type = "timestamp" /\ c3.type = "addressED25519"
      BY <2>2 DEF NewAmount, NewTimestamp, NewAddressED25519
    <2>4. out = <<c1, c2, c3>>
      BY <2>1, <2>2 DEF GenesisOutput
    <2>5. Len(out) = 3 /\ out[1] = c1 /\ out[2] = c2 /\ out[3] = c3
      BY <2>4
    <2>6. Supply >= MinimumStorageDeposit(out)
      BY <2>1, WalletAssumption
    <2>7. OutputParses(out)
      BY <2>3, <2>5, <2>6 DEF OutputParses, Has, At, ConstraintIndexLock, ConstraintIndexAmount,
                              IsAmount, AmountOf, LockOf, IsLock, LockNames
    <2>8. \A b \in 1 .. Len(out) : out[b].type # "chain"
      BY <2>3, <2>5
    <2> QED
      BY <1>2, <2>7, <2>8
  <1>4. CASE oid # GenesisOutputID
    <2>1. /\ oid.tx \in TxNumbers
          /\ \E k \in 1 .. Len(txs[oid.tx].outputs) : out = txs[oid.tx].outputs[k]
      <3>1. /\ oid.tx \in TxNumbers
            /\ \E k \in 1 .. Len(txs[oid.tx].outputs) : oid = [tx |-> oid.tx, idx |-> k - 1]
        BY <1>1, <1>4, ProducedShape
      <3>2. PICK k \in 1 .. Len(txs[oid.tx].outputs) : oid = [tx |-> oid.tx, idx |-> k - 1]
        BY <3>1
      <3>3. oid.idx = k - 1
        BY <3>2
      <3>4. oid.idx + 1 = k
        BY <3>3
      <3>5. out = txs[oid.tx].outputs[k]
        BY <1>1, <1>4, <3>4 DEF OutputOf, At
      <3> QED
        BY <3>1, <3>5
    <2>2. OutputParses(out)
      BY <2>1, ProducedValid
    <2>3. ASSUME NEW b \in 1 .. Len(out), out[b].type = "chain", out[b].id = ZeroHash
          PROVE  out[b] = NewChainOrigin
      <3>1. PICK ctx, p, c : /\ ctx = ContextOf(oid.tx) /\ p = Path("produced", oid.idx, b - 1)
                             /\ c = out[b]
        OBVIOUS
      <3>2. EvalConstraint(ctx, p, c) /\ c.type = "chain" /\ p.side = "produced"
        BY <1>1, <1>4, <2>3, <3>1, ProducedBlockEvaluated DEF Path
      <3>3. EvalChain(ctx, p, c)
        BY <3>2 DEF EvalConstraint
      <3> QED
        BY <2>3, <3>1, <3>2, <3>3 DEF EvalChain
    <2> QED
      BY <1>2, <2>2, <2>3
  <1> QED
    BY <1>3, <1>4

-----------------------------------------------------------------------------
(***************************************************************************)
(* What the builder makes of ordinary outputs is accepted.  First, block   *)
(* by block, what the ledger evaluates.                                    *)
(***************************************************************************)
SignedBy(ctx, key, ts) ==
    ctx.tx.signature = [key |-> key, valid |-> TRUE] /\ ctx.tx.timestamp = ts

\* A lock is opened with the signature.
LEMMA AddressOpens ==
    ASSUME NEW ctx, NEW key, NEW ts, SignedBy(ctx, key, ts),
           Len(ctx.tx.unlock) \in Nat, NEW k \in 1 .. Len(ctx.tx.unlock),
           Len(ctx.tx.unlock[k]) \in Nat, Len(ctx.tx.unlock[k]) > 2, Len(ctx.tx.unlock[k][3]) = 1,
           NEW c, c = NewAddressED25519(key)
    PROVE  EvalConstraint(ctx, Path("consumed", k - 1, 2), c)
  <1>1. PICK unl, p : unl = ctx.tx.unlock /\ p = Path("consumed", k - 1, 2)
    OBVIOUS
  <1>2. p.side = "consumed" /\ p.out = k - 1 /\ p.blk = 2
    BY <1>1 DEF Path
  <1>3. 3 \in 1 .. Len(unl[k]) /\ 3 - 1 = 2
    BY <1>1
  <1>4. HasBlock(unl, k - 1, 3 - 1) /\ BlockAt(unl, k - 1, 3 - 1) = unl[k][3]
    BY <1>1, <1>3, BlockIndex
  <1>5. HasSelfUnlock(ctx, p) /\ SelfUnlock(ctx, p) = unl[k][3]
    BY <1>1, <1>2, <1>3, <1>4 DEF HasSelfUnlock, HasUnlockParams, SelfUnlock, UnlockParams
  <1>6. UnlockedWithSigED25519(ctx, key)
    BY DEF SignedBy, UnlockedWithSigED25519
  <1>7. EvalAddressED25519(ctx, p, key)
    BY <1>1, <1>2, <1>5, <1>6 DEF EvalAddressED25519, ConstraintIndexLock
  <1>8. c.type = "addressED25519" /\ c.addr = key
    BY DEF NewAddressED25519
  <1> QED
    BY <1>1, <1>7, <1>8 DEF EvalConstraint

\* The identifier of a chain output with the chain in its fourth block.
FourthIsChain(o) ==
    /\ Len(o.out) = 4 /\ ChainConstraintIndex(o.out) = 3
    /\ o.out[4].type = "chain"
    /\ o.out[4].id = ZeroHash => o.out[4] = NewChainOrigin

LEMMA FourthID ==
    ASSUME NEW o, FourthIsChain(o)
    PROVE  /\ ChainIDOf(o) = IF o.out[4].id = ZeroHash THEN blake2b(o.id) ELSE o.out[4].id
           /\ ChainIDOf(o) # ZeroHash
  <1>1. PICK c : c = o.out[4]
    OBVIOUS
  <1>2. At(o.out, ChainConstraintIndex(o.out)) = c
    BY <1>1 DEF FourthIsChain, At
  <1>3. ChainIDOf(o) = IF IsOrigin(c) THEN blake2b(o.id) ELSE c.id
    BY <1>2 DEF ChainIDOf
  <1>4. c.id = ZeroHash <=> IsOrigin(c)
    <2>1. c = NewChainOrigin => c.id = ZeroHash
      BY DEF NewChainOrigin, NewChain
    <2> QED
      BY <1>1, <2>1 DEF FourthIsChain, IsOrigin
  <1>5. blake2b(o.id) # ZeroHash
    BY DEF blake2b, ZeroHash
  <1> QED
    BY <1>1, <1>3, <1>4, <1>5

\* The first input is the chain output pred, the first output its successor.
GoesOnFirst(ctx, pred) ==
    /\ FourthIsChain(pred)
    /\ Len(ctx.consumed) \in Nat /\ Len(ctx.consumed) > 0 /\ ctx.consumed[1] = pred.out
    /\ Len(ctx.tx.inputs) \in Nat /\ Len(ctx.tx.inputs) > 0 /\ ctx.tx.inputs[1] = pred.id
    /\ Len(ctx.tx.outputs) \in Nat /\ Len(ctx.tx.outputs) > 0 /\ Len(ctx.tx.outputs[1]) = 4
    /\ ctx.tx.outputs[1][4] = NewChain(ChainIDOf(pred), 0, 3, 0)
    /\ Len(ctx.tx.unlock) \in Nat /\ Len(ctx.tx.unlock) > 0 /\ Len(ctx.tx.unlock[1]) = 4
    /\ ctx.tx.unlock[1][4] = <<0, 3, 0>>

\* What the three constraints that look at a transition find.
LEMMA FirstBlocks ==
    ASSUME NEW ctx, NEW pred, GoesOnFirst(ctx, pred)
    PROVE  /\ HasBlock(ctx.consumed, 0, 3) /\ BlockAt(ctx.consumed, 0, 3) = pred.out[4]
           /\ HasBlock(ctx.tx.outputs, 0, 3)
           /\ BlockAt(ctx.tx.outputs, 0, 3) = NewChain(ChainIDOf(pred), 0, 3, 0)
           /\ HasUnlockParams(ctx, 0, 3) /\ UnlockParams(ctx, 0, 3) = <<0, 3, 0>>
           /\ At(ctx.tx.inputs, 0) = pred.id
  <1>1. PICK one, four : one = 1 /\ four = 4 /\ one - 1 = 0 /\ four - 1 = 3
    OBVIOUS
  <1>2. PICK c, o, u : c = ctx.consumed /\ o = ctx.tx.outputs /\ u = ctx.tx.unlock
    OBVIOUS
  <1>3. /\ Len(c) \in Nat /\ one \in 1 .. Len(c) /\ c[one] = pred.out
        /\ Len(c[one]) \in Nat /\ four \in 1 .. Len(c[one])
    BY <1>1, <1>2 DEF GoesOnFirst, FourthIsChain
  <1>4. HasBlock(c, one - 1, four - 1) /\ BlockAt(c, one - 1, four - 1) = c[one][four]
    BY <1>3, BlockIndex
  <1>5. /\ Len(o) \in Nat /\ one \in 1 .. Len(o) /\ Len(o[one]) \in Nat /\ four \in 1 .. Len(o[one])
        /\ o[one][four] = NewChain(ChainIDOf(pred), 0, 3, 0)
    BY <1>1, <1>2 DEF GoesOnFirst
  <1>6. HasBlock(o, one - 1, four - 1) /\ BlockAt(o, one - 1, four - 1) = o[one][four]
    BY <1>5, BlockIndex
  <1>7. /\ Len(u) \in Nat /\ one \in 1 .. Len(u) /\ Len(u[one]) \in Nat /\ four \in 1 .. Len(u[one])
        /\ u[one][four] = <<0, 3, 0>>
    BY <1>1, <1>2 DEF GoesOnFirst
  <1>8. HasBlock(u, one - 1, four - 1) /\ BlockAt(u, one - 1, four - 1) = u[one][four]
    BY <1>7, BlockIndex
  <1>9. At(ctx.tx.inputs, 0) = pred.id
    BY DEF GoesOnFirst, At
  <1> QED
    BY <1>1, <1>2, <1>3, <1>4, <1>5, <1>6, <1>7, <1>8, <1>9 DEF HasUnlockParams, UnlockParams

\* A chain lock is opened with a reference to the chain output.
LEMMA ChainOpens ==
    ASSUME NEW ctx, NEW pred, GoesOnFirst(ctx, pred),
           NEW k \in 2 .. Len(ctx.tx.unlock),
           Len(ctx.tx.unlock[k]) \in Nat, Len(ctx.tx.unlock[k]) > 2, ctx.tx.unlock[k][3] = <<0, 3>>,
           NEW c, c = NewChainLock(ChainIDOf(pred))
    PROVE  EvalConstraint(ctx, Path("consumed", k - 1, 2), c)
  <1>1. PICK unl, p : unl = ctx.tx.unlock /\ p = Path("consumed", k - 1, 2)
    OBVIOUS
  <1>2. p.side = "consumed" /\ p.out = k - 1 /\ p.blk = 2
    BY <1>1 DEF Path
  <1>3. 3 \in 1 .. Len(unl[k]) /\ 3 - 1 = 2 /\ k \in 1 .. Len(unl) /\ Len(unl) \in Nat
    BY <1>1 DEF GoesOnFirst
  <1>4. HasBlock(unl, k - 1, 3 - 1) /\ BlockAt(unl, k - 1, 3 - 1) = unl[k][3]
    BY <1>1, <1>3, BlockIndex
  <1>5. PICK u : u = unl[k][3]
    OBVIOUS
  <1>6. HasSelfUnlock(ctx, p) /\ SelfUnlock(ctx, p) = u
    BY <1>1, <1>2, <1>3, <1>4, <1>5 DEF HasSelfUnlock, HasUnlockParams, SelfUnlock, UnlockParams
  <1>7. Len(u) = 2 /\ At(u, 0) = 0 /\ At(u, 1) = 3
    BY <1>1, <1>5 DEF At
  <1>8. /\ HasBlock(ctx.consumed, 0, 3) /\ BlockAt(ctx.consumed, 0, 3) = pred.out[4]
        /\ HasUnlockParams(ctx, 0, 3) /\ UnlockParams(ctx, 0, 3) = <<0, 3, 0>>
        /\ At(ctx.tx.inputs, 0) = pred.id
    BY FirstBlocks
  <1>9. Len(<<0, 3, 0>>) > 2 /\ At(<<0, 3, 0>>, 2) = 0
    BY DEF At
  <1>10. ConsumedChainID(ctx, 0, 3) = ChainIDOf(pred)
    <2>1. FourthIsChain(pred)
      BY DEF GoesOnFirst
    <2> QED
      BY <1>8, <2>1, FourthID DEF ConsumedChainID
  <1>11. c.type = "chainLock" /\ c.id = ChainIDOf(pred) /\ pred.out[4].type = "chain"
    BY DEF NewChainLock, GoesOnFirst, FourthIsChain
  <1>12. ValidChainUnlock(ctx, u, c.id)
    BY <1>7, <1>8, <1>9, <1>10, <1>11 DEF ValidChainUnlock
  <1>13. 0 # k - 1
    OBVIOUS
  <1>14. EvalChainLock(ctx, p, c)
    BY <1>2, <1>6, <1>7, <1>12, <1>13 DEF EvalChainLock, ConstraintIndexLock
  <1> QED
    BY <1>1, <1>11, <1>14 DEF EvalConstraint

\* The chain block of the chain output, and the one of its successor.
LEMMA ChainHandsOver ==
    ASSUME NEW ctx, NEW pred, GoesOnFirst(ctx, pred)
    PROVE  EvalConstraint(ctx, Path("consumed", 0, 3), pred.out[4])
  <1>1. PICK p, c, u, succ : /\ p = Path("consumed", 0, 3) /\ c = pred.out[4] /\ u = <<0, 3, 0>>
                             /\ succ = NewChain(ChainIDOf(pred), 0, 3, 0)
    OBVIOUS
  <1>2. p.side = "consumed" /\ p.out = 0 /\ p.blk = 3
    BY <1>1 DEF Path
  <1>3. /\ HasBlock(ctx.tx.outputs, 0, 3) /\ BlockAt(ctx.tx.outputs, 0, 3) = succ
        /\ HasUnlockParams(ctx, 0, 3) /\ UnlockParams(ctx, 0, 3) = u
    BY <1>1, FirstBlocks
  <1>4. HasSelfUnlock(ctx, p) /\ SelfUnlock(ctx, p) = u
    BY <1>2, <1>3 DEF HasSelfUnlock, SelfUnlock
  <1>5. Len(u) = 3 /\ At(u, 0) = 0 /\ At(u, 1) = 3
    BY <1>1 DEF At
  <1>6. succ.type = "chain" /\ succ.id = ChainIDOf(pred) /\ succ.prevOut = 0 /\ succ.prevBlk = 3
    BY <1>1 DEF NewChain
  <1>7. FourthIsChain(pred)
    BY DEF GoesOnFirst
  <1>8. /\ c.type = "chain"
        /\ c.id = ZeroHash => c = NewChainOrigin
        /\ c.id # ZeroHash => succ.id = c.id
    BY <1>1, <1>6, <1>7, FourthID DEF FourthIsChain
  <1>9. ValidSuccessor(ctx, p, c)
    BY <1>2, <1>3, <1>4, <1>5, <1>6, <1>8 DEF ValidSuccessor
  <1>10. 0 # MaxByte
    BY MaxByteAssumption
  <1>11. EvalChain(ctx, p, c)
    BY <1>2, <1>4, <1>9, <1>10 DEF EvalChain
  <1> QED
    BY <1>1, <1>8, <1>11 DEF EvalConstraint

LEMMA ChainTakesOver ==
    ASSUME NEW ctx, NEW prior, GoesOnFirst(ctx, prior)
    PROVE  EvalConstraint(ctx, Path("produced", 0, 3), NewChain(ChainIDOf(prior), 0, 3, 0))
  <1>1. PICK p, c, u, succ : /\ p = Path("produced", 0, 3) /\ c = prior.out[4] /\ u = <<0, 3, 0>>
                             /\ succ = NewChain(ChainIDOf(prior), 0, 3, 0)
    OBVIOUS
  <1>2. p.side = "produced" /\ p.out = 0 /\ p.blk = 3
    BY <1>1 DEF Path
  <1>3. /\ HasBlock(ctx.consumed, 0, 3) /\ BlockAt(ctx.consumed, 0, 3) = c
        /\ HasUnlockParams(ctx, 0, 3) /\ UnlockParams(ctx, 0, 3) = u
        /\ At(ctx.tx.inputs, 0) = prior.id
    BY <1>1, FirstBlocks
  <1>4. Len(u) = 3 /\ At(u, 2) = 0
    BY <1>1 DEF At
  <1>5. /\ succ.type = "chain" /\ succ.id = ChainIDOf(prior) /\ succ.prevOut = 0 /\ succ.prevBlk = 3
        /\ succ.mode = 0
    BY <1>1 DEF NewChain
  <1>6. FourthIsChain(prior)
    BY DEF GoesOnFirst
  <1>7. /\ c.type = "chain" /\ succ.id # ZeroHash
        /\ c.id = ZeroHash => c = NewChainOrigin /\ succ.id = blake2b(prior.id)
        /\ c.id # ZeroHash => succ.id = c.id
    BY <1>1, <1>5, <1>6, FourthID DEF FourthIsChain
  <1>8. ValidPredecessor(ctx, succ)
    <2>1. /\ HasBlock(ctx.consumed, succ.prevOut, succ.prevBlk)
          /\ BlockAt(ctx.consumed, succ.prevOut, succ.prevBlk) = c
          /\ HasUnlockParams(ctx, succ.prevOut, succ.prevBlk)
          /\ UnlockParams(ctx, succ.prevOut, succ.prevBlk) = u
          /\ At(ctx.tx.inputs, succ.prevOut) = prior.id
      BY <1>3, <1>5
    <2>2. Len(u) > 2 /\ succ.mode = At(u, 2)
      BY <1>4, <1>5
    <2> QED
      BY <1>7, <2>1, <2>2, Zenon DEF ValidPredecessor
  <1>9. 0 # MaxByte
    BY MaxByteAssumption
  <1>10. EvalChain(ctx, p, succ)
    BY <1>2, <1>7, <1>8, <1>9 DEF EvalChain
  <1> QED
    BY <1>1, <1>5, <1>10 DEF EvalConstraint

\* What the builder reads of an output, and what unlocks it, is enough.
LEMMA InputHolds ==
    ASSUME NEW ctx, NEW key, NEW ts, SignedBy(ctx, key, ts), NEW k, NEW out,
           OutputFromBytes(out), TimestampOf(out) < ts,
           EvalConstraint(ctx, Path("consumed", k, 2), out[3]),
           NEW d \in Nat, d > 0,
           d > 3 => \/ out[d].type = "senderAddressED25519"
                    \/ out[d].type = "timelock" /\ out[d].time < ts
                    \/ EvalConstraint(ctx, Path("consumed", k, d - 1), out[d])
    PROVE  EvalConstraint(ctx, Path("consumed", k, d - 1), out[d])
  <1>1. PICK p, c : p = Path("consumed", k, d - 1) /\ c = out[d]
    OBVIOUS
  <1>2. p.side = "consumed" /\ p.blk = d - 1
    BY <1>1 DEF Path
  <1>3. CASE d = 1
    <2>1. c.type = "amount"
      BY <1>1, <1>3 DEF OutputFromBytes, At, ConstraintIndexAmount
    <2>2. EvalAmount(ctx, p, c)
      BY <1>2, <1>3 DEF EvalAmount, ConstraintIndexAmount
    <2> QED
      BY <1>1, <2>1, <2>2 DEF EvalConstraint
  <1>4. CASE d = 2
    <2>1. c.type = "timestamp" /\ c.time < ts
      BY <1>1, <1>4 DEF OutputFromBytes, TimestampOf, At, ConstraintIndexTimestamp
    <2>2. EvalTimestamp(ctx, p, c)
      BY <1>2, <1>4, <2>1 DEF EvalTimestamp, ConstraintIndexTimestamp, SignedBy
    <2> QED
      BY <1>1, <2>1, <2>2 DEF EvalConstraint
  <1>5. CASE d = 3
    <2>1. d - 1 = 2
      BY <1>5
    <2> QED
      BY <1>5, <2>1
  <1>6. CASE d > 3
    <2>1. CASE c.type = "senderAddressED25519"
      <3>1. EvalSender(ctx, p, c)
        BY <1>2 DEF EvalSender
      <3> QED
        BY <1>1, <2>1, <3>1 DEF EvalConstraint
    <2>2. CASE c.type = "timelock" /\ c.time < ts
      <3>1. EvalTimelock(ctx, p, c)
        BY <1>2, <2>2 DEF EvalTimelock, SignedBy
      <3> QED
        BY <1>1, <2>2, <3>1 DEF EvalConstraint
    <2> QED
      BY <1>1, <1>6, <2>1, <2>2
  <1> QED
    BY <1>3, <1>4, <1>5, <1>6

\* The first three blocks of what is produced.
LEMMA FirstThreeHold ==
    ASSUME NEW ctx, NEW key, NEW ts, SignedBy(ctx, key, ts),
           Len(ctx.tx.outputs) \in Nat, NEW s \in 1 .. Len(ctx.tx.outputs),
           NEW out, out = ctx.tx.outputs[s],
           NEW a, out[1] = NewAmount(a), a >= Len(out), out[2] = NewTimestamp(ts), out[3] \in Lock,
           NEW d \in 1 .. 3
    PROVE  EvalConstraint(ctx, Path("produced", s - 1, d - 1), out[d])
  <1>1. PICK p, c : p = Path("produced", s - 1, d - 1) /\ c = out[d]
    OBVIOUS
  <1>2. p.side = "produced" /\ p.out = s - 1 /\ p.blk = d - 1
    BY <1>1 DEF Path
  <1>3. CASE d = 1
    <2>1. c.type = "amount" /\ c.value = a
      BY <1>1, <1>3 DEF NewAmount
    <2>2. At(Outputs(ctx, "produced"), s - 1) = out
      BY ByteIndex DEF Outputs
    <2>3. EvalAmount(ctx, p, c)
      BY <1>2, <1>3, <2>1, <2>2
      DEF EvalAmount, ConstraintIndexAmount, StorageDepositEnough, OutputSize
    <2> QED
      BY <1>1, <2>1, <2>3 DEF EvalConstraint
  <1>4. CASE d = 2
    <2>1. c.type = "timestamp" /\ c.time = ts
      BY <1>1, <1>4 DEF NewTimestamp
    <2>2. EvalTimestamp(ctx, p, c)
      BY <1>2, <1>4, <2>1 DEF EvalTimestamp, ConstraintIndexTimestamp, SignedBy
    <2> QED
      BY <1>1, <2>1, <2>2 DEF EvalConstraint
  <1>5. CASE d = 3
    <2>1. \A x : EvalAddressED25519(ctx, p, x)
      BY <1>2, <1>5 DEF EvalAddressED25519, ConstraintIndexLock
    <2>2. EvalDeadlineLock(ctx, p, c)
      BY <1>2, <1>5, <2>1 DEF EvalDeadlineLock, ConstraintIndexLock
    <2>3. EvalChainLock(ctx, p, c)
      BY <1>2, <1>5 DEF EvalChainLock, ConstraintIndexLock
    <2>4. c.type \in {"addressED25519", "deadlineLock", "chainLock"}
      BY <1>1, <1>5 DEF Lock, IsLock, LockNames
    <2> QED
      BY <1>1, <2>1, <2>2, <2>3, <2>4 DEF EvalConstraint
  <1> QED
    BY <1>3, <1>4, <1>5

\* A constraint that holds where it is produced.
LEMMA AddedHolds ==
    ASSUME NEW ctx, NEW s, s # MaxByte, NEW b, NEW c, HoldsWhenProduced(c, ctx.tx)
    PROVE  EvalConstraint(ctx, Path("produced", s, b), c)
  <1>1. PICK p : p = Path("produced", s, b)
    OBVIOUS
  <1>2. p.side = "produced" /\ p.out = s
    BY <1>1 DEF Path
  <1>3. CASE c.type \in {"data", "royaltiesED25519"}
    BY <1>1, <1>2, <1>3 DEF EvalConstraint, EvalRoyalties
  <1>4. CASE c = NewChainOrigin
    <2>1. c.type = "chain" /\ c.id = ZeroHash
      BY <1>4 DEF NewChainOrigin, NewChain
    <2>2. EvalChain(ctx, p, c)
      BY <1>2, <1>4, <2>1 DEF EvalChain
    <2> QED
      BY <1>1, <2>1, <2>2 DEF EvalConstraint
  <1>5. CASE c = NewSenderED25519(ctx.tx.signature.key)
    <2>1. c.type = "senderAddressED25519" /\ c.addr = ctx.tx.signature.key
      BY <1>5 DEF NewSenderED25519
    <2> QED
      BY <1>1, <2>1 DEF EvalConstraint, EvalSender
  <1>6. CASE c.type = "timelock" /\ ctx.tx.timestamp < c.time
    BY <1>1, <1>2, <1>6 DEF EvalConstraint, EvalTimelock
  <1> QED
    BY <1>3, <1>4, <1>5, <1>6 DEF HoldsWhenProduced

\* What makes an output parse.
LEMMA ParsesShape ==
    ASSUME NEW out, Len(out) \in Nat, Len(out) > 2,
           NEW a, out[1] = NewAmount(a), a >= Len(out), out[3] \in Lock
    PROVE  OutputParses(out) /\ AmountOf(out) = a /\ LockOf(out) = out[3]
  <1>1. out[1].type = "amount" /\ out[1].value = a
    BY DEF NewAmount
  <1>2. At(out, 0) = out[1] /\ At(out, 2) = out[3] /\ Has(out, 2)
    BY DEF At, Has
  <1> QED
    BY <1>1, <1>2 DEF OutputParses, ConstraintIndexAmount, ConstraintIndexLock, IsAmount, AmountOf,
                      MinimumStorageDeposit, OutputSize, LockOf, Lock

\* The unlock blocks of one input: the parameters of the lock.
UnlockRow == Array(Seq(Byte))

\* An array that grows up to the new element.
PutBehind(arr, i, c) ==
    [k \in 1 .. i + 1 |-> IF k = i + 1 THEN c ELSE IF k <= Len(arr) THEN arr[k] ELSE <<>>]

LEMMA PutsBehind ==
    ASSUME NEW arr, Len(arr) \in Nat, NEW i \in Nat, i >= Len(arr), NEW c,
           NEW r, r = PutConstraint(arr, i, c)
    PROVE  r = PutBehind(arr, i, c)
  <1>1. r = [k \in 1 .. i + 1 |->
                IF k = i + 1 THEN c ELSE IF k <= Len(arr) THEN arr[k] ELSE <<>>]
    BY PutEffect
  <1> QED
    BY <1>1, Zenon DEF PutBehind

LEMMA LockUnlockData ==
    ASSUME NEW data \in Seq(Byte), NEW u, u = LockUnlock(data)
    PROVE  u \in UnlockRow /\ Len(u) = 3 /\ u[3] = data
  <1>1. PICK none, n : none = <<>> /\ n = 2
    OBVIOUS
  <1>2. u = [k \in 1 .. 3 |-> IF k = 3 THEN data ELSE none]
    <2>1. n \in Nat /\ Len(none) = 0 /\ Len(none) \in Nat /\ n >= Len(none)
      BY <1>1
    <2>2. u = PutConstraint(none, n, data)
      BY <1>1, Zenon DEF LockUnlock, ConstraintIndexLock
    <2>3. u = PutBehind(none, n, data)
      BY <2>1, <2>2, PutsBehind
    <2> QED
      BY <1>1, <2>1, <2>3 DEF PutBehind
  <1>3. u \in [1 .. 3 -> Seq(Byte)]
    BY <1>1, <1>2
  <1>4. u \in Seq(Seq(Byte)) /\ Len(u) = 3
    BY <1>3, FunctionIsSeq
  <1> QED
    BY <1>2, <1>4, MaxByteAssumption DEF UnlockRow, Array

\* With the parameters of the chain block behind them.
LEMMA ChainUnlockData ==
    ASSUME NEW u, u = PutConstraint(LockUnlock(<<MaxByte>>), 3, <<0, 3, 0>>)
    PROVE  /\ u \in UnlockRow /\ Len(u) = 4
           /\ u[3] = <<MaxByte>> /\ u[4] = <<0, 3, 0>>
  <1>1. PICK v, x : v = LockUnlock(<<MaxByte>>) /\ x = <<0, 3, 0>>
    OBVIOUS
  <1>2. 0 \in Byte /\ 3 \in Byte /\ MaxByte \in Byte
    BY MaxByteAssumption DEF Byte
  <1>3. x \in Seq(Byte) /\ <<MaxByte>> \in Seq(Byte)
    BY <1>1, <1>2
  <1>4. v \in UnlockRow /\ Len(v) = 3 /\ v[3] = <<MaxByte>>
    BY <1>1, <1>3, LockUnlockData
  <1>5. u = [k \in 1 .. 4 |-> IF k = 4 THEN x ELSE v[k]]
    <2>1. PICK n : n = 3
      OBVIOUS
    <2>2. n \in Nat /\ Len(v) \in Nat /\ n >= Len(v)
      BY <1>4, <2>1
    <2>3. u = PutConstraint(v, n, x)
      BY <1>1, <2>1, Zenon
    <2>4. u = PutBehind(v, n, x)
      BY <2>2, <2>3, PutsBehind
    <2> QED
      BY <1>4, <2>1, <2>4 DEF PutBehind
  <1>6. v \in Seq(Seq(Byte))
    BY <1>4 DEF UnlockRow, Array
  <1>7. \A k \in 1 .. 3 : v[k] \in Seq(Byte)
    BY <1>4, <1>6, SeqElements
  <1>8. u \in [1 .. 4 -> Seq(Byte)]
    BY <1>3, <1>5, <1>7
  <1>9. u \in Seq(Seq(Byte)) /\ Len(u) = 4
    BY <1>8, FunctionIsSeq
  <1>10. u[3] = v[3] /\ u[4] = x
    BY <1>5
  <1>11. u \in UnlockRow /\ Len(u) = 4
    <2>1. PICK S, y : S = Seq(Byte) /\ y = u
      OBVIOUS
    <2>2. 4 <= MaxByte + 1
      BY MaxByteAssumption
    <2>3. y \in Seq(S) /\ Len(y) = 4
      BY <1>9, <2>1
    <2>4. y \in Array(S)
      BY <2>2, <2>3 DEF Array
    <2> QED
      BY <2>1, <2>3, <2>4 DEF UnlockRow
  <1> QED
    BY <1>1, <1>4, <1>10, <1>11

LEMMA SimpleUnlockShape ==
    ASSUME NEW n \in Nat, NEW u, u = SimpleUnlock(n)
    PROVE  /\ u \in Seq(UnlockRow) /\ Len(u) = n
           /\ \A k \in 1 .. n : Len(u[k]) = 3 /\ Len(u[k][3]) = 1
  <1>1. 0 \in Byte /\ MaxByte \in Byte
    BY MaxByteAssumption DEF Byte
  <1>2. <<MaxByte>> \in Seq(Byte) /\ <<0>> \in Seq(Byte)
    BY <1>1
  <1>3. \A k \in 1 .. n : u[k] = LockUnlock(IF k = 1 THEN <<MaxByte>> ELSE <<0>>)
    BY DEF SimpleUnlock
  <1>4. ASSUME NEW k \in 1 .. n
        PROVE  u[k] \in UnlockRow /\ Len(u[k]) = 3 /\ Len(u[k][3]) = 1
    <2>1. PICK data : data = IF k = 1 THEN <<MaxByte>> ELSE <<0>>
      OBVIOUS
    <2>2. data \in Seq(Byte) /\ Len(data) = 1
      BY <1>2, <2>1
    <2>3. u[k] = LockUnlock(data)
      BY <1>3, <2>1
    <2> QED
      BY <2>2, <2>3, LockUnlockData
  <1>5. u \in [1 .. n -> UnlockRow]
    BY <1>4 DEF SimpleUnlock
  <1> QED
    BY <1>4, <1>5, FunctionIsSeq

LEMMA ChainUnlockShape ==
    ASSUME NEW n \in Nat, NEW u, u = ChainUnlock(3, n)
    PROVE  /\ u \in Seq(UnlockRow) /\ Len(u) = n + 1
           /\ Len(u[1]) = 4 /\ u[1][3] = <<MaxByte>> /\ u[1][4] = <<0, 3, 0>>
           /\ \A k \in 2 .. n + 1 : Len(u[k]) = 3 /\ u[k][3] = <<0, 3>>
  <1>1. PICK x, s, r, t : /\ x = PutConstraint(LockUnlock(<<MaxByte>>), 3, <<0, 3, 0>>)
                          /\ s = <<x>> /\ r = <<0, 3>>
                          /\ t = [k \in 1 .. n |-> LockUnlock(r)]
    OBVIOUS
  <1>2. u = s \o t
    BY <1>1, Zenon DEF ChainUnlock
  <1>3. x \in UnlockRow /\ Len(x) = 4 /\ x[3] = <<MaxByte>> /\ x[4] = <<0, 3, 0>>
    BY <1>1, ChainUnlockData
  <1>4. s \in Seq(UnlockRow) /\ Len(s) = 1 /\ s[1] = x
    BY <1>1, <1>3
  <1>5. 0 \in Byte /\ 3 \in Byte
    BY MaxByteAssumption DEF Byte
  <1>6. r \in Seq(Byte)
    BY <1>1, <1>5
  <1>7. LockUnlock(r) \in UnlockRow /\ Len(LockUnlock(r)) = 3 /\ LockUnlock(r)[3] = r
    BY <1>6, LockUnlockData
  <1>8. t \in [1 .. n -> UnlockRow]
    BY <1>1, <1>7
  <1>9. t \in Seq(UnlockRow) /\ Len(t) = n
    BY <1>8, FunctionIsSeq
  <1>10. /\ u \in Seq(UnlockRow) /\ Len(u) = n + 1
         /\ \A i \in 1 .. 1 : u[i] = s[i]
         /\ \A i \in 1 .. n : u[i + 1] = t[i]
    <2>1. PICK R : R = UnlockRow
      OBVIOUS
    <2>2. s \in Seq(R) /\ t \in Seq(R)
      BY <1>4, <1>9, <2>1
    <2>3. PICK all : all = s \o t
      OBVIOUS
    <2>4. /\ all \in Seq(R) /\ Len(all) = Len(s) + Len(t)
          /\ \A i \in 1 .. Len(s) : all[i] = s[i]
          /\ \A i \in 1 .. Len(t) : all[i + Len(s)] = t[i]
      BY <2>2, <2>3, Join
    <2>5. all = u
      BY <1>2, <2>3
    <2> QED
      BY <1>4, <1>9, <2>1, <2>4, <2>5
  <1>11. ASSUME NEW k \in 2 .. n + 1
         PROVE  Len(u[k]) = 3 /\ u[k][3] = r
    <2>1. PICK i \in 1 .. n : i + 1 = k
      OBVIOUS
    <2> QED
      BY <1>1, <1>7, <1>10, <2>1
  <1> QED
    BY <1>1, <1>3, <1>4, <1>10, <1>11

-----------------------------------------------------------------------------
(***************************************************************************)
(* What the ledger wants of a transaction.                                 *)
(***************************************************************************)
SideHolds(ctx, side, outs) ==
    /\ Len(outs) \in Nat /\ DOMAIN outs = 1 .. Len(outs) /\ Outputs(ctx, side) = outs
    /\ \A k \in 1 .. Len(outs) :
           /\ OutputParses(outs[k]) /\ AmountOf(outs[k]) \in Nat
           /\ side = "produced" =>
                  \A b, d \in 1 .. Len(outs[k]) : outs[k][b] = outs[k][d] => b = d
           /\ \A d \in 1 .. Len(outs[k]) : EvalConstraint(ctx, Path(side, k - 1, d - 1), outs[k][d])
    /\ AmountsOf(outs) <= MaxUint64

LEMMA SideValid ==
    ASSUME NEW ctx, NEW side, NEW outs, SideHolds(ctx, side, outs)
    PROVE  ValidateOutputs(ctx, side) /\ OutputSum(outs) = AmountsOf(outs)
  <1>1. Len(outs) \in Nat /\ DOMAIN outs = 1 .. Len(outs) /\ Outputs(ctx, side) = outs
    BY DEF SideHolds
  <1>2. NoOverflow(outs) /\ OutputSum(outs) = AmountsOf(outs)
    <2>1. \A k \in 1 .. Len(outs) : AmountOf(outs[k]) \in Nat
      BY DEF SideHolds
    <2>2. AmountsOf(outs) <= MaxUint64
      BY DEF SideHolds
    <2> QED
      BY <1>1, <2>1, <2>2, TotalsFit
  <1>3. ASSUME NEW i \in 0 .. Len(outs) - 1
        PROVE  RunOutput(ctx, side, i) /\ OutputParses(At(outs, i))
    <2>1. PICK k \in 1 .. Len(outs) : k - 1 = i /\ k = i + 1
      BY <1>1
    <2>2. At(outs, i) = outs[k]
      BY <2>1 DEF At
    <2>3. /\ OutputParses(outs[k])
          /\ side = "produced" =>
                 \A b, d \in 1 .. Len(outs[k]) : outs[k][b] = outs[k][d] => b = d
          /\ \A d \in 1 .. Len(outs[k]) : EvalConstraint(ctx, Path(side, i, d - 1), outs[k][d])
      BY <2>1 DEF SideHolds
    <2> QED
      BY <1>1, <2>2, <2>3 DEF RunOutput
  <1> QED
    BY <1>1, <1>2, <1>3 DEF ValidateOutputs

\* A transaction both of whose sides hold is accepted.
LEMMA SidesAccepted ==
    ASSUME NEW tx, tx \in Transaction, InputsFound(tx),
           NEW consumed, ConsumedOutputs(tx) = consumed,
           NEW ctx, ctx = Context(tx, consumed),
           SideHolds(ctx, "consumed", consumed), SideHolds(ctx, "produced", tx.outputs),
           tx.inputCommitment = blake2b(consumed),
           AmountsOf(consumed) = AmountsOf(tx.outputs)
    PROVE  Accepted(tx)
  <1>1. /\ ValidateOutputs(ctx, "consumed") /\ OutputSum(consumed) = AmountsOf(consumed)
        /\ ValidateOutputs(ctx, "produced") /\ OutputSum(tx.outputs) = AmountsOf(tx.outputs)
    BY SideValid
  <1>2. ctx.tx = tx /\ ctx.consumed = consumed
    BY DEF Context
  <1>3. Validate(ctx)
    BY <1>1, <1>2 DEF Validate, ValidateInputCommitment
  <1> QED
    BY <1>3 DEF Accepted

\* What is known of the state and of the outputs that were ever produced.
OriginsNew(out) ==
    \A b \in 1 .. Len(out) :
        out[b].type = "chain" /\ out[b].id = ZeroHash => out[b] = NewChainOrigin

SoundState(state, history) ==
    /\ Balanced(state)
    /\ \A oid \in DOMAIN history : history[oid] \in Output
    /\ \A oid \in DOMAIN state :
           /\ oid \in OutputID /\ oid \in DOMAIN history /\ state[oid] = history[oid]
           /\ OutputParses(state[oid]) /\ OriginsNew(state[oid])

LEMMA StateIsSound ==
    ASSUME WalletInv
    PROVE  SoundState(utxo, History)
  <1>1. IInv /\ HistoryValid /\ Balanced(utxo)
    BY DEF WalletInv, DBInv
  <1>2. \A oid \in DOMAIN History : History[oid] \in Output
    BY <1>1, HistoryTyped DEF IInv
  <1>3. ASSUME NEW oid \in DOMAIN utxo
        PROVE  /\ oid \in OutputID /\ oid \in DOMAIN History /\ utxo[oid] = History[oid]
               /\ OutputParses(utxo[oid]) /\ OriginsNew(utxo[oid])
    <2>1. PICK out : out = utxo[oid]
      OBVIOUS
    <2>2. /\ oid \in OutputID /\ OutputParses(out)
          /\ \A b \in 1 .. Len(out) :
                 out[b].type = "chain" /\ out[b].id = ZeroHash => out[b] = NewChainOrigin
      BY <1>1, <2>1, UnspentValid
    <2>3. oid \in ProducedIDs /\ utxo[oid] = OutputOf(oid)
      BY <1>1 DEF IInv, UtxoExact
    <2> QED
      BY <2>1, <2>2, <2>3 DEF History, OriginsNew
  <1> QED
    BY <1>1, <1>2, <1>3 DEF SoundState

-----------------------------------------------------------------------------
(***************************************************************************)
(* An ordinary transfer of outputs that are still unspent.                 *)
(***************************************************************************)
Spendable(par, tx, state, history) ==
    /\ SoundState(state, history)
    /\ DraftRight(par, history)
    /\ CanMakeTransfer(par) /\ tx = MakeTransferTransaction(par)
    /\ Inputs(tx) \subseteq DOMAIN state
    /\ Ordinary(par, tx)

UnlockOf(par) ==
    IF par.chainOutput = <<>> THEN SimpleUnlock(Len(Selected(par)))
    ELSE ChainUnlock(3, Len(Selected(par)))

\* The chain output of a transfer from the account of a chain.
GoesOnWith(par, pred, tx) ==
    /\ par.chainOutput = <<pred>> /\ par.chainOutput # <<>> /\ par.chainOutput[1] = pred
    /\ OutputFromBytes(pred.out) /\ HasChainConstraint(pred.out)
    /\ pred.out \in Output /\ Len(pred.out) = 4
    /\ ChainConstraintIndex(pred.out) = 3
    /\ pred.out[4].type = "chain"
    /\ LockOf(pred.out) = NewAddressED25519(par.key)
    /\ TimestampOf(pred.out) < tx.timestamp
    /\ \E id \in ChainIDsOf(pred.id, pred.out) : par.source = NewChainLock(id)

LEMMA SpendableChain ==
    ASSUME NEW par, NEW tx, NEW state, NEW history, Spendable(par, tx, state, history),
           par.chainOutput # <<>>
    PROVE  \E pred \in Recorded(history) : GoesOnWith(par, pred, tx)
  <1>1. \A oid \in DOMAIN history : history[oid] \in Output
    BY DEF Spendable, SoundState
  <1>2. DraftRight(par, history)
    BY DEF Spendable
  <1>3. PICK pred \in Recorded(history) : par.chainOutput = <<pred>> /\ ChainAccount(pred, par.source)
    BY <1>1, <1>2, DraftParts
  <1>4. par.chainOutput[1] = pred
    BY <1>3
  <1>5. ChainReady(par, tx)
    BY DEF Spendable, Ordinary
  <1>6. /\ LockOf(pred.out) = NewAddressED25519(par.key)
        /\ Len(pred.out) = 4
        /\ TimestampOf(pred.out) < tx.timestamp
    BY <1>4, <1>5, Zenon DEF ChainReady
  <1>7. /\ OutputFromBytes(pred.out) /\ HasChainConstraint(pred.out)
        /\ \E id \in ChainIDsOf(pred.id, pred.out) : par.source = NewChainLock(id)
    BY <1>3 DEF ChainAccount
  <1>8. ChainConstraintIndex(pred.out) \in 3 .. Len(pred.out) - 1
        /\ At(pred.out, ChainConstraintIndex(pred.out)).type = "chain"
    <2>1. Len(pred.out) \in Nat
      BY <1>6
    <2> QED
      BY <1>7, <2>1, FirstChain
  <1>9. ChainConstraintIndex(pred.out) = 3
    BY <1>6, <1>8
  <1>10. pred.out[4].type = "chain"
    BY <1>8, <1>9 DEF At
  <1>11. pred.out \in Output
    BY <1>1, RecordedShape
  <1> QED
    BY <1>3, <1>4, <1>6, <1>7, <1>9, <1>10, <1>11 DEF GoesOnWith

\* The transaction that is made, field by field.
LEMMA SpendableFields ==
    ASSUME NEW par, NEW tx, NEW state, NEW history, Spendable(par, tx, state, history)
    PROVE  /\ tx = TransferOf(par, UnlockOf(par))
           /\ tx.inputs = IDsOf(Consumed(par)) /\ tx.unlock = UnlockOf(par)
           /\ tx.outputs = Change(par) \o <<Target(par)>>
           /\ tx.signature = [key |-> par.key, valid |-> TRUE]
           /\ tx.timestamp = TransferTime(par)
           /\ tx.inputCommitment = blake2b(Contents(Consumed(par)))
  <1>1. PICK R : R = Recorded(history)
    OBVIOUS
  <1>2. par.outputs \in Seq(R) /\ par.unlockData \in Seq(UnlockData)
    <2>1. (\A oid \in DOMAIN history : history[oid] \in Output) /\ DraftRight(par, history)
      BY DEF Spendable, SoundState
    <2> QED
      BY <1>1, <2>1, DraftParts
  <1>3. tx = MakeTransferTransaction(par) /\ par.unlockData = <<>>
    BY DEF Spendable, Ordinary
  <1>4. tx = TransferOf(par, UnlockOf(par))
    <2>1. CASE par.chainOutput = <<>>
      BY <1>2, <1>3, <2>1, SimpleTransferShape DEF UnlockOf
    <2>2. CASE par.chainOutput # <<>>
      <3>1. PICK pred \in R : GoesOnWith(par, pred, tx)
        BY <1>1, <2>2, SpendableChain
      <3>2. par.chainOutput = <<pred>> /\ ChainConstraintIndex(pred.out) = 3
        BY <3>1 DEF GoesOnWith
      <3>3. tx = TransferOf(par, ChainUnlock(ChainConstraintIndex(pred.out), Len(Selected(par))))
        BY <1>2, <1>3, <3>2, ChainTransferShape
      <3> QED
        BY <2>2, <3>2, <3>3 DEF UnlockOf
    <2> QED
      BY <2>1, <2>2
  <1> QED
    BY <1>4 DEF TransferOf

LEMMA TimestampTyped ==
    ASSUME NEW out \in Output, OutputFromBytes(out)
    PROVE  TimestampOf(out) \in Nat
  <1>1. PICK c : c = out[2]
    OBVIOUS
  <1>2. Len(out) >= 3 /\ out \in Seq(Block) /\ c.type = "timestamp"
    BY <1>1 DEF Output, Array, OutputFromBytes, At, ConstraintIndexTimestamp
  <1>3. 2 \in 1 .. Len(out)
    BY <1>2
  <1>4. c \in Block
    BY <1>1, <1>2, <1>3, SeqElements
  <1>5. c.time \in Nat
    BY <1>2, <1>4 DEF Block, BasicBlock
  <1> QED
    BY <1>1, <1>5 DEF TimestampOf, At, ConstraintIndexTimestamp

\* Where the selected outputs are among the consumed ones.
Shift(par) == IF par.chainOutput = <<>> THEN 0 ELSE 1

LEMMA ConsumedPositions ==
    ASSUME NEW par, NEW tx, NEW state, NEW history, Spendable(par, tx, state, history),
           NEW all, all = Consumed(par), NEW sel, sel = Selected(par)
    PROVE  /\ all \in Seq(Recorded(history)) /\ Len(all) \in Nat /\ Len(sel) \in Nat
           /\ Len(all) = Len(sel) + Shift(par) /\ Shift(par) \in {0, 1}
           /\ \A i \in 1 .. Len(sel) :
                  /\ all[i + Shift(par)] = sel[i]
                  /\ \E j \in 1 .. Len(par.outputs) : sel[i] = par.outputs[j]
           /\ \A i, j \in 1 .. Len(sel) : sel[i] = sel[j] => i = j
           /\ par.chainOutput # <<>> => all[1] = par.chainOutput[1]
  <1>1. PICK R, c, x : R = Recorded(history) /\ c = par.chainOutput /\ x = Shift(par)
    OBVIOUS
  <1>2. (\A oid \in DOMAIN history : history[oid] \in Output) /\ DraftRight(par, history)
    BY DEF Spendable, SoundState
  <1>3. par.outputs \in Seq(R)
    BY <1>1, <1>2, DraftParts
  <1>4. /\ sel \in Seq(R) /\ Len(sel) \in 0 .. Len(par.outputs) /\ Len(par.outputs) \in Nat
        /\ \A k \in 1 .. Len(sel) : sel[k] = par.outputs[k]
    BY <1>3, SelectedShape DEF Selected
  <1>5. c \in Seq(R) /\ Len(c) = x /\ x \in {0, 1}
    <2>1. CASE c = <<>>
      BY <1>1, <2>1 DEF Shift
    <2>2. CASE c # <<>>
      <3>1. PICK pred \in R : GoesOnWith(par, pred, tx)
        BY <1>1, <2>2, SpendableChain
      <3>2. c = <<pred>>
        BY <1>1, <3>1 DEF GoesOnWith
      <3> QED
        BY <1>1, <2>2, <3>2 DEF Shift
    <2> QED
      BY <2>1, <2>2
  <1>6. all = c \o sel
    BY <1>1 DEF Consumed
  <1>7. /\ all \in Seq(R) /\ Len(all) \in Nat /\ Len(all) = Len(c) + Len(sel)
        /\ \A i \in 1 .. Len(c) : all[i] = c[i]
        /\ \A i \in 1 .. Len(sel) : all[i + Len(c)] = sel[i]
    BY <1>4, <1>5, <1>6, Join
  <1>8. ASSUME NEW i \in 1 .. Len(sel)
        PROVE  all[i + x] = sel[i] /\ \E j \in 1 .. Len(par.outputs) : sel[i] = par.outputs[j]
    BY <1>4, <1>5, <1>7
  <1>9. ASSUME NEW i \in 1 .. Len(sel), NEW j \in 1 .. Len(sel), sel[i] = sel[j]
        PROVE  i = j
    <2>1. i \in 1 .. Len(par.outputs) /\ j \in 1 .. Len(par.outputs)
      BY <1>4
    <2>2. par.outputs[i] = par.outputs[j]
      BY <1>4, <1>9
    <2> QED
      BY <1>2, <2>1, <2>2 DEF DraftRight, OutputsRight
  <1>10. c # <<>> => all[1] = c[1]
    BY <1>1, <1>5, <1>7 DEF Shift
  <1> QED
    BY <1>1, <1>4, <1>5, <1>7, <1>8, <1>9, <1>10

\* All of them are in the state, as they were read.
LEMMA SpendableReads ==
    ASSUME NEW par, NEW tx, NEW state, NEW history, Spendable(par, tx, state, history),
           NEW all, all = Consumed(par)
    PROVE  /\ Len(tx.inputs) = Len(all) /\ Len(all) \in Nat
           /\ \A k \in 1 .. Len(all) :
                  /\ tx.inputs[k] = all[k].id /\ all[k] = WithID(all[k].id, all[k].out)
                  /\ all[k].id \in DOMAIN state /\ all[k].out = state[all[k].id]
                  /\ all[k].id \in OutputID /\ all[k].out \in Output
                  /\ OutputParses(all[k].out) /\ OriginsNew(all[k].out)
  <1>1. PICK sel, R : sel = Selected(par) /\ R = Recorded(history)
    OBVIOUS
  <1>2. all \in Seq(R) /\ Len(all) \in Nat
    BY <1>1, ConsumedPositions
  <1>3. tx.inputs = IDsOf(all)
    BY SpendableFields
  <1>4. /\ Len(tx.inputs) = Len(all)
        /\ \A k \in 1 .. Len(all) : tx.inputs[k] = all[k].id
    <2>1. PICK ids : ids = [k \in 1 .. Len(all) |-> all[k].id]
      OBVIOUS
    <2>2. Len(ids) = Len(all) /\ \A k \in 1 .. Len(all) : ids[k] = all[k].id
      BY <1>2, <2>1
    <2> QED
      BY <1>3, <2>1, <2>2 DEF IDsOf
  <1>5. ASSUME NEW k \in 1 .. Len(all)
        PROVE  /\ all[k] = WithID(all[k].id, all[k].out)
               /\ all[k].id \in DOMAIN state /\ all[k].out = state[all[k].id]
               /\ all[k].id \in OutputID /\ all[k].out \in Output
               /\ OutputParses(all[k].out) /\ OriginsNew(all[k].out)
    <2>1. all[k] \in R
      BY <1>2
    <2>2. /\ all[k].out = history[all[k].id] /\ all[k].id \in DOMAIN history
          /\ all[k] = WithID(all[k].id, all[k].out)
      BY <1>1, <2>1, RecordedShape
    <2>3. all[k].id \in DOMAIN state
      BY <1>4 DEF Spendable, Inputs
    <2>4. SoundState(state, history)
      BY DEF Spendable
    <2> QED
      BY <2>2, <2>3, <2>4 DEF SoundState
  <1> QED
    BY <1>2, <1>4, <1>5

\* The selected outputs are ready to be consumed.
LEMMA SpendableSelected ==
    ASSUME NEW par, NEW tx, NEW state, NEW history, Spendable(par, tx, state, history),
           NEW sel, sel = Selected(par)
    PROVE  /\ tx.timestamp \in Nat
           /\ \A i \in 1 .. Len(sel) :
                  /\ OutputFromBytes(sel[i].out) /\ TimestampOf(sel[i].out) < tx.timestamp
                  /\ EasilySpent(sel[i].out, par.source, tx.timestamp)
  <1>1. PICK all, R : all = Consumed(par) /\ R = Recorded(history)
    OBVIOUS
  <1>2. /\ Len(sel) \in Nat /\ Len(all) = Len(sel) + Shift(par) /\ Shift(par) \in {0, 1}
        /\ \A i \in 1 .. Len(sel) : all[i + Shift(par)] = sel[i]
        /\ \A i \in 1 .. Len(sel) : \E j \in 1 .. Len(par.outputs) : sel[i] = par.outputs[j]
    BY <1>1, ConsumedPositions
  <1>3. DraftRight(par, history) /\ \A oid \in DOMAIN history : history[oid] \in Output
    BY DEF Spendable, SoundState
  <1>4. ASSUME NEW i \in 1 .. Len(sel)
        PROVE  OutputFromBytes(sel[i].out) /\ sel[i].out \in Output
    <2>1. OutputFromBytes(sel[i].out)
      BY <1>2, <1>3 DEF DraftRight, OutputsRight
    <2>2. i + Shift(par) \in 1 .. Len(all)
      BY <1>2
    <2>3. all[i + Shift(par)].out \in Output
      BY <1>1, <2>2, SpendableReads
    <2> QED
      BY <1>2, <2>1, <2>3
  <1>5. par.timestamp \in Nat
    BY <1>3, DraftParts
  <1>6. tx.timestamp = TransferTimestamp(par, sel)
    BY SpendableFields DEF TransferTime
  <1>7. \A i \in 1 .. Len(sel) : TimestampOf(sel[i].out) \in Nat
    BY <1>4, TimestampTyped
  <1>8. tx.timestamp \in Nat /\ \A i \in 1 .. Len(sel) : TimestampOf(sel[i].out) < tx.timestamp
    <2>1. PICK ts : ts = tx.timestamp
      OBVIOUS
    <2>2. ts \in Nat /\ \A i \in 1 .. Len(sel) : TimestampOf(sel[i].out) < ts
      BY <1>2, <1>5, <1>6, <1>7, <2>1, TimestampBehind
    <2> QED
      BY <2>1, <2>2
  <1>9. ASSUME NEW i \in 1 .. Len(sel)
        PROVE  EasilySpent(sel[i].out, par.source, tx.timestamp)
    <2>1. sel \in Seq(R)
      <3>1. par.outputs \in Seq(R)
        BY <1>1, <1>3, DraftParts
      <3> QED
        BY <3>1, SelectedShape DEF Selected
    <2>2. sel[i] \in ToSet(sel)
      BY <2>1 DEF ToSet
    <2> QED
      BY <2>2 DEF Spendable, Ordinary
  <1> QED
    BY <1>4, <1>8, <1>9

\* No output is consumed twice: a chain output is not locked in its own chain.
LEMMA SpendableOnce ==
    ASSUME NEW par, NEW tx, NEW state, NEW history, Spendable(par, tx, state, history),
           NEW all, all = Consumed(par),
           NEW k \in 1 .. Len(all), NEW l \in 1 .. Len(all), all[k].id = all[l].id
    PROVE  k = l
  <1>1. PICK sel, x : sel = Selected(par) /\ x = Shift(par)
    OBVIOUS
  <1>2. /\ Len(sel) \in Nat /\ Len(all) = Len(sel) + x /\ x \in {0, 1}
        /\ \A i \in 1 .. Len(sel) : all[i + x] = sel[i]
        /\ \A i, j \in 1 .. Len(sel) : sel[i] = sel[j] => i = j
        /\ par.chainOutput # <<>> => all[1] = par.chainOutput[1]
    BY <1>1, ConsumedPositions
  <1>3. all[k] = all[l]
    BY SpendableReads
  <1>4. ASSUME NEW i \in 2 .. Len(all), x = 1, all[1] = all[i]
        PROVE  FALSE
    <2>1. par.chainOutput # <<>>
      BY <1>1, <1>4 DEF Shift
    <2>2. PICK pred \in Recorded(history) : GoesOnWith(par, pred, tx)
      BY <2>1, SpendableChain
    <2>3. /\ all[1] = pred /\ LockOf(pred.out) = NewAddressED25519(par.key)
          /\ \E id \in ChainIDsOf(pred.id, pred.out) : par.source = NewChainLock(id)
      BY <1>2, <2>1, <2>2 DEF GoesOnWith
    <2>4. PICK j \in 1 .. Len(sel) : i = j + x
      BY <1>2, <1>4
    <2>5. LockOf(all[i].out) = par.source
      <3>1. EasilySpent(sel[j].out, par.source, tx.timestamp)
        BY <1>1, SpendableSelected
      <3>2. all[i] = sel[j]
        BY <1>2, <2>4
      <3> QED
        BY <3>1, <3>2 DEF EasilySpent
    <2>6. par.source.type = "chainLock"
      BY <2>3 DEF NewChainLock
    <2>7. NewAddressED25519(par.key).type = "addressED25519"
      BY DEF NewAddressED25519
    <2> QED
      BY <1>4, <2>3, <2>5, <2>6, <2>7
  <1>5. ASSUME NEW i \in 1 .. Len(all), NEW j \in 1 .. Len(all), i > x, j > x, all[i] = all[j]
        PROVE  i = j
    <2>1. PICK a, b : a = i - x /\ b = j - x
      OBVIOUS
    <2>2. a \in 1 .. Len(sel) /\ b \in 1 .. Len(sel) /\ i = a + x /\ j = b + x
      BY <1>2, <1>5, <2>1
    <2>3. sel[a] = sel[b]
      BY <1>2, <1>5, <2>2
    <2>4. a = b
      BY <1>2, <2>2, <2>3
    <2> QED
      BY <2>2, <2>4
  <1>6. CASE x = 0
    BY <1>2, <1>3, <1>5, <1>6
  <1>7. CASE x = 1
    <2>1. CASE k = 1 \/ l = 1
      BY <1>2, <1>3, <1>4, <1>7, <2>1
    <2>2. CASE k > 1 /\ l > 1
      BY <1>2, <1>3, <1>5, <1>7, <2>2
    <2> QED
      BY <1>2, <2>1, <2>2
  <1> QED
    BY <1>2, <1>6, <1>7

-----------------------------------------------------------------------------
(***************************************************************************)
(* What comes in goes out.                                                 *)
(***************************************************************************)
TotalReady(outs) ==
    /\ Len(outs) \in Nat /\ DOMAIN outs = 1 .. Len(outs)
    /\ \A i \in 1 .. Len(outs) : AmountOf(outs[i]) \in Nat

LEMMA TotalTyped ==
    ASSUME NEW outs, TotalReady(outs)
    PROVE  AmountsOf(outs) \in Nat /\ (Len(outs) = 0 => AmountsOf(outs) = 0)
  <1>1. Len(outs) \in Nat
    BY DEF TotalReady
  <1>2. PICK f : RunningTotals(f, outs, Len(outs))
    BY TotalsExist DEF TotalReady
  <1> QED
    BY <1>1, <1>2 DEF RunningTotals

\* One more in front.
InFront(t, s) == Len(t) = Len(s) + 1 /\ \A i \in 1 .. Len(s) : t[i + 1] = s[i]

LEMMA TotalInFront ==
    ASSUME NEW t, NEW s, TotalReady(t), TotalReady(s), InFront(t, s)
    PROVE  AmountsOf(t) = AmountOf(t[1]) + AmountsOf(s)
  <1>1. PICK n : n = Len(s) /\ n \in Nat /\ Len(t) = n + 1 /\ \A i \in 1 .. n : t[i + 1] = s[i]
    BY DEF TotalReady, InFront
  <1>2. PICK f : RunningTotals(f, s, n)
    BY <1>1, TotalsExist DEF TotalReady
  <1>3. PICK g : RunningTotals(g, t, n + 1)
    BY <1>1, TotalsExist DEF TotalReady
  <1>4. /\ f[0] = 0 /\ f[n] = AmountsOf(s)
        /\ \A i \in 1 .. n : f[i] = f[i - 1] + AmountOf(s[i])
        /\ \A i \in 0 .. n : f[i] \in Nat
    BY <1>2 DEF RunningTotals
  <1>5. /\ g[0] = 0 /\ g[n + 1] = AmountsOf(t)
        /\ \A i \in 1 .. n + 1 : g[i] = g[i - 1] + AmountOf(t[i])
        /\ \A i \in 0 .. n + 1 : g[i] \in Nat
    BY <1>3 DEF RunningTotals
  <1>6. PICK a : a = AmountOf(t[1]) /\ a \in Nat
    BY <1>1 DEF TotalReady
  <1>7. g[1] = a
    <2>1. 1 \in 1 .. n + 1 /\ 1 - 1 = 0
      BY <1>1
    <2> QED
      BY <1>5, <1>6, <2>1
  <1>8. \A i \in 0 .. n : g[i + 1] = a + f[i]
    <2> DEFINE Bad == {i \in 0 .. n : g[i + 1] # a + f[i]}
    <2>1. SUFFICES ASSUME Bad # {} PROVE FALSE
      OBVIOUS
    <2>2. Bad \subseteq Nat
      BY <1>1
    <2>3. PICK m \in Bad : \A i \in Bad : ~ (i < m)
      BY <2>1, <2>2, LeastNumber
    <2>4. m \in 0 .. n /\ g[m + 1] # a + f[m]
      OBVIOUS
    <2>5. m # 0
      BY <1>4, <1>6, <1>7, <2>4
    <2>6. m - 1 \in 0 .. n /\ m \in 1 .. n /\ m + 1 \in 1 .. n + 1 /\ (m - 1) + 1 = m /\ (m + 1) - 1 = m
      BY <1>1, <2>4, <2>5
    <2>7. m - 1 \notin Bad
      BY <2>2, <2>3, <2>6
    <2>8. g[m] = a + f[m - 1]
      BY <2>6, <2>7
    <2>9. AmountOf(t[m + 1]) = AmountOf(s[m]) /\ AmountOf(s[m]) \in Nat
      BY <1>1, <2>6 DEF TotalReady
    <2>10. g[m + 1] = g[m] + AmountOf(s[m]) /\ f[m] = f[m - 1] + AmountOf(s[m])
      BY <1>4, <1>5, <2>6, <2>9
    <2>11. f[m - 1] \in Nat
      BY <1>4, <2>6
    <2> QED
      BY <1>6, <2>4, <2>8, <2>9, <2>10, <2>11
  <1>9. g[n + 1] = a + f[n]
    BY <1>1, <1>8
  <1> QED
    BY <1>4, <1>5, <1>6, <1>9

LEMMA TotalOfOne ==
    ASSUME NEW outs, TotalReady(outs), Len(outs) = 1
    PROVE  AmountsOf(outs) = AmountOf(outs[1])
  <1>1. PICK none : none = <<>>
    OBVIOUS
  <1>2. TotalReady(none) /\ Len(none) = 0
    BY <1>1 DEF TotalReady
  <1>3. AmountsOf(none) = 0
    BY <1>2, TotalTyped
  <1>4. AmountsOf(outs) = AmountOf(outs[1]) + AmountsOf(none)
    <2>1. InFront(outs, none)
      BY <1>2 DEF InFront
    <2> QED
      BY <1>2, <2>1, TotalInFront
  <1>5. AmountOf(outs[1]) \in Nat
    BY DEF TotalReady
  <1> QED
    BY <1>3, <1>4, <1>5

LEMMA TotalOfTwo ==
    ASSUME NEW outs, TotalReady(outs), Len(outs) = 2
    PROVE  AmountsOf(outs) = AmountOf(outs[1]) + AmountOf(outs[2])
  <1>1. PICK rest : rest = [k \in 1 .. 1 |-> outs[2]]
    OBVIOUS
  <1>2. Len(rest) = 1 /\ rest[1] = outs[2] /\ DOMAIN rest = 1 .. 1
    BY <1>1
  <1>3. AmountOf(outs[2]) \in Nat
    BY DEF TotalReady
  <1>4. TotalReady(rest)
    BY <1>2, <1>3 DEF TotalReady
  <1>5. AmountsOf(rest) = AmountOf(outs[2])
    BY <1>2, <1>4, TotalOfOne
  <1>6. AmountsOf(outs) = AmountOf(outs[1]) + AmountsOf(rest)
    <2>1. InFront(outs, rest)
      BY <1>2 DEF InFront
    <2> QED
      BY <1>4, <2>1, TotalInFront
  <1> QED
    BY <1>5, <1>6

LEMMA ContentsReady ==
    ASSUME NEW outs, Len(outs) \in Nat,
           \A k \in 1 .. Len(outs) : outs[k].out \in Output /\ OutputParses(outs[k].out),
           NEW c, c = Contents(outs)
    PROVE  /\ TotalReady(c) /\ Len(c) = Len(outs)
           /\ \A k \in 1 .. Len(outs) : c[k] = outs[k].out
  <1>1. DOMAIN c = 1 .. Len(outs) /\ Len(c) = Len(outs) /\ \A k \in 1 .. Len(outs) : c[k] = outs[k].out
    BY DEF Contents
  <1>2. \A k \in 1 .. Len(outs) : AmountOf(outs[k].out) \in Nat
    BY AmountTyped DEF Amount
  <1> QED
    BY <1>1, <1>2 DEF TotalReady

LEMMA AdjustedTyped ==
    ASSUME NEW par, par.amount \in Amount, par.addConstraints \in Seq(Block)
    PROVE  AdjustedAmount(par) \in Nat
  <1>1. par.amount \in Nat
    BY DEF Amount
  <1>2. PICK a, b, t, c : /\ a = NewAmount(par.amount) /\ b = NewTimestamp(0)
                          /\ t = <<a, b, par.lock>> /\ c = par.addConstraints
    OBVIOUS
  <1>3. PICK S : S = {a, b, par.lock} \cup Block
    OBVIOUS
  <1>4. t \in Seq(S) /\ c \in Seq(S)
    <2>1. a \in S /\ b \in S /\ par.lock \in S /\ Block \subseteq S
      BY <1>3
    <2> QED
      BY <1>2, <2>1
  <1>5. PICK all : all = t \o c
    OBVIOUS
  <1>6. Len(all) \in Nat
    BY <1>4, <1>5, Join
  <1>7. OutputBasic(par.amount, 0, par.lock) \o par.addConstraints = all
    BY <1>2, <1>5, Zenon DEF OutputBasic
  <1>8. AdjustedAmount(par) = IF ~par.adjust THEN par.amount ELSE Max({par.amount, Len(all)})
    BY <1>7, Zenon DEF AdjustedAmount, MinimumStorageDeposit, OutputSize
  <1>9. Max({par.amount, Len(all)}) \in Nat
    BY <1>1, <1>6, MaxOfTwo
  <1> QED
    BY <1>1, <1>8, <1>9

\* The consumed outputs hold the amount and what is left over.
LEMMA SpendableTotal ==
    ASSUME NEW par, NEW tx, NEW state, NEW history, Spendable(par, tx, state, history),
           NEW all, all = Consumed(par), NEW cont, cont = Contents(all)
    PROVE  /\ TotalReady(cont) /\ Len(cont) = Len(all)
           /\ \A k \in 1 .. Len(all) : cont[k] = all[k].out
           /\ LeftOver(par) \in Nat /\ AdjustedAmount(par) \in Nat
           /\ AmountsOf(cont) = LeftOver(par) + AdjustedAmount(par)
           /\ AmountsOf(cont) <= MaxUint64
  <1>1. PICK sel, x, part : sel = Selected(par) /\ x = Shift(par) /\ part = Contents(sel)
    OBVIOUS
  <1>2. /\ Len(sel) \in Nat /\ Len(all) \in Nat /\ Len(all) = Len(sel) + x /\ x \in {0, 1}
        /\ \A i \in 1 .. Len(sel) : all[i + x] = sel[i]
        /\ par.chainOutput # <<>> => all[1] = par.chainOutput[1]
    BY <1>1, ConsumedPositions
  <1>3. \A k \in 1 .. Len(all) : all[k].out \in Output /\ OutputParses(all[k].out)
    BY SpendableReads
  <1>4. \A k \in 1 .. Len(sel) : sel[k].out \in Output /\ OutputParses(sel[k].out)
    <2> SUFFICES ASSUME NEW k \in 1 .. Len(sel)
                 PROVE  sel[k].out \in Output /\ OutputParses(sel[k].out)
      OBVIOUS
    <2>1. PICK i : i = k + x
      OBVIOUS
    <2>2. i \in 1 .. Len(all) /\ all[i] = sel[k]
      BY <1>2, <2>1
    <2> QED
      BY <1>3, <2>2
  <1>5. /\ TotalReady(cont) /\ Len(cont) = Len(all)
        /\ \A k \in 1 .. Len(all) : cont[k] = all[k].out
    BY <1>2, <1>3, ContentsReady
  <1>6. /\ TotalReady(part) /\ Len(part) = Len(sel)
        /\ \A k \in 1 .. Len(sel) : part[k] = sel[k].out
    BY <1>1, <1>2, <1>4, ContentsReady
  <1>7. AmountsOf(cont) \in Nat /\ AmountsOf(part) \in Nat /\ SumOf(sel) = AmountsOf(part)
    BY <1>1, <1>5, <1>6, TotalTyped DEF SumOf
  <1>8. AdjustedAmount(par) \in Nat
    <2>1. DraftRight(par, history) /\ \A oid \in DOMAIN history : history[oid] \in Output
      BY DEF Spendable, SoundState
    <2>2. par.amount \in Amount /\ par.addConstraints \in Seq(Block)
      BY <2>1, DraftParts
    <2> QED
      BY <2>2, AdjustedTyped
  <1>9. CanMakeTransfer(par)
    BY DEF Spendable
  <1>10. LeftOver(par) \in Nat /\ AmountsOf(cont) = LeftOver(par) + AdjustedAmount(par)
    <2>1. CASE par.chainOutput = <<>>
      <3>1. all = sel
        <4>1. DraftRight(par, history) /\ \A oid \in DOMAIN history : history[oid] \in Output
          BY DEF Spendable, SoundState
        <4>2. PICK R : R = Recorded(history)
          OBVIOUS
        <4>3. par.outputs \in Seq(R) /\ par.unlockData \in Seq(UnlockData)
          BY <4>1, <4>2, DraftParts
        <4> QED
          BY <1>1, <2>1, <4>3, SimpleTransferShape
      <3>2. SumOf(sel) >= AdjustedAmount(par)
        BY <1>1, <1>9, <2>1 DEF CanMakeTransfer, CanMakeSimpleTransfer, Selected
      <3>3. LeftOver(par) = SumOf(sel) - AdjustedAmount(par)
        BY <1>1, <2>1 DEF LeftOver
      <3> QED
        BY <1>1, <1>7, <1>8, <3>1, <3>2, <3>3
    <2>2. CASE par.chainOutput # <<>>
      <3>1. PICK o : o = par.chainOutput[1].out
        OBVIOUS
      <3>2. SumOf(sel) + AmountOf(o) > AdjustedAmount(par)
        BY <1>1, <1>9, <2>2, <3>1 DEF CanMakeTransfer, CanMakeChainTransfer, Selected
      <3>3. LeftOver(par) = SumOf(sel) + AmountOf(o) - AdjustedAmount(par)
        BY <1>1, <2>2, <3>1 DEF LeftOver
      <3>4. x = 1
        BY <1>1, <2>2 DEF Shift
      <3>5. cont[1] = o /\ AmountOf(o) \in Nat
        <4>1. 1 \in 1 .. Len(all)
          BY <1>2, <3>4
        <4>2. cont[1] = o
          BY <1>2, <1>5, <2>2, <3>1, <4>1
        <4>3. AmountOf(cont[1]) \in Nat
          BY <1>5, <4>1 DEF TotalReady
        <4> QED
          BY <4>2, <4>3
      <3>6. InFront(cont, part)
        <4>1. Len(cont) = Len(part) + 1
          BY <1>2, <1>5, <1>6, <3>4
        <4>2. ASSUME NEW i \in 1 .. Len(part)
              PROVE  cont[i + 1] = part[i]
          <5>1. i \in 1 .. Len(sel) /\ i + 1 \in 1 .. Len(all) /\ all[i + 1] = sel[i]
            BY <1>2, <1>6, <3>4
          <5> QED
            BY <1>5, <1>6, <5>1
        <4> QED
          BY <4>1, <4>2 DEF InFront
      <3>7. AmountsOf(cont) = AmountOf(o) + AmountsOf(part)
        BY <1>5, <1>6, <3>5, <3>6, TotalInFront
      <3> QED
        BY <1>7, <1>8, <3>2, <3>3, <3>5, <3>7
    <2> QED
      BY <2>1, <2>2
  <1>11. AmountsOf(cont) <= Supply
    <2>1. PICK e : e = IDsOf(all)
      OBVIOUS
    <2>2. \A k \in 1 .. Len(all) : e[k] = all[k].id
      BY <2>1 DEF IDsOf
    <2>3. \A k, l \in 1 .. Len(cont) : e[k] = e[l] => k = l
      BY <1>5, <2>2, SpendableOnce
    <2>4. \A k \in 1 .. Len(cont) : e[k] \in DOMAIN state /\ cont[k] = state[e[k]]
      BY <1>5, <2>2, SpendableReads
    <2>5. Balanced(state)
      BY DEF Spendable, SoundState
    <2>6. Len(cont) \in Nat /\ DOMAIN cont = 1 .. Len(cont)
      BY <1>5 DEF TotalReady
    <2> QED
      BY <2>3, <2>4, <2>5, <2>6, ConsumedFits
  <1>12. AmountsOf(cont) <= MaxUint64
    <2>1. Supply \in 0 .. MaxUint64
      BY GenesisAssumption DEF Amount
    <2> QED
      BY <1>7, <1>11, <2>1, MaxUint64Assumption
  <1> QED
    BY <1>5, <1>8, <1>10, <1>12

\* What is produced: the main output, and before it what is left over, which
\* goes back to the account or on with the chain.
ProducedLayout(par, ts, outs) ==
    /\ Len(outs) \in {1, 2} /\ DOMAIN outs = 1 .. Len(outs)
    /\ MainBlocks(par, AdjustedAmount(par), ts, outs[Len(outs)])
    /\ Len(outs) = 1 => par.chainOutput = <<>> /\ ~ LeftOver(par) > 0
    /\ Len(outs) = 2 =>
           /\ DOMAIN outs[1] = 1 .. Len(outs[1])
           /\ outs[1][1] = NewAmount(LeftOver(par)) /\ outs[1][2] = NewTimestamp(ts)
           /\ outs[1][3] \in Lock
           /\ par.chainOutput = <<>> => Len(outs[1]) = 3
           /\ par.chainOutput # <<>> =>
                  /\ Len(outs[1]) = 4
                  /\ outs[1][4] = NewChain(ChainIDOf(par.chainOutput[1]), 0, 3, 0)

LEMMA SpendableOutputs ==
    ASSUME NEW par, NEW tx, NEW state, NEW history, Spendable(par, tx, state, history)
    PROVE  ProducedLayout(par, tx.timestamp, tx.outputs)
  <1>1. PICK outs, ts, c : outs = tx.outputs /\ ts = tx.timestamp /\ c = Change(par)
    OBVIOUS
  <1>2. DraftRight(par, history) /\ \A oid \in DOMAIN history : history[oid] \in Output
    BY DEF Spendable, SoundState
  <1>3. outs = Change(par) \o <<Target(par)>> /\ ts = TransferTime(par)
    BY <1>1, SpendableFields
  <1>4. /\ Len(outs) \in {1, 2} /\ outs[Len(outs)] = Target(par)
        /\ Len(outs) = 2 => c = <<outs[1]>>
        /\ DOMAIN outs = 1 .. Len(outs)
    BY <1>1, <1>2, <1>3, TransferOutputsShape
  <1>5. MainBlocks(par, AdjustedAmount(par), ts, outs[Len(outs)])
    <2>1. par.addConstraints \in Seq(Block)
      BY <1>2, DraftParts
    <2>2. MainBlocks(par, AdjustedAmount(par), ts, MainOutput(par, AdjustedAmount(par), ts))
      BY <2>1, MainOutputShape
    <2> QED
      BY <1>3, <1>4, <2>2 DEF Target
  <1>6. par.source \in Lock
    BY <1>2, DraftParts
  <1>7. CASE par.chainOutput = <<>>
    <2>1. c = IF LeftOver(par) > 0 THEN <<Remainder(par, LeftOver(par), ts)>> ELSE <<>>
      BY <1>1, <1>3, <1>7 DEF Change
    <2>2. ASSUME Len(outs) = 1
          PROVE  ~ LeftOver(par) > 0
      <3>1. SUFFICES ASSUME LeftOver(par) > 0 PROVE FALSE
        OBVIOUS
      <3>2. PICK r, t : r = Remainder(par, LeftOver(par), ts) /\ t = Target(par)
        OBVIOUS
      <3>3. c = <<r>>
        BY <2>1, <3>1, <3>2
      <3>4. outs = <<r, t>>
        BY <1>1, <1>3, <3>2, <3>3, Pair
      <3> QED
        BY <2>2, <3>4
    <2>3. ASSUME Len(outs) = 2
          PROVE  /\ DOMAIN outs[1] = 1 .. Len(outs[1])
                 /\ outs[1][1] = NewAmount(LeftOver(par)) /\ outs[1][2] = NewTimestamp(ts)
                 /\ outs[1][3] \in Lock /\ Len(outs[1]) = 3
      <3>1. PICK r : r = outs[1]
        OBVIOUS
      <3>2. c = <<r>>
        BY <1>4, <2>3, <3>1
      <3>3. r = Remainder(par, LeftOver(par), ts)
        BY <2>1, <3>2
      <3>4. PICK a, b, l : a = NewAmount(LeftOver(par)) /\ b = NewTimestamp(ts) /\ l = par.source
        OBVIOUS
      <3>5. r = <<a, b, l>>
        BY <3>3, <3>4, Zenon DEF Remainder, OutputBasic
      <3> QED
        BY <1>6, <3>1, <3>4, <3>5
    <2> QED
      BY <1>1, <1>4, <1>5, <1>7, <2>2, <2>3 DEF ProducedLayout
  <1>8. CASE par.chainOutput # <<>>
    <2>1. PICK o \in Recorded(history) : GoesOnWith(par, o, tx)
      BY <1>8, SpendableChain
    <2>2. /\ par.chainOutput[1] = o /\ OutputFromBytes(o.out) /\ HasChainConstraint(o.out)
          /\ ChainConstraintIndex(o.out) = 3 /\ Len(o.out) = 4
      BY <2>1 DEF GoesOnWith
    <2>3. PICK s, t : s = ChainSuccessor(o, LeftOver(par), ts, 0) /\ t = Target(par)
      OBVIOUS
    <2>4. c = <<s>>
      BY <1>1, <1>3, <1>8, <2>2, <2>3 DEF Change
    <2>5. outs = <<s, t>>
      BY <1>1, <1>3, <2>3, <2>4, Pair
    <2>6. Len(outs) = 2 /\ outs[1] = s
      BY <2>5
    <2>7. PICK four, blk : four = Len(o.out) /\ blk = ChainConstraintIndex(o.out) /\ four \in Nat
      BY <2>2
    <2>8. /\ Len(s) = four /\ DOMAIN s = 1 .. Len(s)
          /\ s[1] = NewAmount(LeftOver(par)) /\ s[2] = NewTimestamp(ts)
          /\ s[blk + 1] = NewChain(ChainIDOf(o), 0, blk, 0)
          /\ \A k \in 3 .. Len(s) : k # blk + 1 => s[k] = o.out[k]
      BY <2>2, <2>3, <2>7, SuccessorShape
    <2>9. four = 4 /\ blk = 3 /\ blk + 1 = 4
      BY <2>2, <2>7
    <2>10. s[3] = o.out[3] /\ s[4] = NewChain(ChainIDOf(o), 0, 3, 0) /\ Len(s) = 4
      BY <2>8, <2>9
    <2>11. o.out[3] \in Lock
      <3>1. IsLock(o.out[3])
        BY <2>2 DEF OutputFromBytes, LockOf, At, ConstraintIndexLock
      <3>2. o.out \in Seq(Block)
        BY <2>1 DEF GoesOnWith, Output, Array
      <3>3. 3 \in 1 .. Len(o.out)
        BY <2>2
      <3>4. o.out[3] \in Block
        BY <3>2, <3>3, SeqElements
      <3> QED
        BY <3>1, <3>4 DEF Lock
    <2> QED
      BY <1>1, <1>4, <1>5, <1>8, <2>2, <2>6, <2>8, <2>10, <2>11 DEF ProducedLayout
  <1> QED
    BY <1>7, <1>8

LEMMA ProducedTotal ==
    ASSUME NEW par, NEW ts, NEW outs, ProducedLayout(par, ts, outs),
           LeftOver(par) \in Nat, AdjustedAmount(par) \in Nat
    PROVE  TotalReady(outs) /\ AmountsOf(outs) = LeftOver(par) + AdjustedAmount(par)
  <1>1. PICK a, r, n : a = AdjustedAmount(par) /\ r = LeftOver(par) /\ n = Len(outs)
    OBVIOUS
  <1>2. n \in {1, 2} /\ DOMAIN outs = 1 .. n /\ outs[n][1] = NewAmount(a)
    BY <1>1 DEF ProducedLayout, MainBlocks
  <1>3. AmountOf(outs[n]) = a
    BY <1>2 DEF AmountOf, At, ConstraintIndexAmount, NewAmount
  <1>4. CASE n = 1
    <2>1. \A i \in 1 .. n : AmountOf(outs[i]) \in Nat
      BY <1>1, <1>3, <1>4
    <2>2. TotalReady(outs)
      BY <1>1, <1>2, <2>1 DEF TotalReady
    <2>3. AmountsOf(outs) = AmountOf(outs[1])
      BY <1>1, <1>4, <2>2, TotalOfOne
    <2>4. r = 0
      BY <1>1, <1>4 DEF ProducedLayout
    <2> QED
      BY <1>1, <1>3, <1>4, <2>2, <2>3, <2>4
  <1>5. CASE n = 2
    <2>1. outs[1][1] = NewAmount(r)
      BY <1>1, <1>5 DEF ProducedLayout
    <2>2. AmountOf(outs[1]) = r
      BY <2>1 DEF AmountOf, At, ConstraintIndexAmount, NewAmount
    <2>3. \A i \in 1 .. n : AmountOf(outs[i]) \in Nat
      <3> SUFFICES ASSUME NEW i \in 1 .. n PROVE AmountOf(outs[i]) \in Nat
        OBVIOUS
      <3>1. i = 1 \/ i = n
        BY <1>5
      <3> QED
        BY <1>1, <1>3, <2>2, <3>1
    <2>4. TotalReady(outs)
      BY <1>1, <1>2, <2>3 DEF TotalReady
    <2>5. AmountsOf(outs) = AmountOf(outs[1]) + AmountOf(outs[2])
      BY <1>1, <1>5, <2>4, TotalOfTwo
    <2> QED
      BY <1>1, <1>3, <1>5, <2>2, <2>4, <2>5
  <1> QED
    BY <1>2, <1>4, <1>5

-----------------------------------------------------------------------------
(***************************************************************************)
(* The chain of a transfer goes on.                                        *)
(***************************************************************************)
IsTransfer(ctx, par, tx) == ctx = Context(tx, Contents(Consumed(par)))

LEMMA UnlockRows ==
    ASSUME NEW par, NEW tx, NEW state, NEW history, Spendable(par, tx, state, history),
           NEW all, all = Consumed(par)
    PROVE  /\ tx.unlock \in Seq(UnlockRow) /\ Len(tx.unlock) = Len(all)
           /\ par.chainOutput = <<>> =>
                  \A k \in 1 .. Len(all) : Len(tx.unlock[k]) = 3 /\ Len(tx.unlock[k][3]) = 1
           /\ par.chainOutput # <<>> =>
                  /\ Len(tx.unlock[1]) = 4 /\ tx.unlock[1][3] = <<MaxByte>>
                  /\ tx.unlock[1][4] = <<0, 3, 0>>
                  /\ \A k \in 2 .. Len(all) : Len(tx.unlock[k]) = 3 /\ tx.unlock[k][3] = <<0, 3>>
  <1>1. PICK sel, n, u : sel = Selected(par) /\ n = Len(sel) /\ u = tx.unlock
    OBVIOUS
  <1>2. n \in Nat /\ Len(all) = n + Shift(par)
    BY <1>1, ConsumedPositions
  <1>3. u = UnlockOf(par)
    BY <1>1, SpendableFields
  <1>4. CASE par.chainOutput = <<>>
    <2>1. u = SimpleUnlock(n) /\ Len(all) = n
      BY <1>1, <1>2, <1>3, <1>4 DEF UnlockOf, Shift
    <2>2. /\ u \in Seq(UnlockRow) /\ Len(u) = n
          /\ \A k \in 1 .. n : Len(u[k]) = 3 /\ Len(u[k][3]) = 1
      BY <1>2, <2>1, SimpleUnlockShape
    <2> QED
      BY <1>1, <1>4, <2>1, <2>2
  <1>5. CASE par.chainOutput # <<>>
    <2>1. u = ChainUnlock(3, n) /\ Len(all) = n + 1
      BY <1>1, <1>2, <1>3, <1>5 DEF UnlockOf, Shift
    <2>2. /\ u \in Seq(UnlockRow) /\ Len(u) = n + 1
          /\ Len(u[1]) = 4 /\ u[1][3] = <<MaxByte>> /\ u[1][4] = <<0, 3, 0>>
          /\ \A k \in 2 .. n + 1 : Len(u[k]) = 3 /\ u[k][3] = <<0, 3>>
      BY <1>2, <2>1, ChainUnlockShape
    <2> QED
      BY <1>1, <1>5, <2>1, <2>2
  <1> QED
    BY <1>4, <1>5

LEMMA TransferGoesOn ==
    ASSUME NEW par, NEW tx, NEW state, NEW history, Spendable(par, tx, state, history),
           NEW ctx, IsTransfer(ctx, par, tx), par.chainOutput # <<>>
    PROVE  \E pred : /\ GoesOnWith(par, pred, tx) /\ GoesOnFirst(ctx, pred)
                     /\ Consumed(par)[1] = pred /\ ctx.tx = tx
                     /\ par.source = NewChainLock(ChainIDOf(pred))
  <1>1. PICK all, cont, sel : all = Consumed(par) /\ cont = Contents(all) /\ sel = Selected(par)
    OBVIOUS
  <1>2. PICK pred \in Recorded(history) : GoesOnWith(par, pred, tx)
    BY SpendableChain
  <1>3. ctx.tx = tx /\ ctx.consumed = cont
    BY <1>1 DEF IsTransfer, Context
  <1>4. par.chainOutput[1] = pred
    BY <1>2 DEF GoesOnWith
  <1>5. /\ Len(all) \in Nat /\ Len(all) = Len(sel) + 1 /\ Len(sel) \in Nat /\ all[1] = pred
    BY <1>1, <1>4, ConsumedPositions DEF Shift
  <1>6. 1 \in 1 .. Len(all)
    BY <1>5
  <1>7. OriginsNew(pred.out) /\ tx.inputs[1] = pred.id /\ Len(tx.inputs) = Len(all)
    BY <1>1, <1>5, <1>6, SpendableReads
  <1>8. FourthIsChain(pred)
    <2>1. 4 \in 1 .. Len(pred.out) /\ Len(pred.out) = 4 /\ ChainConstraintIndex(pred.out) = 3
          /\ pred.out[4].type = "chain"
      BY <1>2 DEF GoesOnWith
    <2> QED
      BY <1>7, <2>1 DEF OriginsNew, FourthIsChain
  <1>9. Len(cont) = Len(all) /\ cont[1] = pred.out
    BY <1>1, <1>5, <1>6, SpendableTotal
  <1>10. /\ Len(tx.outputs) = 2 /\ Len(tx.outputs[1]) = 4
         /\ tx.outputs[1][4] = NewChain(ChainIDOf(pred), 0, 3, 0)
    <2>1. ProducedLayout(par, tx.timestamp, tx.outputs)
      BY SpendableOutputs
    <2> QED
      BY <1>4, <2>1 DEF ProducedLayout
  <1>11. Len(tx.unlock) = Len(all) /\ Len(tx.unlock[1]) = 4 /\ tx.unlock[1][4] = <<0, 3, 0>>
    BY <1>1, UnlockRows
  <1>12. GoesOnFirst(ctx, pred)
    BY <1>3, <1>5, <1>7, <1>8, <1>9, <1>10, <1>11 DEF GoesOnFirst
  <1>13. par.source = NewChainLock(ChainIDOf(pred))
    <2>1. PICK id \in ChainIDsOf(pred.id, pred.out) : par.source = NewChainLock(id)
      BY <1>2 DEF GoesOnWith
    <2>2. PICK b \in 1 .. Len(pred.out) :
              /\ pred.out[b].type = "chain"
              /\ id = IF pred.out[b].id = ZeroHash THEN blake2b(pred.id) ELSE pred.out[b].id
      BY DEF ChainIDsOf, BlocksOf
    <2>3. OutputFromBytes(pred.out) /\ Len(pred.out) = 4
      BY <1>2 DEF GoesOnWith
    <2>4. /\ pred.out[1].type = "amount" /\ pred.out[2].type = "timestamp"
          /\ pred.out[3].type \in LockNames
      BY <2>3 DEF OutputFromBytes, At, ConstraintIndexAmount, ConstraintIndexTimestamp,
                  LockOf, ConstraintIndexLock, IsLock
    <2>5. b = 4
      <3>1. b # 1 /\ b # 2
        BY <2>2, <2>4
      <3>2. b # 3
        BY <2>2, <2>4 DEF LockNames
      <3> QED
        BY <2>3, <3>1, <3>2
    <2>6. id = ChainIDOf(pred)
      BY <1>8, <2>2, <2>5, FourthID
    <2> QED
      BY <2>1, <2>6
  <1> QED
    BY <1>1, <1>2, <1>3, <1>5, <1>12, <1>13

-----------------------------------------------------------------------------
(***************************************************************************)
(* Both sides hold.                                                        *)
(***************************************************************************)
LEMMA TransferSigned ==
    ASSUME NEW par, NEW tx, NEW state, NEW history, Spendable(par, tx, state, history),
           NEW ctx, IsTransfer(ctx, par, tx)
    PROVE  /\ SignedBy(ctx, par.key, tx.timestamp)
           /\ ctx.tx = tx /\ ctx.consumed = Contents(Consumed(par))
           /\ tx.signature.key = par.key
  <1>1. ctx.tx = tx /\ ctx.consumed = Contents(Consumed(par))
    BY DEF IsTransfer, Context
  <1>2. tx.signature = [key |-> par.key, valid |-> TRUE]
    BY SpendableFields
  <1> QED
    BY <1>1, <1>2 DEF SignedBy

\* The lock of what was selected is opened.
LEMMA SelectedOpens ==
    ASSUME NEW par, NEW tx, NEW state, NEW history, Spendable(par, tx, state, history),
           NEW ctx, IsTransfer(ctx, par, tx), NEW all, all = Consumed(par),
           NEW k \in 1 .. Len(all), k > Shift(par)
    PROVE  EvalConstraint(ctx, Path("consumed", k - 1, 2), par.source)
  <1>1. ctx.tx = tx /\ SignedBy(ctx, par.key, tx.timestamp)
    BY TransferSigned
  <1>2. Len(tx.unlock) = Len(all) /\ Len(all) \in Nat
    BY UnlockRows, SpendableReads
  <1>3. CASE par.chainOutput = <<>>
    <2>1. Len(tx.unlock[k]) = 3 /\ Len(tx.unlock[k][3]) = 1
      BY <1>3, UnlockRows
    <2>2. par.source = NewAddressED25519(par.key)
      BY <1>3 DEF Spendable, Ordinary
    <2>3. /\ Len(ctx.tx.unlock) \in Nat /\ k \in 1 .. Len(ctx.tx.unlock)
          /\ Len(ctx.tx.unlock[k]) \in Nat /\ Len(ctx.tx.unlock[k]) > 2 /\ Len(ctx.tx.unlock[k][3]) = 1
      BY <1>1, <1>2, <2>1
    <2> QED
      BY <1>1, <2>2, <2>3, AddressOpens
  <1>4. CASE par.chainOutput # <<>>
    <2>1. PICK pred : GoesOnFirst(ctx, pred) /\ par.source = NewChainLock(ChainIDOf(pred))
      BY <1>4, TransferGoesOn
    <2>2. k \in 2 .. Len(all)
      BY <1>2, <1>4 DEF Shift
    <2>3. Len(tx.unlock[k]) = 3 /\ tx.unlock[k][3] = <<0, 3>>
      BY <1>4, <2>2, UnlockRows
    <2>4. /\ k \in 2 .. Len(ctx.tx.unlock)
          /\ Len(ctx.tx.unlock[k]) \in Nat /\ Len(ctx.tx.unlock[k]) > 2
          /\ ctx.tx.unlock[k][3] = <<0, 3>>
      BY <1>1, <1>2, <2>2, <2>3
    <2> QED
      BY <2>1, <2>4, ChainOpens
  <1> QED
    BY <1>3, <1>4

\* Every block of every consumed output holds.
LEMMA SelectedHolds ==
    ASSUME NEW par, NEW tx, NEW state, NEW history, Spendable(par, tx, state, history),
           NEW ctx, IsTransfer(ctx, par, tx), NEW all, all = Consumed(par),
           NEW k \in 1 .. Len(all), k > Shift(par),
           NEW out, out = all[k].out, NEW d \in 1 .. Len(out)
    PROVE  EvalConstraint(ctx, Path("consumed", k - 1, d - 1), out[d])
  <1>1. PICK sel, i, x : sel = Selected(par) /\ x = Shift(par) /\ i = k - x
    OBVIOUS
  <1>2. /\ Len(all) = Len(sel) + x /\ x \in {0, 1} /\ Len(sel) \in Nat
        /\ \A j \in 1 .. Len(sel) : all[j + x] = sel[j]
    BY <1>1, ConsumedPositions
  <1>3. i \in 1 .. Len(sel) /\ i + x = k
    BY <1>1, <1>2
  <1>4. sel[i].out = out
    BY <1>2, <1>3
  <1>5. PICK ts : ts = tx.timestamp
    OBVIOUS
  <1>6. OutputFromBytes(out) /\ TimestampOf(out) < ts /\ EasilySpent(out, par.source, ts)
    BY <1>1, <1>3, <1>4, <1>5, SpendableSelected
  <1>7. out[3] = par.source
    BY <1>6 DEF EasilySpent, LockOf, At, ConstraintIndexLock
  <1>8. EvalConstraint(ctx, Path("consumed", k - 1, 2), out[3])
    BY <1>7, SelectedOpens
  <1>9. Len(out) \in Nat
    <2>1. out \in Output
      BY SpendableReads
    <2> QED
      BY <2>1 DEF Output, Array
  <1>10. d > 3 => \/ out[d].type = "senderAddressED25519"
                  \/ out[d].type = "timelock" /\ out[d].time < ts
    <2> SUFFICES ASSUME d > 3
                 PROVE  \/ out[d].type = "senderAddressED25519"
                        \/ out[d].type = "timelock" /\ out[d].time < ts
      OBVIOUS
    <2>1. PICK b : b = d - 1
      OBVIOUS
    <2>2. b \in ConstraintIndexLock + 1 .. Len(out) - 1 /\ b + 1 = d
      BY <1>9, <2>1 DEF ConstraintIndexLock
    <2>3. At(out, b) = out[d]
      BY <2>2 DEF At
    <2> QED
      BY <1>6, <2>2, <2>3 DEF EasilySpent
  <1>11. SignedBy(ctx, par.key, ts)
    BY <1>5, TransferSigned
  <1>12. d \in Nat /\ d > 0
    BY <1>9
  <1> QED
    BY <1>6, <1>8, <1>10, <1>11, <1>12, InputHolds

LEMMA ChainOutputSpends ==
    ASSUME NEW par, NEW tx, NEW state, NEW history, Spendable(par, tx, state, history),
           NEW ctx, IsTransfer(ctx, par, tx), par.chainOutput # <<>>,
           NEW out, out = Consumed(par)[1].out, NEW d \in 1 .. Len(out)
    PROVE  EvalConstraint(ctx, Path("consumed", 0, d - 1), out[d])
  <1>1. PICK pred : /\ GoesOnWith(par, pred, tx) /\ GoesOnFirst(ctx, pred)
                    /\ Consumed(par)[1] = pred /\ ctx.tx = tx
    BY TransferGoesOn
  <1>2. PICK ts, all : ts = tx.timestamp /\ all = Consumed(par)
    OBVIOUS
  <1>3. /\ OutputFromBytes(out) /\ Len(out) = 4 /\ TimestampOf(out) < ts
        /\ LockOf(out) = NewAddressED25519(par.key)
    BY <1>1, <1>2 DEF GoesOnWith
  <1>4. EvalConstraint(ctx, Path("consumed", 0, 2), out[3])
    <2>1. Len(tx.unlock) = Len(all) /\ Len(all) \in Nat
      BY <1>2, UnlockRows, SpendableReads
    <2>2. Len(ctx.tx.unlock) > 0
      BY <1>1 DEF GoesOnFirst
    <2>3. Len(tx.unlock[1]) = 4 /\ tx.unlock[1][3] = <<MaxByte>>
      BY <1>2, UnlockRows
    <2>4. PICK one : one = 1 /\ one - 1 = 0
      OBVIOUS
    <2>5. /\ Len(ctx.tx.unlock) \in Nat /\ one \in 1 .. Len(ctx.tx.unlock)
          /\ Len(ctx.tx.unlock[one]) \in Nat /\ Len(ctx.tx.unlock[one]) > 2
          /\ Len(ctx.tx.unlock[one][3]) = 1
      <3>1. PICK u : u = tx.unlock
        OBVIOUS
      <3>2. ctx.tx.unlock = u /\ Len(u) \in Nat /\ Len(u) > 0
        BY <1>1, <2>1, <2>2, <3>1
      <3>3. Len(u[one]) = 4 /\ u[one][3] = <<MaxByte>>
        BY <2>3, <2>4, <3>1
      <3>4. Len(<<MaxByte>>) = 1
        OBVIOUS
      <3>5. Len(u[one]) \in Nat /\ Len(u[one]) > 2 /\ Len(u[one][3]) = 1
        BY <3>3, <3>4
      <3>6. one \in 1 .. Len(u)
        BY <2>4, <3>2
      <3> QED
        BY <3>2, <3>5, <3>6
    <2>6. SignedBy(ctx, par.key, ts)
      BY <1>2, TransferSigned
    <2>7. out[3] = NewAddressED25519(par.key)
      BY <1>3 DEF LockOf, At, ConstraintIndexLock
    <2>8. EvalConstraint(ctx, Path("consumed", one - 1, 2), out[3])
      BY <2>5, <2>6, <2>7, AddressOpens
    <2> QED
      BY <2>4, <2>8
  <1>5. EvalConstraint(ctx, Path("consumed", 0, 3), out[4])
    BY <1>1, ChainHandsOver
  <1>6. SignedBy(ctx, par.key, ts)
    BY <1>2, TransferSigned
  <1>7. d > 3 => d = 4 /\ d - 1 = 3
    BY <1>3
  <1>8. d \in Nat /\ d > 0
    BY <1>3
  <1> QED
    BY <1>3, <1>4, <1>5, <1>6, <1>7, <1>8, InputHolds

LEMMA ConsumedSide ==
    ASSUME NEW par, NEW tx, NEW state, NEW history, Spendable(par, tx, state, history),
           NEW ctx, IsTransfer(ctx, par, tx), NEW cont, cont = Contents(Consumed(par))
    PROVE  SideHolds(ctx, "consumed", cont)
  <1>1. PICK all : all = Consumed(par)
    OBVIOUS
  <1>2. /\ TotalReady(cont) /\ Len(cont) = Len(all) /\ AmountsOf(cont) <= MaxUint64
        /\ \A k \in 1 .. Len(all) : cont[k] = all[k].out
    BY <1>1, SpendableTotal
  <1>3. Outputs(ctx, "consumed") = cont
    BY TransferSigned DEF Outputs
  <1>4. Len(cont) \in Nat /\ DOMAIN cont = 1 .. Len(cont)
        /\ \A k \in 1 .. Len(cont) : AmountOf(cont[k]) \in Nat
    BY <1>2 DEF TotalReady
  <1>5. \A k \in 1 .. Len(cont) : OutputParses(cont[k])
    BY <1>1, <1>2, SpendableReads
  <1>6. ASSUME NEW k \in 1 .. Len(cont), NEW d \in 1 .. Len(cont[k])
        PROVE  EvalConstraint(ctx, Path("consumed", k - 1, d - 1), cont[k][d])
    <2>1. PICK out : out = all[k].out
      OBVIOUS
    <2>2. cont[k] = out /\ k \in 1 .. Len(all)
      BY <1>2, <2>1
    <2>3. Shift(par) \in {0, 1}
      BY DEF Shift
    <2>4. CASE k > Shift(par)
      BY <1>1, <2>1, <2>2, <2>4, SelectedHolds
    <2>5. CASE ~ k > Shift(par)
      <3>1. k = 1 /\ par.chainOutput # <<>> /\ k - 1 = 0
        BY <1>4, <2>3, <2>5 DEF Shift
      <3>2. out = Consumed(par)[1].out
        BY <1>1, <2>1, <3>1
      <3>3. d \in 1 .. Len(out)
        BY <2>2
      <3>4. EvalConstraint(ctx, Path("consumed", 0, d - 1), out[d])
        BY <3>1, <3>2, <3>3, ChainOutputSpends
      <3> QED
        BY <2>2, <3>1, <3>4
    <2> QED
      BY <2>4, <2>5
  <1> QED
    BY <1>2, <1>3, <1>4, <1>5, <1>6 DEF SideHolds

\* An output that holds where it is produced.
ProducedHolds(ctx, s, out) ==
    /\ OutputParses(out) /\ AmountOf(out) \in Nat
    /\ \A b, d \in 1 .. Len(out) : out[b] = out[d] => b = d
    /\ \A d \in 1 .. Len(out) : EvalConstraint(ctx, Path("produced", s - 1, d - 1), out[d])

\* What is known of the outputs a transfer produces.
ProducedWell(par, tx, outs) ==
    /\ \A s \in 1 .. Len(outs) : AmountOf(outs[s]) >= Len(outs[s])
    /\ \A b, d \in DOMAIN outs[Len(outs)] : outs[Len(outs)][b] = outs[Len(outs)][d] => b = d
    /\ \A c \in ToSet(par.addConstraints) : HoldsWhenProduced(c, tx)
    /\ par.addConstraints \in Seq(Block) /\ par.lock \in Lock
    /\ LeftOver(par) \in Nat /\ AdjustedAmount(par) \in Nat
    /\ ProducedLayout(par, tx.timestamp, outs)

LEMMA ProducedFacts ==
    ASSUME NEW par, NEW tx, NEW state, NEW history, Spendable(par, tx, state, history),
           NEW outs, outs = tx.outputs
    PROVE  ProducedWell(par, tx, outs)
  <1>1. ProducedInOrder(par, tx)
    BY DEF Spendable, Ordinary
  <1>2. \A s \in 1 .. Len(outs) : AmountOf(outs[s]) >= Len(outs[s])
    BY <1>1 DEF ProducedInOrder, MinimumStorageDeposit, OutputSize
  <1>3. \A b, d \in DOMAIN outs[Len(outs)] : outs[Len(outs)][b] = outs[Len(outs)][d] => b = d
    BY <1>1 DEF ProducedInOrder, IsInjective, Last
  <1>4. par.addConstraints \in Seq(Block) /\ par.lock \in Lock
    <2>1. (\A oid \in DOMAIN history : history[oid] \in Output) /\ DraftRight(par, history)
      BY DEF Spendable, SoundState
    <2> QED
      BY <2>1, DraftParts
  <1>5. LeftOver(par) \in Nat /\ AdjustedAmount(par) \in Nat
    BY SpendableTotal
  <1> QED
    BY <1>1, <1>2, <1>3, <1>4, <1>5, SpendableOutputs DEF ProducedInOrder, ProducedWell

\* The main output, last.
LEMMA MainHolds ==
    ASSUME NEW par, NEW tx, NEW state, NEW history, Spendable(par, tx, state, history),
           NEW ctx, IsTransfer(ctx, par, tx), NEW s, s = Len(tx.outputs),
           NEW m, m = tx.outputs[s]
    PROVE  ProducedHolds(ctx, s, m)
  <1>1. PICK outs, ts, a, x, t : /\ outs = tx.outputs /\ ts = tx.timestamp /\ a = AdjustedAmount(par)
                                 /\ x = (IF par.addSender THEN 1 ELSE 0) /\ t = par.addConstraints
    OBVIOUS
  <1>2. s \in {1, 2} /\ s \in 1 .. Len(outs)
    <2>1. ProducedLayout(par, ts, outs)
      BY <1>1, SpendableOutputs
    <2>2. Len(outs) \in {1, 2} /\ s = Len(outs)
      BY <1>1, <2>1 DEF ProducedLayout
    <2> QED
      BY <2>2
  <1>3. /\ AmountOf(m) >= Len(m)
        /\ \A b, d \in DOMAIN m : m[b] = m[d] => b = d
        /\ \A c \in ToSet(t) : HoldsWhenProduced(c, tx)
        /\ t \in Seq(Block) /\ par.lock \in Lock /\ a \in Nat
        /\ MainBlocks(par, a, ts, m)
    <2>1. ProducedWell(par, tx, outs)
      BY <1>1, ProducedFacts
    <2>2. outs[s] = m /\ outs[Len(outs)] = m
      BY <1>1
    <2>3. MainBlocks(par, AdjustedAmount(par), ts, m)
      BY <1>1, <2>1, <2>2 DEF ProducedWell, ProducedLayout
    <2> QED
      BY <1>1, <1>2, <2>1, <2>2, <2>3 DEF ProducedWell
  <1>4. Len(t) \in Nat /\ DOMAIN t = 1 .. Len(t)
    BY <1>3
  <1>5. /\ Len(m) = 3 + x + Len(t) /\ DOMAIN m = 1 .. Len(m) /\ x \in {0, 1}
        /\ m[1] = NewAmount(a) /\ m[2] = NewTimestamp(ts) /\ m[3] = par.lock
        /\ x = 1 => m[4] = NewSenderED25519(par.key)
        /\ \A k \in 1 .. Len(t) : m[k + 3 + x] = t[k]
    BY <1>1, <1>3 DEF MainBlocks
  <1>6. Len(m) \in Nat /\ Len(m) > 2 /\ m[3] \in Lock
    BY <1>3, <1>4, <1>5
  <1>7. AmountOf(m) = a
    BY <1>5 DEF AmountOf, At, ConstraintIndexAmount, NewAmount
  <1>8. a >= Len(m)
    BY <1>3, <1>7
  <1>9. OutputParses(m) /\ AmountOf(m) \in Nat
    BY <1>3, <1>5, <1>6, <1>7, <1>8, ParsesShape
  <1>10. SignedBy(ctx, par.key, ts) /\ ctx.tx = tx /\ tx.signature.key = par.key
    BY <1>1, TransferSigned
  <1>11. ASSUME NEW d \in 1 .. Len(m)
         PROVE  EvalConstraint(ctx, Path("produced", s - 1, d - 1), m[d])
    <2>1. CASE d \in 1 .. 3
      <3>1. Len(ctx.tx.outputs) \in Nat /\ s \in 1 .. Len(ctx.tx.outputs) /\ m = ctx.tx.outputs[s]
        BY <1>1, <1>2, <1>10
      <3> QED
        BY <1>5, <1>6, <1>8, <1>10, <2>1, <3>1, FirstThreeHold
    <2>2. CASE d > 3
      <3>1. PICK b, i : b = d - 1 /\ i = s - 1
        OBVIOUS
      <3>2. i # MaxByte
        BY <1>2, <3>1, MaxByteAssumption
      <3>3. HoldsWhenProduced(m[d], tx)
        <4>1. CASE x = 1 /\ d = 4
          <5>1. m[d] = NewSenderED25519(tx.signature.key)
            BY <1>5, <1>10, <4>1
          <5> QED
            BY <5>1 DEF HoldsWhenProduced
        <4>2. CASE ~ (x = 1 /\ d = 4)
          <5>1. PICK k : k = d - 3 - x
            OBVIOUS
          <5>2. k \in 1 .. Len(t) /\ k + 3 + x = d
            BY <1>4, <1>5, <2>2, <4>2, <5>1
          <5>3. m[d] = t[k]
            BY <1>5, <5>2
          <5>4. t[k] \in ToSet(t)
            BY <1>4, <5>2 DEF ToSet
          <5> QED
            BY <1>3, <5>3, <5>4
        <4> QED
          BY <4>1, <4>2
      <3>4. HoldsWhenProduced(m[d], ctx.tx)
        BY <1>10, <3>3
      <3>5. EvalConstraint(ctx, Path("produced", i, b), m[d])
        BY <3>2, <3>4, AddedHolds
      <3> QED
        BY <3>1, <3>5
    <2> QED
      BY <2>1, <2>2
  <1> QED
    BY <1>3, <1>5, <1>9, <1>11 DEF ProducedHolds

\* What is left over, first.
LEMMA ChangeHolds ==
    ASSUME NEW par, NEW tx, NEW state, NEW history, Spendable(par, tx, state, history),
           NEW ctx, IsTransfer(ctx, par, tx), Len(tx.outputs) = 2,
           NEW out, out = tx.outputs[1]
    PROVE  ProducedHolds(ctx, 1, out)
  <1>1. PICK outs, ts, a, one : /\ outs = tx.outputs /\ ts = tx.timestamp /\ a = LeftOver(par)
                                /\ one = 1 /\ one - 1 = 0
    OBVIOUS
  <1>2. one \in 1 .. Len(outs) /\ outs[one] = out
    BY <1>1
  <1>3. /\ AmountOf(out) >= Len(out) /\ a \in Nat
        /\ DOMAIN out = 1 .. Len(out)
        /\ out[1] = NewAmount(a) /\ out[2] = NewTimestamp(ts) /\ out[3] \in Lock
        /\ par.chainOutput = <<>> => Len(out) = 3
        /\ par.chainOutput # <<>> =>
               Len(out) = 4 /\ out[4] = NewChain(ChainIDOf(par.chainOutput[1]), 0, 3, 0)
    BY <1>1, <1>2, ProducedFacts DEF ProducedWell, ProducedLayout
  <1>4. Len(out) \in {3, 4}
    BY <1>3
  <1>5. AmountOf(out) = a
    BY <1>3 DEF AmountOf, At, ConstraintIndexAmount, NewAmount
  <1>6. Len(out) \in Nat /\ Len(out) > 2 /\ a >= Len(out)
    BY <1>3, <1>4, <1>5
  <1>7. OutputParses(out) /\ AmountOf(out) \in Nat
    BY <1>3, <1>5, <1>6, ParsesShape
  <1>8. SignedBy(ctx, par.key, ts) /\ ctx.tx = tx
    BY <1>1, TransferSigned
  <1>9. ASSUME NEW d \in 1 .. 3
        PROVE  EvalConstraint(ctx, Path("produced", 0, d - 1), out[d])
    <2>1. Len(ctx.tx.outputs) \in Nat /\ one \in 1 .. Len(ctx.tx.outputs) /\ out = ctx.tx.outputs[one]
      BY <1>1, <1>2, <1>8
    <2>2. EvalConstraint(ctx, Path("produced", one - 1, d - 1), out[d])
      BY <1>3, <1>6, <1>8, <2>1, FirstThreeHold
    <2> QED
      BY <1>1, <2>2
  <1>10. ASSUME Len(out) = 4
         PROVE  EvalConstraint(ctx, Path("produced", 0, 3), out[4])
    <2>1. par.chainOutput # <<>>
      BY <1>3, <1>10
    <2>2. PICK pred : GoesOnWith(par, pred, tx) /\ GoesOnFirst(ctx, pred)
      BY <2>1, TransferGoesOn
    <2>3. out[4] = NewChain(ChainIDOf(pred), 0, 3, 0)
      BY <1>3, <2>1, <2>2 DEF GoesOnWith
    <2> QED
      BY <2>2, <2>3, ChainTakesOver
  <1>11. ASSUME NEW d \in 1 .. Len(out)
         PROVE  EvalConstraint(ctx, Path("produced", 0, d - 1), out[d])
    <2>1. d \in 1 .. 3 \/ (Len(out) = 4 /\ d = 4 /\ d - 1 = 3)
      <3>1. PICK n : n = Len(out)
        OBVIOUS
      <3>2. n \in {3, 4} /\ d \in 1 .. n
        BY <1>4, <3>1
      <3>3. d \in 1 .. 3 \/ (n = 4 /\ d = 4 /\ d - 1 = 3)
        BY <3>2
      <3> QED
        BY <3>1, <3>3
    <2> QED
      BY <1>9, <1>10, <2>1
  <1>12. ASSUME NEW b \in 1 .. Len(out), NEW d \in 1 .. Len(out), out[b] = out[d]
         PROVE  b = d
    <2>1. out[1].type = "amount" /\ out[2].type = "timestamp"
      BY <1>3 DEF NewAmount, NewTimestamp
    <2>2. out[3].type \in {"addressED25519", "deadlineLock", "chainLock"}
      BY <1>3 DEF Lock, IsLock, LockNames
    <2>3. Len(out) = 4 => out[4].type = "chain"
      BY <1>3 DEF NewChain
    <2>4. PICK n : n = Len(out)
      OBVIOUS
    <2>5. n \in {3, 4} /\ b \in 1 .. n /\ d \in 1 .. n
      BY <1>4, <2>4
    <2>6. n = 4 => out[4].type = "chain"
      BY <2>3, <2>4
    <2>7. b \in {1, 2, 3} \/ (n = 4 /\ b = 4)
      BY <2>5
    <2>8. d \in {1, 2, 3} \/ (n = 4 /\ d = 4)
      BY <2>5
    <2> QED
      BY <1>12, <2>1, <2>2, <2>6, <2>7, <2>8
  <1>13. \A d \in 1 .. Len(out) : EvalConstraint(ctx, Path("produced", one - 1, d - 1), out[d])
    BY <1>1, <1>11
  <1> QED
    BY <1>1, <1>7, <1>12, <1>13 DEF ProducedHolds

LEMMA ProducedSide ==
    ASSUME NEW par, NEW tx, NEW state, NEW history, Spendable(par, tx, state, history),
           NEW ctx, IsTransfer(ctx, par, tx), NEW outs, outs = tx.outputs
    PROVE  /\ SideHolds(ctx, "produced", outs)
           /\ AmountsOf(outs) = AmountsOf(Contents(Consumed(par)))
  <1>1. PICK cont : cont = Contents(Consumed(par))
    OBVIOUS
  <1>2. /\ LeftOver(par) \in Nat /\ AdjustedAmount(par) \in Nat
        /\ AmountsOf(cont) = LeftOver(par) + AdjustedAmount(par)
        /\ AmountsOf(cont) <= MaxUint64
    BY <1>1, SpendableTotal
  <1>3. ProducedLayout(par, tx.timestamp, outs)
    BY SpendableOutputs
  <1>4. TotalReady(outs) /\ AmountsOf(outs) = LeftOver(par) + AdjustedAmount(par)
    BY <1>2, <1>3, ProducedTotal
  <1>5. Len(outs) \in {1, 2} /\ DOMAIN outs = 1 .. Len(outs)
    BY <1>3 DEF ProducedLayout
  <1>6. Outputs(ctx, "produced") = outs
    BY TransferSigned DEF Outputs
  <1>7. ASSUME NEW k \in 1 .. Len(outs)
        PROVE  ProducedHolds(ctx, k, outs[k])
    <2>1. CASE k = Len(outs)
      BY <2>1, MainHolds
    <2>2. CASE k # Len(outs)
      <3>1. Len(outs) = 2 /\ k = 1
        <4>1. PICK n : n = Len(outs)
          OBVIOUS
        <4>2. n \in {1, 2} /\ k \in 1 .. n /\ k # n
          BY <1>5, <2>2, <4>1
        <4>3. n = 2 /\ k = 1
          BY <4>2
        <4> QED
          BY <4>1, <4>3
      <3>2. PICK one, out : one = 1 /\ out = outs[1]
        OBVIOUS
      <3>3. ProducedHolds(ctx, 1, out)
        BY <3>1, <3>2, ChangeHolds
      <3> QED
        BY <3>1, <3>2, <3>3
    <2> QED
      BY <2>1, <2>2
  <1>8. AmountsOf(outs) <= MaxUint64
    BY <1>2, <1>4
  <1>9. \A k \in 1 .. Len(outs) :
            /\ OutputParses(outs[k]) /\ AmountOf(outs[k]) \in Nat
            /\ \A b, d \in 1 .. Len(outs[k]) : outs[k][b] = outs[k][d] => b = d
            /\ \A d \in 1 .. Len(outs[k]) :
                   EvalConstraint(ctx, Path("produced", k - 1, d - 1), outs[k][d])
    BY <1>7 DEF ProducedHolds
  <1> QED
    BY <1>1, <1>2, <1>4, <1>5, <1>6, <1>8, <1>9 DEF SideHolds

-----------------------------------------------------------------------------
(***************************************************************************)
(* A transaction that parses.                                              *)
(***************************************************************************)
LEMMA PlainBlocks ==
    ASSUME NEW a \in Amount, NEW ts \in Nat, NEW key \in Addresses
    PROVE  /\ NewAmount(a) \in Block /\ NewTimestamp(ts) \in Block
           /\ NewSenderED25519(key) \in Block
  BY DEF NewAmount, NewTimestamp, NewSenderED25519, Block, BasicBlock

\* The main output has all the blocks it can have, at most.
LEMMA MainTyped ==
    ASSUME NEW par, NEW tx, NEW state, NEW history, Spendable(par, tx, state, history),
           AdjustedAmount(par) \in Amount,
           NEW m, m = Target(par)
    PROVE  m \in Output
  <1>1. PICK ts, a, t, z : /\ ts = tx.timestamp /\ a = AdjustedAmount(par) /\ z = 0
                           /\ t = par.addConstraints
    OBVIOUS
  <1>2. t \in Seq(Block) /\ par.lock \in Lock /\ par.key \in Addresses
    <2>1. (\A oid \in DOMAIN history : history[oid] \in Output) /\ DraftRight(par, history)
      BY DEF Spendable, SoundState
    <2> QED
      BY <1>1, <2>1, DraftParts
  <1>3. ts = TransferTime(par) /\ ts \in Nat
    BY <1>1, SpendableFields, SpendableSelected
  <1>4. m = MainOutput(par, a, ts)
    BY <1>1, <1>3 DEF Target
  <1>5. Len(m) <= MaxByte + 1
    <2>1. PICK e : e = MainOutput(par, z, z)
      OBVIOUS
    <2>2. MainBlocks(par, z, z, e) /\ MainBlocks(par, a, ts, m)
      BY <1>1, <1>2, <1>4, <2>1, MainOutputShape
    <2>3. Len(e) = Len(m)
      BY <2>2 DEF MainBlocks
    <2>4. CanPushConstraints(par)
      BY DEF Spendable, CanMakeTransfer, CanMakeSimpleTransfer, CanMakeChainTransfer
    <2>5. Len(e) <= MaxByte + 1
      BY <1>1, <2>1, <2>4 DEF CanPushConstraints
    <2> QED
      BY <2>3, <2>5
  <1>6. PICK c1, c2, c3, c4 : /\ c1 = NewAmount(a) /\ c2 = NewTimestamp(ts) /\ c3 = par.lock
                              /\ c4 = NewSenderED25519(par.key)
    OBVIOUS
  <1>7. c1 \in Block /\ c2 \in Block /\ c3 \in Block /\ c4 \in Block
    <2>1. c1 \in Block /\ c2 \in Block /\ c4 \in Block
      BY <1>1, <1>2, <1>3, <1>6, PlainBlocks
    <2> QED
      BY <1>2, <1>6, <2>1 DEF Lock
  <1>8. PICK b, s : b = <<c1, c2, c3>> /\ s = (IF par.addSender THEN <<c4>> ELSE <<>>)
    OBVIOUS
  <1>9. b \in Seq(Block) /\ s \in Seq(Block)
    BY <1>7, <1>8
  <1>10. PICK r, e : r = b \o s /\ e = r \o t
    OBVIOUS
  <1>11. r \in Seq(Block)
    BY <1>9, <1>10, Join
  <1>12. e \in Seq(Block)
    BY <1>2, <1>10, <1>11, Join
  <1>13. e = m
    BY <1>1, <1>4, <1>6, <1>8, <1>10, Zenon DEF MainOutput, OutputBasic
  <1> QED
    BY <1>5, <1>12, <1>13 DEF Output, Array

LEMMA SmallOutput ==
    ASSUME NEW out \in Seq(Block), NEW n \in 0 .. 4, Len(out) = n
    PROVE  out \in Output
  <1>1. n <= MaxByte + 1
    BY MaxByteAssumption
  <1> QED
    BY <1>1 DEF Output, Array

LEMMA PutIsFunction ==
    ASSUME NEW arr, NEW i, NEW c, NEW r, r = PutConstraint(arr, i, c)
    PROVE  r = [k \in DOMAIN r |-> r[k]]
  BY DEF PutConstraint

\* So has what is left over.
LEMMA ChangeTyped ==
    ASSUME NEW par, NEW tx, NEW state, NEW history, Spendable(par, tx, state, history),
           LeftOver(par) \in Amount, Len(tx.outputs) = 2,
           NEW out, out = tx.outputs[1]
    PROVE  out \in Output
  <1>1. PICK outs, ts, a, c : /\ outs = tx.outputs /\ ts = tx.timestamp /\ a = LeftOver(par)
                              /\ c = Change(par)
    OBVIOUS
  <1>2. (\A oid \in DOMAIN history : history[oid] \in Output) /\ DraftRight(par, history)
    BY DEF Spendable, SoundState
  <1>3. ts = TransferTime(par) /\ ts \in Nat /\ outs = Change(par) \o <<Target(par)>>
    BY <1>1, SpendableFields, SpendableSelected
  <1>4. c = <<out>>
    BY <1>1, <1>2, <1>3, TransferOutputsShape
  <1>5. /\ DOMAIN out = 1 .. Len(out) /\ out[1] = NewAmount(a) /\ out[2] = NewTimestamp(ts)
        /\ out[3] \in Lock
        /\ par.chainOutput = <<>> => Len(out) = 3
        /\ par.chainOutput # <<>> =>
               Len(out) = 4 /\ out[4] = NewChain(ChainIDOf(par.chainOutput[1]), 0, 3, 0)
    BY <1>1, ProducedFacts DEF ProducedWell, ProducedLayout
  <1>6. out[1] \in Block /\ out[2] \in Block /\ out[3] \in Block
    <2>1. NewAmount(a) \in Block /\ NewTimestamp(ts) \in Block
      BY <1>1, <1>2, <1>3, DraftParts, PlainBlocks
    <2> QED
      BY <1>5, <2>1 DEF Lock
  <1>7. PICK n : n = Len(out)
    OBVIOUS
  <1>8. CASE par.chainOutput = <<>>
    <2>1. PICK r : r = Remainder(par, a, ts)
      OBVIOUS
    <2>2. c = <<r>>
      BY <1>1, <1>3, <1>4, <1>8, <2>1 DEF Change
    <2>3. out = r
      BY <1>4, <2>2
    <2>4. PICK c1, c2, c3 : c1 = NewAmount(a) /\ c2 = NewTimestamp(ts) /\ c3 = par.source
      OBVIOUS
    <2>5. out = <<c1, c2, c3>>
      BY <2>1, <2>3, <2>4, Zenon DEF Remainder, OutputBasic
    <2>6. c1 \in Block /\ c2 \in Block /\ c3 \in Block
      BY <1>6, <2>5
    <2>7. out \in Seq(Block) /\ Len(out) = 3
      BY <2>5, <2>6
    <2>8. PICK three : three = 3
      OBVIOUS
    <2>9. three \in 0 .. 4 /\ Len(out) = three
      BY <2>7, <2>8
    <2> QED
      BY <2>7, <2>9, SmallOutput
  <1>9. CASE par.chainOutput # <<>>
    <2>1. PICK pred \in Recorded(history) : GoesOnWith(par, pred, tx)
      BY <1>9, SpendableChain
    <2>2. PICK ctx : IsTransfer(ctx, par, tx)
      BY DEF IsTransfer
    <2>3. PICK prior : GoesOnWith(par, prior, tx) /\ GoesOnFirst(ctx, prior) /\ Consumed(par)[1] = prior
      BY <1>9, <2>2, TransferGoesOn
    <2>4. prior = par.chainOutput[1] /\ FourthIsChain(prior) /\ prior.out \in Output /\ Len(prior.out) = 4
      BY <2>3 DEF GoesOnWith, GoesOnFirst
    <2>5. prior.id \in OutputID
      <3>1. PICK all : all = Consumed(par)
        OBVIOUS
      <3>2. Len(all) \in Nat /\ Len(all) > 0
        BY <1>9, <3>1, ConsumedPositions DEF Shift
      <3>3. PICK one : one = 1
        OBVIOUS
      <3>4. one \in 1 .. Len(all)
        BY <3>2, <3>3
      <3>5. all[one].id \in OutputID
        BY <3>1, <3>4, SpendableReads
      <3> QED
        BY <2>3, <3>1, <3>3, <3>5
    <2>6. ChainIDOf(prior) \in ChainID
      <3>1. PICK b : b = prior.out[4]
        OBVIOUS
      <3>2. 4 \in 1 .. Len(prior.out) /\ prior.out \in Seq(Block)
        BY <2>4 DEF Output, Array
      <3>3. b \in Block /\ b.type = "chain"
        BY <2>4, <3>1, <3>2, SeqElements DEF FourthIsChain
      <3>4. b.id \in ChainID
        BY <3>3, ChainBlockTyped
      <3>5. blake2b(prior.id) \in ChainID
        <4>1. <<prior.id>> \in Seq(OutputID) /\ Len(<<prior.id>>) = 1
          BY <2>5
        <4> QED
          BY <4>1 DEF blake2b, ChainID
      <3> QED
        BY <2>4, <3>1, <3>4, <3>5, FourthID
    <2>7. out[4] \in Block
      <3>1. PICK id, p, b : id = ChainIDOf(prior) /\ p = 0 /\ b = 3
        OBVIOUS
      <3>2. p \in Byte /\ b \in Byte
        BY <3>1, MaxByteAssumption DEF Byte
      <3>3. NewChain(id, p, b, p) \in Block
        BY <2>6, <3>1, <3>2, ChainTyped
      <3> QED
        BY <1>5, <1>9, <2>4, <3>1, <3>3
    <2>8. PICK s : s = ChainSuccessor(prior, a, ts, 0)
      OBVIOUS
    <2>9. c = <<s>>
      BY <1>1, <1>3, <1>9, <2>4, <2>8 DEF Change
    <2>10. out = s
      BY <1>4, <2>9
    <2>11. \E arr, i, e : out = PutConstraint(arr, i, e)
      <3>1. PICK arr, i, e : /\ arr = WithTimestamp(WithAmount(prior.out, a), ts)
                             /\ i = ChainConstraintIndex(prior.out)
                             /\ e = NewChain(ChainIDOf(prior), 0, ChainConstraintIndex(prior.out), 0)
        OBVIOUS
      <3>2. out = PutConstraint(arr, i, e)
        BY <2>8, <2>10, <3>1, Zenon DEF ChainSuccessor
      <3> QED
        BY <3>2
    <2>12. out = [k \in DOMAIN out |-> out[k]]
      BY <2>11, PutIsFunction
    <2>13. n = 4 /\ DOMAIN out = 1 .. n
      BY <1>5, <1>7, <1>9
    <2>14. \A k \in 1 .. n : out[k] \in Block
      BY <1>6, <2>7, <2>13
    <2>15. out \in [1 .. n -> Block] /\ n \in Nat
      BY <2>12, <2>13, <2>14
    <2>16. out \in Seq(Block) /\ Len(out) = n
      BY <2>15, FunctionIsSeq
    <2> QED
      BY <2>13, <2>16, SmallOutput
  <1> QED
    BY <1>8, <1>9

LEMMA TransferTyped ==
    ASSUME NEW par, NEW tx, NEW state, NEW history, Spendable(par, tx, state, history)
    PROVE  tx \in Transaction
  <1>1. PICK all, sel, outs, cont, sh : /\ all = Consumed(par) /\ sel = Selected(par)
                                       /\ outs = tx.outputs /\ cont = Contents(all) /\ sh = Shift(par)
    OBVIOUS
  <1>2. (\A oid \in DOMAIN history : history[oid] \in Output) /\ DraftRight(par, history)
    BY DEF Spendable, SoundState
  <1>3. /\ Len(tx.inputs) = Len(all) /\ Len(all) \in Nat
        /\ \A k \in 1 .. Len(all) :
               tx.inputs[k] = all[k].id /\ all[k].id \in OutputID /\ all[k].out \in Output
    BY <1>1, SpendableReads
  <1>4. /\ TotalReady(cont) /\ Len(cont) = Len(all)
        /\ \A k \in 1 .. Len(all) : cont[k] = all[k].out
        /\ LeftOver(par) \in Nat /\ AdjustedAmount(par) \in Nat
        /\ AmountsOf(cont) = LeftOver(par) + AdjustedAmount(par)
        /\ AmountsOf(cont) <= MaxUint64
    BY <1>1, SpendableTotal
  <1>5. LeftOver(par) \in Amount /\ AdjustedAmount(par) \in Amount
    <2>1. PICK l, a : l = LeftOver(par) /\ a = AdjustedAmount(par)
      OBVIOUS
    <2>2. l \in Nat /\ a \in Nat /\ l + a <= MaxUint64
      BY <1>4, <2>1
    <2>3. l \in 0 .. MaxUint64 /\ a \in 0 .. MaxUint64
      BY <2>2, MaxUint64Assumption
    <2> QED
      BY <2>1, <2>3 DEF Amount
  <1>6. Len(all) <= MaxByte + 1
    <2>1. Len(all) = Len(sel) + sh /\ Len(sel) \in Nat /\ sh \in {0, 1}
      BY <1>1, ConsumedPositions
    <2>2. CanMakeTransfer(par)
      BY DEF Spendable
    <2>3. CASE par.chainOutput = <<>>
      <3>1. Len(sel) <= MaxByte + 1
        BY <1>1, <2>2, <2>3 DEF CanMakeTransfer, CanMakeSimpleTransfer, Selected
      <3>2. sh = 0
        BY <1>1, <2>3 DEF Shift
      <3> QED
        BY <2>1, <3>1, <3>2
    <2>4. CASE par.chainOutput # <<>>
      <3>1. Len(sel) <= MaxByte
        BY <1>1, <2>2, <2>4 DEF CanMakeTransfer, CanMakeChainTransfer, Selected
      <3>2. sh = 1
        BY <1>1, <2>4 DEF Shift
      <3> QED
        BY <2>1, <3>1, <3>2, MaxByteAssumption
    <2> QED
      BY <2>3, <2>4
  <1>7. ProducedLayout(par, tx.timestamp, outs)
    BY <1>1, SpendableOutputs
  <1>8. Len(all) # 0
    <2>1. SUFFICES ASSUME Len(all) = 0 PROVE FALSE
      OBVIOUS
    <2>2. AmountsOf(cont) = 0
      BY <1>4, <2>1, TotalTyped
    <2>3. PICK a, m, s : a = AdjustedAmount(par) /\ s = Len(outs) /\ m = outs[s]
      OBVIOUS
    <2>4. a = 0
      <3>1. PICK l : l = LeftOver(par)
        OBVIOUS
      <3>2. l \in Nat /\ a \in Nat /\ l + a = 0
        BY <1>4, <2>2, <2>3, <3>1
      <3> QED
        BY <3>2
    <2>5. MainBlocks(par, a, tx.timestamp, m) /\ s \in {1, 2}
      BY <1>7, <2>3 DEF ProducedLayout
    <2>6. ProducedWell(par, tx, outs)
      BY <1>1, ProducedFacts
    <2>7. AmountOf(m) >= Len(m)
      BY <2>3, <2>5, <2>6 DEF ProducedWell
    <2>8. AmountOf(m) = a
      <3>1. m[1] = NewAmount(a)
        BY <2>5 DEF MainBlocks
      <3> QED
        BY <3>1 DEF AmountOf, At, ConstraintIndexAmount, NewAmount
    <2>9. PICK n : n = Len(par.addConstraints) /\ n \in Nat
      BY <1>2, DraftParts
    <2>10. PICK x : x = IF par.addSender THEN 1 ELSE 0
      OBVIOUS
    <2>11. Len(m) \in Nat /\ Len(m) > 0
      <3>1. Len(m) = 3 + x + n
        BY <2>5, <2>9, <2>10 DEF MainBlocks
      <3>2. x \in {0, 1} /\ n \in Nat
        BY <2>9, <2>10
      <3>3. PICK l : l = 3 + x + n
        OBVIOUS
      <3>4. l \in Nat /\ l > 0
        BY <3>2, <3>3
      <3> QED
        BY <3>1, <3>3, <3>4
    <2> QED
      BY <2>4, <2>7, <2>8, <2>11
  <1>9. tx.inputs \in Array(OutputID) \ {<<>>}
    <2>1. PICK n : n = Len(all) /\ n \in Nat
      BY <1>3
    <2>2. tx.inputs = [k \in 1 .. n |-> all[k].id]
      <3>1. tx.inputs = IDsOf(all)
        BY <1>1, SpendableFields
      <3>2. IDsOf(all) = [k \in 1 .. n |-> all[k].id]
        BY <2>1 DEF IDsOf
      <3> QED
        BY <3>1, <3>2
    <2>3. tx.inputs \in [1 .. n -> OutputID]
      BY <1>3, <2>1, <2>2
    <2>4. tx.inputs \in Seq(OutputID) /\ Len(tx.inputs) = n
      BY <2>1, <2>3, FunctionIsSeq
    <2>5. tx.inputs # <<>>
      BY <1>8, <2>1, <2>4
    <2> QED
      BY <1>6, <2>1, <2>4, <2>5 DEF Array
  <1>10. tx.unlock \in Array(Array(Seq(Byte)))
    <2>1. PICK S : S = UnlockRow
      OBVIOUS
    <2>2. tx.unlock \in Seq(S) /\ Len(tx.unlock) = Len(all)
      BY <1>1, <2>1, UnlockRows
    <2>3. tx.unlock \in Array(S)
      BY <1>6, <2>2 DEF Array
    <2> QED
      BY <2>1, <2>3 DEF UnlockRow
  <1>11. outs \in Array(Output)
    <2>1. PICK c, t : c = Change(par) /\ t = Target(par)
      OBVIOUS
    <2>2. t \in Output
      BY <1>5, <2>1, MainTyped
    <2>3. outs = Change(par) \o <<Target(par)>>
      BY <1>1, SpendableFields
    <2>4. Len(outs) \in {1, 2} /\ outs[Len(outs)] = t /\ (Len(outs) = 2 => c = <<outs[1]>>)
      BY <1>2, <2>1, <2>3, TransferOutputsShape
    <2>5. c \in Seq(Output)
      <3>1. CASE Len(outs) = 2
        <4>1. PICK o : o = outs[1]
          OBVIOUS
        <4>2. o \in Output
          BY <1>1, <1>5, <3>1, <4>1, ChangeTyped
        <4>3. c = <<o>>
          BY <2>4, <3>1, <4>1
        <4>4. <<o>> \in Seq(Output)
          BY <4>2
        <4> QED
          BY <4>3, <4>4
      <3>2. CASE Len(outs) = 1
        <4>1. c = <<>> \/ \E o : c = <<o>>
          BY <2>1 DEF Change
        <4>2. ASSUME NEW o, c = <<o>> PROVE FALSE
          <5>1. outs = <<o, t>>
            BY <2>1, <2>3, <4>2, Pair
          <5> QED
            BY <3>2, <5>1
        <4>3. c = <<>>
          BY <4>1, <4>2
        <4>4. <<>> \in Seq(Output)
          OBVIOUS
        <4> QED
          BY <4>3, <4>4
      <3> QED
        BY <2>4, <3>1, <3>2
    <2>6. PICK s, e : s = <<t>> /\ e = c \o s
      OBVIOUS
    <2>7. s \in Seq(Output)
      BY <2>2, <2>6
    <2>8. e \in Seq(Output)
      BY <2>5, <2>6, <2>7, Join
    <2>9. e = outs
      BY <2>1, <2>3, <2>6
    <2>10. Len(outs) <= MaxByte + 1
      <3>1. PICK n : n = Len(outs)
        OBVIOUS
      <3>2. n \in {1, 2}
        BY <2>4, <3>1
      <3>3. n <= MaxByte + 1
        BY <3>2, MaxByteAssumption
      <3> QED
        BY <3>1, <3>3
    <2> QED
      BY <2>8, <2>9, <2>10 DEF Array
  <1>12. tx.signature \in [key : Addresses, valid : BOOLEAN]
    <2>1. par.key \in Addresses
      BY <1>2, DraftParts
    <2>2. PICK g : g = [key |-> par.key, valid |-> TRUE]
      OBVIOUS
    <2>3. tx.signature = g
      BY <2>2, SpendableFields
    <2>4. g \in [key : Addresses, valid : BOOLEAN]
      BY <2>1, <2>2
    <2> QED
      BY <2>3, <2>4
  <1>13. tx.timestamp \in Nat
    BY SpendableSelected
  <1>14. tx.inputCommitment \in Seq(Array(Output))
    <2>1. PICK n : n = Len(all) /\ n \in Nat
      BY <1>3
    <2>2. cont \in [1 .. n -> Output]
      BY <1>1, <1>3, <2>1 DEF Contents
    <2>3. cont \in Seq(Output) /\ Len(cont) = n
      BY <2>1, <2>2, FunctionIsSeq
    <2>4. cont \in Array(Output)
      BY <1>6, <2>1, <2>3 DEF Array
    <2>5. tx.inputCommitment = <<cont>>
      BY <1>1, SpendableFields DEF blake2b
    <2> QED
      BY <2>4, <2>5
  <1>15. tx = [inputs |-> tx.inputs, unlock |-> tx.unlock, outputs |-> tx.outputs,
               signature |-> tx.signature, timestamp |-> tx.timestamp,
               inputCommitment |-> tx.inputCommitment]
    <2>1. tx = TransferOf(par, UnlockOf(par))
      BY SpendableFields
    <2>2. PICK i, u, o, g, ts, h :
              tx = [inputs |-> i, unlock |-> u, outputs |-> o, signature |-> g, timestamp |-> ts,
                    inputCommitment |-> h]
      BY <2>1 DEF TransferOf
    <2> QED
      BY <2>2
  <1> QED
    BY <1>1, <1>9, <1>10, <1>11, <1>12, <1>13, <1>14, <1>15 DEF Transaction

-----------------------------------------------------------------------------
(***************************************************************************)
(* The ledger accepts it.                                                  *)
(***************************************************************************)
LEMMA SpendableAccepted ==
    ASSUME NEW par, NEW tx, NEW history, Spendable(par, tx, utxo, history)
    PROVE  Accepted(tx)
  <1>1. PICK all, cont, outs : all = Consumed(par) /\ cont = Contents(all) /\ outs = tx.outputs
    OBVIOUS
  <1>2. /\ Len(tx.inputs) = Len(all) /\ Len(all) \in Nat
        /\ \A k \in 1 .. Len(all) :
               /\ tx.inputs[k] = all[k].id
               /\ all[k].id \in DOMAIN utxo /\ all[k].out = utxo[all[k].id]
    BY <1>1, SpendableReads
  <1>3. InputsFound(tx)
    <2>1. Inputs(tx) \subseteq DOMAIN utxo
      BY DEF Spendable
    <2>2. ASSUME NEW k \in 1 .. Len(tx.inputs), NEW l \in 1 .. Len(tx.inputs),
                 tx.inputs[k] = tx.inputs[l]
          PROVE  k = l
      <3>1. k \in 1 .. Len(all) /\ l \in 1 .. Len(all) /\ all[k].id = all[l].id
        BY <1>2, <2>2
      <3> QED
        BY <1>1, <3>1, SpendableOnce
    <2> QED
      BY <2>1, <2>2 DEF InputsFound
  <1>4. ConsumedOutputs(tx) = cont
    <2>1. PICK n : n = Len(all)
      OBVIOUS
    <2>2. ConsumedOutputs(tx) = [k \in 1 .. n |-> utxo[tx.inputs[k]]]
      BY <1>2, <2>1 DEF ConsumedOutputs
    <2>3. cont = [k \in 1 .. n |-> all[k].out]
      BY <1>1, <2>1 DEF Contents
    <2>4. \A k \in 1 .. n : all[k].out = utxo[tx.inputs[k]]
      BY <1>2, <2>1
    <2> QED
      BY <2>2, <2>3, <2>4
  <1>5. PICK ctx : ctx = Context(tx, cont)
    OBVIOUS
  <1>6. IsTransfer(ctx, par, tx)
    BY <1>1, <1>5 DEF IsTransfer
  <1>7. SideHolds(ctx, "consumed", cont)
    BY <1>1, <1>6, ConsumedSide
  <1>8. SideHolds(ctx, "produced", outs) /\ AmountsOf(outs) = AmountsOf(cont)
    BY <1>1, <1>6, ProducedSide
  <1>9. tx \in Transaction
    BY TransferTyped
  <1>10. tx.inputCommitment = blake2b(cont)
    BY <1>1, SpendableFields
  <1> QED
    BY <1>1, <1>3, <1>4, <1>5, <1>7, <1>8, <1>9, <1>10, SidesAccepted

LEMMA TransfersRight ==
    ASSUME WalletInv
    PROVE  TransferAcceptedIffFresh
  <1>1. ASSUME NEW par \in Transfers, CanMakeTransfer(par),
               NEW tx, tx = MakeTransferTransaction(par)
        PROVE  /\ Accepted(tx) => Inputs(tx) \subseteq DOMAIN utxo
               /\ Inputs(tx) \subseteq DOMAIN utxo /\ Ordinary(par, tx) => Accepted(tx)
    <2>1. Accepted(tx) => Inputs(tx) \subseteq DOMAIN utxo
      BY DEF Accepted, InputsFound
    <2>2. ASSUME Inputs(tx) \subseteq DOMAIN utxo, Ordinary(par, tx)
          PROVE  Accepted(tx)
      <3>1. PICK d \in drafts, req \in TransferRequests : par = Completed(d, req)
        BY DEF Transfers
      <3>2. PICK history : history = History
        OBVIOUS
      <3>3. DraftRight(d, history)
        BY <3>1, <3>2 DEF WalletInv
      <3>4. req \in TransferRequest
        BY <3>1 DEF TransferRequests
      <3>5. DraftRight(par, history)
        BY <3>1, <3>3, <3>4, CompletedRight
      <3>6. SoundState(utxo, history)
        BY <3>2, StateIsSound
      <3>7. Spendable(par, tx, utxo, history)
        BY <1>1, <2>2, <3>5, <3>6 DEF Spendable
      <3> QED
        BY <3>7, SpendableAccepted
    <2> QED
      BY <2>1, <2>2
  <1> QED
    BY <1>1 DEF TransferAcceptedIffFresh

\* TransferAcceptedIffFresh: what MakeTransferTransaction makes of ordinary
\* outputs, from an address or from the account of a chain, passes the
\* validation of the ledger if and only if every output that was read is still
\* in the state when the transaction gets there, however long that takes.
THEOREM TransfersAreAccepted == WalletSpec => []TransferAcceptedIffFresh
  <1> QED
    BY WalletsStayRight, TransfersRight, PTL
=============================================================================
