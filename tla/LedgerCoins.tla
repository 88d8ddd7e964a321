----------------------------- MODULE LedgerCoins -----------------------------
(***************************************************************************)
(* The ledger implements Coins: an unspent output is a coin of its amount, *)
(* owned by whoever its lock names.  Outputs locked in a chain are owned   *)
(* by nobody in particular: their chain decides.                           *)
(***************************************************************************)
EXTENDS Ledger

OwnersOf(lock) ==
    CASE lock.type = "addressED25519" -> {lock.addr}
      [] lock.type = "deadlineLock" -> {lock.main, lock.expiry}
      [] lock.type = "chainLock" -> {}

Abstract ==
    INSTANCE Coins WITH
        Owners <- Addresses,
        Genesis <- GenesisOutputID,
        Total <- Supply,
        coins <- [oid \in DOMAIN utxo |->
                     [amount |-> AmountOf(utxo[oid]), owners |-> OwnersOf(LockOf(utxo[oid]))]],
        minted <- ProducedIDs

\* Every update of the ledger is a transfer of coins: it spends something,
\* creates nothing that existed before and no value, leaves all other outputs
\* alone, and the signer controls every input that an address controls
\* (validation, the locks and the update of the trie together).
MovesCoins == Abstract!Spec
==============================================================================
