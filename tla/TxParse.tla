------------------------------- MODULE TxParse -------------------------------
(***************************************************************************)
(* The context-free view of a transaction: what is checked of its bytes    *)
(* without a ledger state, and what is read from a state afterwards.  The  *)
(* ledger does not call it and checks the same things in its own way.      *)
(* Endorsements, which the ledger ignores, are an argument of their own.   *)
(***************************************************************************)
EXTENDS Ledger, SequencesExt

CONSTANT EndorsementLists   \* sequences of transaction IDs

MaxNumberOfEndorsements == 4

\* Among the lists offered is one that the check of their number lets pass.
ASSUME EndorsementAssumption ==
    \E list \in EndorsementLists : IsInjective(list) /\ Len(list) > MaxNumberOfEndorsements

\* Mutant: the inputs are compared by the transactions that produced them.
InputsByTransaction(tx) ==
    \A k, l \in 1 .. Len(tx.inputs) : tx.inputs[k].tx = tx.inputs[l].tx => k = l

InputsUnique(tx) == IsInjective(tx.inputs)

\* Panics unless all of these hold.
MustTransaction(tx, endorsements) ==
    /\ Len(tx.outputs) > 0
    /\ Len(tx.inputs) > 0
    /\ Len(endorsements) > MaxNumberOfEndorsements
    /\ InputsUnique(tx)
    /\ IsInjective(endorsements)

\* Mutant: every input counts.
ConsumedWithRepeats(tx) == FoldLeft(LAMBDA ids, oid : Append(ids, oid.tx), <<>>, tx.inputs)

\* The consumed transactions in the order of appearance, each once.
ConsumedTransactionIDs(tx) ==
    FoldLeft(LAMBDA ids, oid : IF oid.tx \in ToSet(ids) THEN ids ELSE Append(ids, oid.tx),
             <<>>, tx.inputs)

\* Fails unless all the inputs are found.
CanFetchConsumedOutputs(tx) == \A oid \in Inputs(tx) : oid \in DOMAIN utxo

FetchConsumedOutputs(tx) == [k \in 1 .. Len(tx.inputs) |-> utxo[tx.inputs[k]]]

-----------------------------------------------------------------------------
\* A transaction that the ledger accepts passes the checks without context as
\* far as they are about inputs and outputs (some endorsements make it pass),
\* and what is fetched for it is what the input commitment commits to.
ParserTakesValid ==
    \A tx \in Submitted(utxo, txs) :
        Accepted(tx) =>
            /\ \E list \in EndorsementLists : MustTransaction(tx, list)
            /\ CanFetchConsumedOutputs(tx)
            /\ tx.inputCommitment = blake2b(FetchConsumedOutputs(tx))

\* The consumed transactions are the ones that a transaction that parses
\* depends on in the state, none of them twice.
ConsumedTransactionsExact ==
    \A tx \in Submitted(utxo, txs) \cap Transaction :
        /\ ToSet(ConsumedTransactionIDs(tx)) = {oid.tx : oid \in Inputs(tx)}
        /\ IsInjective(ConsumedTransactionIDs(tx))

-----------------------------------------------------------------------------
\* MaxNumberOfEndorsements: "any number from 0 to MaxNumberOfEndorsements
\* inclusive"; and the message of the check is about too many of them.
EndorsementsUpToLimit ==
    \A tx \in Submitted(utxo, txs) : \A list \in EndorsementLists :
        Accepted(tx) /\ IsInjective(list) /\ Len(list) <= MaxNumberOfEndorsements =>
            MustTransaction(tx, list)
==============================================================================
