------------------------------ MODULE MCUTXODB ------------------------------
(***************************************************************************)
(* Instances of UTXODB for TLC: one signer, plain and deadline locks,      *)
(* chains that start, move, fork, end and control other outputs.           *)
(***************************************************************************)
EXTENDS UTXODB

CONSTANTS a1, a2   \* two addresses (model values)

MCAddresses == {a1, a2}

d1 == [bytes |-> "d1", elements |-> <<>>]

MCData == {d1}

ChainBlk == 3

Seq12(S) == {<<x>> : x \in S} \cup {<<x, y>> : x, y \in S}

Sum(outs) == MapThenSumSet(LAMBDA k : AmountOf(outs[k]), 1 .. Len(outs))

\* What an output may have at the lock block and after it: a deadline lock
\* (whose deadline has passed) puts an output into two accounts.
Owned == NewAddressED25519(a1)

Tails(ids) ==
    {<<Owned>>, <<NewDeadlineLock(0, a1, a2)>>, <<Owned, NewChainOrigin>>}
    \cup {<<Owned, NewChain(id, 0, ChainBlk, 0)>> : id \in ids}
    \cup {<<NewChainLock(id)>> : id \in ids}

SecondTails(ids) ==
    {<<NewDeadlineLock(0, a1, a2)>>} \cup {<<Owned, NewChain(id, 0, ChainBlk, 0)>> : id \in ids}

OutputSeqs(sum, ts, ids) ==
    {<<<<NewAmount(sum), NewTimestamp(ts)>> \o x>> : x \in Tails(ids)}
    \cup {<<<<NewAmount(sum - 4), NewTimestamp(ts)>> \o x, <<NewAmount(4), NewTimestamp(ts)>> \o y>> :
             x \in Tails(ids), y \in SecondTails(ids)}

UnlockChoices(out) ==
    {<<<<>>, <<>>, IF LockOf(out).type = "chainLock" THEN <<0, ChainBlk>> ELSE <<MaxByte>>, c>> :
        c \in IF Has(out, ChainBlk) THEN {<<0, ChainBlk, 0>>, DestroyUnlockParams} ELSE {<<>>}}

Unlocks(outs) ==
    IF Len(outs) = 1
    THEN {<<x>> : x \in UnlockChoices(outs[1])}
    ELSE {<<x, y>> : x \in UnlockChoices(outs[1]), y \in UnlockChoices(outs[2])}

SubmitDB(u, t) ==
    LET ids == UNION {ChainIDsOf(oid, u[oid]) : oid \in DOMAIN u}
        consumed(ins) == [k \in 1 .. Len(ins) |-> u[ins[k]]]
    IN  UNION {{[inputs |-> ins, unlock |-> unlock, outputs |-> outs,
                 signature |-> [key |-> a1, valid |-> TRUE],
                 timestamp |-> Len(t) + 1, inputCommitment |-> blake2b(consumed(ins))] :
                    unlock \in Unlocks(consumed(ins)),
                    outs \in OutputSeqs(Sum(consumed(ins)), Len(t) + 1, ids)} :
               ins \in Seq12(DOMAIN u)}
=============================================================================
