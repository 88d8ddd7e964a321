------------------------------ MODULE MCLedger ------------------------------
(***************************************************************************)
(* Instances of Ledger for TLC.  Each Submit... operator enumerates the    *)
(* transactions of one focus: valid ones and the invalid ones that a       *)
(* missing check would let through.                                        *)
(***************************************************************************)
EXTENDS LedgerCoins

CONSTANTS a1, a2   \* two addresses (model values)

MCAddresses == {a1, a2}

\* Data that is no array, and data that reads like an output.
d1 == [bytes |-> "d1", elements |-> <<>>]
d2 == [bytes |-> "d2", elements |-> <<>>]
d3 == [bytes |-> "d3", elements |-> <<NewAmount(6), NewData(d1), NewAddressED25519(a2)>>]

MCData == {d1, d2, d3}

SigUnlock == <<MaxByte>>     \* "unlocked by the signature"

\* The IDs of the outputs that exist or existed.
Known(u, t) == DOMAIN u \cup UNION {Inputs(t[i]) : i \in 1 .. Len(t)}

\* Sequences of one or two elements of S.
Seq12(S) == {<<x>> : x \in S} \cup {<<x, y>> : x, y \in S}

\* Sequences of one or two different elements of S.
Distinct12(S) == {s \in Seq12(S) : Len(s) = 2 => s[1] # s[2]}

\* The output u holds for oid, or anything if u does not have it.
Look(u, oid) == IF oid \in DOMAIN u THEN u[oid] ELSE GenesisOutput

Tx(u, ins, unlock, outs, sig, ts) ==
    [inputs |-> ins, unlock |-> unlock, outputs |-> outs, signature |-> sig,
     timestamp |-> ts,
     inputCommitment |-> blake2b([k \in 1 .. Len(ins) |-> Look(u, ins[k])])]

Sig(addr) == [key |-> addr, valid |-> TRUE]

InSum(u, ins) == AmountOf(Look(u, ins[1])) + IF Len(ins) = 2 THEN AmountOf(Look(u, ins[2])) ELSE 0

Plain(amount, ts, lock) == <<NewAmount(amount), NewTimestamp(ts), lock>>

-----------------------------------------------------------------------------
(***************************************************************************)
(* Amounts: one owner, every split and merge of a few amounts, inputs that *)
(* are repeated or gone, replays.  Sums may wrap around.                   *)
(***************************************************************************)
AmountChoices == {2, 3, 4, 7, 9, 10}

SubmitAmounts(u, t) ==
    {t[i] : i \in 1 .. Len(t)}
    \cup
    {Tx(u, ins, [k \in 1 .. Len(ins) |-> <<<<>>, <<>>, SigUnlock>>],
        [k \in 1 .. Len(as) |-> Plain(as[k], Len(t) + 1, NewAddressED25519(a1))],
        Sig(a1), Len(t) + 1)
        : ins \in Seq12(Known(u, t)), as \in Seq12(AmountChoices)}

-----------------------------------------------------------------------------
(***************************************************************************)
(* Locks: two owners, addresses and deadline locks, time locks, senders,   *)
(* references and signatures, valid or not.                                *)
(***************************************************************************)
Deadline == 2

LockChoices ==
    {NewAddressED25519(a1), NewAddressED25519(a2), NewDeadlineLock(Deadline, a1, a2)}

ExtraChoices == {<<>>, <<NewTimelock(2)>>, <<NewSenderED25519(a1)>>}

\* The first transaction produces one or two outputs of every kind; the ones
\* after it spend them in every way and produce one output.
FirstOutputs(sum, ts) ==
    {<<Plain(sum, time, l) \o x>> : time \in {ts, ts + 1}, l \in LockChoices, x \in ExtraChoices}
    \cup
    {<<Plain(sum \div 2, ts, l) \o x, Plain(sum - (sum \div 2), ts, m)>> :
        l \in LockChoices, x \in ExtraChoices, m \in LockChoices}

LaterOutputs(sum, ts) ==
    {<<Plain(sum, ts, NewAddressED25519(a2))>>,
     <<Plain(sum, ts, NewDeadlineLock(Deadline, a1, a2)) \o <<NewSenderED25519(a1)>>>>}

LockUnlocks(n) ==
    {[k \in 1 .. n |-> <<<<>>, <<>>, <<refs[k]>>>>] : refs \in [1 .. n -> {0, MaxByte}]}

Signatures == {Sig(a1), Sig(a2), [key |-> a1, valid |-> FALSE]}

SubmitLocks(u, t) ==
    UNION {{Tx(u, ins, unlock, outs, sig, ts) :
                unlock \in LockUnlocks(Len(ins)),
                outs \in IF t = <<>> THEN FirstOutputs(InSum(u, ins), ts)
                                    ELSE LaterOutputs(InSum(u, ins), ts),
                sig \in Signatures} :
           ins \in Distinct12(DOMAIN u), ts \in 1 .. 4}

-----------------------------------------------------------------------------
(***************************************************************************)
(* Chains: origins, transitions, destructions, immutable data and outputs  *)
(* locked in a chain.  One owner, time is the number of transactions.      *)
(***************************************************************************)
ChainBlk == 3   \* where these instances put the chain constraint

KnownChainIDs(u) ==
    UNION {ChainIDsOf(oid, u[oid]) : oid \in DOMAIN u}

ImmutableData(d) == <<NewData(d), NewImmutable(ChainBlk, ChainBlk + 1)>>

\* The blocks an output may have after the lock.
ChainBlocks(ids) ==
    {<<>>, <<NewChainOrigin>>, <<NewChainOrigin>> \o ImmutableData(d1)}
    \cup {<<NewChain(id, prev, ChainBlk, 0)>> \o x :
             id \in ids, prev \in {0, 1},
             x \in {<<>>, <<NewData(d1)>>, ImmutableData(d1), ImmutableData(d2)}}
    \cup {<<NewChain(id, prev, ChainBlk, 1)>> : id \in ids, prev \in {0, 1}}

SecondBlocks(ids) == {<<>>} \cup {<<NewChain(id, 0, ChainBlk, 0)>> : id \in ids}

ChainOutputs(sum, ts, ids) ==
    {<<Plain(sum, ts, NewAddressED25519(a1)) \o x>> : x \in ChainBlocks(ids)}
    \cup
    {<<Plain(sum - 4, ts, NewAddressED25519(a1)) \o x, Plain(4, ts, m) \o y>> :
        x \in ChainBlocks(ids),
        m \in {NewAddressED25519(a1)} \cup {NewChainLock(id) : id \in ids},
        y \in SecondBlocks(ids)}

\* Unlock parameters for a consumed output, block by block.
LockUnlock(lock) ==
    IF lock.type = "chainLock" THEN {<<0, ChainBlk>>, <<1, ChainBlk>>} ELSE {SigUnlock}

UnlockChoices(out) ==
    {<<<<>>, <<>>, l>> \o c :
        l \in LockUnlock(LockOf(out)),
        c \in IF Has(out, ChainBlk)
              THEN {<<x, <<>>, <<ChainBlk + 1, ChainBlk + 2>>>> :
                       x \in {<<0, ChainBlk, 0>>, <<0, ChainBlk, 1>>, <<1, ChainBlk, 0>>,
                              DestroyUnlockParams}}
              ELSE {<<>>}}

ChainUnlocks(u, ins) ==
    IF Len(ins) = 1
    THEN {<<x>> : x \in UnlockChoices(u[ins[1]])}
    ELSE {<<x, y>> : x \in UnlockChoices(u[ins[1]]), y \in UnlockChoices(u[ins[2]])}

SubmitChains(u, t) ==
    UNION {{Tx(u, ins, unlock, outs, Sig(a1), Len(t) + 1) :
                unlock \in ChainUnlocks(u, ins),
                outs \in ChainOutputs(InSum(u, ins), Len(t) + 1, KnownChainIDs(u))} :
           ins \in Distinct12(DOMAIN u)}

-----------------------------------------------------------------------------
(***************************************************************************)
(* Outputs of unusual shape: another constraint in the place of the        *)
(* timestamp, and two chains that meet in one output.                      *)
(***************************************************************************)
SubmitShapes(u, t) ==
    {Tx(u, ins, [k \in 1 .. Len(ins) |-> <<<<>>, <<>>, SigUnlock>>],
        <<<<NewAmount(InSum(u, ins)), b, NewAddressED25519(a1)>>>>, Sig(a1), Len(t) + 1)
        : ins \in Seq12(DOMAIN u), b \in {NewTimestamp(Len(t) + 1), NewSenderED25519(a1)}}

TwoOrigins(sum, ts) ==
    <<Plain(sum - 5, ts, NewAddressED25519(a1)) \o <<NewChainOrigin>>,
      Plain(5, ts, NewAddressED25519(a1)) \o <<NewChainOrigin>>>>

BothChains(ins, sum, ts) ==
    <<Plain(sum, ts, NewAddressED25519(a1)) \o
      [k \in 1 .. Len(ins) |-> NewChain(blake2b(ins[k]), k - 1, ChainBlk, 0)]>>

SubmitMerge(u, t) ==
    {Tx(u, ins, [k \in 1 .. Len(ins) |-> <<<<>>, <<>>, SigUnlock, <<0, ChainBlk + k - 1, 0>>>>],
        IF t = <<>> THEN TwoOrigins(Supply, 1) ELSE BothChains(ins, InSum(u, ins), Len(t) + 1),
        Sig(a1), Len(t) + 1)
        : ins \in Distinct12(DOMAIN u)}

-----------------------------------------------------------------------------
(***************************************************************************)
(* Constraints that bind an output to other outputs: royalties and         *)
(* commitments to a sibling.                                               *)
(***************************************************************************)
RoyaltyChoices == {<<>>, <<NewRoyalties(a2, 6)>>}

BindingOutputs(sum, ts) ==
    UNION {LET second == Plain(amount, ts, NewAddressED25519(addr)) \o y
               commits == {<<NewCommitToSibling(i, blake2b(o))>> :
                              i \in {0, 1}, o \in {second, Plain(5, ts, NewAddressED25519(a1))}}
           IN  {<<Plain(sum - amount, ts, NewAddressED25519(a1)) \o x, second>> :
                    x \in RoyaltyChoices \cup commits} :
           amount \in {5, 6}, addr \in Addresses, y \in RoyaltyChoices}
    \cup {<<Plain(sum, ts, NewAddressED25519(a1)) \o <<NewData(d)>>>> : d \in {d1, d3}}

SubmitBindings(u, t) ==
    UNION {{Tx(u, ins, [k \in 1 .. Len(ins) |-> <<<<>>, <<>>, SigUnlock, target>>],
               outs, sig, Len(t) + 1) :
                outs \in BindingOutputs(InSum(u, ins), Len(t) + 1),
                target \in {<<0>>, <<1>>, <<0, ChainBlk>>, <<0, ChainBlk, 0>>}, sig \in {Sig(a1), Sig(a2)}} :
           ins \in Distinct12(DOMAIN u)}

-----------------------------------------------------------------------------
(***************************************************************************)
(* Histories about locks and time, about chains, or of two transactions    *)
(* with outputs bound to others.  A history of plain outputs may become    *)
(* any of them.                                                            *)
(***************************************************************************)
Mentions(t, types) ==
    \E i \in 1 .. Len(t) : \E k \in 1 .. Len(t[i].outputs) :
        \E c \in BlocksOf(t[i].outputs[k]) : c.type \in types

LockTypes == {"deadlineLock", "timelock", "senderAddressED25519"}

ChainTypes == {"chain", "chainLock"}

BindingTypes == {"royaltiesED25519", "commitToSibling"}

SubmitRelated(u, t) ==
    (IF Mentions(t, ChainTypes \cup BindingTypes) THEN {} ELSE SubmitLocks(u, t))
    \cup
    (IF Mentions(t, LockTypes \cup BindingTypes) THEN {} ELSE SubmitChains(u, t))
    \cup
    (IF Mentions(t, LockTypes \cup ChainTypes) \/ Len(t) > 1 THEN {} ELSE SubmitBindings(u, t))
=============================================================================
