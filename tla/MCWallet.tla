------------------------------ MODULE MCWallet -------------------------------
(***************************************************************************)
(* Instances of Wallet for TLC: two owners, transfers between them and to  *)
(* a chain, prepared early and done late.                                  *)
(***************************************************************************)
EXTENDS Wallet

CONSTANTS a1, a2   \* two addresses (model values)

MCAddresses == {a1, a2}

d1 == [bytes |-> "d1", elements |-> <<>>]

MCData == {d1}

NoSubmitted(u, t) == {}

ChainIDs(u) == UNION {ChainIDsOf(oid, u[oid]) : oid \in DOMAIN u}

\* Every owner opens the own account; the first one also those of the chains.
MCAccounts(u) ==
    {[key |-> a1, account |-> NewAddressED25519(a1), desc |-> FALSE],
     [key |-> a2, account |-> NewAddressED25519(a2), desc |-> TRUE]}
    \cup {[key |-> a1, account |-> NewChainLock(id), desc |-> FALSE] : id \in ChainIDs(u)}

Req(lock, amount, adjust, addSender, cs, un) ==
    [lock |-> lock, amount |-> amount, adjust |-> adjust, addSender |-> addSender,
     addConstraints |-> cs, unlockData |-> un]

To(a) == NewAddressED25519(a)

DestroyFirst == <<[out |-> 0, blk |-> 3, data |-> DestroyUnlockParams]>>

\* Plain transfers, one with sender, one that is too small, the same adjusted,
\* time locks, a chain origin, a chain that is destroyed, the chain account.
MCRequests(u) ==
    {Req(To(a2), 12, FALSE, FALSE, <<>>, <<>>),
     Req(To(a2), 6, FALSE, TRUE, <<>>, <<>>),
     Req(To(a1), 1, TRUE, FALSE, <<NewTimelock(4)>>, <<>>),
     Req(To(a1), 11, FALSE, FALSE, <<NewChainOrigin>>, <<>>),
     Req(To(a1), 5, FALSE, FALSE, <<>>, DestroyFirst)}
    \cup {Req(NewChainLock(id), 4, FALSE, FALSE, <<>>, <<>>) : id \in ChainIDs(u)}

MCFaucetCalls == {[to |-> a2, amount |-> 2]}

MCTimes == {1, 6}

-----------------------------------------------------------------------------
\* Adjusted amounts with and without sender.
AdjustRequests(u) ==
    {Req(To(a2), 1, TRUE, s, cs, <<>>) : s \in BOOLEAN, cs \in {<<>>, <<NewTimelock(4)>>}}

\* A chain that holds more than the remainder, and another chain under its lock.
NestedRequests(u) ==
    {Req(To(a1), 12, FALSE, FALSE, <<NewChainOrigin>>, <<>>)}
    \cup {Req(NewChainLock(id), 4, FALSE, FALSE, <<NewChainOrigin>>, <<>>) : id \in ChainIDs(u)}

\* Time locks of different length.
TimelockRequests(u) == {Req(To(a2), 4, FALSE, FALSE, <<NewTimelock(t)>>, <<>>) : t \in {4, 7}}
==============================================================================
