--------------------------- MODULE MCChainBuilder ----------------------------
(***************************************************************************)
(* Two clients that build transactions out of one plain output and the     *)
(* chains they start: chain outputs with a block of data behind the chain. *)
(***************************************************************************)
EXTENDS ChainBuilder

CONSTANTS a1, c1, c2   \* an address and two clients (model values)

MCAddresses == {a1}

d1 == [bytes |-> "d1", elements |-> <<>>]

MCData == {d1}

MCClients == {c1, c2}

NoSubmitted(u, t) == {}

Owned == NewAddressED25519(a1)

MCProducts(ts) ==
    {OutputBasic(10, ts, Owned) \o <<NewChainOrigin, NewData(d1)>>,
     OutputBasic(10, ts, Owned)}

\* Time passes with the transactions; a client may use the time when it began.
MCNow(t) == Len(t) + 2

MCTimes(t) == {Len(t) + 1, Len(t) + 2} \ {1}

\* The second client only moves single chains, or spends and splits nothing.
MCMaxSize == [c \in MCClients |-> IF c = c1 THEN 2 ELSE 1]
==============================================================================
