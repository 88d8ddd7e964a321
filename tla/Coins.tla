-------------------------------- MODULE Coins --------------------------------
(***************************************************************************)
(* What the ledger promises, without transactions, constraints or a trie:  *)
(* coins of some amount, each under the control of a set of owners (or of  *)
(* none that this specification knows of, written Anybody).  One step is a *)
(* transfer: some coins disappear, new ones of the same total take their   *)
(* place, and one owner agrees to it who controls all the coins that have  *)
(* owners.  A coin is never seen again once it is spent.                   *)
(***************************************************************************)
EXTENDS Integers, FiniteSets, FiniteSetsExt

CONSTANTS
    Owners,    \* who may own coins
    Genesis,   \* the first coin
    Total      \* what there is at the beginning

VARIABLES
    coins,   \* the coins in circulation: a function to amount and owners
    minted   \* all the coins that were ever in circulation

coinVars == <<coins, minted>>

Anybody == {}

Worth(S, c) == MapThenSumSet(LAMBDA x : c[x].amount, S)

Init ==
    /\ DOMAIN coins = {Genesis}
    /\ coins[Genesis].amount = Total
    /\ minted = {Genesis}

\* The coins that a step takes out of circulation and the ones it brings in.
Spent == DOMAIN coins \ DOMAIN coins'

New == DOMAIN coins' \ DOMAIN coins

\* One owner for all the coins that are spent and have owners.
AgreedBy(owner) ==
    \A x \in Spent : coins[x].owners = Anybody \/ owner \in coins[x].owners

Transfer ==
    /\ Spent # {}
    /\ New # {}
    /\ New \cap minted = {}
    /\ \A x \in DOMAIN coins \ Spent : coins'[x] = coins[x]
    /\ Worth(New, coins') = Worth(Spent, coins)
    /\ \E owner \in Owners : AgreedBy(owner)
    /\ minted' = minted \cup New

Next == Transfer

Spec == Init /\ [][Next]_coinVars
==============================================================================
