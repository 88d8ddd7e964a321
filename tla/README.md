# TLA+ model of the EasyUTXO ledger

EasyUTXO is a UTXO ledger whose transition rules are *constraints*: small EasyFL
expressions stored in the outputs themselves. Every constraint of an output is
evaluated twice, in the transaction that produces the output and in the
transaction that consumes it, and what the ledger guarantees comes from these
predicates working together over several transactions. This directory models the
ledger, its constraint library, its stores, the database with its indexer, the
transaction builder with the clients that use it, and the lazy arrays underneath;
it checks them with TLC and proves the central guarantees with TLAPS.

## The system

| component | state | operations | interacts with | what makes it correct |
|---|---|---|---|---|
| constraint library (`ledger/constraints`) | none: predicates over the validation context | evaluation of `amount`, `timestamp`, `timelock`, `senderAddressED25519`, the three locks, `chain`, `royaltiesED25519`, `immutable`, `commitToSibling` | called by validation with the path of the block | who can spend, when, chain identity, data kept along chains |
| transaction context and validation (`ledger/state/txcontext.go`, `validate.go`) | one context per transaction | find inputs, run all constraints, sum amounts, check the input commitment; make index commands | reads the state, calls the library | tokens conserved, nothing repeated, commands that describe the change |
| ledger state (`ledger/state/state.go`) | a trie of unspent outputs, its root, the versions in the store | `InitLedgerState`, `NewUpdatable`, `Update`, snapshots (`Readable`) | key/value store, whose commit may fail | exactly the unspent outputs; every version balanced |
| indexer (`ledger/indexer`) | account records, chain records | `Update` (one batch), two queries | queries resolve IDs with a state reader and may come while a batch is written | sound and, up to failed updates, complete; it catches up |
| UTXODB (`ledger/utxodb`) | the two above, in two stores | `AddTransaction`, `StateReader`, faucet and transfers | state first, then indexer; transfers use the builder | index follows state, also after failures |
| transaction builder (`ledger/txbuilder`) | inputs, outputs, unlock parameters being put together | transfers, chain transitions, the calls they are made of | reads state and indexer, output goes to `AddTransaction` | what it builds is accepted and moves what was asked for |
| lazy arrays and trees (`lazyslice`) | bytes or parsed elements of an array; a cache of subtrees | parse on demand, push, put, grow, serialise; read paths | under every output and transaction | both representations agree; a path leads where it says |
| context-free parser (`ledger/state/tx.go`) | none | checks without context, consumed transactions, fetching of inputs | not called by the ledger | agrees with the ledger |
| `ledger/tangle`, `experiments`, `test` | | declarations, a benchmark, an empty main | | |

Hard behaviours: guarantees spread over two transactions and several constraints
(a reference that leads to a reference, a lock that trusts a chain, data that
must survive a chain transition); `uint64` sums; strict and non-strict time
comparisons; replayed transactions and stale inputs; two stores of which either
may fail; readers with an old snapshot and a newer index, or one that is half
written; transfers prepared long before they are done; unlock parameters that
name indices which depend on the order of the calls; arrays with two
representations. `PROJECT.json` lists them as hazards, with the line where each
bites. The program is a library: it starts no goroutine, no retry and no timer.
What runs concurrently are its callers; the indexer has a mutex for them.

## Modules

| module | what it models | extends |
|---|---|---|
| `Constraints` | the constraint library, one operator per EasyFL function; no variables | |
| `Ledger` | the state (`utxo`), validation, the action `Update`, the safety properties of the ledger | `Constraints` |
| `Coins` | abstract specification: coins, owners and transfers | |
| `LedgerCoins` | the refinement mapping from `Ledger` to `Coins` | `Ledger` |
| `StateStore` | the key/value store: versions, failing commits, `NewUpdatable` | `Ledger` |
| `TxParse` | the context-free parser | `Ledger` |
| `UTXODB` | ledger composed with indexer and readers | `Ledger` |
| `ConcurrentIndexer` | the same with the batch written record by record | `UTXODB` |
| `TxBuilder` | the builder: pure operators on a record | `Ledger` |
| `Wallet` | clients that prepare transfers and do them later, the faucet | `UTXODB`, `TxBuilder` |
| `ChainBuilder` | clients that build transactions call by call | `TxBuilder` |
| `LazySlice` | codec and calls of one array: pure operators | |
| `ArraySpec` | abstract specification: a sequence of byte strings | |
| `LazyArray` | one array under any calls, refining `ArraySpec` | `LazySlice` |
| `LazyTree` | a tree with its cache over a shared array | `LazySlice` |
| `LedgerProofs` | theorems and proofs | `Ledger` |
| `SupplyProofs` | sums, conservation, the refinement of `Coins`, the parser, the operators of the builder | `LedgerCoins`, `TxParse`, `TxBuilder`, `LedgerProofs` |
| `StorageProofs` | theorems and proofs about `UTXODB`, `ConcurrentIndexer` and `StateStore` | these, `SupplyProofs` |
| `WalletProofs` | drafts stay true, transfers move the amount and are accepted as long as their inputs are unspent | `Wallet`, `StorageProofs` |
| `ChainBuilderProofs` | chains go on, what is built is accepted | `ChainBuilder`, `SupplyProofs` |
| `LazySliceProofs` | the codec: what is written is read back | `LazySlice` |
| `LazyArrayProofs` | the refinement of `ArraySpec` | `LazyArray`, `LazySliceProofs` |
| `LazyTreeProofs` | theorems and proofs | `LazyTree`, `LazySliceProofs` |
| `MC...` | instances for TLC: what is submitted, asked for or pushed | the above |

### From code to model: the ledger

* A block is a record whose `type` is the EasyFL function its bytecode calls; an
  output is the sequence of its blocks, indexed from 0 with `At` as in the code.
  EasyFL panics reject the transaction (`checkConstraint`), so an operator is
  FALSE where the code panics: every access is guarded by `Has` or a length.
* The validation tree is `Context(tx, consumed)`. A path is the side (`consumed`
  or `produced`), the index of the output and that of the block.
* `utxo` is the content of the trie at the current root. `txs` is a history
  variable: the accepted transactions. It also replaces hashing of transaction
  bytes: the ID of a transaction is its position, the same one if the same
  transaction were accepted again. Other hashes are injective: `blake2b(x)` is
  `<<x>>`, and `<<>>` is the all-0 hash. What a hash-based ledger cannot be
  asked about (collisions) is thereby assumed away.
* `Submitted(utxo, txs)` is the set of transactions somebody may submit next. It
  is a constant operator: the proofs hold for every such operator, the runs
  choose one each. `Accepted` is the whole of validation, so a rejected
  transaction is a step that does not happen (`Update` returns an error and
  leaves the root alone).
* A signature is a public key and whether it verifies for the essence of the
  transaction; the model lets the submitter choose both.
* Sizes: an output has one byte per block and a block costs one token of storage
  deposit. The extra weight a constraint may report is ignored by
  `MinimumStorageDeposit` and left out.
* Amounts live in `0 .. MaxUint64` and sums are taken modulo `MaxUint64 + 1`.
* A transaction without inputs is left out: it can only balance without outputs
  and then changes nothing. A commitment to a sibling that itself holds a
  commitment is left out (the type of blocks would be recursive).
* A block that calls none of the library's functions is plain data. Arbitrary
  EasyFL scripts and local libraries are not represented.
* The bytes of a data block may be a lazy array, which matters to `royaltiesED25519`
  only, since it follows a path of any length. So data is a record with
  `elements`, the blocks the array would hold, and `ArrayAt` follows the rest of
  the path through data inside of data. A block that calls a constraint is never
  an array: its prefix would announce more than a thousand elements.
* Timestamps are numbers. In the code they are `uint32`, and the builder's
  `Timestamp()+1` would wrap around to 0 behind the last second it can
  express, in the year 2106; the model has no such second.
* `StateStore`: a root stands for a content of the trie. The trie library keeps
  every committed version readable (it is immutable), so `stored` only grows.
  `Update` moves the root and then commits; `UpdateNotCommitted` is the commit
  that fails, after which the Updatable can neither be read nor updated, and
  `NewUpdatable` is what a caller or a restarted program does then, or to begin
  a branch. In a branch, `txs` holds the transactions of all branches.
* `TxParse`: endorsements are ignored by the ledger, so they are an argument of
  the parser's checks and not part of a transaction.

### Index, wallets and builders

* `UTXODB`: `AddTransaction` is two steps, `UpdateState` and then `UpdateIndexer`
  or `UpdateIndexerFails`, because the two stores commit separately and nothing
  rolls the first back. `reader` is the snapshot somebody holds; `StateReader`
  may be taken between the two halves. `lost` and `pending` say which index
  updates failed or are due.
* `ConcurrentIndexer` splits `UpdateIndexer` into one step per key
  (`WriteAccountKey`, `WriteChainKey`) and `UpdateReturns`: the queries lock the
  mutex of the indexer and `Update` does not, so a query can come in between.
  The store writes a batch in no particular order and one value per key.
* `TxBuilder`: a builder is the record of what was consumed, produced and
  unlocked so far; `TransferData` is a record too. A function that may panic or
  return an error has a predicate beside it (`CanConsume`, `CanMakeTransfer`,
  `TransitionPanics`). Outputs of equal amount come in any order, because the
  sort of the code is not stable.
* `Wallet`: `MakeTransferData` reads an account and keeps the result in `drafts`;
  `DoTransferTx` takes any draft, any request and the ledger as it is by then.
  `TransferTokens` of the code is the two of them with nothing in between. A
  call that returns an error is no step. `Accounts` and `Requests` are constant
  operators like `Submitted`; `OpenedAccounts` and `TransferRequests` keep what
  has the types of the method arguments. `CanPushConstraints` is the limit of the
  lazy array under the main output, `PutUnlockData` the loop over the unlock
  parameters that the caller adds to those of the builder.
* `ChainBuilder`: each client has a builder; `ConsumePlain`, `Produce`,
  `InsertTransition` and `Submit` come in any order. A panic in
  `InsertSimpleChainTransition` ends the client's work on that transaction.
  Outputs that are not successors are what a single owner would write
  (`ClientOutput`): his lock, plain data, his address as the sender, at most one
  new chain.

### Lazy arrays and trees

* An array is a record of `bytes`, `parsed` and `max`, with `Nil` for a missing
  representation, as the two slices of the code. The codec is modelled by what it
  does: a width code, a count, length fields of that width. `Base` is the number
  of values of a byte and the width of the length fields grows with the longest
  element; with 256 this is the code, the runs take less so that every width
  occurs with short elements.
* `MaxArrayLen` is the largest number the prefix can hold. `encodeArray` fails
  beyond it (`CanEncode`), and then `Bytes` panics. An array gets there through
  the gap in the check of `Push` (see Divergences), if its limit is that number.
* A call that panics is a step of `LazyArray`: it leaves the array as the code
  does at that point (`PutAtIdxGrow` leaves it grown up to the limit). `call` is
  the last call with its result; the mapping to `ArraySpec` keeps it and replaces
  the representations by the content they stand for.
* `LazyTree`: the root array stays with the caller of `AsTree`, who goes on
  writing to it. Paths have one or two indices; the code treats a longer path as
  a shorter one in the subtree.

Definitions introduced by a comment starting with "Mutant" are broken variants of
the definition that follows them. No specification uses them; replacing the
definition by its variant must make a property fail.

## Runs

| run | checks | instance |
|---|---|---|
| `amounts` | `SupplyConserved`, `SpentOnce`, `UtxoExact`, `MovesCoins`, `ParserTakesValid`, `ConsumedTransactionsExact` | one or two inputs among everything that exists or existed, repeated ones and replays included; one or two outputs with amounts 2..10, `MaxUint64` = 10, supply 7; none, four or five endorsements; 4 transactions |
| `constraints` | `CausalTime`, `SpendAuthorised`, `SenderAuthentic`, `TimelockHolds`, `ChainProvenance`, `ChainLockControlled`, `ImmutableKept`, `RoyaltiesPaidUnlessData`, `SiblingCommitted`, `MovesCoins` | histories of 3 transactions with two owners, addresses, deadline locks, time locks, senders, unlocks by signature or reference, three signatures, one invalid, times 1..4; of 3 with origins, transitions in two modes, destruction, immutable data kept or changed, outputs locked in a chain; of 2 with royalties, commitments and data blocks, right and wrong, unlock parameters of one to three bytes |
| `utxodb` | `DBTypeOK`, `AccountsExact`, `AccountReadSound`, `AccountReadComplete`, `ChainReadSound`, `ChainsExact` | plain, deadline and chain locks, chains that start, move, fork and end; index updates that fail; snapshots at any time; 3 transactions |
| `concurrent` | `AccountReadSound`, `AccountReadComplete`, `ChainReadSound`, `IndexCatchesUp` | the same transactions, 2 of them, with every order of the records of a batch |
| `branches` | `BranchesBalanced`, `BranchesAgree`, `NoOutputWithItsSpender` | the transactions of `amounts`, 3 of them in any tree of branches; every commit may fail |
| `lazy_array` | `ActsAsSequence`, `RepresentationsAgree` | bytes of two values, elements of 0 to 4 bytes (widths 0, 1, 2, 4), canonical, unusual and malformed data, limits 0, 2 and 3, where 3 is what the prefix can hold |
| `lazy_tree` | `PathReadsFresh` | up to 3 elements, arrays and others; reads of both kinds between appends and overwrites |
| `wallet` | `TransferAcceptedIffFresh`, `TransferMovesAmount` | two owners and the chains they start; plain, adjusted and chained transfers, time locks, senders, destruction, the faucet; up to 3 drafts, 3 transactions |
| `transitions` | `BuiltIsAccepted`, `ChainsGoOnUnchanged` | two clients, transactions with up to two inputs and two outputs; 3 transactions |
| `deadline` | `DeadlineRespected` (violated) | the transactions of `constraints` about locks, 2 of them |
| `royalties` | `RoyaltiesPaid` (violated) | the transactions of `constraints` that bind outputs, 2 of them |
| `transition_unlock` | `TransitionUnlocksLock` (violated) | the instance of `transitions` |

What they show. `amounts` and `constraints` include the refinement `MovesCoins`: every
update is a transfer of coins that one owner agrees to. Under address and
deadline locks this takes references between inputs, signatures, sums and the
update of the trie together. `branches` extends conservation to everything the
store holds, whatever failed before. `concurrent` shows that the missing lock in
`Indexer.Update` costs completeness only for the transaction that is being
indexed: what a query does return is always right, because it is resolved with
the reader's own state. `wallet` says when the builder's transactions are
accepted: as long as their inputs are unspent, and not later, with conditions on
the inputs that are spelled out (`Ordinary`, `EasilySpent`, `ChainReady`). The
builder does not look at other constraints of an output than its lock and
timestamp, so for the others the owner has to.

Bounds. `MaxTxs` bounds the number of accepted transactions. Two are needed to
produce and consume an output; three for an origin, a transition and what
follows it (a chain lock opened, an immutable block dropped, a chain destroyed
after it was indexed, a draft used twice); four in `amounts`, for a merge of what
was split and its replay. Two inputs and two outputs are enough for a reference,
for a repeated input, for a sum that wraps around, for a chain next to what it
controls and for a fork. Two clients are enough for one to consume what the
other has in its builder; in `transitions` the second one builds transactions of
a single input and output (`MaxSize`), which is what it takes to be faster.
`MaxDrafts` = 3 lets one draft grow old while another is made and used.
`concurrent` has two transactions: one batch that deletes and overwrites the
records of another. `MaxByte` keeps its value 255, so 0xff is never a real index.
`MaxUint64` is small only where sums must wrap. `Base` = 2 in `lazy_array` makes
two bytes need a longer length field than one; limits of 0 and 2 elements stand
for 256, and `MaxArrayLen` = 3 for the 16383 of the code, so that an array can
grow beyond what the prefix holds. Each run also offers the calls a missing check would accept; its
mutants show that it finds them. Deadlock is not checked where the number of
transactions is bounded: nobody is obliged to submit another one. The lazy
arrays and trees have no such bound, and deadlock is checked there.

Fairness. The code starts nothing by itself: a caller need not call. But
`AddTransaction` is one call, and once the state is updated the same goroutine
goes on to the index until it has returned. So `ConcurrentSpec` states weak
fairness of the writing of the index, `pending # 0 /\ WriteIndex`, and of nothing
else. With it `IndexCatchesUp`: every transaction in the state gets indexed, its
unspent outputs are then found under all their accounts, or its update failed.
A crash between the two halves is the same as a failure of the second; the code
has no recovery for it, and `AccountsExact` says what is lost.

`ChainsExact` is stated for histories in which chains are linear
(`LinearChains`); where they are not, only `ChainReadSound` is left, see below.

## Divergences

Where the model of the code contradicts what a comment, a message or a test
says. The first three are part of the regular runs. The others have a
configuration each that shows the counterexample, to be run by hand: `tlc -config
MCLazyArray_limit.cfg MCLazyArray`, the module being the part of the name before
`_`.

* `deadline`: `deadlineLock` gives the output to the expiry account up to the
  deadline and to the main account after it. `UnlockableWith`, which wallets use
  to select inputs, and `TestDeadlineLock` say the opposite. The test only lists
  the accounts, it never spends the output.
* `transition_unlock`: `InsertSimpleChainTransition` writes the signature unlock
  of the consumed chain output at the index of the produced one. With other
  inputs before it the lock stays locked; with more outputs than inputs the call
  panics. `BuiltIsAccepted` is stated for builders where the two agree (`Aligned`).
* `royalties`: the unlock parameters of `royaltiesED25519` "must point to the
  output" that pays and are meant to have one byte. The constraint appends them to
  a path whatever their length is, and reads what it finds there as an output.
  With two bytes this is a block; a data block whose bytes are an array with the
  right lock and amount satisfies the constraint, and nothing is paid.
  `RoyaltiesPaidUnlessData` is what is left.
* `MCLedger_fork.cfg`: a produced chain constraint does not check that its
  predecessor's unlock parameters point to it. One transaction can have two
  successors of one chain output; "a sequence of state changes" (`chain.go`)
  becomes a tree.
* `MCLedger_two_chains.cfg`: the indexer relies on "only 1 chain constraint is
  possible"; two chains can go on in one output, and the second one's record
  stays behind.
* `MCLedger_timestamp.cfg`: the timestamp is listed among the mandatory blocks
  but nothing requires it; `CausalTime` is therefore stated for outputs that have
  one. `OutputFromBytes` of the builder does require it, so one such output makes
  every transfer from its account fail.
* `MCLedger_commit.cfg`: `commitToSibling` compares an output index of the
  producing transaction with the input position in the consuming one, so an
  output that commits to a sibling with index n cannot be the n-th input.
* `MCStateStore_commit.cfg`: after a failed commit the Updatable has a root that
  the store does not have; `Readable` panics and no "chained update" follows.
* `MCTxParse_endorse.cfg`: the parser's check of the number of endorsements is
  inverted; it refuses four and fewer, though its message is about exceeding the
  limit. `ParserTakesValid` is about the other checks.
* `MCLazyArray_limit.cfg`: `Push` compares the limit with the elements that are
  parsed already. One element more fits into a full array that was made from
  bytes; it cannot be parsed again with that limit (`Reload` in `ArraySpec`).
* `MCLazyArray_put.cfg`: `PutAtIdx` does not parse, so it panics at an existing
  index as long as nothing else has parsed the array. `ArraySpec` allows a panic
  of `PutAtIdx` at any time for this reason.
* `MCLazyTree_stale.cfg`: after the owner of the array overwrites an element, a
  path still leads into the cached subtree. `PathReadsFresh` is about elements
  that were not overwritten after they were cached.
* `MCWallet_adjust.cfg`: `AdjustedAmount` computes the deposit without the sender
  that the produced output gets; the ledger refuses the transaction.
* `MCWallet_nested.cfg`: a transfer from a chain account is meant to consume
  "non-chain outputs", but takes the state of another chain that is locked in it,
  without unlock parameters for the chain constraint.
* `MCWallet_balance.cfg`: `Balance` counts outputs under a time lock that has not
  opened at the given time.

## Proofs

Proved by TLAPS, for all values of the constants that satisfy the named
assumptions: `MaxByteAssumption`, `MaxUint64Assumption` and `GenesisAssumption`
for the ledger, and in particular for every `Submitted`; `EndorsementAssumption`
for the parser; `ClientsAssumption` and `WalletAssumption` for the clients (the
genesis output covers its own deposit, as the initial supply of the code does;
those who use the builder call by call hold the genesis key and put at most 255
elements into an array; clients give a timestamp other than 0, which stands for the clock);
`LazySliceAssumption`, `ArrayAssumption` and `TreeAssumption` for lazy arrays (a
byte has at least two values, data has bytes and a prefix, limits can be written
into the prefix, `Nil` and `Panic` are no data):

* `LedgerProofs`: the inductive invariant `IInv` (`Inductive`), and from it
  `TypeCorrect`, `NoDoubleSpend` (`SpentOnce`) and `StateIsExact` (`UtxoExact`).
  `SpentOnce` is not inductive: that a new transaction spends nothing twice
  follows from its inputs being in the trie, so `UtxoExact` is needed, and
  `UtxoExact` needs that the IDs of new outputs are new, hence that a replay is
  never accepted (`AcceptedIsNew`) and that inputs are older than their
  transaction (`InputsOlder`). `HistoryIsValid`: every recorded transaction
  satisfies `Validate` in the context of the outputs it consumed, and that
  context never changes afterwards.

  From the validity of the history follow `SpendIsAuthorised`,
  `SenderIsAuthentic`, `TimeIsCausal` and `TimelockIsRespected`. The interesting
  one is `SpendIsAuthorised`: the least input whose lock is not covered by a
  signature would have to refer to an even smaller one with the same lock
  (`LeastNumber`, a consequence of the well-foundedness of `<`), so there is
  none, however long the chains of references are.

  Further on in the module, `RoyaltiesArePaid` (`RoyaltiesPaidUnlessData`) and
  `SiblingIsCommitted`, from the validity of the history. For the royalties this is
  a case distinction over the length of the unlock parameters: with one byte they
  name an output, which pays; with more they have to lead into data, the only kind
  of block that can be read as an array. The produced side of `commitToSibling`
  does not compare the index with its own: an output does not commit to itself
  because it cannot contain its own hash (here, because the model's commitments
  are about outputs without commitments). That the sibling is still what it was
  follows from the history being append-only.

  Then `ChainLockIsControlled`, `ImmutableIsKept` and `ChainsHaveProvenance`. The
  consumed and the produced side of `chain` each check half of a transition;
  together they give `ChainGoesOn`: a consumed chain that is not destroyed
  continues in the output its unlock parameters name, with its identifier.
  `immutable` does not check on the consumed side that its block refers to a
  chain: the proof takes that from the produced side, in the transaction that
  wrote the output. Provenance is by least counterexample: a
  transaction hands on an identifier it consumed, or makes one from an origin it
  consumed, so the first transaction with a made-up identifier cannot exist.
* `StorageProofs`: the inductive invariant `DBInv` of `UTXODB` on top of `IInv`
  and the validity of the history, and from it `IndexTypeCorrect` (`DBTypeOK`),
  `AccountsAreExact`, `AccountReadIsSound`, `AccountReadIsComplete` and
  `ChainReadIsSound`. `AccountsExact` is not inductive: that the update which is
  due deletes records of spent outputs and adds records of unspent ones needs
  that it belongs to the last transaction (`PendingIsLast`) and that nothing has
  consumed its outputs (`InputsOlder`). The chain records need validity: an
  origin is told from other chain constraints by all its fields in the indexer
  and by the zero identifier elsewhere, and only validation makes the two agree.
  `ChainsAreExact` (`ChainsExact`) needs more, `ChainsCurrent`: in a linear
  history with no failed update, the partition is exact for the outputs that were
  unspent before the transaction whose update is due. A transition
  deletes and writes the same identifier in one batch, in this order; that the
  output written is the one successor comes from linearity, and that an origin's
  record overwrites none from provenance.

  Then, about `ConcurrentIndexer`: `ReadsDuringUpdate`, the three read
  properties for queries between any two records of a batch. `DBInv` holds there
  as well, since it leaves out the records of the pending transaction; that they
  are right when `Update` returns needs that every written key has its final
  value (`WrittenIsFinal`).

  At the end, about `StateStore`: `StoreInductive`, `BranchesDoAgree` and
  `NoOutputBesidesItsSpender`. `IInv` fails there, since two
  branches may consume the same output and accept the same transaction. Instead
  every version is what some set of transactions leaves, closed under the
  producers of what it consumes; a transaction that is accepted is not in that
  set, since its inputs would be spent, so its outputs are not spent in it
  either. `BranchesAreBalanced` extends conservation to every version of the store
  (`BranchInv`), with the sums of `SupplyProofs`.
* `SupplyProofs`: `SupplyIsConserved` and `LedgerMovesCoins`. The sum over a
  finite set is known from the community modules only by its definition; the
  module proves first what is needed of it (one element more, disjoint unions,
  sums that depend only on the values), and that the `uint64` sums of validation,
  which are refused as soon as they wrap, are the true sums. Each is by least
  counterexample: were there a set or a prefix for which it fails, there would be
  a smallest one. Then an accepted transaction takes away and adds the same
  total, so `Balanced(utxo)` together with `IInv` is inductive. `MovesCoins` puts
  this together with freshness of new outputs and `SpendIsAuthorised`: every step
  of the ledger is a transfer of `Coins` or changes no coin.

  At the end, about `TxParse`: `ParserTakesAccepted` (`ParserTakesValid`) and
  `ConsumedTransactionsAreExact`. The parser demands outputs, the ledger does
  not: an accepted transaction has some because what it consumes is worth
  something, every amount being at least its storage deposit.
  `EndorsementAssumption` says that one of the lists of endorsements offered is
  long enough for the check of their number (see Divergences), without which no
  transaction passes at all. The consumed transactions are a fold over the
  inputs, treated like the sums; that the list is exact is proved of every
  transaction that parses.

  The lemmas after that say what the operators of the builder return
  (`PutEffect`, `ChainTyped`, the running totals of `RunningTotals`), for the two
  modules about clients.
* `ChainBuilderProofs`: the inductive invariant `BuilderInv` (`BuildersStayGood`),
  `ChainsGoOn` (`ChainsGoOnUnchanged`) and `BuildersAreAccepted`
  (`BuiltIsAccepted`). `BuilderInv` is about the ledger and the builders at once:
  every unspent output is one a client could have written, a chain has one
  unspent state, and in every builder a consumed output is either plain, with
  nothing but the signature, or goes on in the output its unlock parameters name
  (`GoesOn`). The last part does not mention the state, so the transactions of
  other clients do not disturb it. If such a transaction is accepted, its inputs
  are unspent and distinct, so each chain has exactly one successor: two of them
  would be two inputs with the same chain, and a plain output cannot take over an
  identifier without a consumed chain that hands it over. For acceptance every
  block of every output is evaluated on the side it stands on; the amounts agree
  because the caller made them agree, and they fit into `uint64` because what is
  unspent adds up to the supply.
* `WalletProofs`: the inductive invariant `WalletInv` (`WalletsStayRight`),
  `AmountIsMoved` (`TransferMovesAmount`) and `TransfersAreAccepted`
  (`TransferAcceptedIffFresh`). A draft is a copy of outputs that may be spent by
  the time it is used, so the invariant relates it to the history and not to the
  state: it holds outputs that were once produced, each once, with their content,
  and the output of the chain whose account was read. The history only grows, so
  nothing that happens in between can break this (`DraftStaysRight`).

  `AmountIsMoved` splits the change of what a lock holds into the sum over the
  inputs and the sum over the outputs of the transaction. That the unlock
  parameters a caller adds do not change inputs, outputs or amounts is a fact
  about a fold (`UnlocksPut`).

  `TransfersAreAccepted` goes through validation: inputs found and not repeated
  (`SpendableOnce`: a chain output is locked in an address and so cannot be among
  the outputs locked in its own chain), the shape of the transaction
  (`TransferTyped`), every block on both sides (`ConsumedSide`, `ProducedSide`),
  equal sums. The lock of the first input is opened by the signature, those of the
  others by a reference to it, or, from a chain account, by the chain transition in
  the first input; `ChainHandsOver` and `ChainTakesOver` are its two halves. The
  conditions are those of the property (`Ordinary`): the outputs have no
  constraint the builder does not serve, and the deposits are covered, which
  `AdjustedAmount` does not ensure (see Divergences).
* `LazySliceProofs`: `CodecRoundTrip`. The code writes and reads element by
  element, so the model has two recursive functions, `WriteData` and `Ends`. That
  such a function exists is proved by extending partial ones (`IterationExists`),
  what it computes by least counterexample: the i-th element is read to end where
  the i-th stage of writing ended, because a length field with room for a number
  gives that number back (`FieldRoundTrip`: base-256 digits, for any base) and
  the chosen width has room for every element (`WidthFits`).
* `LazyArrayProofs`: `ArraysAgree` (`RepresentationsAgree`) and the refinement
  `ArrayIsSequence` (`ActsAsSequence`), one step per call. The invariant `Good`
  adds that the lengths of all elements fit into length fields (`ParsedShort`:
  what was read from bytes does), without which `Bytes` could fail within the
  limit, and that an array without elements has bytes, for which `ensureBytes`
  writes none.
* `LazyTreeProofs`: `PathsReadFresh` (`PathReadsFresh`), from `CacheCurrent`: the
  array of a cached subtree stands for the element it was made from, unless that
  was overwritten.

Every invariant and every action property of the runs is stated by a theorem.
Only model-checked is `IndexCatchesUp`, which is liveness under fairness. The three
properties that TLC finds violated are statements about the code that are wrong
and have no proof.

## Not modelled

* Endorsements in the builder: the ledger ignores them, and so the transactions
  of the model have none. Printing of transactions and outputs, tracing.
* Paths of more than two indices into a lazy tree.
* `UTXODB.Root`, which returns the root of the genesis for ever: nothing in the
  repository reads it after that, and a property would restate the missing
  assignment.
* EasyFL and the trie, libraries outside the repository; the batch writer of the
  indexer is modelled as an external part from how `Indexer.Update` uses it.
* The tangle declarations, the experiments and the empty main.

## Plan

The modules, runs and proofs above are complete. What a next step would add:

1. The hazards without a property (`PROJECT.json` gives the reasons). Most of them
   need a change of the code first, since the property is false today (see
   Divergences): forks and second chains, the index in `commitToSibling`, an
   Updatable after a failed commit, the limit of `Push`, the panic of `PutAtIdx`,
   states of other chains among the outputs locked in a chain, the deposit computed
   before the output is final, outputs without timestamp, the limit of
   endorsements. One needs a promise of the code, the timestamp of a transfer that is
   not later than its chain output; one needs timestamps with a width.
2. Endorsements in the transaction builder, as soon as the ledger looks at them.
