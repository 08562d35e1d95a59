# A verification development for qday-walletd

qday-walletd is a custody daemon: it derives deposit addresses from one seed,
follows the selected chain, signs withdrawals, keeps them alive through
restarts and reorganizations, and runs the local side of atomic swaps. This
directory holds TLA+ models of its state-changing parts, the TLC runs that
check them and TLAPS proofs of the central results. `PROJECT.json` lists
components, runs, mutants, hazards, findings and theorems, and maps every
definition to the lines of `src/` it stands for.

## 1. Inventory

| Part | State | Operations | What makes it correct |
| --- | --- | --- | --- |
| Withdrawals (`service.go`, `meta/store.go`) | table `withdrawals`: transaction, basis, confirmation, last error | `CreateWithdrawal`, `withdrawalView`, `rebroadcast` | stored before released; a request is paid once; answers stay true; rows stay usable; orphans are sent again |
| Coin selection (`buildCustodyTransfer`) | none | sort, pick, decide | most valuable first, no more than needed, refuses only what cannot be paid with the input limit |
| Proof updates (`updateProofs`) | a transaction and the index of its proofs | stretches of 72 blocks back and forward | ends, and agrees with the direct path |
| Addresses (`newAddress`, `recoverAddresses`, `OpenNode`) | table `addresses`, the wallet index's watch list | derive, insert, register, recover | a reference keeps its address, no address has two customers, what was told is watched |
| Service (`NewService` to `Close`, `runDaemon`) | mutex `op`, seed, wake channel, loop | lock, unlock, wake, pass, DEFEND, shutdown | no seed copy outlives `Lock`, no wake-up is lost, shutdown ends |
| Swap sessions (`swap.go`, `meta/swap.go`) | tables `swap_keys`, `swaps`, `swap_actions` | create keys, register, fund, claim, refund, resubmit | one transaction per action, terms never change, funding in time |
| Swap status (`swapView`) | none, an unlocked reader | read actions, events, tip, pool | settled outputs are exact, the aggregate is the furthest documented stage |
| Automatic DEFEND (`autoDefend`) | rows of kind `defend` | select, sign, store, submit | outputs are renewed before their shield ends; stored transactions keep their inputs |
| Deposits, balance | none, unlocked readers | page through events; count outputs of index and pool | a page is one chain's, a sweep misses nothing, money is counted once |
| HTTP API (`api.go`) | the token | authenticate, decode, call, answer | one 201 per identifier, a 2xx is kept |
| Process and data directory (`main.go`, `meta.Open`) | `master.key`, schema, `api.token` | `init`, `run`, `recover-addresses`, upgrade, start, end | nothing half written or half upgraded is used |
| Key derivation, codecs, peer list, manifest | none | | |

How they interact. HTTP handlers call `Service`. Those that change something
hold `op` for their whole length; readers hold nothing. A single goroutine,
`rebroadcastLoop`, is woken by a one-slot channel or a two-minute ticker and
runs `rebroadcast`, then `rebroadcastSwapActions` (both without `op`, so beside
a handler), then `autoDefend` (only if `TryLock` gets `op`). Handlers and loop
share the SQLite rows, the transaction pool and the chain manager. The chain
manager moves by itself, the wallet index follows it with a delay, and the pool
is lost when the process stops. `recover-addresses` is another process on the
same database, and `init` may still be at work when `run` is started.

Hard behaviours: two writers of one row without a lock; a tip read once and
used through a long pass; an index that lags the chain; a crash between storing
and submitting; a pool that forgets; readers without a lock; a deadline in
blocks (the shield) for work that may be skipped; files and tables made in
several steps. The hazards in
`PROJECT.json` give the line where each bites and the property that watches it.

## 2. Modules

| Module | Models | Used by |
| --- | --- | --- |
| `SelectedChain` | chain manager and pool as the daemon calls them (external) | `Custody`, `UpdateProofs`, `Swaps` |
| `CoinSelection` | which coins a transfer may take, as a set | `Custody`, `BuildTransfer` |
| `BuildTransfer` | the loop that takes them | `SelectionProofs` |
| `Payments` | the abstract promise: bind once, release what is bound, answer with it | `Custody` |
| `Custody` | withdrawals, journal, pass, chain, index, restarts | `CustodyProofs` |
| `UpdateProofs` | `updateProofs`, step by step | `StretchProofs` |
| `Addresses` | addresses, registration, loss, recovery | `AddressesProofs` |
| `Service` | `op`, seed, wake channel, loop, shutdown | `Api`, `DaemonProofs` |
| `Swaps` | sessions, actions, their resubmission, a counterparty | `SwapsProofs` |
| `ReaderChain` | chain, index and pool under a reader that takes no lock (external) | `SwapView`, `Accounting` |
| `SwapView` | the status reader | `ReaderProofs` |
| `Accounting` | `Deposits` and a client that sweeps it, `Balance` | `ReaderProofs` |
| `Defend` | `autoDefend` beside withdrawals, blocks and PQ Day | `DefendProofs` |
| `Api` | what clients that overlap and repeat are answered; extends `Service` | `Daemon` |
| `DataDir` | `master.key`, the schema and its upgrade, `api.token` | `Daemon` |
| `Daemon` | composes `Api` (with `Service`) and `DataDir`: a process that starts, serves, ends and starts again | `DaemonProofs` |

`MC*` modules hold the values of constants for TLC. Operators named as a
"Faulty variant" are the mutants: plausible bugs in the definition that follows
them, used only to show that a property can fail.

**Representation.** A chain index is the chain it ends (`<<>>` is genesis);
its height is its length, and it is on the selected chain iff it is a prefix of
the tip. That makes block identity and "the event's block is still selected"
exact without identifiers. Siblings with equal contents differ by a tag. A
transaction is what its identifier covers (request, amount, inputs, change);
its Merkle proofs are not covered by the identifier, so a row carries `proof`,
the index at which they are valid, next to `basis`, the column stored beside
them. Passes and handlers are cut into steps where another actor can come
between and matter: after reads of the tip or the index, database writes and
calls of the pool. Three stretches are one step. In `Custody` the check of a
confirmation, from `Events` to `SetWithdrawalConfirmation`: nobody but the pass
writes `confirmed`, and what moves later is seen by the next step or pass. In
`SwapView` the pages of events, because an answer whose tip moved meanwhile is
refused. In `Defend` the whole resubmission, because only what it leaves in the
pool matters there.

**Custody.** `BeginWithdrawal` is the handler up to the second comparison of the
tip in `buildCustodyTransfer`; what fails before ends in `AbandonWithdrawal` or
changes nothing. `JournalWithdrawal` is `AddWithdrawal`; `SubmitAccepted` and
`SubmitRefused` are the pool's decision and the broadcast; `RecordFailure` is
the handler's `UpdateWithdrawal`, which writes the call's own basis whatever a
pass has stored meanwhile. The pass is `StartPass` (the tip), `LoadCandidates`
(the query with its window), the three outcomes of the confirmation check, the
four outcomes of update and submission, and `SaveRow`. `updateProofs` is one
step here: dropped if its way confirms the transaction, failed if an input is
gone or the chain moved, done otherwise; `UpdateProofs` justifies that.
`SelectChain` replaces up to `MaxDepth` blocks by one block more; an `AddBlocks`
that selects a branch several blocks longer is this step and further blocks
before anyone else's step. The pool then keeps any part of what is still valid. Events of SQLite failing in the middle of
a pass, and the cancelled context at shutdown (which leaves an error text like
`ProofsFailed` does), are not separate actions.

**UpdateProofs.** `Stop` is a cancelled context or a block that the chain manager does not
have, possible in every turn: the loop ends with an error and the row keeps its basis.

**Addresses.** A lost database is only rebuilt correctly with a `-count` that
covers every address there was, and before the daemon is started again:
`LoseDatabase` and `Start` state that operating rule (docs/operations.md), they
do not prove it.

**Service.** Requests that sign, lock or unlock; those that only read are
not there. `owed` is set when the tip changes, a transaction is stored or the
wallet is unlocked, and cleared when a pass starts.

**Api, DataDir and Daemon.** `Api` takes `Service`'s steps of a signing request
and adds the row they look up and store: `Existing` is the lookup that
succeeds (200, or 400 for other parameters), `BeginNew` the one that does not,
`AddRow` the insert under the primary key, `AnswerCreated` the 201. `Tell` lets
the view fail, which is a 400 after the row is stored. Each client repeats
one request of its own, so pairs with equal and with different
parameters occur. A request without the token or with a body that does not
decode changes nothing and has no action. `DataDir` cuts `meta.Open` at its
statements, each of which commits by itself. `Daemon` runs `runDaemon` over
them: `Start` (there is a key), the statements of `Open`, `StartService` (`OpenNode`
and `NewService`, whose loop runs from here on), the optional unlock, the token,
the listener. `Fails` is every return in between, and `Serve` failing later: it
reaches the deferred `Close` without `Shutdown`. `Ends` is the end of the process
after `Close` or at any other moment. A process that does not run is a service
that is closed, with nothing in memory; rows and files stay.

**Accounting.** Both readers are cut at every read of tip, index and pool. An
event is a transaction or payout with several outputs, of which some pay
deposit addresses. `TakeEvent` is one turn of the inner loop: the limit ends a
page after a whole event, so a page may be longer than the limit. The client
polls from offset zero and follows `nextOffset`, as docs/API.md describes;
offsets shift when blocks arrive, because events come newest first. Balance is
the set of outputs it counts under each head. A payout is spent `Delay` blocks
after its own at the earliest, on the chain and in the pool; without that rule an
immature output and what was made of it would both be counted.

**Defend.** Heights stand for the chain, which only grows, and withdrawals stand for
swap fundings too. `Resubmit` puts stored transactions back into the pool and may
fail for any of them (the query, the index, the proofs or the pool); `autoDefend`
follows it all the same. Between restarts the pool keeps what it has. The
environment is bounded: at most `Slack` blocks pass between two turns of the loop
that resubmit everything and bring `autoDefend` to its end, and a pool
transaction waits `MineDelay` blocks at most; docs/operations.md asks operators
to watch for both. The tip is compared after signing (`CheckDefend`,
`CheckWithdrawal`), and a block may still come before the row is stored.

**Swaps.** A transaction carries the terms and height it was built for, so that
properties can compare them with what the tables say later. Repeated requests
change nothing and have no action. The wallet index is in full mode
(`node.go:188`), so an unregistered contract address is still indexed.

## 3. Runs

| Run | Shows | Bounds |
| --- | --- | --- |
| `custody_two` | two withdrawals that can take each other's coin or spend each other's change: one at a time, window edge, both settle or have a reason | 2 requests, 1 coin worth 2, 2 blocks, reorganizations of 1 = window |
| `custody_reorg` | a request repeated across crashes and reorganizations: journal ahead of pool, paid once, answers bound, settling, proofs fit basis, refinement of `Payments`, true confirmations, exact status | 1 request, an amount the coin pays and one it does not, window of 1, 3 blocks, reorganizations up to 2, 1 restart |
| `addresses` | 5 invariants | 2 references, 4 indices, recovery of 2, 1 loss |
| `service` | no wake-up is lost, shutdown ends | 2 clients |
| `daemon` | seed and loop under start-up, failure and crash; one 201 per identifier; nothing half made is used | 2 clients on 1 identifier with 2 bodies, 1 other command, any number of restarts |
| `build_transfer` | the loop implements `CoinSelection` | 5 coins with ties and a zero, limit 3, 9 amounts |
| `update_proofs` | ends, arrives, agrees with the direct path | chains up to 3 blocks, stretch of 2, 1 replacement |
| `swaps` | one transaction per action, terms hold, a prompt funding is locked | 1 session, both roles, 1 coin of either side, refund height 2, 3 blocks, reorganizations of 1, 1 restart |
| `swap_view` | settled exact with its secret, aggregate is the furthest documented stage, quiet reads exact | 2 outputs, one of them with every kind of spend, 2 blocks, 2 transactions a block, reorganizations of 1 |
| `accounting` | one chain per page, complete sweeps, money counted once | 4 blocks of 1 event, reorganizations of 1, index pages of 2, limits 1 and 3 |
| `defend` | renewal in time, inputs of resubmitted rows spared, denomination reviewed | 3 outputs, 2 inputs a transaction, shield of 32 blocks (8 of them the last quarter), `Slack` 2, `MineDelay` 1, 1 withdrawal, 1 restart |

Why these bounds are enough to be interesting: two requests on one coin, which
leaves change, make conflicts possible, and one repeated request makes double
building possible, from the coin or from its change; a chain one longer than the
window has both edges of the cutoff and one two longer has orphaned rows that have
passed it, by one deep reorganization or by a late pass; a stretch
of two on chains of three makes updates of one and of several stretches, forward,
back and across; two clients
and the loop are all the parties `op` can have at once (holder, waiter,
`TryLock`). In `accounting` one transaction has more deposits than the smaller
limit and the events do not fit in one page; payouts ripen within the chain. In
`defend` the bounds are tight: with the same `Slack` and `MineDelay` a shield of 28
blocks, or outputs due one block later, are too late for the last group. Nothing of
`daemon` is bounded but the sets. The counters bounded are chain length,
reorganization depth and restarts; each bound is a constant in a guard. Once `MaxHeight` is reached
the chain stands still, which is the "chain settles" of `Settles`.

`Settles` is not unconditional, and `custody_two` and `custody_reorg` are bounded so
that each exception occurs. A row may stay where it is because the next pass came more than the
window after its block was orphaned, or the reorganization was deeper than it
(`LostSight`: a window of 1 on chains of 3),
because another withdrawal has its coin (`InputTaken`) or because the coin was made by
a block that was reverted with the proofs stored for it (`InputReverted`; these two
need two requests). Without any one of the three TLC finds `Settles`
violated, in `custody_reorg` for the first and in `custody_two` for the others. The
two runs divide the work because two requests, a crash and three blocks together
are too much for TLC. The safety properties, which `custody_reorg` checks for one
request, are proved for any number of them.

`AggregateIsFurthest` compares stages of the lifecycle in docs/API.md. A spend that is
neither claim nor refund (`spending`, `spent`) has no stage there: the code's switch
passes over such an output, so a session with no other one is called `waiting` or
`funding`, while the output itself is shown with its status.

Deadlock is checked except in `service` (a daemon that has shut down stops;
`daemon` starts it again),
`build_transfer` and `update_proofs` (loops that end).

**Runs that end in a violation** state what a document says and show where the
code differs:

* `custody_conflict`: `README.md` says accepted transactions are kept alive;
  a second withdrawal can take an accepted one's coin while the pool lacks it.

Three smaller windows are known and listed with the hazards, each beside the
property that does hold. docs/operations.md says that a withdrawal whose confirmation
a reorganization removes is rebroadcast while its inputs are valid; a row whose
block a shallow reorganization orphans is out of the query's reach for ever when
the next pass comes after more blocks than the window, for example because the daemon
was stopped (`LostSight` in `Settles`; `OrphansInReach` is what holds without a
delay). While the wallet index lags, an orphaned block may still be
called confirmed (`SyncedStatusExact`). A claim that a block takes out of the
pool after the second tip check is missing from that one answer of the swap
view (`SettledExact`).

## 4. Fairness

* `Custody!FairSpec`: weak fairness of the pass and of the index. The ticker
  starts a pass every two minutes whatever happens, every step of a pass
  returns, and the index follows the chain manager. Nothing is assumed of
  clients, miners or the pool.
* `Service!FairSpec`: handlers and loop go on (weak); a waiter for `op` gets it and
  a cancelled context is noticed (strong), because Go's mutex hands itself to a
  starving waiter and `select` picks among ready cases at random. The ticker is
  deliberately left out of the fairness, so `WakeIsServed` is about the channel.
* `Defend` has no fairness: `RenewedInTime` is a safety property under the two
  bounds above.
* `UpdateProofs!FairSpec`: the loop runs; the chain is replaced finitely often,
  as a reorganization takes blocks to be mined.

## 5. Proofs

TLAPS proves, for every value of the constants:

* **CustodyProofs.** `TypeCorrect` first. `JournaledBeforeRelease`, `AnswersBound` and
  `PaidAtMostOnce` are not inductive: a pass writes back a copy of a row and
  releases it, so one has to know that copies are bound to the same transaction
  as the row, that a call past `JournalWithdrawal` has its row, and that a chain
  only holds released transactions. `Bound` is that conjunction; `BoundInvariant`
  proves it, and `NothingUnjournaled`, `AnswersStayTrue`, `NeverPaidTwice` and the
  refinement `CustodyImplementsPayments` follow (each step binds, releases,
  answers or leaves the binding alone). `RowsTruthful` adds that journal,
  rows and work all have proofs at their basis and confirmations that hold their
  transaction; it gives `ProofsFitBasis`, `ConfirmationsTrue` and
  `SyncedStatusIsExact`. `WindowCoversDepth` is an action property, under the
  hypothesis `MaxDepth <= Window`: its arithmetic is that a block orphaned by a
  reorganization of depth d lies at most d below the old tip.
* **AddressesProofs.** `IInv`: indices are contiguous; a call in flight has an
  index or a row that is its own; what was told belongs to the current
  database or lies below `Count`, and a database in use covers it.
* **DaemonProofs.** For `Service` by itself, `SInv`: who has a copy of the seed holds
  `op` and the wallet is unlocked; the loop has returned once shutdown is past
  joining. For `Daemon`, `DInv`: `SInv` again, since a step of a client or of the
  loop is a step of `Service` and the lemmas about it apply, leaving the start and
  the end of the process; a request that signs has found no row and holds `op`, so
  the row it stores is the first one and it alone is told 201; columns are only
  added, so what a process has seen (`seen`) is a part of `columns` and how far it
  has come in `meta.Open` says which columns exist; the token is whole from the
  step that writes or accepts it on.

* **SelectionProofs.** First what `Total`, a fold over a set, computes: the function
  it chooses exists (sets of up to n coins are added up for every n), two such
  functions agree, so any coin may be added last (`TotalWithout`). Each of these is
  an induction on the number of coins, written as the absence of a least
  counterexample (`FewestCoins`). `Exchange` says that fewer and cheaper coins are
  not worth more. `IInv` of the loop: what is still listed is cheaper than every
  input, and the loop has either lost no coin and reached neither value nor limit
  (`Going`), or it has `Stopped`. The last input is then the cheapest one and
  without it the value was not reached: `LoopPicksTransfer`. With `Exchange`,
  `LackIsReal`.
* **StretchProofs.** `ProofsArrive` needs only that a loop that ends is at the tip it
  was given (`Shape`). For `StretchesAgree` the invariant says where the way is: back
  along the stored basis with nothing lost so far (`Behind`), or forward along the
  selected chain after everything to the common height was gone back (`Ahead`).
  `CommonHeight` is a CHOOSE; that there is one such height, and that blocks below it
  are equal, is proved again from a least counterexample.
* **SwapsProofs.** The analogue of `Bound`: what a call holds past its insert, and what
  the pass has loaded, is the stored action's transaction (`CallOK`, `Copies`); what
  is released was built for the session's terms (`OfContract`), by this daemon only
  in time (`OwnWork`); a chain holds released transactions, refunds from their
  height on (`ChainOK`). `FundingLeavesTime` compares the two heights.
* **DefendProofs.** From the pass to the row of the DEFEND, no stored transaction could
  be mined that the pool lacks, except a withdrawal that its client is about to
  submit and what the pass failed to submit (`JournalSent`); while the DEFEND has `op` there is none (`OpHeld`). A block
  cannot bring such a transaction back, because nothing refers to an output of a later
  block (`BornBefore`). `UnitCompared` is all that `SignedAsReviewed` needs.
* **ReaderProofs.** The three readers that take no lock.
  - *Folds.* `Deposits` and the swap view go through sequences with `FoldLeft` and
    `FlattenSeq`, whose definitions choose a recursive function. The module first
    proves that the function exists and what it gives to the first k positions
    (`FoldExists`, `FoldIs`, `FoldSteps`, `FlattenJoins`), each by induction over a set
    of numbers (`Inductive`). A proof about a loop then says what is true after k
    turns.
  - *Balance.* During a call that nothing disturbs, the first tip begins the index and
    the index begins the tip, so that an equal tip means an equal index, which the code
    does not compare; the pool only loses transactions (`CallInv`). What is spendable
    or immature was then made on the chain and is unspent and, if spent on the chain,
    was ripe (`SpentOnChain`); what is pending was made and not spent in the pool. An
    output has one maker (`TxsAssumption`).
  - *Deposits.* `PagesAreOneChain` and `SweepsMissNothing` are not inductive. `PageInv`:
    a tip that moved is longer and never comes back, so as long as it has the first
    one's length it is the first one, the index has not moved, and what is collected is
    the feed from the page's start to its position; a page that is not full has come to
    the end. `SweepInv`: counted from the oldest event, which blocks do not shift, the
    sweep has met every event of its first chain that is newer than its position, and
    new blocks only make positions that were met come again. `FeedInvariant` proves
    both.
  - *Swap view.* `VInv`: the same argument about the length of the tip gives that what
    passes the second check is the replay of the first chain (`ViewCall`); chain and
    pool together stay consistent (`ViewChain`). `Exact` says what a map of outputs must
    hold after k transactions of a consistent history, c of which are confirmed;
    `ExactStep` is one call of `observeSwapTransaction`, `TrueIs` that an exact map shows
    the true status. The pool read last may belong to another chain: then the map is not
    exact, but no spend is replaced and nothing is settled (`PoolRun`), which is all
    `SettledIsShown` needs; with an unchanged tip it is exact (`QuietViewIsExact`).
    `AggregateNamesFurthest` is the loop's invariant `Furthest`, for every order of a
    finite set of outputs (`OrderIs`); `NamesIs` turns it into ranks of the lifecycle. `SwapView` names its
    specification `ViewSpec` and its actions apart, so that this module extends both it
    and `Accounting`.

Every inductive invariant was first checked by TLC on the instance of its run.

Assumptions are the named ones of the modules (`CustodyAssumption`,
`SelectionAssumption`, `WalletAssumption`, `AddressesAssumption`, `ServiceAssumption`,
`ApiAssumption`, `DaemonAssumption`, `SwapsAssumption`, `StepAssumption`,
`TxsAssumption`, `SwapTxsAssumption`, `PageAssumption`, `DefendAssumption`), which TLC
evaluates in the runs of those modules: shapes and bounds of numbers, and that an
output's identifier, a hash, names the one transaction that makes it.

Checked by TLC only: liveness (`Settles`, `WakeIsServed`, `ShutdownEnds`,
`Terminates`), which is out of the prover's reach; and `RenewedInTime`, which holds or
not by how `Slack`, `MineDelay`, the number and the worth of the outputs relate to the
shield: no relation that the code guarantees makes it true for every wallet, and the run
shows it where the bounds are tight.

## 6. Not modelled

Key derivation and signing (functions; the models use only that an index or a
session determines its keys), row codecs (byte layout), the peer list, the
listener's address and the manifest (validation of input, reasons for a start to
fail), routing, JSON and headers, and `Status` beyond the denomination. In `Api`,
withdrawals stand for the swap endpoints, which answer in the same way and whose
calls are in `Swaps`. Amounts change value with the height at which they are spent
(`QdayValue`); the models take the value at the height the transfer is built for
as the coin's value, and in `Defend` an output without its shield is worth
nothing. Currency overflow (`AddWithOverflow`, `swap.go:267`) is refused by the
code before anything else happens. An output whose address is not in the table
stops `autoDefend` in the code and is not in `Defend`; due outputs that cannot pay the
fee together stop it in both, and the instance has none.

## 7. Plan

Done: the core (`Custody`, `Payments`, `CoinSelection`, `BuildTransfer`,
`UpdateProofs`), `Addresses`, `Service`, `Swaps`, `SwapView`, `Accounting`, `Defend`, and
the composition `Daemon`; proofs for all of them.

What could come next:

1. `Swaps`: settling of actions under the pass's fairness; two sessions.
2. A composition of `Service` and `Custody`: a stored transaction is picked up by a
   pass that the wake channel started.
3. A relation between `Slack`, `MineDelay`, the outputs and the shield under which
   `RenewedInTime` can be proved.
