# Verification of Basalt / FolioX

TLA+ models of the repository's own logic, the TLC runs that check them on
small instances, and TLAPS proofs of what matters most about the two basket
programs, the indexer, its gate to the RPC endpoints, and the app's two payment
paths.  Everything is
translated from the source; `PROJECT.json` maps each definition to the lines it
stands for, lists the runs, the hazards they are aimed at, and a mutation of
the model for every property.

Contents: [the system](#the-system) · [modules](#modules) · [runs](#runs) ·
[findings](#findings) · [proofs](#proofs) ·
[what is only model-checked](#what-is-only-model-checked) ·
[what is left out](#what-is-left-out) · [plan](#plan)

## The system

Baskets of tokenized stocks on Solana.  A basket is a vault of constituent
tokens and a share mint that is a pro-rata claim on it; shares are minted and
redeemed in kind.  The on-chain programs hold all the money.  The backend
follows the chain, and projects events into tables that the API and the app
read.  It never signs for users.

| Component | State | Operations | Correct when |
| --- | --- | --- | --- |
| **Basket program V0** (`programs/basket`) | share supply and accounts, vault balances, fee checkpoint and remainder | create, mint in kind, redeem in kind, accrue management fee | shares stay backed, nobody is diluted by rounding, the fee is exact however often it is charged, nothing but an issuer keeps a holder from redeeming |
| **Managed basket V2** (`programs/managed_basket`) | vault pair, shares, target weights, version, proposal accounts by nonce | create, mint, redeem, propose, approve, cancel, expire, fill | one live proposal, an approved price is final and public for the notice period, exits stay open |
| **managed-core** (`managed-core`) | the same, with one optional pending record | the same, as pure functions | it is what the program promises |
| **Whitelist** (`programs/whitelist`) | mint status, authority and pending authority | add, pause, unpause, transfer and claim authority | a pause stops mints and nothing else |
| **Basket factory**, **mock faucet** | counters, records and receipts | create a record with its basket; claim once | one record per basket; one claim per wallet |
| **Durable history** (`backend/src/indexer/history.ts`, `listener.ts`) | per program: scan cursors and attested slot; per program and transaction: queue status, block index, collection marker | scan pages, order a slot, drain, quarantine, collect evidence | no finalized transaction is missed, effects in chain order, trouble contained to its namespace |
| **Position projection and recovery** (`positions.ts`, `positionsSync.ts`, `positionRecovery.ts`) | event facts, claims, balances, barrier slot, rebuild marker, staged runs | apply an event once, publish a snapshot, replay, stage and activate a rebuild | every event counts exactly once, across crashes, snapshots and recoveries |
| **Balance snapshots, holdings, basket state, whitelist sync** | derived tables | read the chain, upsert | last read wins; never older than the slot bound |
| **RPC budget and backoff** (`backend/src/rpc`) | queue, slots in use, next start and cooldown, deadlines; each reader's attempts | run, drain, defer, start, expire, abort, settle; retry after a rate limit | outstanding requests bounded, pauses kept, every read comes back |
| **API** (`backend/src/api`) | nonce store, rate windows, concurrency permits | issue and consume nonces, take and release permits, read routes | nonces single-use, permits released once |
| **Workers** (`backend/src/workers`) | quotes, price and NAV history, fee crank cursor | poll, aggregate, crank | no basket starves, stale quotes are not served |
| **Managed projection** (`backend/src/managed`) | proposals and versions folded from events | reduce events | agrees with the program |
| **App transaction flow** (`app/components/basket/use-transaction-flow.ts`, `pending-tx.ts`, `rpc-retry.ts`, `sign-and-send-local.ts`) | hook state and in-flight flag, live runs, registry of pending transactions | prepare, simulate, guard, sign, send, retry, confirm, hide, dismiss | what was sent is never forgotten, and only what was reviewed is sent |
| **App wallet setup** (`app/lib/transactions.ts`, `use-alt-prewarm.ts`) | saved setup receipt, run in progress, submissions on the cluster | read, reconcile, create, extend, confirm, verify | nothing is paid twice, a returned table is complete |

How they interact.  Wallets call the programs; `mint_in_kind` reads the
whitelist's accounts, and every basket instruction first accrues the management
fee.  The programs emit events into transaction logs.  Durable history pages
through the transactions of the six programs of two *namespaces* (two
deployments), and hands them one at a time, in chain order, to the projection.
The projection writes claims and balances to PostgreSQL.  The periodic sync and
the reviewed recovery replace the projection by a holder snapshot they read from
RPC earlier.  API and workers only read these tables.  In the app, every
transaction of a form goes through one hook; a large trade first needs an
address lookup table, whose setup is the hook's *prepare* stage and sends
transactions of its own.

What is hard:

- *On chain*: arithmetic whose errors add up over many legal calls, by several
  wallets; a share mint that holders can burn from, and constituents that their
  issuers can stop or seize, without the programs taking part; two accounts (basket and proposal) that record one fact; old proposal
  accounts to which any instruction can be addressed; slots passing between
  propose, approve and fill while redemptions shrink the vault.
- *Indexer*: polls die between any two database transactions; pages are read
  while the chain grows; snapshots are read before locks are taken; recovery
  finishes transactions without their effects and makes up for them later.
- *App*: an answer of the wallet or the RPC that gets lost after the transaction
  was accepted; a modal closed, a form left, a wallet switched or a page reloaded
  in the middle of a run; reads that lag behind what has landed; retries of all of it.
- *RPC budget*: callbacks of many timers in any order, pauses that overlap,
  callers that leave while their request goes on, an endpoint that never answers.
- *Elsewhere*: single-use tokens.

`PROJECT.json` lists the hazards one by one, at their lines, with the property
that would catch each going wrong.

## Modules

### V0 basket: `Sums`, `BasketMath`, `Basket`, `AmountLemmas`, `BasketProofs`

`BasketMath` is module `math` of `programs/basket/src/lib.rs` with the two
decision helpers.  Floor divisions are `\div`; where the code returns an error
or a value, the operator returns an empty or a singleton set.

`Basket` is one basket after `create_basket`.  An instruction is atomic on
Solana, so each is one action: `MintInKind`, `RedeemInKind`,
`AccrueManagementFee`, each with the accrual `accrue_fee_internal` performs
first, the fee splits and every token movement.  `PauseMint` and `UnpauseMint`
are the whitelist's; `Donate`, `TransferShares`, `BurnShares` and `Tick` are what
the program does not control: the share mint is an ordinary one, so a holder may
burn shares at the token program, without a checkpoint or a redemption.  The
issuers are there too: `Hold` and `Release` stop and readmit the transfers of a
constituent (pause, freeze or a hook), `Seize` takes some of it out of the vault
(PermanentDelegate).  `owed` is a history variable: the fee numerator streamed
second by second and not yet minted, less what burned shares took along; `taken`
is what was seized.

Properties: `ExitsOpen` (`BackedShares` and `RedeemNeverGated`),
`FeeStreamExact`, `NoDilution`, `NothingStranded`, `NoRoundTripProfit`,
`Conserved`.  `RedeemNeverGated` says in every state in which no issuer holds a
constituent back that the whole guard of the instruction (`MayRedeem`, with the
accrual's `MayAccrue`) holds for every holder and every part of the balance.
Redemption is *not* unconditional, and the erratum in
`docs/basalt-v0-spec.md:15` says so: a constituent whose transfers its issuer
stops closes the exit for the whole basket, as one refused payout rolls the
redemption back, and a seizure takes backing from every share.  `BackedShares`,
`NoDilution` and `ExitsOpen` make exactly that exception.

What a direct burn does is stated, not assumed away.  `FeeStreamExact` keeps the
fee exact, except that burned shares take with them the fee they streamed since
the last checkpoint.  `NothingStranded` allows tokens that no share can claim
after one kind of step only, the burn of the last share by the holder of all of
them; they go to whoever mints next, for the genesis amount.

`Sums` adds up balances, here and in the other modules: a sum is the number of
units that are held together, so a cardinality.

### Managed V2: `ManagedMath`, `ManagedCore`, `ManagedBasket`, `ManagedProofs`

`ManagedCore` is the host model in `managed-core/src/model.rs`: one optional
pending proposal.  `ManagedBasket` is the program: the basket account names the
pending proposal by nonce, every proposal ever made keeps an account and a
status, and an instruction may be sent for any nonce, by any actor, at any time,
again and again.  `ImplementsCore` is the refinement: the pending record is read
off the account that the basket names.  Holders may burn their shares at the
token program here too (`BurnShares`, `CoreBurn`).  Issuers are not in this
model: the program admits only mints without extensions and without a freeze
authority (`validate_supported_mint_extensions`), so no issuer can stop a transfer
or take from the vault, and `ExitsOpen` needs no exception.

Properties: `TradesAreSerial` (`OneLiveProposal`, `NoncesUnused`,
`LiveIsCurrent` and `FillsAreSerial`), `ExitsOpen` (`BackedShares` and
`OpenExit`, with the shares adding up to the supply), `TradesAsAnnounced`, `NoDilution`, `ImplementsCore`.

### Indexer: `History`, `Positions` and their proofs

`History` is ingestion.  The environment finalises slots of one or two
transactions, each mentioning programs of one or both namespaces, with events
of some of them, or failed, or with a log the runtime cut.  A poll scans each
program (`ScanPage`: request, `savePage`, cursors; `MarkVerifiedThrough`),
chooses the namespaces that may drain (`ChooseEligible`), and drains: a slot's
order is fetched before its first transaction (`OrderSlot`), a transaction is
fetched (`Take`), its facts and marker are committed (`Collect`), then its
effects (`ApplyEffects`), then its queue entries are finished (`Finish`).  Each
of these is a database transaction of its own, and `Crash` or a failed call may
come between.  After a quarantine the poll ends with an evidence pass
(`EndDrain`), which collects facts without effects.

A transaction that is not to be passed stops the drain in one of two ways.
`Block` is the regular one: the namespace it was taken for leaves the drain, and
so does one that its handling put in quarantine.  `Retain` is an error that
reaches the loop's own `catch` (`listener.ts:585`): there only the namespace it
was taken for leaves, for this poll.  When the error comes between the emitters'
quarantine and the end of the handling, the other namespace drains on past the
transaction until the poll ends; `halfDone`, a history field, names these.

`Positions` is what happens to one basket's events in `ApplyEffects`: every
event is claimed and applied in one database transaction, a redemption of more
than is projected rolls back and marks the basket for a rebuild; snapshots are
fetched (`SyncFetches`, `OperatorFetches`) and published later
(`PublishSnapshot`, `StageRebuild`, `ActivateRebuild`) under the conditions the
code checks at that point.  `Replay` is the maintenance tool, which finishes
transactions without effects.  It looks at no rebuild mark; that operators use it
only while one stands is `ProcedureFollowed`, an assumption about the environment
(see [what is left out](#what-is-left-out)).  On the chain's side are the two
movements that no event tells of, `ChainTransfer` and `ChainBurn`.

The two meet at one interface: `Positions` takes from `History` that the queue
is fed in chain order and without gaps (`AttestedIsDiscovered`,
`EffectsInOrder`), and that a transaction leaves the queue when its effects are
in (`FinishedIsApplied`); `History` takes from `Positions` that re-running a
transaction is harmless (`ExactlyOnce`).

### RPC: `RpcBudget`, `RpcBudgetProofs`

`RpcBudget` is `RpcRequestBudget` for one endpoint and `withRpcBackoff` in each
reader that shares it.  `budget` holds the fields of the class, `wire` the
requests that have started and not settled, `reader` the retry loops.  Every
callback is an action: `Run` (called by `Begin` and `Retry`), `QueueDeadline`,
`AbortQueued`, `AbortSent`, `RequestDeadline`, `Settle`, `RateLimited` (a 429,
which defers the endpoint while its own request holds a slot), `TimerFires`; all
but the aborts and deadlines of requests under way end in `Drain`.  Time is kept
as what is left of each period, and a due callback may run late and in any order.
`Abandon` is a caller with a deadline of its own (the balance snapshots), whose
request goes on without it.  `started` and `quiet` are history variables: that a
request was sent, and for how long none may be.

It composes with the indexer only as the source of failures: a read of `History`
or `Positions` that fails is one that came back with an error here.

Properties: `SlotsBounded`, `OneRequestEach`, `NoLostWakeup`, `PausesHonoured`,
`EventuallyAnswered`.  The pause that `PausesHonoured` speaks of is the one the
budget grants: at most its cap of a minute, and one second for a Retry-After that
is a date rather than a number, which the code does not read.

### App: `TransactionFlow`, `LookupTables` and their proofs

`TransactionFlow` is the hook with its surroundings.  A run goes through
`prepare`, `simulate`, `guard`, `sign`, `prompt`, `recheck`, `send` and
`confirm`; `mode` says whether the wallet broadcasts or only signs
(`sendViaConnection`).  `Guard` is the asynchronous assertion, `HandOver` the
synchronous one with the call it protects in the same turn, `Answer` the
wallet's reply, `Broadcast` what a send can come to: `Transient` is an error
that `withRetry` retries, `Deterministic` one it passes on, `Stop` every exit
commented "never sent".  `accepted` is what the cluster really took; any error,
of either kind, may hide an acceptance.  `misread` are the runs with a broadcast
whose error `isTransientRpcError` did not recognise: the local path then sets no
ambiguity flag.  The user opens, presses, closes, switches and dismisses at any
time; `Close` resets the hook before a signature while the run goes on, so that a
second run may overlap it (`overlapped`).  `CloseByForm` is the form closing its
modal itself, without handing the entry to the banner (`zap-in-form.tsx:221`), and
`Leave` is navigation: the hook is unmounted, its runs go on with what they
captured and with the wallet intent of the last render (`gone`).  `dropped` are
the runs whose modal went away like that.

`LookupTables` is one call of `ensureAltCovering` after another, over the saved
`receipt`.  Each read, save and submission is an action: `ReadExistence`,
`ReadStatus`, `ReadHeight` and `ReadTable` (the reconciliation of what is
pending), `ResolveCreation`, `Decide`, `Loop`, `Approve`, `Confirm`, `Poll`,
`Verify`, `Finish`.  `subs` are the submissions on the cluster: in flight,
landed, visible to account reads, failed or expired.  Faults are refusals, lost
answers, failed reads, reloads (without `localStorage` the receipt goes too),
submissions that come to nothing, and nodes that do not know the status of what
has landed.  `lost` and `struck` are history fields: a submission that no receipt
could keep, and one that had landed when it, or the creation of its table, was
struck off the receipt as expired, whether it landed between the status read and
the height read or the status came from a node that lags.

`TransactionFlow` leaves the setup out of its prepare stage; the two share no
state, as the setup has its own confirmation and writes neither the registry
nor the hook's sent flag.

Properties: `OnlyReviewedContext`, `LocalFailureIsUnsent`,
`HiddenOutcomeSurfaces`, `NoDeadEntries`; `PaidTwiceOnlyBlind`,
`ReturnedIsCovered`, `ReceiptIsResumable`, `EventuallyReady`.  `ReturnedIsCovered`
speaks of the reads of the setup; the trade may later read the table from another
node, which may lag behind.  `OnlyReviewedContext` holds while the form is there:
the wallet intent of a run whose form was left is no longer renewed, and the
assertions compare with what was rendered last.

## Runs

The state spaces are finite because the clock, the transactions and the faults
are bounded by constants named `Max...`, and amounts come from small sets.  The
arithmetic constants are scaled down (`BPS_DENOM = 4` instead of 10 000, a year
of one or two seconds) so that remainders, floors and full-balance cases all
occur within a few units; with the real constants small amounts would round to
zero and nothing would happen.

| Run | Question | Instance, and why it is enough |
| --- | --- | --- |
| `basket` | Is value conserved, backing kept and the streaming fee exact over any sequence of calls? | two constituents, one of an issuer who stops and seizes it; two wallets, of which the one with deposits is the treasury; deposits of 1 or 2, up to six shares, burns and transfers of 2, two fee periods: empty basket, full redemption, a burn of the last shares, re-genesis, donation, pause, both fees, and a remainder carried into a second accrual all occur; any number of checkpoints is the business of the theorem `ExactFees` |
| `basket_snapshot` | Does the comment at `lib.rs:677` hold? | *violated*, see findings |
| `managed` | Can proposals, approvals, fills and expiries get out of step, does the program implement managed-core, and do holders keep their share and their way out around a trade? | two nonces, slots 0..3 and one-slot windows: every window opens, closes and is missed once, and one trade follows another; three actors, among them an outsider; two holders, a vault of 2+2 behind two shares, up to three of each, so that both roundings and a refused fill occur |
| `history` | Do scans and drains lose, reorder or jam anything? | three programs in two namespaces, six shapes of transaction, three transactions, of which the first may make trouble for two namespaces and the last stands behind it in one; page size 2, so that a scan takes several pages and a drain can go past a transaction to the next; two pages per poll, one crash or failed call |
| `positions` | Does every event count exactly once? | two transactions of up to two events, with and without exit fees, three finalized slots, one crash, both readers, event-less transfers and burns |
| `positions_exit_fee`, `positions_supply` | Do exit fees reconcile? | *violated*, see findings |
| `rpc_budget` | Is the endpoint protected, and does every read come back? | two readers, two slots, two places in the queue, pauses of one tick and of more than the cap, three attempts: callers that left fill slots and queue, so that both are at their limit, and pauses overlap |
| `flow` | Is a sent transaction ever forgotten, or something else sent than was reviewed? | two runs that may overlap, two contexts, two attempts, both signing paths, and one move (a switch, a navigation, or a modal closed by the form): each guard fails, each answer is lost or misread, the modal closes at every stage; the theorems hold for any number of moves |
| `flow_never_sent` | Is "never sent" true of the wallet path? | *violated*, see findings |
| `lookup_tables` | Is setup paid for once, and does it end? | two packets, four slots (so up to four tables), eight submissions, three faults: a creation and an extension are each lost, raced, refused, expired and unknown to a node that lags, and two of these combine in one history |
| `lookup_charged` | Is the comment "never charge for another table" true? | *violated*, see findings |

**Fairness.**  `Positions` and `History` state liveness under
`WF_vars(Poll)`: the backend polls on a timer for as long as the process runs,
and a poll that is not cut off goes on to its next step.  Nothing is assumed of
the chain, snapshot readers, operators or wallets, and the number of crashes and
failed calls is bounded, as eventual progress cannot be expected otherwise.
`EventuallyProjected` allows that the basket comes to ask for a rebuild;
`EventuallyApplied` allows a namespace that is *jammed*: one with a transaction
in quarantine, or with one that also mentions the other namespace and has events
only there, while that one is in quarantine.  The last case is what the code
does (`listener.ts:751` retains the transaction in every queue); it is stated
rather than assumed away.  `TransactionFlow` has weak fairness for each run's own
steps and for the registry's removal timer: promises settle and timers fire,
every wait in the code has a budget; nobody has to answer a wallet prompt or
press a button.  `RpcBudget` has it for the clock, for the timers' callbacks and
for a reader that was answered or has slept; nothing makes the endpoint answer or
a 429 stop.  `LookupTables` has it for the setup's steps and for the cluster
processing each submission: the user retries and approves, and the number of
faults is bounded.

Deadlock checking is off in `positions`, `history` and `lookup_tables`, where the
bounded chain, or a finished setup, may come to rest with nothing left to do;
that nothing is stuck is what the liveness properties are for.

## Findings

- **Exit fee taken twice** (`positions_exit_fee`).  The program's `Redeemed`
  event carries `shares_burned = shares_to_burn`, the exit fee included.
  `positions.ts:286` removes `sharesBurned + exitFeeShares`.  After one
  redemption with an exit fee, an up-to-date projection differs from the chain;
  a full redemption with a fee is taken for a projection gap.
- **Supply formula** (`positions_supply`).  `positions.ts:424` and
  `navEngine.ts:449` subtract `sharesBurned` from the supply, though the program
  burns the exit fee less.  Event history with an exit fee never reconciles to
  the chain's supply, so the rebuild that the first finding makes necessary
  cannot be staged.
- **"The typed snapshot is accurate"** (`basket_snapshot`).  The comment at
  `programs/basket/src/lib.rs:677` says no CPI has touched the redeemer's share
  account, but the accrual just before may have minted fee shares to it when
  the redeemer is the creator or treasury.  The redemption is then refused
  shares that the wallet holds; nothing is lost, and a second call succeeds.
- **"Never sent"** (`flow_never_sent`).  When a wallet's send fails,
  `use-transaction-flow.ts:398` drops the registry entry as never sent and offers
  Retry, which builds a new transaction.  The answer can get lost after the RPC
  accepted the transaction, as `sign-and-send-local.ts:38` says; the local path
  keeps the signature for that case, the wallet path does not.  The local path
  keeps it only when the error is one that the expression at `rpc-retry.ts:54`
  matches: `LocalFailureIsUnsent` holds but for runs with an error it does not
  know (`misread`), such as a browser's own wording of a broken connection.
- **"Never charge for another table"** (`lookup_charged`).  The comment at
  `transactions.ts:1010`.  The signature status is read before the block height,
  and the first read may be minutes older: a creation that landed in between is
  taken for expired, its receipt is removed, and the next attempt pays for a
  second table.  A status node that lags behind the one that tells the height
  does the same to a creation that landed long before.  `PaidTwiceOnlyBlind`
  shows that these two, and submissions that no receipt could keep (a lost
  answer, a reload without storage), are the only ways to pay twice.

Noticed on the way, without a run.  A sent transaction can be in neither the modal
nor the banner, against `pending-tx-banner.tsx:19` ("client-side navigation never
orphans a confirmation"): `zap-in-form.tsx:221` closes the modal without `hidePendingTx` when
wallet, amount or basket change, and leaving the page does not call it either.
`HiddenOutcomeSurfaces` names these two as the only ways (`dropped`).  The same
goes for the comment at `listener.ts:831`, "Never pass a failed global
predecessor": `EffectsInOrder` names the case in which one is passed (`halfDone`).
The review modal says that Cancel aborts
(`tx-review-modal.tsx:31`), but before a signature the run goes on after the
reset, and a new one may start over it; `HiddenOutcomeSurfaces` is stated for runs
that do not overlap.  The counter of "three consecutive" failed confirmation
rounds (`use-transaction-flow.ts:436`) is never reset by a good one.  A form
switched to another wallet and back during a setup starts a second one beside it.

`OnlyExitFeesDiffer` shows how far the two findings about exit fees go: an
up-to-date projection is the chain's balances less, for each user, the exit fees
of the redemptions since the last snapshot, and nothing else is off.  The
theorem `EventSupplyOffByFeesAndBurns` says of the supply, at every finalized
slot, that the events miss it by the exit fees, exceed it by what holders burned
at the token program, and nothing else.  So a direct burn alone, which anyone can
make with shares of their own, also keeps a rebuild from being staged.

## Proofs

**Sums.**  What several wallets or events amount to is the subject of several
theorems below, and the prover cannot do induction over data.  `Sums` therefore
defines a total without recursion, as the number of units held (`Units`), and a
total of integers as what is owned less what is owed.  `AmountLemmas` proves from
the library's facts about finite sets what an induction would have given: a total
of sums is the sum of the totals (`TotalPlus`, `NetPlus`), one account's total is
its balance (`TotalSingle`, `NetSingle`), one more account adds its balance
(`NetAdd`), no account is above the total (`PartOfTotal`), and what a credit, a
debit or a transfer does (`TotalCredit`, `TotalDebit`, `TotalMoves`).  It takes
that the holders or users are finitely many.

### V0 basket

`BasketProofs` proves, for every basket size, wallet set, fee rates and share
supply, from the assumptions on constants in `BasketMath` and `Basket` (rates
between 0 and the denominator, a positive denominator and year, seeds and
deposits positive, genesis within the share bound, finitely many holders), and
with burns, holds and seizures among the steps:

| Theorem | Says |
| --- | --- |
| `Invariance` | the inductive invariant `BasketInv` holds always |
| `TypeCorrect` | `TypeOK`: the supply fits, no balance is negative, the remainder is a proper fraction |
| `ExactFees` | `FeeStreamExact` |
| `AlwaysBacked` | `BackedShares` |
| `Conservation` | `Conserved` |
| `ExitsAlwaysOpen` | `ExitsOpen` |
| `NeverDiluted`, `NeverStranded` | the action properties `NoDilution`, `NothingStranded` |
| `NoFreeRoundTrip` | `NoRoundTripProfit` |

`BasketInv` is `TypeOK`, `FeeStreamExact`, `BackedShares` and
`NoFeeNoRemainder`.  None of the first three is inductive alone: the fee bound
needs the remainder's range, the type of `owed` needs `FeeStreamExact`, the
division in a mint needs `BackedShares`, and a zero rate needs the last part,
because the code clears the remainder in that case.  `Conserved` is inductive
on top of it.

The argument: `DivFloor` and `DivFraction` of `AmountLemmas`, which the managed
proofs share, give the floor's two inequalities;
`ManagementFeeExact` turns the accumulator into an equation; `GrossSharesPriced`
and `RedeemPriced` say that a mint pays at least, and a redemption at most, the
pro-rata amount, and that a partial redemption leaves something of every
constituent.  `AccrualSettles` and `AccrueCheckpoints` settle the accrual once
for all three instructions.  `MintStep`, `RedeemStep` and `CrankStep` treat the
instructions, further lemmas the environment; `EveryStep` collects them.

For `Conserved`, `PayFeeTotal` says that the two parts of a split fee are the
fee, and `AccruedTotal` that an accrual mints to the balances what it adds to the
supply; `PaidIn` and `PaidOut` treat one constituent, of which vault and wallets
together keep the sum.  `ExitsAlwaysOpen` needs both invariants: a redemption
passes `ShareBalanceSnapshot` because the accrual lowers no balance, and burns no
more than the supply because no balance is above it.

### Managed V2

`ManagedProofs` proves, for every pair of assets, holders, windows, number of
proposals and u64 bound, from the assumptions named in `ManagedMath` and
`ManagedBasket` (two assets, finitely many holders, distinct manager and guardian, positive
windows, valid initial weights, a funded genesis):

| Theorem | Says |
| --- | --- |
| `ManagedInvariance` | the inductive invariant `ManagedInv` holds always |
| `TypeCorrect` | `TypeOK` |
| `TradesSerial` | `TradesAreSerial` |
| `BackedSharesHolds`, `SharesConservedHolds` | `BackedShares`, `SharesConserved` |
| `ExitsOpenHold` | `ExitsOpen` |
| `NoDilutionHolds`, `TradesAsAnnouncedHold` | the action properties `NoDilution`, `TradesAsAnnounced` |
| `ProgramImplementsCore` | `Spec => ImplementsCore` |

`ManagedInv` is `TypeOK`, `ProposalInv` and `BackedShares`.  `ProposalInv` adds
`NoticeGiven` (a priced trade opens a full notice after it was priced) to the
three agreements: `TradesAsAnnounced` follows from a fill's window only with
it.  `LiveIsCurrent` needs `OneLiveProposal`, as a fill raises the version under
every other live proposal; `OneLiveProposal` needs `NoncesUnused`, and the
mint's division needs `BackedShares`.  One lemma per instruction shows that it
keeps `ManagedInv` and satisfies the action properties; `CloseStep` is shared by
cancellation and expiry, `ProposalsUntouched` and `SharesUntouched` by the steps
that leave one half of the state alone.

`ExitsOpen` follows from `ManagedInv` and `SharesConserved` (`ExitPays`): a
holder's shares are at most the supply, so no leg pays out more than it has, and
a leg with a raw unit behind the shares pays at least one.

`FillsAreSerial`, about all the trades of the past, takes one fact more,
`LatestLive`: the live proposal has the largest nonce handed out.  Only a fill
extends the set of the filled (`RecordKept`, `OneLiveChanged` for all other
steps), and `FillSerial` shows that it does so at the end: its base is the
current version by `LiveIsCurrent`, its nonce the largest by `LatestLive`.

The refinement reads the core's optional record off the account that the basket
names (`PendingOfNonce`: there is one, it is live and typed, by `ManagedInv`);
`EveryStepMaps` has one lemma per instruction, and a transfer of no shares is a
stutter.  `NoneAssumption`, that absence differs from every record, is what
separates `None` from a record.

### Indexer

`HistoryProofs` proves, for any programs, namespaces, page size, pages per poll,
shapes of transactions, and any number of transactions and faults, from the
assumptions named in `History` (a failed or cut transaction has no events to
show, and emitters are among the programs mentioned):

| Theorem | Says |
| --- | --- |
| `IngestionInvariant` | the inductive invariant `IInv` holds always |
| `IngestionTypeCorrect` | `TypeOK` |
| `AttestedAlwaysDiscovered` | `AttestedIsDiscovered` |
| `EffectsAlwaysInOrder` | `EffectsInOrder` |
| `FinishedAlwaysApplied` | `FinishedIsApplied` |

The cursors carry the first half (`Scanned`): all is queued up to the head, and
in a scan from the cursor back to where the scan began, so that a scan that
reaches the head closes the gap.  `PageIsNewest` shows that a page is the newest
part of what is left and a short page all of it (`NewestAreAll`), `PageScanned`
that a page keeps `Scanned`, and that a short page of a *fresh* scan leaves
nothing out: what `markVerifiedThrough` attests (`ScanAttests`).  The head must
be a finalized transaction, or one that arrives later would pass under it.

Order follows from it.  A namespace in the drain was discovered through the
watermark and has nothing in quarantine (`EligibleSound`), but for the one
transaction that is just being put there, which is mixed and never takes effect,
and for those whose handling an error cut short in this poll (`halfDone`); the
transaction at work is the oldest pending one (`AtWork`).  So an earlier
transaction of the namespace is neither absent nor pending, and quarantined only
if half done: else it is processed, hence applied or failed (`NothingBefore`, and
`StepInOrder` for the step that applies).  `EffectsInOrder` is an action property,
because the exception is over with the poll.  `RowsSettle` is what all steps that
write rows have in common, `BlockSound`, `RetainSound`, `ReleaseSound` and
`NextProgramSound` the ways a poll goes on.

`PositionsProofs` proves, for any users, amounts, numbers of transactions and
slots, and any number of restarts and recoveries, from the assumptions named in
`Positions`:

| Theorem | Says |
| --- | --- |
| `ProjectionInvariant` | the inductive invariant `IInv` holds always |
| `ProjectionTypeCorrect` | `TypeOK`, with it that no projected balance is negative |
| `NeverSkipped` | `NothingSkipped` |
| `AlwaysInChainOrder` | `InChainOrder` |
| `CountedExactlyOnce` | `ExactlyOnce` |
| `ChainAccounted` | the inductive invariant `ChainInv` holds always |
| `FollowsButForExitFees` | `OnlyExitFeesDiffer` |
| `EventSupplyOffByFeesAndBurns` | `SupplyOffByFeesAndBurns`: at every finalized slot the supply added up from the events is the chain's less the exit fees, plus what holders burned at the token program |

Besides the two properties, `IInv` says that only finalized transactions are
queued (`QueueFinal`), that a processed one has its facts stored (`FactsKept`),
so that a staged run covers it, and `AtWork`: the poll is at the oldest pending
transaction, everything older is processed, the events before the one it looks
at are claimed, and the basket is not marked.  Order needs `AtWork`, for an
event is claimed when all of the older transactions are processed, hence by
`NothingSkipped` claimed.  `EventStep` serves the two ways past an event,
`ProcessedStep` the two ways out of the queue, and `PublishedStep` the two
publications, which claim every event on store when nothing is pending.

`ExactlyOnce` equates balances with a sum over claims, and is inductive on top of
`IInv`.  An effect adds one claim and its amount, which `NetAdd` turns into the
new sum.  A publication moves the barrier to the snapshot's slot, and
`Publishable` and `Activatable` see to it that no stored or claimed event lies
after that slot, so that nothing is left to add.

`OnlyExitFeesDiffer` compares with the chain, so it needs the chain's own
books.  `ChainInv` keeps them: between any two slots, and up to the present, each
user's balance changes by what the events in between move, unless shares were
transferred or burned without an event (`unlogged`), and the supply together with
the shares burned so far (`burned`) changes by what they emit.  An execution
appends one transaction and moves what its one or two events say
(`ExecutedMoves`), a transfer keeps the supply, a burn its sum with `burned`
(`TransferAccounted` serves both), finality renames the present
(`FinalizeAccounted`).  What the indexer applies for an event is what the program
moved but for the exit fee, which it takes from the redeemer once more
(`FeeTwice`); so the two sums differ by the exit fees, and for the supply by the
same term (`SupplyChangeIs`).

### RPC

`RpcBudgetProofs` proves, for any number of readers, slots and places in the
queue, and any periods, from `BudgetAssumption` (positive limits and periods):

| Theorem | Says |
| --- | --- |
| `BudgetInvariance` | the inductive invariant `BudgetInv` holds always |
| `BudgetTypeCorrect` | `TypeOK` |
| `SlotsAlwaysBounded` | `SlotsBounded` |
| `WakeupNeverLost` | `NoLostWakeup` |
| `PausesAlwaysHonoured` | the action property `PausesHonoured` |
| `OneRequestEachHolds` | `OneRequestEach` |

`Counted` says that the slots taken are the requests under way, and that what is
owed to the endpoint (`quiet`) is covered by what the budget waits for: a drain
that starts a job has waited for zero, so nothing is owed.  `NoLostWakeup` must
hold *after* each drain, from any state before it, because a callback may break
it for the moment in between (`defer` clears the timer, a settled request gives
back its slot); one lemma about `Drain` therefore serves all the callbacks, and
the steps that do not drain leave queue, timer and slots alone.  An interval of
at least one is needed there: the second call of `drain` then arms the timer.

`OneRequestEach` counts places of two lists, by the cardinality of a set of
indices again: `Held` is what a list gains by an appended entry and loses by a
removed one.  It is inductive (`WaitInv`) with the fact that only a reader that
waits can have been told something.

### App

`TransactionFlowProofs` proves, for any number of runs, attempts and contexts:

| Theorem | Says |
| --- | --- |
| `FlowInvariant` | the inductive invariant holds always |
| `FlowTypeCorrect` | `TypeOK` |
| `LocalFailureSafe` | `LocalFailureIsUnsent` |
| `HiddenOutcomeSafe` | `HiddenOutcomeSurfaces` |
| `ReviewedContextOnly` | the action property `OnlyReviewedContext` |

The invariant says that a live run has its registry entry (`LiveHasEntry`), that
on the local path a run whose transaction was accepted is past sending, remembers
an ambiguous broadcast, or ended on a misread error (`AcceptedIsRemembered`), and,
as long as runs do not overlap, that the hook's one state belongs to the one live
run of the form that is there (`Attached`) and every entry is visible or handed to
the banner, unless its modal was dropped (`Exclusive`).  `ProgressKeeps` and the lemmas for `Stop`, `Sent`, `Transient`
and `Deterministic` settle the pieces once for all handlers.

`LookupProofs` proves, for any number of packets, slots, submissions and faults:

| Theorem | Says |
| --- | --- |
| `SetupInvariant` | the inductive invariant `IInv` holds always |
| `LookupTypeCorrect` | `TypeOK` |
| `PaidOnce` | `PaidTwiceOnlyBlind` |
| `ReturnedCovered` | `ReturnedIsCovered` |
| `ReceiptTrue` | `ReceiptIsResumable` |

Call a submission *good* when it stands, and is neither lost nor struck.  The
invariant says that every good one belongs to the receipt's table, and is pending
or already readable (`Accounted`); that an extension is good only after the
creation landed (`CreatedFirst`); and that within the packet loop no good
submission bought anything of what is left (`LeftIsNew`, `FirstIsFirst`).  With
that a new packet can only repeat a purchase that is not good.  Striking a
creation off the receipt strikes off its whole table (`StruckOff`), so that
nothing good is left of it (`Forgotten`).  `Asked`,
`SeenOrCreating` and `SameTable` tie the run's stage to the receipt.  Submissions
change in few ways (`Grows`, `NoneBetter`), so `Stopped`, `Forgotten` and
`Reconciled` serve most steps, and reads only ever show more.

## What is only model-checked

The liveness properties, `EventuallyProjected`, `EventuallyApplied`,
`NoDeadEntries`, `EventuallyReady` and `EventuallyAnswered`, as liveness under
fairness is beyond the prover; and the five violations, which need one trace
each.  Every other property of a passing run is a theorem.

## What is left out

Within the modelled components:

- Account data: PDAs, owners, hashes, discriminators, the Token-2022 extension
  gate of `mint_in_kind`, event encoding and decoding.  They are guards on data
  that the models do not distinguish.
- Overflow of the u128 intermediates, which the u64 bounds exclude for real
  parameters, and a clock that runs backwards.
- V0: delegates and issuers who mint or burn constituents or take them from
  wallets, and approved delegates of share accounts; the program sees no more of
  these than of a transfer.  The basket starts as `create_basket` leaves it.  A basket that is emptied
  and reopened within one second keeps a remainder of less than a share, which
  the model has too.
- V2: the wallets of depositors and takers (only the vault's u64 bound limits a
  payment), and the second look at both legs after a fill, which the first
  implies.
- `Positions`: one basket; cost basis and realised profit; at most one movement
  per slot that no event tells of; operators follow the documented procedure,
  replaying and fetching only while a rebuild is required
  (`docs/backend-devnet-security-2026-10-09.md`).  Nothing in the code holds them
  to it (`historyReadiness.ts:16`, `replay-indexer.ts:65`), and a replay without a
  rebuild breaks `NothingSkipped`: it finishes transactions without effects.
- `History`: what an effect is; the block by a required rebuild
  (`projectionBlocked`, in `Positions`); the generation counter of overlapping
  polls in one process and the in-memory retry ledger; the mode without a
  database; a second poll after the lock's connection is lost.  A change of the
  registered programs, for which completion records their ids, does not occur.

- `RpcBudget`: the checks of requests and responses, the counters, log
  suppression, the pacer between two reads of one loop, the registry of budgets by
  endpoint (each has a budget of its own), and a signal that has aborted before
  the call.
- `TransactionFlow`: wording and links of the modal, the simulation's verdict on
  particular instructions, blockhashes, and clocks: any budget may run out.  A
  page reload, which loses the registry and the runs together.
- `LookupTables`: the accounts and instructions of a particular trade, damaged
  receipts, tables closed or frozen from outside, two setups at once, and the
  other builders of `transactions.ts`, which compile instructions without state.

Components without a module are listed in `PROJECT.json` with the reason.

## Plan

1. V0 basket: model, runs, proofs. *Done.*
2. Managed V2 with its core as abstract specification: model, runs, proofs,
   refinement proof. *Done.*
3. Positions: model, runs, proofs. *Done.*
4. History: model, runs, proofs. *Done.*
5. The app's transaction flow: model, runs, proofs. *Done.*
6. The lookup-table setup: model, runs, proofs. *Done.*
7. RPC budget: model, run, proofs. *Done.*
8. Next: the API's single-use nonces and permits, the whitelist's authority
   transfer, factory counter and faucet receipts, and the fee crank's choice of
   baskets.
9. Proofs: of all modules. *Done*, but for the liveness named above.
