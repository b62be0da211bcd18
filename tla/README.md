# TLA+ models of the VOOL runtime

VOOL is a local agent runtime: a Python process (and often several, beside each
other or one after the other) that answers a user's turns, calls models and
tools on the user's behalf, pays for some of them, and updates itself. Almost
everything the runtime does to the outside world is an *effect*: a remote fetch,
a command, a file mutation, a provider call, a payment. This project models the
part of the program that decides whether an effect may happen, that accounts for
it, and that has to stay right when threads race, scopes close, processes die
and operators change the rules in the middle; the law under which it pays
providers, the wallet's transfers and the fees collected with them; and the
transaction by which the runtime replaces itself.

Paths below are relative to the repository root (`src/`).

## 1. Inventory

| Component | State it keeps | Operations | What is hard | What makes it correct |
|---|---|---|---|---|
| **Effect budget store** `core/effect_budget.py` | SQLite tables: rules, counters, reservations, instances, events; one per-process flag `_RECONCILED_THIS_PROCESS` | reserve, bind, consume, release, cost reconciliation, stale-instance reconciliation, operator grant and adjustment, heartbeat, shutdown, prune | several processes share one file; counters are kept incrementally; rules change under live reservations; rows are pruned while windows still sum them; a process dies holding units | counters equal the rows; usage within the limit or an overage on record; spent units stay spent; a live holder keeps its units |
| **Effect gateway and ledger** `core/effect_gateway.py` | per scope an `EffectLedger`: registry of effects, attempts, terminals | open_effect, begin_attempt, succeed, fail, cancel, retry, scope open and close | one handler makes several store transactions; threads outlive their scope; the registry is bounded; terminals arrive late or twice | no attempt without a consumed unit; the ledger reports the latest attempt; every reservation is settled |
| **Coverage and registered-tool doors** `core/runtime_execution_tools.py`, `core/tool_intent_executor.py` | none of their own | reserve, run the handler, settle | the handler runs before its unit is consumed | a tool that ran is charged |
| **Money liabilities** `core/effect_budget_money.py` | grants, liabilities and their lines, settlement evidence, liquidity observations | mint and revoke a grant, reserve, replay, retry, claim, record dispatched, unknown or unsent, release, settle, reconcile | processes die or stall between any two records; the outcome of a payment may never be known; evidence comes late and twice; a budget is replaced while money is held under it | one payment per operation; what may have been paid stays held; evidence never contradicts itself; no budget and no rule admits past its limit |
| **UsePod adapter and transport** `adapters/usepod_adapter.py`, `core/usepod/`, `core/wallet/usepod_x402.py` | none of their own | observe the balance, reserve, claim, send, settle, resume | the order of the records around one send | the law above, as its users call it |
| **Update transaction** `core/updater/transaction.py`, `worker.py`, `macos.py`, `migrations.py`, `installer/update/mac_update_helper.sh` | an append-only journal, the installed bundle, the prior bundle, snapshots | the journaled install, delegated swap, startup recovery, rollback | a crash between any two journal lines; a detached swap script that outlives the process | a half-finished update is never left installed; data and bundle agree |
| **Update feed, download, trust** `core/updater/feed.py`, `download.py`, `manifest.py`, `trust.py` | downloaded files | fetch, hash, verify | I/O and cryptography | only verified artifacts reach the transaction |
| **Effect reconciliation** `core/effect_reconciliation.py` | none | read-side account after a restart | - | - |
| **Standing coordinator** `core/standing_coordinator/` | missions, runs, leases | tick, claim, run, expire | a lease races a late result | one runner per mission |
| **Orchestration executor** `core/orchestration/` | task graph, envelopes, resource slots | schedule, cancel, resume, merge | cancellation races completion | every task ends, slots are returned |
| **Credit ledger and task offers** `core/credit_ledger.py` | balances, escrows | escrow, settle, refund | duplicated settlement | conservation of credits |
| **Wallet transfers** `core/wallet/lifecycle.py`, `settlement.py`, `transfers.py`, `limits.py` | one row per transfer with its hold, an effect record in another store | approve, claim, sign, send, cancel, recover, observe, resend, stop waiting, discard | an observer takes slow requests for dead; cancel races sign and send; a chain forks; answers get lost | limits count whatever may have moved; endings are what the chain says; a cancelled transfer never leaves |
| **Service fee ledger** `core/service_fee_ledger.py`, `core/wallet/dna_fees.py` | accruals, reversals, collections | accrue, reverse, offer, bind, claim, submit, confirm, fail, release, expire | a collection rides another payment's approval; refunds and expiries meet it on the way | never collected beyond what is owed; the ledger agrees with the transfer |
| **Wallet policy and custody** `core/wallet/` | proposals, quotes, keys | propose, quote, unlock, sign | approval goes stale | nothing is signed that was not approved |
| **Runtime continuity** `core/runtime_continuity.py` | sessions, checkpoints, unresolved effects | record, resume; reserve, mark, classify, resolve an effect | leases of records expire under live requests | - |
| **Agent runtime and tool routing**, **Workspace authority**, **Relay and channels**, **Mesh network and hive**, **Web API, chat UI and installers** | text, files, sockets | classification, path checks, bridges, replication, pages | mostly data and I/O | - |

How they interact: a turn opens a scope, which binds an `EffectLedger`. A door
calls `open_effect`; the ledger asks the budget store for a unit, mints an effect
id, binds the unit to it and registers it. `begin_attempt` consumes the unit;
terminals are recorded in the ledger only. Closing the scope returns what its
owner still holds reserved. The store is shared by every process; the ledger
lives and dies with one.

A paid provider call reserves its maximum under a grant and the money rules,
claims the one right to send, sends, and settles by whatever evidence arrives. A
call paid from the wallet becomes a proposal that the owner approves: the
approving request claims, signs and sends it, together with the collection of
earlier fees planned for it, and the observer follows both rows to their end.

## 2. Modules

| Module | Models | Uses |
|---|---|---|
| `EffectBudget` | the budget store; one action per transaction | - |
| `EffectGateway` | ledgers, threads, doors and the scope close on top of the store | extends `EffectBudget` |
| `EffectBudgetProofs`, `EffectGatewayProofs` | theorems about the store and the gateway | extend `EffectBudget`, `EffectGateway` |
| `UpdateTransaction` | one install transaction: flow, worker, swap script, rollback, recovery | - |
| `UpdateProofs` | theorems about it | extends `UpdateTransaction` |
| `Sums`, `SumLemmas` | sums over the rows of a ledger, and lemmas about them | - |
| `PaymentPromise` | what the monetary law promises, without processes or records | - |
| `MoneyLiability` | the monetary law and the invocations that use it | extends `Sums`, implements `PaymentPromise` |
| `FeeLedger` | fees owed and the collections of them | extends `Sums` |
| `WalletTransfer` | transfers: request, owner, observer, chain, effect record | extends `FeeLedger` |
| `MoneyProofs`, `WalletProofs` | theorems about the law and the transfers | extend `MoneyLiability`, `WalletTransfer`, and `SumLemmas` |
| `MCEffectBudget`, `MCEffectGateway`, `MCUpdateTransaction`, `MCMoneyLiability`, `MCWalletTransfer` | instances for TLC | - |

### EffectBudget

Every public operation of the store is one `BEGIN IMMEDIATE` transaction, so it
is one action, and processes interleave between actions. Variables are the
tables: `limit` (effect_budget_rules), `state` and `row`
(effect_budget_reservations), `pruned` (rows `_prune_stores` deleted; the row
itself is kept as history so that properties can speak of it), `reservedUnits`
and `consumedUnits` (effect_budget_counters), `instance`
(effect_budget_instances), `grants` and `overages` (the two kinds of event the
code or a property reads back, each with its time), and per process `process` and
`reconciled`. History are `peak`, the highest limit a rule ever had; `overran`, when a
reservation last went over a limit; and `lapsed`, the classes that were ever without a
rule.

A reservation row keeps the rules it was made under (`rules_json`), and every
later adjustment of a counter goes by those, not by the rules configured now:
that is what makes the counters hard to trust and worth proving about.
`reserve` includes the prune it ends with, of settled rows older than their retention
and of every event older than its own (`Kept`: grants and over_limit events alike); a
refusal commits the heartbeat; an unbudgeted class changes nothing. The sum over a set of rows is written as the
number of unit tokens (`UnitsOf`), which needs no recursion.

Abstractions: time is a natural that never runs backwards, read inside the
transaction (the code reads the clock just before `BEGIN IMMEDIATE`); the kernel
may report any subset of the dead processes as gone (pid reuse, another host);
reading operations (`preview_effect_units`, `budget_status`) and the legs where
the store itself fails (they roll back) change nothing and are left out.

### EffectGateway

A handler of the gateway makes several store transactions, so it is several
actions of a thread, with the call's locals in `thread[w]`. `OpenEffect`
reserves; `Authorize` mints, binds and registers; `BeginScan` is the scan of
`consume_effect_reservations`, `ConsumeNext` each of its consumptions and
`BeginAttempt` the registry's side; `RecordTerminal`, `Cancel`, `CancelRelease`
are the ends; `CloseScope`, `CloseRelease` and `CloseDone` the scope close.
A transport door begins the attempt and then runs; a coverage door runs the
handler (`RunHandler`) and then begins the attempt. `ProcessDies` drops every
call of the process and leaves the store as it is. `StoreStep` is what the rest of the
runtime does with the store meanwhile: the clock, the operator's grants and
adjustments, measured costs, the shutdown of an instance. `ran` and `reported` are
history.

`ImplementsBudget` is the refinement: the gateway's variables for the store are
the store's own, and every gateway step is a store step or a stutter. What is
proved of the store therefore holds under the gateway. `AttemptPaid` and `RanIsCharged`
speak of a class that was never without a rule (`AlwaysBudgeted`): an attempt made
while its class had none needs no unit, and owes none when the operator adds a rule.

`ReservationsSettle` says what becomes of a reserved unit whatever its caller does or
leaves undone: the scope close settles every unit its scan found, and a unit taken after
that scan, by a thread that still holds the ledger, stays reserved in a living process
only if its call gave it up (`Forsaken`: it never begins or cancels the effect, the
effect was evicted before its cancellation, or a retry was refused over another unit).

Left out: the policy decision before a reservation (a denied effect never
reaches the store), receipts and their wording, the durable background journal,
the money leg, and the leg of the tool door that runs without a ledger. An
unbudgeted effect of a coverage door is given an effect record like any other;
no property distinguishes it.

### UpdateTransaction

Three parties meet on one disk: the *driver*, whichever updater process is at
work (the press inside the app up to `SNAPSHOT_COMPLETE`, then the detached
worker, later a recovery), the swap script `mac_update_helper.sh`, and the app,
which quits when it pleases and is started by others. The state on disk is
`journal` (the steps of journal.jsonl in order), `bundle` (what lies at the
app's place, the prior's, the staging and the displaced one) and `data` (the
schema of the user data); `pc` is the driver's place, `script` and `result` the
script's, `running` and `quitting` the app's. `recovery` remembers what a
recovery found before it began to act, since it does not look again.

Every rename, journal line, copy and restore is a step of its own: a driver step
is one such write, and `Prepare` is one per journaled step of `_run_inner` and of
the first half of `_tail`. `rollback_active` and the rollback leg of
`recover_interrupted_update` are the same actions; they differ where the code
differs (only the flow stops its script, decides late and drops the staging).

`Delegated` chooses `performs_swap`: migrate, plan, script swaps
(`ExternalScriptHelper`), or stop, swap, migrate, relaunch (`MacProcessHelper`).
`Faults` is what may go wrong beyond refusals and time-outs, which always may:
the death of the updater process, of the machine, an exception nothing guards,
an app started in the middle, the recover command run beside a live updater
(only its abort leg; a second full rollback beside the first is not modelled).
Faults come right after a journaled step, the points the code's own `crash_after` can
simulate, and between the steps of a rollback, before its rename of the prior and after
the end of its copy. `"restore"` lets a rollback also stop within its restore of the
user data; `"torn"` lets all of them come between any two writes, the time from that
rename to the end of that copy included, and copies and restores stop half way.

Abstractions: the update has migrations (with none, user data is never
touched); a bundle is a version or torn; waits have no duration, so a time-out
may come at any moment. Left out: work pausing, status and receipts, pruning,
the Linux installers, manual rollback, a refused undo of a refused rename, and a
second transaction beside an open one.

### PaymentPromise and MoneyLiability

`PaymentPromise` is laws 6 and 7 of `effect_budget_money.py` as a specification:
an operation is free, held or settled; its payment leaves only when its maximum
has been set aside, so never while it is free, and never beside another; what has
a payment out is never set free.

`MoneyLiability` is the code. An *operation* is a row of the liabilities table
with its line, an *executor* a runtime process at work on an invocation of it,
and each database transaction is an action. The invocation's own knowledge (the
claim handle it holds, what it read) is its local state: two processes, or a
retry and its original, can be inside one operation at once. `outcome` is what
really became of each attempt, on the way, landed or lost; the code sees it only
through evidence: a provider's receipt, a refusal at admission, a confirmation on
chain, an attestation, each of which may come late, again, or never. A process
may crash at any step, and may stall so long that reconciliation takes it for
dead, and then go on. `KeepsPromise` maps the row's states to free, held and
settled and the attempts that are out to the exposure, and says that
`MoneyLiability` implements `PaymentPromise`.

Grants are provider budgets or single-operation approvals; minting one replaces
the active budget and carries what is held under it. `_rule_usage`,
`_grant_usage` and `_committed_debits` are sums over the rows they sum in the
code. Proofs that an attempt never landed are truthful, as the code has to take
them; a freeze and an expired quote are refusals that may always come; the window
of a rule is one flag per operation (`Age`), since completed costs only ever leave
it. Not modelled: the prune after 400 days, the fee accrued inside a settlement
(`FeeLedger` accrues it), conversion bounds, provider credit lines, and the
count, concurrency and interval limits.

### FeeLedger and WalletTransfer

`FeeLedger` keeps exact fees in fractions of a unit: the debts that accrued and
were refunded, and the row of each collection. One identity (payer, network,
asset, treasury, policy) is modelled, since the ledger never relates two.

`WalletTransfer` adds the transfers: payments, and the collections that ride
them. `lane` is how a payment leaves: `svm` and `evm`, bytes sent to a node;
`paykit`, Solana bytes handed to the resource that is paid; `authorization`, an
EIP-3009 authorization of the x402 SDK, handed over likewise. They share the rows,
the request's steps and the observer, and differ in what is read before the send,
in the exits, and in how the observer finds out: an authorization can be failed from
unknown when its window has closed unused at a finalized block, is offered no exit
and cannot be discarded; an `evm` payment without a receipt may be given up, or sent
again by the owner (`resend`), and nothing but its nonce being used ends its bytes.
Collections ride the first lane only. `row` is wallet_transfers joined with its proposal and its hold; the hold
follows the state through `PROJECTION`, so it is the operator `HoldOf`. `job` is the
approving request with its place between two transactions; `effect` the record of
the effect in the continuity store; `net` what became of the bytes. A transition
of a row carries its collection along (`Follow`), in the same transaction, and a
collection that cannot follow rolls it back. A release is three steps, because
`apply_transition` reads the row, closes the effect record in another store, and
only then moves the row by compare-and-set: `releasing` holds the releases that
are between these, in whatever thread.

Abstractions: a lease, a deadline, a time-out, a control change or a freeze may be
found at any moment it is read, since what follows the reading makes the next one
moot; only the block height is remembered, because the chain goes by it too. A
pass of the observer is one step: it writes by compare-and-set from the state it
read. A node that lags may answer null of anything, so an owner may stop waiting for
what lands, or has landed; the finalized block that closes a window is taken as it is.
"Confirmed" without an error counts as final, as the code takes it. One release of a
transfer is in hand at a time. The amount offered is any that is collectible. Not
modelled: two EVM transfers of one account that share a nonce (after the owner stopped
waiting for the first) and the unique index over nonces, the refinement of fees, what
proves a token's principal (only that it may be missing), the horizon after which a stopped row is no longer
observed, the arithmetic of the limits, quotes, custody and receipts.

## 3. Runs

| Run | Instance | Shows |
|---|---|---|
| `budget_counters` | 2 processes, 3 reservations of 1 or 2 units, a turn rule of 2 and a global rule of 3 that the operator tightens and removes, callers with and without a turn, a first-use reconciliation that may fail | `TypeOK`, `CountersExact`, `CeilingHeld`, `SpentStaysSpent` |
| `budget_window` | a window, a retention and a staleness of 1, an event retention of 2, clock to 3, a turn rule beside the window, 2 reservations of 1 or 2 units, 2 processes | `WindowHeld`: what is authorised in one window stays within the limit although rows age, are consumed late and are pruned; `CeilingHeld` while over_limit events age and are pruned; `LiveHolderKept` |
| `gateway_doors` | 2 threads, 2 effects, both doors, a registry of 1, one unit or no budget until the operator imposes one, costs up to 2, crash, shutdown and restart | `GatewayTypeOK`, `AttemptPaid`, `ImplementsBudget` |
| `gateway_retry` | 2 threads retrying one effect, 2 attempts, 2 units, a clock to 1 with nothing retained | `RanIsCharged`, `OutcomeIsLatest` |
| `gateway_settle` | 2 threads, both doors, a registry of 1 for 2 effects, callers that may never finish, under fairness | `ReservationsSettle` |
| `update_inprocess` | the flow swaps; updater or machine dies, in a rollback too, calls raise, the app is started at any time | `UpdateTypeOK`, `AbortedUntouched`, `RolledBackRestored`, `PreviousRunnable`, `RetryPossible` |
| `update_delegated` | the script swaps; the machine dies, in a rollback too, calls raise, a restore of the data stops half way | `RolledBackRestored`, `PreviousRunnable`, `FinalizedComplete`, `EmptySeatIsRecovered` |
| `update_ends` | the script swaps, every fault everywhere, under fairness | `UpdaterEnds` |
| `money_law` | one operation, prepaid or x402, two processes, two attempts, two grants, crashes, stalls and ageing | `MoneyTypeOK`, `PaidIsHeld`, `OnePayment`, `EvidenceAgrees`, `KeepsPromise` |
| `money_budget` | two prepaid calls of at most 2 that cost 1 or 3, budgets of 3 and then 2, a rule of 3, ageing | `BudgetCoversCommitments`, `RuleHeld` |
| `wallet_transfers` | a payment in any lane and the collection that may ride it, a fee of one and a half units | `WalletTypeOK`, `MovedIsCounted`, `EndingsAreTrue`, `CancelHonoured`, `CompanionFollows`, `LedgerFollows`, `ClaimsAreOwed` |
| `wallet_ends` | a payment alone, in any lane, under fairness | `TransfersEnd` |

The runs leave out what section 6 shows to break their property.
`gateway_settle` has no retries, whose race can leave a second unit behind; evictions
and callers that forget are in it, and what they leave is what `Forsaken` names.
`update_inprocess` has no `"restore"`, which breaks `AbortedUntouched`.
`update_delegated` does not let the updater die without its script, does not ask
`AbortedUntouched`, and keeps the app from being started while a rollback is
under way, since a new app that stays up through it is later taken for a healthy
update. `TransfersEnd` exempts the two rows that section 6 shows to be stuck (`Stuck`).
In both update runs faults come after a journaled step and within rollbacks, outside the
time from the rename of the prior to the end of its copy; only `update_ends` has them
anywhere.

**Bounds.** The reservations of a run can ask for more than any of its rules
admits, so refusal, admission after a release and admission after a prune all
happen. Two
units per reservation make "one unit left, two asked" happen, and let a measured
cost exceed its estimate. The clock of `budget_window` runs past the window, the
retention, the staleness and the event retention, so an over_limit event is pruned
within the run. Two processes are one that dies and one that
reconciles after it, or two alive at once. Two threads and two attempts are
what every race of the gateway needs; `RegistryCap` is one below the effects
where eviction matters. Of the gateway's runs only `gateway_retry` has a clock, for the
prune of rows and events that a retry or a scan still holds; in the others death is seen
by pid and shutdown. `ReservationIds`, `Effects`,
`MaxUnits`, `MaxTime` and `MaxAttempts` are the bounds that cap counters.
Symmetry is over ids, processes and threads, which the actions never compare
except for equality; the liveness run uses none. Deadlock is not checked: a
behaviour ends when ids run out, and a runtime that nobody calls may stop. The
update's state is finite as it is: one transaction, with any number of crashes,
recoveries and failed rollbacks; it may stop when the transaction has ended.
In `money_law` two executors are an invocation and the one that retries, resumes
or recovers after it, two attempts the payment and the one that must not join it;
two operations (`money_budget`) are what a shared limit needs, and costs of 1 and
3 lie on both sides of the maximum of 2. In the wallet one payment, one
collection and one debt suffice for the races: an identity has one open
collection at a time, transfers meet only through the approval they share, and a
fee of 3/2 leaves a carry that a refund takes away. A transfer is never used twice,
so its state is finite. With the collection the liveness run would outgrow TLC's
liveness check, so `wallet_ends` has a payment alone.

**Fairness.** `FairGatewaySpec` has weak fairness of each step the gateway's own code
makes once a call has entered it (`Proceed`) and of each step of a scope close under way:
the operating system schedules runnable threads, and no step waits for another thread
(store transactions time out rather than block for ever). Nothing obliges a caller to
open an effect, to begin, cancel or end what it opened, a scope to close, or a process
to start or die. The update's
`FairSpec` has weak fairness of the driver: a living updater process is
scheduled and its waits are bounded (`STOP_BOUND_SECONDS`, `health_timeout`,
`wait_for_result`). The app, the script, failures and users owe nothing.
The wallet's `Fairness` obliges neither the request nor the owner. The observer
is a daemon whose passes select every live row (`observe_open_transfers`): weak
fairness of what it can always do with a node that keeps up (an answer out of date is
never owed); strong fairness of beginning and finishing a
release, since a pass that meets the row under another's lease, or a thread that
dies half way, leaves the row for a later pass, and not every one meets that. The
chain decides what it holds, and the block height passes, strongly fair because the
finality that closes a window, or settles an EVM transaction that is included again and
again, moves on whatever forks do. An EVM node does not keep bytes pooled for ever.

Every property has a mutant, a plausible bug of a mapped definition under which
its run fails; mutants are written directly before the definition they change.

## 4. Proofs

Every safety property that a run checks on a small instance is also a theorem, for
every value of the constants their named assumptions allow, refinements and action
properties included. The assumptions say what the code's types and tables say: sets of
ids are finite, limits, amounts and rates are natural numbers, a scale is positive, and
marks such as "none" are no ids. The only further hypotheses are those of the theorems
about the update, which name the faults a property does not survive, and that of
`TransportsAreCharged`.

| Module | Theorem | States |
|---|---|---|
| `EffectBudgetProofs` | `TypeCorrect` | `TypeOK`, counters never negative |
| | `CountersAlwaysExact` | `CountersExact` |
| | `CeilingAlwaysHeld` | `CeilingHeld` |
| | `SpentAlwaysStaysSpent` | `SpentStaysSpent` |
| | `WindowAlwaysHeld` | `WindowHeld`, whatever ages and is pruned |
| | `LiveHolderAlwaysKept` | `LiveHolderKept` |
| `EffectGatewayProofs` | `GatewayImplementsBudget` | `ImplementsBudget`, the refinement of `EffectBudget` |
| | `GatewayKeepsBudget` | the store's theorems, under the gateway |
| | `AttemptsArePaid` | `AttemptPaid` |
| | `TransportsAreCharged` | `RanIsCharged`, without coverage doors |
| | `GatewayTyping` | `GatewayTypeOK`: registries and attempts stay within their bounds |
| | `OutcomesAreLatest` | `OutcomeIsLatest` |
| `MoneyProofs` | `MoneyTyping` | `MoneyTypeOK` |
| | `PaidStaysHeld`, `OnePaymentOnly` | `PaidIsHeld`, `OnePayment` |
| | `EvidenceAlwaysAgrees` | `EvidenceAgrees` |
| | `RuleNeverExceeded`, `BudgetAlwaysCovers` | `RuleHeld`, `BudgetCoversCommitments` |
| | `PromiseKept` | `KeepsPromise`, the refinement of `PaymentPromise` |
| `WalletProofs` | `WalletTyping` | `WalletTypeOK` |
| | `MovedStaysCounted` | `MovedIsCounted` |
| | `EndingsHold`, `CancelIsHonoured` | `EndingsAreTrue`, `CancelHonoured` |
| | `PaymentLeavesFirst`, `LedgerKeepsUp` | `CompanionFollows`, `LedgerFollows` |
| | `ClaimsAreAlwaysOwed` | `ClaimsAreOwed` |
| `UpdateProofs` | `UpdateTyping` | `UpdateTypeOK`, under every fault |
| | `PreviousStaysRunnable` | `PreviousRunnable`, without `"torn"` |
| | `RollbacksRestore`, `EmptySeatsAreRecovered` | `RolledBackRestored`, `EmptySeatIsRecovered` |
| | `RetryStaysPossible`, `AbortsAreClean` | `RetryPossible`, `AbortedUntouched`, in process |
| | `FinalsAreWhole` | `FinalizedComplete`, delegated |

**The budget store.** That counters stay natural numbers is not inductive alone: a
release subtracts what some earlier reserve added. So type and exactness are
proved together (`CountedOK == TypeOK /\ CountersExact`): the sum of the holders
before a step contains the units the step removes. Sums are cardinalities of
sets of unit tokens, so adding, removing or changing one row is a disjoint union
(`UnitsAdd`, `UnitsRemove`, `UnitsSame`). Reconciliation removes many rows at
once and its subtrahend is itself such a sum.

The ceiling needs two more facts (`PeakOK`): a rule's limit, and the copies of
it in issued rows, are at most its peak; and only issued rows have overages. A
reserve that passes `WithinLimits` is under the limit, hence under the peak; a
cost either stays under the limit kept in its row, hence under the peak, or
leaves an overage of a row that charges the counter, and that row's class, rules
and identity never change (`IssuedKept`). The prune of a reserve may take the event of
an overage away, but only one older than the event retention (`Accounted`): the event is
on record, or that old. `CeilingOK` is the conjunction.

The window needs the order of a row's times (`AgeOK`: activity is never before
creation nor after now, a pruned row is closed and older than the retention), so that the
scan at a reservation misses no row that is still inside the window; then what was
authorised in a window is below the peak by the same reasoning as the ceiling
(`WindowOK`). A live holder keeps its unit because a heartbeat is never older than the
newest row of its process (`SeenOK`, in `HolderOK`): an instance that looks stale has
no row that is not.

**The gateway.** `CallsOwn` says what a thread's locals are worth at each place of a
call: it has an open ledger, an effect once it has minted or continued one, and that
effect belongs to its own ledger. With it every step of the gateway is a step of the store, or
leaves the store alone, and the refinement follows action by action; the clock, the
adjustments, the costs and the shutdowns are steps of the store as they are. `PaidInv` carries
payment through the interleavings: between the scan and the last consumption a call has
a unit of its effect that is consumed or still on its list, no two calls that open
share a unit, and an effect with attempts has a consumed one for good, all of classes that
have been under a rule all along (`Ruled`: such a class has one now, so its scan cannot
pass for want of a rule). `CountInv`
counts the calls that still hope to begin an attempt into the bound on attempts.
`LatestInv` ties attempts, calls and terminals: each attempt belongs to one call, and a
record answers for the newest attempt exactly as reported, while nothing was evicted.
`TransportsAreCharged` excludes coverage doors because of the crash of section 6 that it
does not survive.

**The monetary law.** `PaidIsHeld` is not inductive: whether a payment can still leave
is known to the process that will send it. `ClaimInv` adds that knowledge: each
invocation's handle is one the row has given out (`JobsKnown`), whoever is about to send
holds the current claim (`SendersClaimed`), no two do (`OneSender`), and what is out is
the latest attempt (`LatestOut`). The limits need `LineInv`: a settled line carries its
evidence, every held operation has a minted grant, and an active budget is charged for
every held prepaid operation, its own or carried. Every step then moves each row in one
of four ways (`RowMove`) or admits one operation (`Admission`), and only the second can
make a sum grow. `PromiseKept` maps the states as `KeepsPromise` does and shows, for each
action, the step of `PaymentPromise` it is, or that it is a stutter.

**The wallet.** `WalletInv` is inductive with the types: the ledger's row of each
collection stands as its transfer's row says (`LedgerTied`), a request at its transmit
or answer has a row that left, and sends a collection only after its payment left
(`RequestsKnown`), what is on the chain or being sent again has a row that left
(`LeftIsSent`), a flagged row has not (`FlaggedUnsent`), and what is offered is never
nothing (`AmountsOffered`). Some fifty actions write in six ways a row can move
(`RowMove`); each action is shown to be one of those, and the properties are proved from
the ways. `ClaimsAreAlwaysOwed` joins them to the ledger's arithmetic: what may have moved is
held or retired (`OutIsCounted`), the position `claim_collection` reads leaves room for
all of it (`ClaimLeavesDebt`), and whole units of a debt are never worth more than it
(`WholeUnits`).

**The update.** What the journal says and where the bundles are agree only outside the
places between a rename and its journal line, so the invariants speak of the driver's
place: `PreviousInv` says where the copy of the previous app is at each of them,
`InProcessInv` that `SWAPPED` is journaled exactly when the bundles are swapped, save at
five places it names and where a rollback stopped with the app set aside (`SetAside`) is
taken up again (`Reentries`), `SeatInv` that such a transaction is open, `DelegatedInv` who may be at work while the script is out (the
flow that waits for it, or its rollback, never a recovery), and that the journal is ahead
of the bundles. `AbortedOK`, `RolledBackOK` and `FinalInv` say of a closed journal what is
on the disk, `RecoveryOK` where a recovery may be. Section 6 shows how each excluded
fault breaks its theorem: `"torn"` (faults between any two writes, above all between the
rename of the prior and the end of its copy, and between a rename and its journal line)
those about the previous app, its retry and its abort; `"restore"` (a data restore that
stops half way) the abort in process; a dead `"worker"` under a live script those about a
delegated rollback and its end, and beside an app started from outside (`"start"`) the
empty seat; the recover command `"cli"` beside a live updater, the abort; `"start"` in the
middle of a rollback, the delegated end, since that app is later taken for a
healthy update. That the other faults may do no harm holds for all of them together, at
any place the model has them: after journaled steps and, before that rename and after that
copy, within rollbacks, which may be interrupted or fail any number of times.
`FinalizedComplete` in
process and `AbortedUntouched` of a delegated update are not theorems, because they do
not hold.

**Only model-checked.** Liveness (`ReservationsSettle`, `UpdaterEnds`, `TransfersEnd`)
is out of the prover's reach, as `ENABLED` is. `FinalizedComplete` with `"torn"` among
the faults is not broken in TLC's instances but is not proved either: its proof uses
`PreviousInv`, which `"torn"` breaks.

## 5. Hazards

`PROJECT.json` lists each hazard at its line with the properties that would
catch it.

## 6. Where the code and its words differ

None of these is a run of its own: each was met with the model under the constants
in brackets, or with the property given here in words.

Of the budget and the gateway:

- After the operator lowers a limit, a measured cost pushes usage over the
  configured limit with `over_limit` false: `reconcile_effect_cost`
  (`core/effect_budget.py:1916`) compares with the limit copied into the
  reservation, where its docstring (`:1837`) says "THE CEILING CANNOT BE EXCEEDED
  SILENTLY" [one global rule that is lowered].
- `_prune_stores` (`:1088`) deletes every event but the money receipts after 30 days,
  over_limit `cost_reconciled` events included, while the counter they account for stays
  above the limit; that docstring calls the event "a durable, queryable OVERAGE".
  `CeilingHeld` therefore asks for the event only until it is older than the event
  retention.
- A coverage door's handler ran, the process died before `begin_attempt`, and the
  next process returned the unit (`core/tool_intent_executor.py:735`); the docstring
  at `:721` says "Crashed and failed effects stay charged." [`Doors` coverage].
- `ReservationsSettle` [`Retries`]: two retries of one effect both read that it
  holds no unit and both reserve one (`_reserve_budget_units` reads and reserves
  in two transactions, where a retry is said never to reserve a second unit). If
  the first is then cancelled, the second finds a released unit when it scans,
  refuses, and its own unit stays reserved until another process reconciles.
- A unit still held leaves the sum of a window rule when it gets older than the
  window (`_rule_usage` counts a held row only while its last activity is
  inside), and another effect takes it; law 4 says a held unit cannot be taken.
  `WindowHeld` therefore speaks of units authorised within one window, and a
  window longer than the retention is excluded from it because `_prune_stores`
  deletes rows that such a window still has to count.
- `cancel` of an effect that the registry has evicted raises in `record_terminal`
  (`core/effect_gateway.py:1855`) before it releases the effect's units; its comment
  (`:1848`) says that such a cancel "gives the unit back instead of stranding it". The
  scope close still finds the unit, unless it was taken after the close had scanned, by a
  thread that outlived its scope; then it stays reserved while its process lives, as does
  one whose caller never finishes. `ReservationsSettle` names these cases (`Forsaken`).
- An effect evicted at the registry's ceiling has its unit consumed by
  `begin_attempt` although no attempt begins; `AttemptPaid` is the converse. An evicted
  effect that is retried is registered anew and counts its attempts from the first
  (`core/effect_gateway.py:1296`), so `OutcomeIsLatest` speaks of effects that no
  eviction has touched.

Of the update:

- `AbortedUntouched` [in process, worker, torn]: the in-process swap journals
  nothing before its renames (`core/updater/transaction.py:715`), so a crash
  between them and `SWAPPED` is recovered as `ABORTED` with the app's place empty or
  the new app in it; `:11` says of `ABORTED` "nothing user-visible changed yet".
- `RetryPossible` [in process, power, torn]: a rollback interrupted just before its
  `copytree` (`:340`) leaves `SWAPPED` journaled and no prior, and no recovery ever
  succeeds; the comment at `:338` keeps the copy "so retry is possible".
- `AbortedUntouched` [`Delegated`, power, torn]: a delegated update migrates
  before it journals anything a recovery acts on; a crash in between is
  recovered as `ABORTED` over half migrated data.
- `AbortedUntouched` [in process, power, restore]: a refused swap is rolled back before
  `SWAPPED` was journaled; if the restore of the user data fails or is interrupted half
  way (`:342`), the next recovery reads neither `SWAPPED` nor `MIGRATED` and journals
  `ABORTED` over it.
- `EmptySeatIsRecovered` [in process, worker, start]: someone starts the new app after a
  rollback stopped it and before the rollback sets its bundle aside; the updater dies, the
  next recovery finds the new version answering (`:892`) and finalizes an update whose
  place is empty.
- `FinalizedComplete` [in process, power]: after a crash between `SWAPPED` and
  `MIGRATED` the new app answers the probe and the recovery finalizes an update
  that never migrated.
- `PreviousRunnable` [power, torn]: a rollback interrupted, or failing, in its
  `copytree` leaves a torn prior, and the next recovery restores that over the
  good app.
- `FinalizedComplete` [`Delegated`, worker]: a recovery stops the app but not
  the swap script of a dead worker. With an app slow to quit, the recovery's own
  stop is what lets the script swap, under the data the recovery is restoring.
- `AbortedUntouched` [in process, cli]: the recover command checks no lease and
  aborts the transaction of a live updater in the middle of its swap.

Of the monetary law:

- `_record_wallet_liquidity` (`core/usepod/money_law.py:343`) records a balance
  read earlier as observed now. Two x402 operations can both be admitted against a
  balance that covers one, when the first payment leaves between the reading and
  the record; law 9 (`core/effect_budget_money.py:65`) asks for "a fresh balance
  observation covering every held debit" [two x402 operations, `Funds` for one].
- `settle_liability` compares the claim handle only while the operation is
  dispatching or pending (`:3112`); its docstring (`:3065`) says that an invocation
  that holds a handle "may only settle while THAT handle is the liability's current
  claim generation". The refusal of an older claim can so settle an operation that is
  unknown and has a later payment out [two executors, two attempts]. With a third
  process the order can even be the other way round: the second claim is judged dead
  before it sends, so the operation is unknown, the old refusal settles it at zero,
  and then its payment leaves. `PaymentPromise` therefore lets a payment leave of a
  settled operation too, and only never of a free one.

Of the wallet:

- A transaction that fails for good before any pass saw it pending leaves its row
  unknown for ever. `_observe_svm` and `_observe_evm` ask for `unknown` ->
  `failed_on_chain` (`core/wallet/settlement.py:501`, `:835`), an edge that `core/wallet/transfers.py:269`
  allows to authorizations only, and an exit is offered on a null status only. The
  hold stays reserved, and a collection on such a row keeps its identity's only
  open place. The comment at `transfers.py:264` means to keep failures "without a
  receipt" out; a finalized error is one with. `TransfersEnd` exempts `Stuck`,
  which is this row and the next, and fails without either exemption. Only a node that has lost the
  status or receipt can still bring it the exit. Authorizations are not concerned.
- A Solana token transfer that is confirmed on chain, and whose token balances do not
  prove that the principal moved, stays unknown or pending for ever: `_observe_svm`
  (`core/wallet/settlement.py:481`) writes evidence only, "until then it stays where it
  is", and the exit of that chain is offered on a null status. This is the second row of
  `Stuck`. An EVM transfer in that place is offered its exit (`:803`).
- `apply_transition` closes the effect record of a claimed row as one whose "bytes
  never left" before its compare-and-set on the row; the request may sign, mark,
  pass the guard and transmit in between. The compare-and-set then fails and the
  hold stays right (`MovedIsCounted`), but the record of a sent, even confirmed,
  payment says it never left; the docstring at `settlement.py:181` says that for a
  release "the bytes must provably never have left". That a closed record means
  nothing moved is therefore not a property of the code.

## 7. Plan

1. `UpdateTransaction`, continued: a second transaction beside an open journal
   and the manual rollback; an abstract specification in which the installed
   version changes atomically with its data, implemented where the code does; and
   `FinalizedComplete` as a theorem with `"torn"` among the faults, from an invariant
   that does not need the previous app to be whole.
2. Two EVM transfers of one account: nonces shared after an exit, their unique index.
3. The standing coordinator's lease, the orchestration executor's scheduler with
   cancellation, the credit ledger with task offers.

Not planned: prompt routing, text processing, UI, transport and packaging, whose
behaviour is data and I/O rather than protocol.
