# A TLA+ model of zpay

zpay is a payment facilitator for agents that pay in Zcash; zspend is the wallet
runtime that signs such payments. This directory models the parts of both that keep
state, are entered concurrently or decide whether money moves, and the two clients the
repository ships. TLC checks the models on small instances; TLAPS proves the main
safety results for all instances.

Paths below are relative to `src/crates/` unless they begin with `docs/`.

## 1. The system

### Parts, their state, their operations

| Part | Code | State | Operations | Module |
|---|---|---|---|---|
| Settlement ledger | `zpay-store/src/settlement_ledger.rs`, `zpay-core/src/status.rs` | one row per settled payment: outcome, confirmations, mined height, reorgs, expiry height | record, record_confirmation, downgrade_on_reorg, downgrade_reorged_range, success_kind_transactions; projection to a status | `LedgerRows` |
| Prepared store | `zpay-store/src/prepared_tx.rs`, `zpay-core/src/prepare.rs` | one row per issued and unsettled payment, unique per agent key and idempotency key | insert, find, find_by_idempotency, remove, sweep_expired | `PaymentLifecycle` |
| Prepare / settle / lookup | `zpay-core/src/{prepare,settle,status}.rs`, handlers in `zpay-x402/src/lib.rs` | the two tables | propose, submit_settlement, x402 settle, lookup_payment_status | `PaymentLifecycle` |
| HTTP front door | `zpay-x402/src/lib.rs` | DPoP proofs seen, the tables | prepare, settle, verify, accepts, tip, x402 supported / verify / settle | `FrontDoor` |
| x402 wire, exact scheme, binding memo, payment URI | `zpay-x402/src/{wire,zcash_exact}.rs`, `zpay-core/src/{accepts,binding,settle,prepare}.rs` | none | request checks, PCZT matching, composition of what the wallet gets | `X402Exact` |
| Disclosure verification, fetchers | `zpay-core/src/verify/mod.rs`, `zpay-runtime/src/{zinder,rejecting}_fetcher.rs` | none | verify, fetch_transaction | `DisclosureVerify` |
| Confirmation poll | `zpay-runtime/src/main.rs` | the row list and chain view of the sweep under way | poll_oracle_once, reconcile_unsettled_row | `Reconcile` |
| Chain-event subscription | `zpay-runtime/src/chain_events.rs` | resume cursor | run_loop, drain, handle_reorg | `Reconcile` |
| Cached chain view | `zpay-core/src/chain_status.rs` | visible and settled tip | store, load | `Reconcile` |
| Status streams | `zpay-x402/src/events.rs`, `publish_snapshot` | a registry of broadcast channels; head, tail and resync of each stream | publish, events_handler, poll_next | `StatusStream` |
| Rate limiter | `zpay-x402/src/rate_limit.rs` | a window and a count per key, time of the last sweep | check, sweep_if_due | `RateLimiter` |
| DPoP verification | `zpay-x402/src/dpop.rs`, `zspend-core/src/dpop.rs`, `zspend-runtime/src/main.rs` | proof ids seen, in memory | verify, observe | `DpopReplay` |
| Sign handler of the wallet | `zspend-runtime/src/main.rs`, `zspend-core/src/*` | proof ids, sync snapshot, the single-use row | token, proof, intent, policy, revocation, freshness, reservation, sign, commit; readiness | `WalletSign` |
| Single-use ledger | `zspend-runtime/src/ledger.rs` | one row per access-token id: intent, pending or completed, payload | reserve, commit, release | `SingleUse` |
| Revocation cache | `zspend-runtime/src/revocation.rs` | revoked ids, cursor, time of the last refresh | check, refresh | `Revocation` |
| Demo gateway | `zpay-demo/src/lib.rs` | a map of stored payments with a stage override, a transaction id and a disclosure | create, settle (checkout and autopay), event stream, verify | `DemoGateway` |
| End-to-end harness | `zpay-e2e/src/main.rs`, `zpay-testkit/src/lib.rs` | the position of one run | the two payment flows, the settle submitter, the wait for completion | `AgentHarness` |
| Connection, migrations, wallet bootstrap, init, readiness and ops listing of zpay, configuration | `zpay-store/src/{connection,migration}.rs`, `zspend-runtime/src/{bootstrap,init}.rs`, `zpay-runtime/src/main.rs` | — | — | not modelled (section 6) |

### How they interact

An agent **prepares** a payment: a preparation with an expiry height and a deadline
goes to the prepared store, and a payment URI with a binding memo goes back. The wallet
**signs** a transaction for the URI: it checks token and proof, recomputes the intent
the issuer signed, asks the revocation cache and its own freshness, reserves the token
id, signs and commits. The agent **settles**: the facilitator finds the preparation,
matches the outputs of the PCZT against it, broadcasts through the chain plane (zinder),
records the outcome in the ledger and, on success, removes the preparation. From then on
the **poll** (a timer) and the **subscription** (chain events) keep the row in step with
the chain, downgrade it on reorgs and publish snapshots to **status streams**.
**Lookups** project the two tables and the cached chain view to a status at any moment.
A payer may later prove a payment with a **disclosure**.

Every handler is a tokio task. No lock is held across an await, there is no transaction
over two tables, and the publishers of a stream are not ordered. So what is hard here is
between two awaits (a value read before and used after, a crash in between, two tasks
writing one row), and between two programs that must mean the same by one request: what
/prepare offers and /settle demands, what /verify accepts and /settle takes, what the
issuer signed and the wallet signs.

### What makes each part correct

* Write path: a live payment is never in neither table; a success row implies a
  broadcast; a caller told of a broadcast is never told of none; one live payment per idempotency
  key; a failed settle can be retried; one transaction per payment.
* Front door: what settles pays the payee in full; verify and settle agree; an honest
  payment settles; a disclosure that passes proves the payment.
* Reconciliation: "settled" is never said of a payment that is not; a missed reorg is
  found by the next sweep; rows come to agree with the chain.
* Streams: nothing published is lost; the registry is bounded; the last word arrives.
* Limiter: a bound per key and window; nobody is refused for somebody else.
* Wallet: one signer at a time and one payload per token id; what is signed is what was
  authorised; a token id is withheld only for a reason; ready means it answers.
* Revocation: no revocation is skipped over; a revoked token is admitted for a bounded
  time only. DPoP: no proof is accepted twice; a refused id stays burned.
* Clients: paid means irreversible, rejected (by the lifecycle route) means unpaid, and
  streams end.

## 2. The modules

| Module | What it is |
|---|---|
| `LedgerRows` | operators: a row, what each store method does to the table, projection to a status |
| `PaymentLifecycle` | prepare, settle (both routes), lookup, sweeper, crash, as interleaved tasks |
| `PaymentContract` | the abstract specification of a payment: phases only |
| `Reconcile` | chain plane, poll, subscription, cached view |
| `StatusStream` | registry, publishers, streams |
| `Refusals` | early returns as an ordered list of which the first that applies decides |
| `X402Exact`, `DisclosureVerify` | the pure part of the facilitator, as operators |
| `FrontDoor` | the HTTP routes over them, one exchange at a time |
| `RateLimiter` | the limiter as its four steps under two locks |
| `WalletSign` | the sign handler from headers to answer |
| `SingleUse`, `Revocation`, `DpopReplay` | the wallet's ledger, its revocation cache, both services' proof replay stores, from the inside |
| `Facilitator` | zpay as a client meets it over HTTP, over `LedgerRows` |
| `DemoGateway`, `AgentHarness`, `PaymentClients` | the two clients, and their composition with the facilitator |
| `*_proofs` | theorems about the module they extend; `Wallet_proofs` is about `WalletSign`, `SingleUse` and `Revocation` |
| `MC*` | the module they extend, with inputs and symmetry, for TLC |

Each module header says what its variables stand for. An action ends at an await; the name
is the source's where one exists. Definitions named `X_Something` next to `X` are plausible
bugs of `X`; they confirm that a property fails when the code is wrong, and appear in no
specification.

### PaymentLifecycle

`prepared` and `ledger` are the two libSQL tables and survive `Crash`; the tasks do
not. `PrepareReplay/Miss/Insert/Error` are the parts of `propose`; the unique index
is `KeyIsFree`. `SettleFind/Submit/Record/Remove` are the four spans of
`submit_settlement` and of `x402_settle_handler` with a zpay payment id; an error of
the submitter is `SettleUnavailable`, of a store `SettleStoreError`. `LookupLedger`
and `LookupPrepared` are the two reads of `lookup_payment_status`. Each lookup is given any
of `ChainViews`, unknown or a visible tip of `Tips`, in any order, so a broadcast row may
read `expired` and `broadcast` again. What does not go back is the `broadcast_outcome` of the
snapshot, and `ReadsNeverGoBack` is about that. Confirmations are the business of `Reconcile`:
no row is mined here, so the settled tip of the view does not matter.

`issued`, `taken`, `won` and `answers` are history: what was handed out, what the
network has, what was answered with success, what prepare answered.

A transaction is a model value with the expiry height it was signed with; what refuses a
request before anything changes is in `FrontDoor`. The in-memory `PreparedTxCache` (tests and
development) has no unique index; the model is of the libSQL store.

### Reconcile

The chain plane is external: `tip`, `settledTip`, `minedAt` and a `feed` of envelopes.
`MineBlock` and `Reorg` move it; a reorg never reaches the settled tip. `sweep[w]` is
`poll_oracle_once` run by the poll or by the event task, with the view, the row list,
the row and the answer it holds between awaits. `sub` is `run_loop`, `drain` and
`handle_reorg`. One transaction settles one payment here.

`clean` and the `valid` flag of a sweep are history: the last sweep to end began after
the last change of the chain, met no error and was not overlapped by an older one.

### StatusStream

A payment is reduced to the situation a lookup would find, with a version that counts its
changes, so a snapshot is comparable with every other. Three publishers (settle handler,
poll, chain-event task) read and send in two steps. A stream goes through
`Probe`, `Subscribe`, `Reread`; then `EmitHead`, `EmitResync`, `EmitLag`, `EmitTail` are the
arms of `poll_next` in their order. The channel keeps the newest `Capacity` snapshots and a
receiver knows that it lost older ones. Only an issued id gets a registry entry. `mute` is
history: payments of which an announcement failed.

### X402Exact, DisclosureVerify and FrontDoor

An address is who can spend from it, its network, kind and receivers; an output of a PCZT has
a pool, a `user_address` label, the bearer of its recipient bytes and a value, which may
disagree with each other. A PCZT (`IsPczt`) lists its outputs bundle by bundle in the order the
code walks them; `MatchOutput` is what the walk makes of one output, and the first refusal stays.
Amounts are bounded (`U64Max`, `MaxZat`), sums are checked for overflow, and `FormatZecFromZat` is
modelled digit by digit because settle compares what a wallet parsed from it. What a disclosure
recovers is a set of positions of the transaction. A digest is the tuple it is taken over; a
transaction is its own id.

In `FrontDoor` a request is answered in one step and `said` is the exchange just answered.
`offers` are the preparations /prepare answered with; the facilitator requests that follow are
made of an offer by `FacilitatorInputs`, each with one thing changed: version, scheme,
network, asset, amount, recipient, label, receiver, expiry, an output added, removed, split
over pools or overflowing. The proofs leave `FacilitatorInputs` and `DisclosureInputs` open: they are
about every request with an `IsPczt` payload, and every disclosure of a transaction whose values are
known. `IsAcceptsEntry` is what the registry is assumed to say: a u64 amount, and, as ZIP 316 has it,
a shielded receiver in every unified address.

### RateLimiter

`Check` reads the clock, `ClaimSweep` takes `last_sweep`, `Retain` drops windows, `Count`
counts: two mutexes, and time between them. `ClientIp` chooses the key.

### WalletSign

`Authorize` is everything up to the first await: `HeaderRefusals`, `TokenRefusals`,
`ProofRefusals`, the replay set, then `CrossCheckRefusals`, `RequestRefusals` and
`BindingRefusals`. `CheckRevocation`, `Reserve`, `SignPczt`, `WalletFails` and `Commit` are the
awaits. `Problem` and `WalletProblem` give the status, the retryable flag and the Retry-After
of each refusal; `Ready` is `/readyz`. The ledger, the cache and the replay set are reduced to
what they answer.

A wallet error releases the reservation or, as a failed release is only logged, leaves it;
`CallerHangsUp` is the handler future dropped at any await; a failed commit leaves the row
too. `stranded` is history: which of the three left the row. A row older than the TTL
(`lapsed`) keeps its intent, and only a request for the same intent reclaims it.

### SingleUse, Revocation, DpopReplay

`entries` is the table. A request takes its time stamp before it waits for the lock
(`Arrive`), is classified by the row it meets (`ReserveUnseen`, `Reclaim`, `Replay`,
`Refuse`), signs in one span of time, and commits or releases. `release` and `commit`
name only the token id, as in the code. `Abandon` is a crash, a caller that hangs up
(the handler future is dropped) or a failed reserve or release. Payloads are numbered.

Each revocation check holds its cursor, what it has found and its page count. The cursor is a
place in the issuer's order of revocations, each its own: the `since` of the wire is in
milliseconds, and what the issuer does with two revocations of one millisecond at the edge of a
page is its business. `StoreRefresh` is the one write, under the
lock; refreshes overlap freely, and a slow one may set the cursor back.

Both services keep proof ids for a window (300 s) against a tolerance of 60 s. zpay observes
the id first and judges after (`ObserveZpay`, `JudgeGood`, `JudgeBad`); zspend judges
first. The clock is read before the store is locked, and again to judge; `Stall` bounds
how long a request takes in between. While the monotonic clock is younger than the window
(`zpay-x402/src/dpop.rs:181`) the code drops every entry; the model's clock has run for longer.

### The clients

`Facilitator` is zpay from outside: a settle is one call with the awaits a client can be cut
off at; confirmations, the settled tip, a reorg and expiry move underneath. `DemoGateway` keeps
the map of stored payments; a settle request writes a stage override before each slow part and
clears it only at the end, a stream clones the stored payment, then asks zpay, and shows the
override first. Any error or a browser that leaves ends a settle where it stands.
`AgentHarness` is a straight line whose exit says what the operator is told. What an answer
makes of a run depends on the route: `SubmitVerdict` is the lifecycle submitter, which tells
rejected, unavailable and unsupported apart, `X402SettleVerdict` is `settle_x402_payment`, which
calls every unsuccessful answer unsuccessful. The harness then compares the transaction ids; zpay
names the caller's own transaction (`RepliedTransaction`), so they agree. The only success kind a
call meets is `accepted`, as each call has its own transaction. Rows follow the chain as
`Reconcile` shows they do (`SettledTruth`): a row at or below the settled tip is taken to be
right, and `PaidIsIrreversible` and `OkMeansPaid` rest on that. The two clients never
share a payment, so a behaviour of `PaymentClients` has one of them.

## 3. What the runs check

| Run | Instance | Shows | States |
|---|---|---|---|
| `lifecycle_crash` | 1 payment, 2 transactions, 2 overlapping settles, 1 reader, tips below and at the expiry, 2 interruptions | `NothingLost`, `SuccessIsBroadcast`, `ReadsNeverGoBack` | 241,500 |
| `settle_serial` | 2 payments, 1 key, 2 racing prepares, settles one by one, 1 interruption | `OneLivePaymentPerKey`, `FailedIsRetryable`, `FireOnceUninterrupted`, `ImplementsContract` | 672,494 |
| `reconcile_paced` | 1 payment, 4 blocks, settled tip 2 behind, 1 reorg, 2 faults or crashes | `SettledTruth`, `SweepCatchesReorgs`, `EventuallyAgrees` | 589,775 |
| `status_stream` | 1 payment, 3 publishers, 1 connection, channel of 1, 5 changes, 1 fault | `RegistryIsBounded`, `NothingPublishedIsLost`, `LastWordComes` | 278,956 |
| `front_door` | 1 payment to one of three payees, 2 agents, 2 proofs, 1 transaction, every variation of a request | `SettledPaysThePayee`, `VerifyAndSettleAgree`, `HonestPaymentSettles`, `DisclosureProvesPayment` | 1,185,172 |
| `rate_limit` | 4 requests, budget 1, window of 4 ticks, 8 ticks | `BudgetPerKey`, `RefusedForOwnRequests`, `SweepForgets`, `RetryAfterIsHonest` | 1,270,757 |
| `single_use` | 1 token, 2 intents, 3 requests, requests end within the TTL | `OneSigner`, `SignedOnce` | 18,536 |
| `wallet_sign` | 2 clients of one token id, 2 proof ids, 4 sync snapshots, 2 disturbances | `SignedAsAuthorized`, `RowHasAReason`, `AnswersAreHonest`, `ReadyWalletAnswers` | 87,924 |
| `revocation` | 3 tokens, 2 checks, pages of 1, cap of 2 | `CursorCovers`, `NoLateAdmission` | 1,245,751 |
| `dpop_replay` | 1 id, 2 issue times, 2 requests, both services | `NoReplay`, `BurnedStaysBurned` | 162,393 |
| `clients` | 1 payment, 2 settle requests and 1 stream, or 1 harness run, 1 fault | `StuckStageHasACause`, `DisclosureOfTheSettledTx`, `PaidIsIrreversible`, `OkMeansPaid`, `RejectedMeansUnpaid`, `StreamsEnd` | 254,916 |

`lifecycle_crash` and `dpop_replay` also check `TypeOK`, `single_use` `TypeOKSingleUse`.

One run states what the repository says of itself and shows the code doing otherwise:
`settle_crash_refire`. A settle is broadcast with success, the process dies before the
preparation is removed, and the retry broadcasts another transaction, where
`docs/product-requirements.md:141` says "an agent retrying `settle` must not
double-broadcast". `FireOnceUninterrupted` is what does hold.

### Bounds and why they are enough

Counters (`MaxTime`, `MaxTip`, `MaxReorgs`, `MaxFaults`, `MaxInterruptions`, `MaxSigns`,
`MaxChanges`, `MaxDisturbances`, `MaxBroadcasts`, `MaxClock`, `MaxHold`) are capped in guards.
Two actors and one shared row suffice for every race here, as each is between one pair of steps
on one row; two transactions tell a second broadcast from a retry; two interruptions allow a
crash during the recovery from a crash; a tip just below the expiry height and one at it
(`Tips`) are what the projection tells apart. Four blocks with a settled tip two behind let a payment
be mined, reorged, mined again and settle. A channel of one snapshot with five changes lags and
catches up more than once. Four requests and two windows of ticks let a key spend its budget at
the end of one window, at the start of the next and once more; larger budgets, where a held
request matters, are left to the proof. One zatoshi digit pair
(`ZecDigits = 2`) has leading and trailing zeros in every combination; `U64Max` is the
smallest bound a sum of the inputs can pass. Time bounds are past a full cycle: TTL 2 in 6, window 5 in
7, staleness 2 in 4. The invariants with a proof do not depend on these bounds.

`CHECK_DEADLOCK FALSE` is set everywhere: with the clock, the chain and the requests at
their bounds, nothing is left to do.

### Assumptions on the environment

* `Paced` (Reconcile): a block leaves the reorg window (about a hundred blocks, over two
  hours) only after a sweep (every 60 seconds) that began after the last change has ended
  without an error.
* `Punctual` (SingleUse): a request ends within the reservation TTL of two minutes. Nothing
  in the code enforces it. `ReservationLapses` of `WalletSign` makes the same assumption.
* `Latency` (Revocation): the time from the issuer's last page to the cache. The HTTP
  client has no timeout, so this too is an assumption.
* `Stall`, and `2 * (Skew + Stall) < Window` (DpopReplay): 300 against 120 in the code.
* `MaxHold < Window` (RateLimiter): `check` never awaits; it holds two short locks.
* `SerialSettles` (PaymentLifecycle): settles of one payment follow one another. `settle_serial`
  has one settler; the theorems have it as a hypothesis, for any number of settlers.

### Fairness

* `Reconcile`: `WF` on the poll's own steps, as the loop is a spawned task on a timer and its
  calls return. Nothing is assumed of the subscription, of the chain or of settles, so agreement
  rests on the poll alone, as the runbook says it should.
* `StatusStream`: `WF` on the steps of streams and publishers (futures the runtime drives on),
  `SF` on the poll's visit to a payment (the sweep comes round again and finds the poll idle
  again and again). Faults are never forced, and a client need not connect.
* `WalletSign`: `WF` on the handler, on the client's retry of a retryable answer, and on time
  (a reservation lapses, a proof id is forgotten). Nothing is assumed of the issuer or of
  synchronisation: `ReadyWalletAnswers` has its premise `<>[]Ready`.
* `PaymentClients`: `WF` on handlers, confirmations, the settled tip and the ticks of an open
  stream. Nothing forces a fault or a request of the browser.

## 4. What is proved

TLAPS checks the following for every value of the constants that satisfies the stated
assumptions.

**PaymentLifecycle_proofs.** `TypeCorrect`, `NothingIsLost`, `SuccessRowsAreBroadcast`,
`OneLivePayment`, `ReadsAreMonotone`. `NothingLost` is not inductive: a settler about to
remove a preparation must already have its row. The invariant adds that a task at `remove`
has its payment in the ledger, that a task past its find holds the payment's issued expiry,
that a task about to record a success has its transaction on the network, that every preparation
equals what was issued, and that the ids an agent was answered under a key were issued
under that key. `ReadsAreMonotone` holds for every set of tips and every order of views: it rests
on the ledger only growing, on a row always having an outcome, and on a lookup that missed the
ledger not having been told of an outcome before.

`FailuresStayRetryable`, `SerialSettlesFireOnce` and `LifecycleImplementsContract` have the
hypothesis `[]SerialSettles`: no two settles of one payment are under way at once. The handler
takes no lock, so this is an assumption on the callers, and without it `FailedIsRetryable` is
false (section 5); crashes and failed statements remain free to end any settle anywhere.
`SerialInv` adds that a settle that has not recorded yet leaves its preparation in place and
that only a recorded success goes on to remove one; and, as long as nothing was interrupted, that a
won payment is either in the hands of the settle that won it or out of the prepared store for
good. `FireOnceUninterrupted` is about `won`, the transactions answered with a success kind; after
an unknown outcome the network may have more than one (`taken`), which nothing in the code can rule
out. For the refinement every step of `Next` is shown to be a step of `PaymentContract` or to
leave phase, transaction and interruption alone.

**Reconcile_proofs.** `ReconcileTypes` at any pace; `SettledIsTrue` and `SweepsCatchReorgs` for
`Paced`. `SettledTruth` is far from inductive: a sweep holds rows and an answer of the chain
while blocks are mined, reorganised and buried. The invariant says what each worker holds: rows
of the ledger (`RowsAreKnown`); an answer that is true, however old, if its block is buried
meanwhile (`AnswerIsTrue`); the chain's present answer, if nothing has changed since
(`AnswerIsCurrent`); rows it will skip that are right (`SkipsAreTrue`); and every row that
disagrees with the chain still ahead of it (`NothingMissed`). No height anybody holds is ahead of
the chain (`HeightsTrail`). `Paced` is used at one place: when a block leaves the reorg window, a
sweep has ended in order since the last change, so every row is right at that moment, and no
later step can unmake it. Without it both properties are false (section 5).

**Wallet_proofs, the ledger.** `SingleUseTypeCorrect`; `OneSignerAtATime` and `PayloadIsUnique` under
`Punctual`. The invariant: every request is younger than the TTL (`Timely`); a request that
holds a reservation owns the pending row, which carries its own stamp (`HoldersOwn`); whatever
was delivered is the payload of the completed row (`DeliveredIsStored`). A reclaim then needs
a row older than any living holder.

**Wallet_proofs, the cache.** `RevocationTypeCorrect`, `NothingIsSkipped`, `AdmissionIsTimely`. The invariant:
what a request has found covers everything between its start and its cursor, or is already in
the set (`ChecksKnow`); and a revocation the cache has not seen came at most the latency before
the stamp (`StampIsHonest`). Sets only grow, so a cursor that is set back loses nothing.

**DpopReplay_proofs.** `TypeCorrect`, `ProofsAreSingleUse`, `RefusalBurnsTheId`. An accepted
proof's id is in the store until the window has passed; by then the clock of any later request
is out of the tolerance of its issue time, which is where `WindowAssumption` is used.

**RateLimiter_proofs.** `TypeCorrect`, `SweepIsComplete`, `RetryAfterIsTold`, `BudgetsHold`,
`RefusalsAreEarned`. `SweepForgets`
speaks only of moments without a sweep under way; the invariant says who owes the sweep:
either a request that claimed it with the current `last_sweep` has yet to drop the windows, or
all that are left were live then. A request counted late begins its window at its own clock
reading, which `Prompt` and `HoldAssumption` keep later than a window before any sweep.
`RetryAfterIsTold` needs that the window a request is counted in has not run out, and what a
truncated division loses.

The model does not keep which window a request was counted in. The invariant behind the budgets
(`Histories`) says that for every key some assignment of window starts to the admitted requests
exists in which each window's class has at most the budget, the entry in the map counts the last
class exactly, every other class has run out, and a later window begins a window later less at
most one hold. The hold is real: a sweep drops a window that has run out, and a request that read
the clock before it and is counted after it begins the next one in the past. A second hold is lost
at the other end, where a request is counted into a window late. So three classes meet only in a
span longer than a window less two holds; in a span of a full window a key with a budget of three
or more can be admitted more than twice its budget. A refusal needs a full
entry, whose class is the caller's own because the key names the caller (`OwnKeys`).

**Wallet_proofs, the sign handler.** `TypeCorrect`, `OnlyAuthorizedIsSigned`, `OnlyFailuresStrandTheRow`,
`AnswersAreTrue`, for any number of clients that share a token id and whatever they present. The
gates are lists of refusals of which the first that applies decides, so the first lemmas say
what it means to pass one: none of its conditions holds (`PassRefusesNothing`), hence the plan is
what the intent is over (`PassedIsAuthorized`), and a refusal by a gate is never retryable
(`GateRefusalsAreFinal`). The invariant (`SignInv`) carries the pass through the awaits: a request
in hand, or remembered for a retry, was presented by that client and passed its gate; the
requests that sign or commit are exactly the owner of the pending row, under its own intent; a row
without an owner was left by one of the three failures (`RowExplained`); a completed row, a row a
failed commit left, and every answer "signed", has a transaction for its intent. `AmountAssumption`
(an amount is a natural number) is what the ZIP 321 parser returns.

**StatusStream_proofs.** `RegistryBounded`, `PublishedIsTold`. `NothingPublishedIsLost` speaks of
streams that have drained; the invariant speaks of every open stream and says where the newest
published version is: told, in the head, in the tail, or to be looked up again because the stream
lags or resynchronises (`Covered`). A channel that drops a snapshot sets its lag, a lookup reads
at least what was published, and a stream that can receive has its payment in the registry, so no
publication passes it by. The proof is for every capacity and any number of streams.

**FrontDoor_proofs.** `SettledIsPaid`, `SameContract`, `HonestIsNotRefused`, `DisclosureIsProof`, for
every registry, any number of payments and agents, and every request and disclosure. The invariant
(`FrontInv`) says that offers are issued in the order of the payment ids and are what propose composes
from a registry entry (`OffersComposed`), that prepared rows belong to offers, that what was settled
pays its offer (`SettlementsPay`), and the properties of the exchange answered last. The arguments are
about data rather than about steps:

* The matched amount, the disclosed amount, what a transaction pays, the powers of ten, the digits of
  an amount and its value are recursive functions. `PositionInduction`, from the well-foundedness of
  the naturals, takes a set that has 0 and with each position the next; `RecursionExists` shows by it
  that a step per position leads to one value per position, so each of these functions is what its
  definition says.
* `MatchOutputPass` and `MatchedIsPaid`: what the walk adds is paid to the owner of the address,
  whatever the labels say, so a PCZT that passes pays the payee at least the matched sum; with
  `FoundIs` (the row) and `BroadcastIs` (expiry and network) that is `PassedPays`.
* `EarlyIs`, `SettlePasses` and `RefusalAgrees`: settle asks what verify asks, in the same order, with
  the limiter before it and the row between its two halves.
* `AmountRoundTrips`: the fraction is below one ZEC, so as many divisions by ten as there are digits
  leave nothing; the zeros that are trimmed are the ones the parser puts back; reading the digits
  undoes the divisions one by one. Hence the PCZT of an honest wallet carries the offered amount
  (`HonestParts`), is matched (`HonestMatches`) and passes every list of refusals
  (`HonestVerifies`, `HonestIsFound`).
* `ValidIs`, `ReconciledIs` and `DisclosedIsPaid`: only the last of nine answers says valid, and it is
  reached only for a mined transaction under the id asked about.

**PaymentClients_proofs.** `TypeCorrect`, `StageHasACause`, `DisclosureIsOfTheSettledTx`,
`PaidStaysPaid`, `OkIsPaid`, `RejectedIsUnpaid`, for any number of payments, attempts, streams and
faults. The invariant (`ClientInv`) ties each party's memory to the network: a call past a broadcast
with a success kind has its transaction taken, and somebody waits for it (`CallKnows`, `Waits`); a
success row names a taken transaction, and one at or below the settled tip an irreversible one
(`RowKnows`); an attempt that asks for a disclosure has settled (`AttemptKnows`); id and disclosure of
a stored payment go together (`StoredKnows`); a stream that says paid has an irreversible transaction
(`StreamKnows`). For the harness the invariant says what a rejection rules out: as long as a run over
the lifecycle route may still be told one, nothing of it is on the network (`RunKnows`).

### Only model-checked

Liveness (`EventuallyAgrees`, `LastWordComes`, `ReadyWalletAnswers`, `StreamsEnd`) is outside the
prover, as is `ENABLED`. Every invariant and every safety action property of the passing runs is
stated by a theorem. No module has a RECURSIVE operator.

## 5. Where the code and its documents part

Besides `settle_crash_refire`, reading the code for the models showed these. None is a claim of a
property; where a configuration reproduces one, it says which.

* `lookup_payment_status` reads two tables (`zpay-core/src/status.rs:467`, `:485`) without a common
  snapshot, and may answer `never_issued` for a payment a settle has just moved; `:70` says that
  answer means no row exists.
* A row at or below the settled tip is never fetched again (`zpay-runtime/src/main.rs:739`), so a reorg
  missed while the facilitator was down stays missed once the settled tip has passed;
  `docs/runbooks/reorg-recovery.md:29-31` says the sweep on startup catches it. `reconcile_paced`
  with `Paced = FALSE` violates `SweepCatchesReorgs`.
* The cached tip is stored before the rows are swept, so a payment mined at its last valid height
  reads `expired`, then `mined`; `docs/adrs/0009-settlement-lifecycle-and-finality.md:86-89` calls
  expired terminal, and it closes streams.
* A reservation older than two minutes goes to a retry while its holder may still sign
  (`zspend-runtime/src/ledger.rs:423`); the comment at `:56-57` says a live sign is never overtaken.
  `single_use` with `Punctual = FALSE` violates `SignedOnce`.
* A reservation that was left behind stays with its intent: after the TTL only the same intent
  reclaims it (`zspend-runtime/src/ledger.rs:419`), any other is told that the token "was already
  used to sign a different intent" (`zspend-runtime/src/main.rs:1248`), though nothing need have been
  signed; the comment at `:1391-1393` says the reservation clears on its own after the TTL.
* A broadcast row that is not mined by its expiry height reads `expired`
  (`zpay-core/src/status.rs:542-548`); the comment at `:73-75` says of that status that no settlement
  row was ever written.
* `settle_x402_payment` of the harness says "did not settle payment" (`zpay-e2e/src/main.rs:1274`) of
  every unsuccessful answer, an unknown outcome included, after which the network may have the
  transaction.
* After a successful settle the preparation is gone, so a prepare under the same idempotency
  key issues a new payment.
* When two settles of one payment overlap, the failure row of the later may overwrite the success
  row of the earlier; `FailedIsRetryable` and `ImplementsContract` are for settles that follow one
  another.
* A wallet error while signing is answered as 500 and not retryable, yet with a Retry-After, as that
  header looks at the kind alone (`zspend-runtime/src/main.rs:1687`, `:1745`); insufficient funds are
  a 500 there though `status_for_kind` has 422 for them.
* `recipient_allowlist` of the signing policy is configured and never asked.
* Retry-After of the limiter truncates: a caller that waits exactly that long may be refused once
  more (`zpay-x402/src/rate_limit.rs:29` says until the window rolls over).
* A limited write has already spent its DPoP proof.
* A preparation that lapses is announced by nobody, so an open stream on it waits.
* The relay route `/zpay/v1/settle` cannot see whom a raw transaction pays; `SettledPaysThePayee`
  is about the x402 route. One transaction may settle two equal preparations.
* `/x402/v2/verify` does not ask for the network of the chain plane, settle does;
  `VerifyAndSettleAgree` excepts that refusal.

## 6. Not modelled

* Cryptography, parsing and encoding of proofs, tokens, transactions and memos: a proof is sound or
  not, a hash is what it is taken over. x402 header encoding and JSON shapes.
* Start-up: configuration, store connection, migrations, wallet bootstrap and `init`. Each migration
  is one transaction with its version row, and two instances that start together collide on a column
  or on that row, so one of them fails to start and is started again; nothing else runs yet.
* Read-only surfaces: readiness of zpay, ops listing, metrics, health, `snapshot()`.
* Demo faucet, wallet, readiness and console routes, its key files; the command line of the harness.

## 7. Plan

1. Migrations by two instances at once, and `init` interrupted between its files.
2. A larger `status_stream` instance with two payments and two connections.
