# Formal verification of the polymarket arbitrage scanner

TLA+ models of the parts of this repository that move money, the TLC runs that
check them on small instances, and TLAPS proofs of their main properties for
every value of the constants.

| File | What it is |
|---|---|
| `BrokerQueue.tla` | the policy broker's durable queue: intents, ledger, attempt claims, halts, lease |
| `PolicyBroker.tla` | the workers, the direct callers and the pipeline over that queue |
| `IntentLifecycle.tla` | what the broker promises for one intent (abstract specification) |
| `TradeExecution.tla` | an opportunity's legs, the hedger and the crash recovery |
| `MMPilot.tla` | the Kalshi market making pilot against the venue and the main loop |
| `FillLedger.tla` | what an inventory counted from polled fills promises (abstract specification) |
| `ExecutionGate.tla` | the scan pass, the priority queue and the gates of `execute()` |
| `Treasury.tla` | programmatic transfers: claim, daily limit, dispatch, record |
| `TransferJournal.tla` | what the table of transfers promises (abstract specification) |
| `Fees.tla` | the fee calculators, as pure operators |
| `Arbitrage.tla` | one pure arbitrage from scan to settlement, over `Fees` |
| `MC*.tla`, `MC*.cfg` | the instances TLC checks |
| `Sums.tla` | laws of sums over finite sets, proved once and used by three proof modules |
| `*Proofs.tla` | theorems about the module of that name |
| `PROJECT.json` | components, runs, mutants, the map from definitions to source lines, findings, hazards, theorems |

    tlc -workers 2 -config MCPilot.cfg MCMMPilot.tla
    tlapm MMPilotProofs.tla

## 1. Inventory

The repository is one Python trading process (`continuous.py`), which may run
the market making pilot as a thread, and one out-of-band process
(`broker/worker.py`).  The two processes share no memory; each has its own
database.

| Component | State it keeps | Operations | What makes it correct | Module |
|---|---|---|---|---|
| Policy broker (`broker/`, migration 0005) | `intents`, append-only `intent_events`, `intent_attempts`, `halts`, `leases`; in memory `_capital_frozen`, `_next_renewal` | submit, lease, claim, validate, execute, record, freeze, halt | a side effect happens at most once; one definite verdict on record, which agrees with what happened; a single writer while nobody is late; halts stop capital | `BrokerQueue`, `PolicyBroker`, `IntentLifecycle` |
| Leg execution (`executor.py` `_execute_legs*`) | rows of `trades`, `positions`; per leg `_order_id`, `_cancel_unconfirmed` | log, place, persist id, poll, cancel, finalize, abort | no row claims a fill that did not happen; a position is whole; a fill is never forgotten | `TradeExecution` |
| Partial fill hedger (`hedger.py`) | rows of `partial_fills` with a status and attempts | queue, attempt, record, give up | a leg is sold once; attempts are bounded; every fill is answered | `TradeExecution`, `MMPilot` |
| Crash recovery (`recovery.py`) | none of its own | classify pending rows, ask the venue, convert orphans | settled rows stay settled; live orders stay visible | `TradeExecution` |
| Kalshi market making pilot (`mm_pilot.py`) | registry, inventory, seen fills, cursor, canary, halts, selection; a state file | quote, place, cancel with retries, poll fills, hedge, halt, reconcile, stop | fills are counted once, live orders are known, halts drain | `MMPilot`, `FillLedger` |
| Execution gates, risk manager (`executor.execute`, `risk_manager.py`) | cooldowns, counters, cached balances, open positions | kill switch, duplicate window, caps, sizing | checks still hold when the order goes out | `ExecutionGate` |
| Continuous loop (`continuous.py`) | trigger slots, priority queue, scan list | scan pass, WebSocket trigger, priority consumer, settlement | one send per market and window | `ExecutionGate` |
| Treasury (`treasury.py`, `transfers` of `db.py`) | `transfers` rows | look up, claim, dispatch, record | a transfer runs once, within the daily limit | `Treasury`, `TransferJournal` |
| Fees, scanners (`fees.py`, `scans/`, `executor._revalidate*`, `_build_legs`) | none | price, refine, revalidate, build legs | a claimed profit is a floor; what fills pays | `Fees`, `Arbitrage` |
| Trade database (`db.py`) | SQLite, one lock, one commit per operation | updates, a transaction for claims | each commit is atomic | within the modules above |
| Market maker, balancer, circuit breakers, feeds, venue clients, dashboard, research, reports, CLI | caches, sockets, sessions | input, output, heuristics | section 10 | |

How they interact: scanners hand opportunities to the loop by calls, and price
updates put them in a queue; the loop calls `executor.execute`, whose gates read
memory and tables and whose legs call venues over HTTP; the loop calls the
hedger after each pass and the recovery once at start.  The pilot's hedger
writes to the same `partial_fills` that the loop's hedger reads.  The dashboard
sets the pause and posts transfers.  The broker's proposers only write intents;
a worker reads them from the store and calls an executor command.

Hard behaviours, listed with their lines under `hazards` in `PROJECT.json`:
crashes between a venue call and the commit that records it; answers lost after
the effect happened; leases that expire under an executor; legs that finish in
any order; cancels racing fills; fills read after their order is gone; gates
that read one moment and act in another; rounding and fees that differ by outcome.

## 2. The policy broker

**State.** `BrokerQueue` has the tables: `id` (the row number), `outcome` (the
latest event's status), `claimed` (the attempt row), `halted` and `lease`.  Its
definitions are the operations of `queue.py` and of the SQL functions of
migration 0005, which decide the same.  `PolicyBroker` adds, per process, a
program counter, the intent in hand, the fetched batch, the two clocks and the
in-memory freeze, and as history what the executors did.

**Steps.** A step is the code between two calls that another process could
notice.  A store call may be *lost* (raises, nothing written) or *unacked*
(written, raises all the same).  Workers crash, stop and restart; an operator
sets and clears halts.  All such events draw on one budget, `MaxFaults`.

Two operations of the queue are more than one statement.  `append_event` reads
the latest status and inserts later (`queue.py:247`, `:261`): the worker decides
on what it read (`OpenForAppend`), and the insert is a step of its own
(`Inserting`, `RecordOutcome`).  `queue.py` holds a lock meanwhile, which is its
own process's only, and the trigger of migration 0005 reads without one.
`halt_active` reads the scopes one after the other (`ReadHalt`), before the rest
of a validation passes (`PassScreen`, `Recheck`).

**Time.** A tick is a third of the lease, the renewal period of `worker.py`.
`MaxGap` bounds the ticks between two lease checks.  The code checks before a
batch and before each intent and never inside one, so the gap is the time one
intent takes, its executor included.  A worker has *overrun* when its gap is
longer than what a check leaves of the lease: two of the three periods.

**Validator.** The caps and rules are a nondeterministic verdict, drawn anew at
the re-validation; the halt rules, which depend on the store, are exact.

| Run | Question | Result |
|---|---|---|
| `broker_bounded` | gap of at most 3 ticks, so that nobody overruns; two workers, crashes, stops and lost answers | a recorded outcome stays, no late invocation, every intent is decided |
| `broker_slow` | gap of 4 ticks: leases expire inside an intent, reads and inserts of two workers interleave | two workers are at work only if one has overrun; one definite verdict an intent, whatever is replaced; ledger agrees; no move past a halt that stood throughout its last validation; refinement of `IntentLifecycle`, where an executor is called at most once |
| `broker_direct` | two processes call `process()` with the same intents | the upsert dedupes: at most one invocation (`AtMostOnce`); an in-doubt move freezes capital |

*Bounds.*  Two intents (one moves capital) show interference through the halt
and the order of a batch; two workers are all a lease distinguishes; two faults
give a crash and a lost answer, or two crashes.

*Fairness.*  Weak fairness of time and of each worker's steps: the platform
restarts a worker that exits and the scheduler runs it.  Proposers, operators
and faults owe nothing.

*Deadlock.*  `broker_direct` disables the check: callers that have finished have
nothing left to do.

## 3. Execution, hedging and recovery

**State.** `TradeExecution` follows one opportunity.  Venues: `order`, `held` (in
units; an order is for two, so that it may be half filled), `sold`.  Database:
`row`, `rowId`, `position`, `pf` and `tries`.  Process: a program counter for the
main thread and one for each leg's thread, `knows` (`leg["_order_id"]`),
`unconfirmed`, `result`, and the loop over rows or hedges.

**Steps.** One venue call or one commit each.  The venue fills and closes orders
at any time, also while the process is down.

| Action | Code |
|---|---|
| `LogTrade`, `Preflight` | `_execute_legs`: rows are logged pending, then balances are checked |
| `PlaceRefused`, `PlaceOrder`, `PersistOrderId`, `PersistFails` | `_execute_single_leg`, `_persist_order_id` |
| `ConfirmFill`, `PollEnds`, `PollRaises`, `CancelTimedOut` | `_confirm_fill_*`, the GTC cancel |
| `FinalizeFilled`, `FinalizeFailed`, `RecordFailed`, `RecordError` | `_finalize_leg_trade`, `_record_failed_leg`, the handlers: the two commits of a failed leg are two steps |
| `AbortNext`, `AbortFails` | the rest of a sequential execution, and the handler when that commit fails |
| `Settle`, `ReleaseFilled` | position, or hedge, or the fallback without hedging |
| `QueueHedge`, `HedgePass`, `GiveUp`, `AttemptHedge`, `RecordHedge`, `HedgesDone` | `hedger.py` and its caller in the loop |
| `Crash`, `Restart`, `RecoverRow`, `ConvertOrphan`, `RecoveryDone` | `recovery.py` |

`Mode` chooses between one platform (legs in order), several platforms (a thread
per leg) and concurrent mode (no preflight, one hedge pass at the end).  `Venue`
tells Polymarket and Kalshi, which cancel an order whose id could not be
written, from the exchanges, which poll on.

*What a fill is.*  The poll and the recovery take a venue's word for it and
compare no quantities.  Polymarket's `matched` is said of whole orders; Gemini's
`closed` (`executor.py:4107`), Betfair's `EXECUTION_COMPLETE` (`:4189`) and
Kalshi's `executed` with a smaller `fill_count` (`:3868-3873`) are also said of
an order that closed with a part of it, or with nothing.  `Done` is what the
venue can call executed, and `ConfirmFill` and `AskedStatus` go by it: a row
called filled may hold less than was ordered (`FilledHoldsAll`, section 9).

| Run | Question | Result |
|---|---|---|
| `trade_sequential` | 3 Kalshi legs in order, the first resting, hedging off, 2 crashes, 2 losses | `OneLegAtATime`, `AbortedNeverPlaced`, `SettledRowsStay` (11 k states) |
| `trade_threads` | 2 legs in threads, Kalshi resting and an exchange, 2 crashes, 1 loss, fairness | `RowsTellTheTruth`, `PositionsAreWhole`, `SoldOnce`, `UnconfirmedIsKept`, `EveryFillAnswered` (82 k) |

The last two speak of a process that lives.  `trade_threads` passes as well with
`Mode = "concurrent"`, with `Venue <- TwoVenues` (Polymarket and Kalshi) and with
`GTC <- AllGTC`.

*Bounds.*  Two legs give every pair of leg states; the sequential run has three,
so that a leg can be behind a failure and not next to it.  Two crashes let the
second hit the recovery or the hedge of the first.  `MaxAttempts` 2 is the
first limit with a retry in it (the default is 5).

*Fairness.*  Weak fairness of the main thread's three roles and of each leg's
thread: polls are bounded by their timeout, cancels are single calls, the loop
passes over the hedger for ever.  The venue owes nothing, not even an answer to
a live order.

*What is assumed.*  A commit of the main thread fails only where code catches
the exception; elsewhere the exception leaves `execute` and the rows stay as
after a crash.  The two commits of an orphan's conversion are one step.  A
status that recovery cannot read is a possible answer of every query.  IBKR,
which cannot sell, is a venue that always refuses.

## 4. The market making pilot

**State.** The venue: `quote` (every order sent; its index is its id), `open`,
`fills` (a fill's index is its id and its time), `position`.  The pilot: the
registry (`known`, `tries`), `net`, `seen`, `cursor`, halts, canary, selection,
`saved` (the state file), and where `run_loop` stands.  Main loop: `audit`, the
rows of `partial_fills` that `hedge_inventory` leaves.  History: `counted`,
`passed`.

**Steps.** `run_loop` is one thread; a step is the code up to its next call to
the venue.  Between steps the venue fills and the main loop sells.  Cancels are
one step each (`CancelNext`), in rounds that may be cut short by a halt
(`Pulling`, `HaltAll`): `todo` is the round, `later` the one it interrupted and
`then` where it returns to.

| Action | Code |
|---|---|
| `Start`, `Crash` | a process that remembers the state file and nothing else |
| `QueryOpen`, `SweepNext`, `ConfirmEmpty`, `TakePositions`, `TakeFills`, `QueryFails` | `reconcile` |
| `Select`, `GatePulls`, `GatesPass`, `QuoteSide`, `SkipSide` | `update_selection`, `refresh_market`, `place_pilot_order` with `_authorize` |
| `CancelNext`, `RetryCancels`, `HaltIdle` | `_cancel_order`, `pull_market`, `pull_all`, `_retry_pending_cancels`, `halt_market`, `halt_all` |
| `PollFills`, `PollFails`, `PollEnds`, `UnknownFill`, `BadFill`, `CountFill`, `Judge`, `AfterFill` | `poll_fills`, `_process_fill` and what it decides after accounting |
| `Stop`, `VerifyStopped`, `StopAgain` | `stop` |
| `MainLoopHedges` | `hedger.process_pending_hedges` over the pilot's rows |

| Run | Question | Result |
|---|---|---|
| `pilot` | quotes, fills, 2 failed calls or crashes, restarts, shutdown, sales by the main loop | `LiveOrdersKnown`, `NetIsCounted`, `NothingMissed`, `StopConfirmed`, refinement of `FillLedger` (4.5 M states) |
| `pilot_live` | the same loop under fairness | `HaltDrains`, `FillsAnswered` (189 k) |

*The abstract ledger.*  `FillLedger` has fills that arrive, a book that takes
each of ours once, and distrust, which ends with a rebase onto everything that
has arrived.  `ImplementsLedger` maps `reconciled` to trust, and the book to
`net` while it holds.

*Bounds.*  One market: halts, registry and cursor are the same for all.  Two
orders are a bid and an ask, or a quote and its replacement; two fills an order
filled in parts; two faults a lost placement and a failed cancel, or a crash
during recovery from either.

*Fairness.*  The loop retries pending cancels with a backoff of at most 30 s,
polls fills and reconciles on its own cadence: strong fairness of `RetryCancels`
for each order, of `QueryOpen` and of `PollFills`, which other stages disable for
a moment again and again; weak fairness of the steps inside a stage.  Nobody
restarts the process or asks it to stop, and both properties end with the
process.  Failures are finitely many (`MaxFaults`).

*What is assumed.*  A request whose answer is lost is decided before the next
request is sent.  Every contract has one price, so that dollars are contracts.
What gates read from books, trackers and the control plane is a verdict drawn
anew each time.  `seen` keeps every fill, the code the last 1000 ids
(`mm_pilot.py:2116-2119`); toxicity in several markets halts the pilot in
`AfterFill`, without the markets it may halt one by one (`mm_pilot.py:2450-2462`).

*What the model makes plain.*  `NothingMissed` excepts two things the code does.
A fill of an order that has left the registry, in a market that is deselected,
flat and without orders when it is read, goes by as someone else's (`passed`);
in any other market of the pilot it halts the pilot.  And a fill older than the
saved time, within the 60 s window of the first poll after a restart, halts the
pilot as an unknown order.  A restart forgets every halt: the state file has
none.  A sale by the main loop that falls between the reconciliation's two
queries is marked seen and never counted: no property claims that `net` is the
venue's `position`.  A quote replaced while its fill is unread lets the
inventory go to twice the cap before the next poll.

## 5. The gates of execute()

`ExecutionGate` has the event loop with its queue and scan list, the gates in
their order as values of `pc`, the tables they read (`recent`, `positions`), the
account, and time.  Feeds, queue consumer and scan pass share one event loop and
`execute()` does not yield, so that what is concurrent with it is the
dashboard's thread (`Pause`), the account (`CashMoves`) and time (`Tick`).  A
gate on prices, fees, depth or disputes gives either verdict.

| Gate | Action | Code |
|---|---|---|
| kill switch, cooldown, duplicate window, whale and canary counts | `Screen` | the head of `execute` |
| prices again | `Revalidate` | `_revalidate` |
| balances, cached for 10 s by type | `ReadBalances` | `_get_cached_balances`, `_per_leg_budget` |
| open positions, improvement by a fifth, balance, size | `RiskGate` (`MayEnter`, `Funded`, `SizesFor`) | `RiskManager.check`, `clamp_size`, gas, depth |
| a person's approval | `Approve` | semi-auto mode |
| opportunity logged | `Send` | `log_opportunity` |
| cost of the legs against the balance, unless they go out at once | `Preflight` | the head of `_execute_legs`; then `TradeExecution` |
| outcome | `Win`, `Lose` | what `execute` does with the result |

| Run | Question | Result |
|---|---|---|
| `gate` | a selection on an exchange and a quote, in two markets, from two sources; one pause, one crash, settlements, money that moves, balances that are missing | `OneAfterPause`, `SentApart`, `EntriesImprove`, `SizedWithinCash` (7.7 M states) |
| `gate_empty` | a whale, a selection and a forecast on an account that may be empty | **violated**: `TradeFitsBalance` (section 9) |

*Bounds.*  An exchange's kind is sized from an account that `risk.check` does
not look at; a quote is exempt from the improvement rule and never fills
(`risk_manager.py:49`, `:142`).  Windows of one tick are open, closing and
closed; two units of cash are spent by one execution of two legs.

*Sizes.*  A balance above nothing limits a leg to its share.  One that is missing
or nothing limits it no more than one that was not read: `_per_leg_budget`
returns 0.0 for both (`executor.py:2077-2078`), and `clamp_size` looks at a
balance only if it is above 0 (`risk_manager.py:249`).  Where `risk.check` looks
at the same account it refuses first (`Funded`).

*What the model makes plain.*  The pause is memory, and a restart resumes.  It is
read once, so that one opportunity past it is still sent, after an approval that
may take as long as it likes.  The session caps count what filled and never come
down.  `continuous.py:2325-2330` sets the dispute verdict on
`executor.risk_manager`, an attribute no executor has (it is `risk`), so that it
never fails closed.  The improvement rule protects a market only while its position is open.
Revalidation of triangular, multi-cross and whale opportunities passes when
nobody answers, against the docstring at `executor.py:745`.  Left out: the
WebSocket path without a queue (`continuous.py:1918-1934`), and the daily loss,
which counts the expected profit of open positions and ignores hedge losses: a
verdict of `RiskGate`.

## 6. Treasury

`Treasury` has the `transfers` table, the hour, and for each process that serves
a dashboard the request in hand; the exchange keeps what it paid out for each
row.  A request looks its key up (`Ask`), reads the kill switch (`Gate`), claims
in one transaction (`Claim`, `OverLimit`, `TakenMeanwhile`), dispatches
(`NoDispatch`, `Dispatch`, `Attempt` with its retries) and records (`Record`,
`RecordFails`).  Processes crash and come back live or dry.

| Run | Question | Result |
|---|---|---|
| `treasury` | two processes, two payloads, one explicit key, a day that slides, one crash | `ClaimedWithinLimit`, `OkMeansMoved`, refinement of `TransferJournal` (5.2 M states, process symmetry, 2.5 minutes) |

*Bounds.*  Two claims of 2 and 1 under a limit of 3 fill it exactly; a day of two
hours in a run of three lets the first hour leave the window; two tries are one
retry.  Deadlock is not checked: the run ends with its hours and its rows.

*The abstract journal.*  `TransferJournal` has rows and what was paid for each,
and no processes, hours or limit: a key is booked once, an open row may be paid
for up to `MaxTries` times, and a row is closed once, as succeeded only if it was
paid for and as a dry run only if it was not.  `ImplementsJournal` maps the table
and the exchange to it as they are.  A row never changes once it is closed and no
money moves for it any more, which the state invariants do not say.

*What the model makes plain.*  `OkMeansMoved` says of a success that it moved
money at least once: a connection that is cut off is tried again with a new
nonce, up to three times (`gemini_api.py:162`), and each may pay out.  A timeout
is recorded as failed, leaves the daily total, and may be asked for again.
`treasury.py:15` speaks of duplicates within 24 hours, but a derived key changes
with the hour (`treasury.py:303`).  A row left pending by a crash counts towards
its day and is never dispatched again.

## 7. What an arbitrage pays

`Fees` are the calculators, in whole cents and micro-dollars: at those units a
taker fee of r percent of p(1-p) is an integer, and the code's floats carry the
same values.  `Arbitrage` takes thirteen kinds of pure arbitrage through scan,
refinement, revalidation, legs and fills while the books move, and settles them
with an account of its own (`Settled`): for each outcome, what the legs pay less
what they cost, each order with its own fee and gas.

*Quantities.*  The executor passes its size, undivided, to each leg
(`executor.py:3299`, `:3339`, `:3363`).  A leg on Polymarket or Kalshi buys the
whole contracts it pays for (`_dollar_size_to_contracts`), one on Betfair or
Matchbook stakes the dollars; only the kinds whose legs carry `_contracts` share
the size.  So a binary may cost twice its size and a set of n legs n times, and
`TypeOK` bounds each leg, not their sum.  A leg below its venue's minimum is not
sent, and a triangle wants half its size to reach it (`executor.py:2903`,
`:3716`).  CTF legs are refused outside a dry run (`executor.py:3287`): what is
said of the two CTF kinds is said of what would be sent.

| Run | Question | Result |
|---|---|---|
| `money` | 13 kinds, 3 rates, both fee models, sizes of $10 and $20, two moves of the books | `ClaimIsFloor`, `FilledSetPays` (4.1 M states) |
| `money_unequal` | the legs of a binary with the quantities they are sent with | **violated**: one outcome loses (section 9) |

*Bounds.*  The prices 8, 30, 44, 61 and 84 cents have pairs and triples on both
sides of a profit; the rates 0, 4 and 7 percent are the free, the default and
the dearest category; the Triangular pairs Kalshi with Smarkets, which has a
commission and a minimum; two moves are a change before and one after
revalidation.
Deadlock is not checked: a market may offer no arbitrage and an attempt ends.

*What the model makes plain.*  The exceptions in the two properties are what the
code does: a revalidation that drops the category (`executor.py:1129`, `:1459`)
prices dear markets too cheap; in the `expected_value` model a commission is
weighed by price and one outcome may get less than claimed.  NegRisk carries its
prices sorted while its legs are in market order (`executor.py:2273-2297`,
`scans/negrisk.py:85`), more than five outcomes yield no legs; a Cross is priced
again from a fee path that revalidation never sees (`executor.py:2676-2683`),
built on the assumption that the other Polymarket price is one less this one
(`scans/cross.py:470-475`).  All of that stays within `FilledSetPays` because
the orders are limit orders.  A triangle that finds both sides on Polymarket is
charged one gas for two orders (`fees.py:926`).

*What is left out.*  The cross-all types are always refused by
`_revalidate_cross`.  A NWayArb is built as two legs by `_build_single_cross_leg`
(`executor.py:2604-2638`) from what the scan names of the two platforms
(`scans/triangular.py:597-630`); its legs carry no Kalshi ticker, and it is not
modelled.  A triangle's legs carry the side words yes and no to every venue,
and what Smarkets, SX Bet and Matchbook make of them is theirs.  No triangle has
a leg on Betfair: its catalogue comes without prices (`betfair_api.py:192`).

## 8. What is proved

Theorems hold for every value of the constants, under the named assumptions of
the modules (finite bounds, disjoint process names, and so on).  Every safety
and action property of a passing run is the subject of a theorem, and so are
the three refinements.

**Broker** (`PolicyBrokerProofs`): `TypeCorrect`, `AtMostOnceAlways`,
`LedgerAgrees`, `OutcomesAreFinal`, `BrokerImplementsLifecycle`,
`OneVerdictHolds`, `SingleWriterHolds`, `NoLateInvocationHolds`, `HaltsStopCapital`,
`OnlyRefusalsDoNotFreeze`, `InDoubtFreezes`; of the direct callers
`DirectAtMostOnce`, `DirectLedgerAgrees`, `DirectImplementsLifecycle`; of the
abstract specification `LifecyclePromises`.

- `AtMostOnce` is not inductive.  `LedgerInv` adds that a worker in an attempt
  holds the claim (`Provenance`), alone (`SoleAttempt`), that an intent nobody
  claimed is untouched, and what each program counter implies (`Stage`).
- `AtMostOnceAlways`, `LedgerAgrees` and the refinement assume `Callers = {}`:
  `process()` takes no claim.  They assume nothing about holder names or times.
- The `Direct...` theorems are the other deployment, `Workers = {}`, which
  `broker_direct` checks.  `DirectInv` mirrors `LedgerInv` with the row in the
  claim's place: calls in an attempt hold different rows, so the upsert alone
  is enough.  `DirectLedgerAgrees` is `LedgerMatchesWorld` without its conjunct
  about claims, which direct calls do not take.  The two together, workers and
  callers on one queue, have no such theorem: a worker may claim the row that a
  call is still working on.
- `LifecyclePromises` says what a refinement of `IntentLifecycle` is worth:
  whatever implements it invokes an executor once at most, records nothing
  untrue (`LedgerIsTrue`) and replaces an outcome only where IN_DOUBT is one of
  the two.
- `OneVerdictHolds` is what is left of the write-once outcome when reads and
  inserts of `append_event` interleave as they like: of the workers at one intent
  only the claimant gives a definite verdict, the others IN_DOUBT.
- `SingleWriterHolds` assumes distinct holder names (`OwnNames`) and nothing of
  lease, poll interval or timeouts; its invariant `Covered` says that a worker
  that has not overrun still holds its lease.
- `NoLateInvocationHolds` and `OutcomesAreFinal` speak of runs: in one in which no
  worker ever overruns inside an intent (`[]Timely`), no executor is called for a
  decided intent and no recorded outcome changes.  `Undecided` says that an
  attempt's intent is open up to its own insert.  With the documented times a run
  may be otherwise (section 9).
- `HaltsStopCapital` assumes nothing.  A halt that has stood since the last
  validation began is found by one of its reads, in whatever order the scopes are
  read and whoever sets and clears the others meanwhile; `HaltInv` says that such
  a scope is still unread.  A halt set after its scope was read is missed, as the
  comment of `_execute` says.  The in-process freeze is read one validation
  earlier, and nothing freezes a process between the two.
- `OnlyRefusalsDoNotFreeze` says how far `InDoubtMoveFreezes` goes with workers:
  one step alone records a capital move in doubt without a freeze, a worker's
  refusal of a claimed intent (section 9).  `InDoubtFreezes` is the property
  itself, with direct callers alone.  Both assume that no operator clears the
  halt of capital moves; `MoveFrozen` says that the freeze is there from the
  executor's answer on.

**Execution** (`TradeExecutionProofs`): `TradeTypeCorrect`, `RowsAreTrue`,
`LegsInOrder`, `PositionsStayWhole`, `SalesAreBounded`, `AbortedLegsUnsent`,
`SettledRowsFinal`, from one invariant `Inv`, and `UnconfirmedAreKept`.

- `Control` ties thread counters to results and to the main thread; `Truth` says
  a leg credited with a fill has an order that is `Done`: closed, at a word of
  execution.  That is all `RowsAreTrue`, `LegsInOrder` and `SalesAreBounded` say of
  it, and not that it holds what was ordered.
- `AbortedLegsUnsent` does not lean on a guard: the loop aborts every leg behind
  the failed one whatever became of it.  That none of them was sent is `Control`
  (`BehindWaits`): a leg starts only when all before it are recorded as filled.
- `Collecting` says nothing is hedged before the outcome is settled; `Queueing`
  which rows may be in the hedger's hands; `Whole` follows from both.
- `Sales` counts: every sale but the one on record is paid for by a crash or a
  lost answer.
- `Kept` says a leg that polls knows its order, and so does its row where it may
  cancel; before the first crash an unconfirmed leg's row is pending or is being
  made so.

**Pilot** (`MMPilotProofs`): `TypeCorrect`, `LiveOrdersKnownAlways`,
`StopConfirmedAlways`, `NothingMissedAlways`, `NetIsCountedAlways`, the
refinement `PilotKeepsLedger`, and `BooksMoveByOwnFills`.

- `OpenInv` adds to `LiveOrdersKnown` that live orders have contracts left and
  that there are none once the venue has been seen empty.
- `MissedInv` strengthens `NothingMissed`: an unsettled fill is in the batch, or
  ahead of the cursor *and of everything in the batch* (`Ahead`), since the batch
  moves the cursor; and the fills a reconciliation marks as seen are all counted
  by the positions it took just before.
- `NetIsCounted` is not inductive: a reconciliation replaces `net` by the venue's
  positions, and a poll may meet a fill those already hold.  `BooksInv` says that
  the positions are the sum of *all* fills; that `net` is the sum of the counted
  ones already while the reconciliation reads fills, before it is trusted; that a
  trusting pilot has seen each counted fill, or its order is registered no more;
  that registered orders are its own; and that the batch holds nothing seen.
- `PilotKeepsLedger` has one step per action: a fill of any order and a sale by
  the main loop are arrivals, `CountFill` of the pilot's own is a booking, a
  start, a fill it cannot account for and a lost placement are distrust,
  `TakeFills` is the rebase, all else a stutter.
- `BooksMoveByOwnFills` reads the refinement back: between two trusting states
  `net` moves by one fill of the pilot's own, not counted before, or not at all.

**Gates** (`ExecutionGateProofs`): `TypeCorrect`, `OneAfterPauseAlways`,
`SentApartAlways`, `EntriesImproveAlways`, `SizedWithinCashAlways`.  `PauseInv`
says a second send needs a second screening; `Apart` that the logged row covers
what is left of a market's window, also after a restart; `Entry` that what risk
passed still holds when the legs fill; `Budgeted` relates cached amount, budget
and size to the cash and what left unseen, for sizes taken from a balance above
nothing: of the others there is nothing to say, which is `TradeFitsBalance` in
section 9.

**Treasury** (`TreasuryProofs`): `TypeCorrect`, `KeysAreClaimedOnce`,
`OkMeansMovedAlways`, `LimitHolds`, `KeepsTheJournal`, `ClosedRowsStand`.
`Booked` says a key has one row, a process between claim
and record holds a pending row that is nobody else's, and what it is about to
record is what it did.  `LimitHolds` (`ClaimedWithinLimit`) is about the rolling
day that ends at *any* hour: `NotAhead` says no row is dated after the clock, so
that a later window holds no more than the one the claim's transaction summed;
a record may only take a row out of the count.  `KeepsTheJournal` (the refinement
`ImplementsJournal`) needs `PaidPerTry` besides: a withdrawal under way was paid
at most once for each attempt made, so that the attempts bound the payments; the
rest is `OwnRow`, by which no other request pays for or closes the row, and
`Doing`, by which the recorded status is true.  `ClosedRowsStand` follows from
the journal alone (`JournalKeeps`): payments stay within `MaxTries` a row, and a
closed row is never closed again, paid or changed.

**Fees** (`FeesProofs`): `KalshiFeeIsCeiling`, for every price and size;
`CrossAgreesWithGeneric`: the calculators that scans use for a Polymarket pair
and the general one that price updates use are one function;
`WorstCaseIsTheWorseOutcome`: the `worst_case` model is exact.

**Arbitrage** (`ArbitrageProofs`): `TypeCorrect`, `ClaimIsLow`,
`ClaimIsFloorAlways`, `FilledSetPaysAlways`, for all thirteen kinds, all prices
from 1 to 99 cents, all rates up to 100 percent, any sizes, any pair of venues
but Betfair for a Triangular and any number of moves of the books.

- `ClaimIsLow` compares each calculator of `fees.py` with the independent account
  `Settled`, outcome by outcome: a positive claim is at most what one contract of
  each leg brings.  The rounding of the fees, the commission of a winner and the
  choice of the dearer outcome all come in here.
- `SetByRate`, `SetByPrice` and `SetByNumber` say how the account moves: it falls
  with the rate; it does not fall when a price moves to the better side of its
  limit, fee and commission included; and for equal numbers of contracts the
  whole order brings at least that many times what one set brings.
- The invariant `IInv` has four parts.  `ShapeInv` is what each stage has made of
  the opportunity; `ClaimInv` that the profit carried is the calculator's, at the
  prices it was computed from (`basis`), which are not those the legs carry.
  `RouteInv` says that the prices the legs will be built from pay, and those of a
  Cross's fee path as well: for a NegRisk because sorting permutes the prices and
  the account of a set of equal venues does not see the order
  (`SortedPaysTheSame`), for a fee path because it repeats the known price and
  one that was compared (`PathPays`), for a revalidated profit because the
  threshold of what must be left is positive (`ThresholdIsPositive`).  `LegsInv`
  says the same of the limits, that what filled did so within them, and that no
  leg costs more than the size (`QuantityFits`, `TotalOfTwo`).
- Assumed: rates of 0 to 100 percent, and that no Triangular has a leg on Betfair.
  Its two venues may be one; on Polymarket alone the one charge of gas makes the
  claim a floor no more, which both properties except (`GasOnce`).

The proofs changed three things in `Arbitrage`, without effect on what it
allows: the cases of `Threshold` and of `Quantities` are now disjoint (they
overlapped, and relied on TLC taking the first), and the sorting of a NegRisk is
defined by what it returns (`HighToLow`).

**Sums** (`Sums`).  Nets, daily totals and the price of a set are folds.
`SumEquation`, `SumInsert`, `SumRemove`, `SumSame`, `SumType` and `SumMonotonic`
are proved from the fold's definition, by well-founded induction over the
subsets of a finite set: the property is given as the set of the subsets that
have it, since the library's induction rules take an operator.

**Only model-checked.**  Liveness (`EveryIntentDecided`, `EveryFillAnswered`,
`HaltDrains`, `FillsAnswered`) is beyond the provers.

**Mutants.**  Each property of a passing run is paired with a plausible bug in a
definition that models code (`Mutant...` operators, next to the original): a
lease granted while held, a halt that pulls nothing, a window that reads fills
again, a limit compared without the amount, a fee model never read.  TLC finds
each property violated by its mutant.

## 9. What the repository says and the code does not do

`money_unequal` and `gate_empty` are kept as runs and findings.  The others are stated as
properties at the end of their modules, and TLC finds each violated when it is
put in the place of the properties of the configuration named here.

| Property | Configuration | What the repository says | What the code does |
|---|---|---|---|
| `ArbitrageNeverLoses` | `MCMoneyUnequal.cfg` | `docs/strategy-framework-v2.md:27`: "Mathematically guaranteed profit" | `executor.py:3737` buys equal dollars of each leg, so unequal numbers of contracts: $10 at 8c and 61c are 125 YES and 16 NO |
| `TradeFitsBalance` | `MCGateEmpty.cfg` | `executor.py:2049-2050`: "so the total trade fits within the balance" | `executor.py:2077-2078` makes 0.0 of an empty balance, which `risk_manager.py:249` takes for no limit (`tests/test_risk_manager.py:354-357` asserts it under the name `test_zero_balance_returns_zero`) |
| `OutcomeWriteOnce` | `MCBrokerSlow.cfg` | `broker/queue.py:253`: "Terminal outcomes are write-once" | `append_event` reads at `:247` and inserts at `:261`, with no lock another process knows: a worker slower than its lease and the one that took over both find the intent open, and both insert |
| `NoLateInvocation` | `MCBrokerSlow.cfg` | `docs/plans/10-policy-broker-operations.md:21,28,42`: lease and executor timeout of 60 s each | the documented times let a worker overrun: its executor may be called after the intent was recorded in doubt |
| `NoIdNeverPlaced` | `MCTradeThreads.cfg` | `recovery.py:70`: no order id means never placed | a crash or a failed write between the venue's answer and the commit leaves a live order on such a row |
| `SkippedIsDuplicate` | `MCTradeThreads.cfg` | `recovery.py:77-78`: the trade is a duplicate | a leg with an unconfirmed cancel is dropped because its sibling filled |
| `HedgedWasSold` | `MCTradeThreads.cfg` | `hedger.py:193`: true if the sell succeeded | an order the venue accepts and kills counts as sold |
| `FilledHoldsAll` | `MCTradeThreads.cfg` | `recovery.py:109`: "confirmed filled" | a word of execution is taken for the whole order (section 3) |
| `FailedHoldsNothing` | `MCTradeThreads.cfg` | `executor.py:4160`: nothing if not filled | contracts of a part fill are held on a failed row that nothing reads |
| `HedgesReduce` | `MCPilot.cfg`, `MaxOrders` and `MaxFills` 3 | `hedger.py:311`: a hedge is clamped so that it can never exceed the position | `hedge_inventory` leaves a pending row for each of its attempts and the main loop sells both, without a clamp (`continuous.py:3118`): the position flips |
| `InDoubtMoveFreezes` | `MCBrokerBounded.cfg` | `broker/broker.py:276`: an in-doubt move freezes capital | a move found claimed by a dead worker is recorded in doubt by `worker.py:88-102` without the freeze |

The pilot's hedges all fail before they reach the venue: `_hedge_kalshi`
(`hedger.py:354-357`) passes `reducing=True` to `_PilotKalshiProxy.place_order`
(`mm_pilot.py:362-371`), which has no such parameter, and the `TypeError` counts
as a failed attempt (`hedger.py:223`).  So every hedge halts a market or the
pilot (`AfterFill`), and leaves the rows of the table above.

## 10. Not modelled, and why

- **Strategies.** Some thirty scanners beside the thirteen kinds of `Arbitrage`
  are forecasts and heuristics over floats with no promise to check; the older
  market maker's skew, position sizing, the capital optimizer and the backtests
  are numeric in the same way.
- **Inventory balancer.** A heuristic over dollar deltas, and the only part of it
  with state is brief: `execute_rebalancing_proposals` logs a filled trade and
  creates no position, so that the next `sync_from_db` overwrites what it knew
  and, after a cooldown of 60 s, it may buy again; dollars are taken for
  contracts; `cli.py:1517` has an instance of its own.
- **Circuit breakers, feeds, venue clients.** Counters under one lock, sockets,
  HTTP and signatures.  Their effect, a call that fails, an answer that is lost
  or a price that is stale, is in the models that call them.
- **Settlement and P&L.** Realised P&L is reporting and books no fees
  (`continuous.py:581-677`).
- **Dashboard, alerts, reports, research, CLI, configuration.** Input and output;
  the pause and the transfer request are in `ExecutionGate` and `Treasury`.
- In the modelled parts: wording, logging, the syntax of payloads, and
  quantities and prices beyond what the properties tell apart.

These parts are most of the 71 thousand lines, which is why the map covers about
a tenth of them: what keeps state that another actor can disturb is mapped.

## 11. Plan

1. A composition of `ExecutionGate` and `TradeExecution`: what a failed leg's
   untracked contracts do to the caps and to the cached balance of the next
   opportunity.
2. An abstract life of a leg, as `IntentLifecycle` is for an intent, with
   `TradeExecution` shown to implement it.
3. The calculators of `Fees` that no kind of `Arbitrage` uses (Gemini, IBKR,
   Smarkets), as floors of the same account.
4. The older market maker's cancel-replace, as an instance of the pilot's
   registry without reconciliation; a second market in `MMPilot`, for the
   toxicity halt across markets.
