# MasterScanner in TLA+

MasterScanner ("Trinity") is a Streamlit application that scans Indian equities
and their options, scores them, and keeps plans, backtests and portfolios in a
Postgres database (Neon). Next to the pages run endless scan loops, in a
standalone worker (`scheduler/scan_worker.py`), in the web app itself
(`utils/inprocess_scheduler.py`), or by accident in both. This directory models
what those processes do to the state they share.

Most of the repository is floating-point scoring without state of its own. A
mistake is hard to see in a test in four other places, and those are modelled:

* the coordination: one database row with the lock, the mode and the overrides;
  snapshot tables that several producers write and every page reads through
  caches; loops that are paused, killed, restarted and doubled;
* the life of a plan: option plans and setup plans that are minted, entered,
  advanced and closed by a worker, a page and a sweep, over failed reads and writes;
* the services below them: the simulation of trades and the saves of a backtest,
  the price history, the option chains, the outcomes and the portfolio's dates;
* the funnel that turns the scores of a symbol into advice, which exists twice, in the
  scanner and in the backtest that is to validate it.

## The system

| Part | Code | State | Operations |
|---|---|---|---|
| Scheduler ownership lock | `utils/system_state.py` 700-985, 1005-1100; `inprocess_scheduler.py`; `scan_worker.main` | two columns of the `system_state` row; per process an owner id, a heartbeat thread, `lost_ownership` | try_acquire, blocking acquire, renew, release, loop cycles |
| Execution mode | `utils/system_state.py` | mode, count, heartbeat columns; per process a 540 s copy of the row | `backtest_pause`, heartbeat, `should_scheduler_run` with its watchdog |
| Market-hours gate | `utils/system_state.py` 411-585, `time_utils.py` | one column, the 540 s copy of the row, a 6 h cache | toggle, test |
| Snapshot store | `utils/scan_state.py`, `utils/snapshot_cache.py` | a table per section, `state_meta`, version-keyed caches | save (upsert, prune, publish), poll, load |
| Live scanner | `scan_worker._run_live_scanner_loop`, `pages/scanner.py` Run Scan | `live_scanner_state`, the dict `merged`, the manual-override columns | batch, reseed, save, prune, Stage 1 trigger, manual scan |
| Other loops | `scan_worker._run_loop`, `_run_retention_loop` | none of their own | market intelligence 180 s, DORE live state 60 s, retention 1 h |
| DORE Stage 1 | `dore_options_scan.py`, `dore_options_engine.py` | the snapshot `dore_technical_plans` | eligibility, one plan per symbol, carry-forward, save |
| DORE Stage 2 | `dore_live_state.py`, `dore_options_persistence.py`, the Active Plans page | `dore_options_plans`, a cache of the open plans | mint, enter, retire, exit, sweep, Remove from the page |
| Setup plans | `setup_persistence.py`, `scanner_engine.py` | `setup_plans` | mint, advance, age, close by hand |
| Outcomes, entry snapshots | `outcome_tracking.py`, `entry_snapshot.py` | running row, checkpoint rows, final outcome | update, finalise |
| Backtest | `backtest_engine.py`, `trade_levels.py`, `pages/backtest.py` | `backtest_results`, the session's partial result | simulate a symbol, checkpoint, save, interrupt |
| Price history | `history_store.py` | a file per provider and ticker, a RAM copy of the day, a flush queue | fetch a tail, refresh, patch, flush |
| Option chains | `upstox_client.py`, `option_chain_diagnostics.py` | token bucket, cache of chains | fetch with retries |
| Portfolio rotation | `pages/portfolio.py`, `rotate_candidates.py`, `supabase_client.py` | `rotate_flags`, a copy per session | hand out swaps, date the calls |
| IV history | `iv_history_store.py`, `supabase_client.py` | the day's readings in RAM, a flush thread, `dore_iv_history` | rank, record, flush, prune |
| OI and skew trackers, events, settings | `oi_snapshot_store.py`, `iv_intraday_store.py`, `event_cache.py` | trackers and caches in RAM | record, flush |
| Recommendation | `scanner_engine.score_stock`, `promotion_engine.py`, `smc_engine.py`, `backtest_engine.generate_signals_historical` | none | detect, classify, promote, gate, admit |
| Scoring engines | `scoring_core.py`, `conviction_score_v1.py`, ... | none | pure numeric functions |
| Pages, news, scripts, retired DORE 2.0 | `pages/`, `news_*.py`, `scripts/`, `dore_engine.py`, `fo_scan.py` | none shared beyond the above | rendering, remote calls |

`PROJECT.json` lists every part with its status and reason, and the hazards each
part is exposed to, at their lines.

How the parts meet:

* A process may run loops only after it acquired the lock. The heartbeat thread
  renews it; when a renewal is refused it sets `lost_ownership`, which every loop
  tests at the boundary of a cycle (the live scanner at each batch).
* At the same boundary each loop asks `should_scheduler_run()`: the gate, then
  the mode. A backtest sets the mode, and a loop that finds the mode's heartbeat
  stale resets it.
* Loops and pages save snapshots of sections; pages and other loops read them
  through caches keyed by the section's version.
* A manual scan of the page writes the section the live scanner is writing, and
  then asks the loop through an override, 90 s long, to reread the table.
* The live scanner calls Stage 1 of DORE inline after the last batch with an
  F&O-eligible symbol; Stage 1 fetches option chains and saves technical rows;
  Stage 2 turns them once a minute into rows of `dore_options_plans`, and Stage 1
  reads these to carry the rows of open plans on.
* The worker's cycle and Run Scan each mint and advance setup plans; both they and
  Stage 2 record final outcomes.
* Every scan patches the live quotes into the day's copy of the price history.

What makes each part correct:

* Lock: one owner at a time, a live owner is not robbed, an orphaned claim is
  taken over, nobody clears or renews another's claim, and a process without the
  row stops scanning.
* Mode: mode and count agree; loops are paused while a backtest runs and are not
  paused for good; a maintenance set by hand is respected; a pause reaches every
  process in bounded time. Gate: a toggle reaches every loop in bounded time.
* Store: a reader never gets less than the version it asked for; at rest the
  cache is the table.
* Live scanner: a cycle does not undo its own saves; old records do not replace
  manual ones; every symbol is in the table again and again; Stage 1 sees the
  whole F&O prefix, in every cycle.
* DORE: a recommended contract is within reach, tradable and has its exits in
  order; the technical row of an open plan is not lost; at most ten plans are
  active; a trade held overnight keeps its entry, and closes once.
* Setup plans: levels are frozen, one bar takes a plan as far as it reaches, an
  ended plan has its outcome.
* Services: trades do not overlap and close at the first reason; a trade is saved
  once; no half-formed bar stays in a history; the endpoint's budget is kept and a
  chain's age is bounded; no checkpoint is lost; a rotation's date is its own.

## Modules

### SchedulerLease, SchedulerLock

`SchedulerLease` is the abstract specification: one lease with a holder and an
expiry. `SchedulerLock` is the code: the row (`owner`, `heartbeatAge`), and per
owner id the main or launcher thread (`phase`), the heartbeat thread (`hb`),
`lost`, and the scan loops taken together (`loop`).

* An owner id is drawn at every start of a process, so an element of `Owners` is
  one incarnation; a restart is another element leaving "off".
* `TryAcquire`, `TryAcquireRefused`, `TryAcquireFailsOpen` are the three outcomes
  of one round of `acquire_scheduler_lock_blocking` (the WHERE clause of the SQL
  function is `Claimable`). `HbWake` is the wake-up with the gate test, and
  `HbRenew`, `HbRenewFailsOpen`, `HbRejected` the outcomes of the renewal, a
  separate step: anything may happen in between.
* `LoopBegin`, `LoopSave`, `LoopReturn` are a cycle boundary, the save at the end
  of a computation, and the return on `lost_ownership`. `Leave`, `Release`,
  `Exit` are the `finally` block of `scan_worker.main`; in the web app nothing
  calls them, so only `Standalone` ids can take `Leave`. `Crash` runs none of them.
* Time is counted in renewal intervals. The timestamp is kept as its age, cut off
  where the code stops telling ages apart (older than `Stale`). `MaxDelay` bounds
  how late a live owner renews; above `Stale` it lets a process be paused for
  longer than the limit (garbage collection, a debugger, swap).
* `calm` records whether so far the gate was open, the database up and no live
  owner's heartbeat stale. No action depends on it; it makes the condition of
  mutual exclusion a state predicate that an inductive invariant can use.

### ExecutionMode

The row (`mode`, `count`, age of `heartbeat_at`), one cached copy per process,
`backtest_pause()` statement by statement (`Acquire` ... `ReleaseInvalidate`), its
heartbeat thread, and `should_scheduler_run()` as `CheckRuns`, `CheckFailsOpen`,
`CheckPauses`, `CheckAbandoned`, followed by `Reset` and `ResetInvalidate`. The two
SQL functions are `Locked` and `Unlocked`; `SqlFunction` applies one once, or
twice when the retry of `db._run` repeats a statement whose acknowledgement was
lost. The cached copy ages like the row but misses its heartbeats, because
`_heartbeat()` does not invalidate any cache. A read fills the cache in one step:
`_STATE_CACHE_LOCK` is held across the query. The gate is open throughout (outside
it no loop gets as far as the mode). `holds` and `pausedFor` record history for
the properties.

### SnapshotStore

The contents of a section's table are a revision number; a save is three
transactions (`Upsert`, `Prune`, `Publish`) with other saves and reads between any
two. A read is `Poll...`, `LoadMeta`, `ReadRows`, `Store`, as in
`load_snapshot_payload_cached` and `_load_state_payload`. A version is the
timestamp of its transaction; its field `of`, which the program does not have,
says which revision it was written over. Failures: a failed statement, a producer
killed in the middle, a failed cycle (status "failed"), a failed read, and a
section that has rows but no `state_meta` row yet. `Evict` covers the bounded size
and the age limit of both caches.

### LiveScanner

Symbols `1..N` in scan order, the F&O-eligible ones first; a record is reduced to
where it came from ("older", "cycle", "manual"), and `merged` to its keys, which
is what the prune reads. A batch is `Fetch`, `SeeOverride` or `MissOverride`,
`Reseed`, `ClearOverride`, `Upsert`, `Prune`, then `StageOne` or `SkipStageOne`. A
manual scan is its own process: upsert, prune by its own keys, override.
`MissOverride` with an override set is a cached copy of the row in another
process; with `SameProcess` it is impossible, because `set_manual_override`
invalidates the shared cache. The version and status of these saves belong to
`SnapshotStore`, pausing to `ExecutionMode`.

### DorePlans, TradeLedger

One Stage 2 cycle is `Load` (or `LoadFails`, which answers that there are no plans),
a `Row...` action per technical row in any order, `Sweep`, and `Save`, `SaveFails` or
`Crash`. The cycle works on its own objects: `old` are those loaded, `new` those
minted, `slot` says which of the two a contract has in `open_now`, and `batch` which of
them the one upsert at the end will write. So a plan can be retired in memory while
its row in the table stays, and be named twice. The rows of the Stage 1 snapshot come
first (`fresh`), then the open plans the snapshot does not name (`carried`); `skipped`
are those whose live refresh failed, which only the sweep sees. The page is
`RemoveInactive` followed by `RemoveSaves` or `RemoveFails`, in another process.

A premium is one of the levels at which something happens (stop, entry zone, T1, T2,
no quote), a day is a session, and the statuses before the entry are one, since no
decision tells them apart.

`TradeLedger` is the abstract specification: the trade of each plan, dated by its
entry. A trade held overnight keeps its day and price until it is closed, once. Within
the first day the ledger promises nothing, because the code does not: a mint repeats
the identity (`symbol`, contract, date) of a plan closed the same day.

### SetupPlans, PlanBook

The plans of one symbol, from several sources. Two producers, the worker's cycle and Run
Scan, run stages one after another: `MainStage` or `SideStage` loads the open plans,
advances them by price and age (`Advance`, which repeats `Step` up to three times) and
perhaps mints; `Upsert`, `UpsertFails` or `Crash` ends it, and `NextStage` goes on.
Between the load and the upsert the other producer, and the page's `CloseManually`,
may do the same. A final outcome is recorded at once, the row is written later. A
bar is which of stop, entry, T1 and T2 it touches.

`PlanBook` is the abstract specification, what is left of a plan for a reader of the table
and the outcomes: its levels, whether it has ended, whether it has an outcome. `Settle` gives
an open plan its outcome; `Save` writes one plan whose day has come, keeps the levels of an
earlier day, and ends a plan only after its outcome. The book does not promise what the code
does not: that a plan with an outcome ends (see `setup_ended`), or that an ended one stays
ended under a writer that has not seen it. `BookSpec` is the refinement.

### DoreStageOne, DorePlanEngine

`DoreStageOne` is the cycle: `StartStageOne` (the pool after the eligibility filter and the
index rows), `ReadOpen`, `Process` (each symbol is a plan, a rejection or a failure),
`Carry` (rows of open plans that are missing are taken from the previous snapshot and
tagged), `SaveSnapshot`, `Fails`. `StageTwoMints` and `StageTwoCloses` run in between.

`DorePlanEngine` is one call of `compute_dore_trade_plan`, by the function's own stages:
`Gates`, `ChooseDirection`, `CrushGate`, `SelectStrikes`, `Anchor`, `StructuralTarget` or
`StructuralReadFails`, `StructureGate`, `Candidates`, `Build`. Numbers are integers: distances
per mille of the spot, exits per cent of the premium, capture ratios in 2000ths, in which
the tiers' scales are whole. The scores and the detected structure are inputs; what
is computed from them (ceilings, rounding, bumping, anchoring, exits, caps) is not.

### IvHistory

The history behind the IV rank that `CrushGate` and `SelectStrikes` read. `Evaluate` is the
rank looked up and the reading recorded when a symbol's chain has come (a failed read ranks
nothing); `HandOver` the copy of the buffer at the end of a cycle, `FlushIv` the thread's
upsert with the date of the moment; `PruneIv` the retention, `RestartIv` the loss of the
RAM. A row keeps the reading, and beside it the day the reading was made on, which the
program does not have. The percentile, which decides nothing when there is a rank, is left out.

### BacktestTrades, BacktestRun

`BacktestTrades` is `simulate_trades` for one symbol, a step per signal, over bars chosen
in the initial state: the block by the last trade's exit, the gap checks at the entry,
the walk to the first level crossed (`evaluate_bar_crossing`), the CCI exit, the timeout.
`BacktestRun` is the run around it: futures complete in any order (`Complete`),
`Checkpoint` and `FinalCheckpoint` take the delta and hand it to the page's callback, which
saves it, in part or twice when a statement fails or its acknowledgement is lost;
`Finish` is the page's own save; `FetchFails`, `Interrupt` and `Kill` are the ways a run
ends early. A symbol stands for its trades.

### MarketGate

The flag of the row, the two caches of each process (`rowCache`, filled under its lock;
`gateCache`, filled outside it), loops that ask the second and pages that ask the first.
The Settings toggle is three steps: the statement, then one cache of its process, then the
other. `EditOutside` is an edit no cache is told of, `QueryFails` a read answered by the
default.

### HistoryStore

A history says of each day whether its bar is missing, partial (taken while the market
was open) or final. `LoadPrimary` and `LoadFallback` are the reads of a scan (files, tail
fetch, full refresh), `PatchAndUpdate` the live quotes patched into its frames, the
merge into memory and the flush tasks, of which a full queue takes none; `Flush` is a
worker. A day has three phases; restarts lose memory and queue, and the disk where it
is ephemeral. `gaps` records the days whose own fetch failed.

### OptionChain

`_get_option_chain_with_retry` in several threads: `Hit` or `Miss`, `TakeToken` or
`WaitForToken`, `Send`, `Read` (the broker looks, some time before the answer arrives),
then `Receive`, `RateLimited`, `Unauthorised` or `RequestFails`. Tokens are counted in
shares, so that a refill is whole. Sleeps are lower bounds. `Later` moves the clock, and
no request outlives `Patience`, the timeout of the HTTP call.

### OutcomeTracking

One plan key and the scans that track it: `Begin`, `Load`, `Write`, `Insert`, `Mark` are the
statements of `update_forward_outcome`, each of which may fail by itself; `Close` is the
final row, `Remint` a plan minted again under the key on the same day.

### PortfolioRotation

`Swaps` are the ways `_apply_rotation` may hand out the offers of a view: the holdings have their
turns by urgency and score (`Turns`, several where the sort does not tell two apart), and each
gets the best offer left that does not fall, within the limit of live checks and above the least
gain (`Rounds`).
`Render` is a render up to the read of the dates in `rotate_flags`, `Upsert` the rest of it;
two sessions with different views of the scan do it at once, in either order of equals.
`RenderAlone` is the page without its
database. The date turns in India half a day before it turns in UTC, which is how the
code comes to use both.

### Recommendation

What becomes of one symbol on one bar, step by step. `WatchBar` is what the detectors see of a
bar: a cross of %K over %D, a touch of the VWAP, a lower low that is known `lag` bars after
it was printed and reclaimed within `Reclaim` bars or not. `ComputeBar` writes their answers
into the BarResult; `TimeSignals` is the test of their freshness and the Promo Score;
`Classify` the base tier and the natural class of the three scores, which are inputs;
`Promote` the two calls of `evaluate_promotion`; `Recommend` the opt-in gate and the maximum;
`CapByStructure` the SMC gate. `Replay` is the admission of the same bar by
`generate_signals_historical`: the gates of extension and staleness are its input `fit`, tiers,
reward, bypass and structure are computed.

### MC modules

`MC<Module>` gives the constants their instances. `MCServices` holds eight modules that do
not touch one another, and `MCDore` the four of DORE, which meet through their tables only: a variable `part` chosen in the initial
state says which of them runs while the others stay as they began. Their states are
those of the parts one by one, with two runs instead of twelve. `MCDorePlans` alone is used
by `dore_retired`, and `iv_rank` checks `IvHistory` without an MC module.

Operators whose comment begins with "Fault:" or "Mutant:" and that no specification
uses are plausible bugs of the definition that follows them; `PROJECT.json` pairs each
with the property that detects it.

## Runs

| Run | What it asks | Result |
|---|---|---|
| `lock_safety` | `ExclusiveScanning`, `LeaseSpec`, `ClaimKept`; three owner ids, gate, one outage, pauses beyond the limit | holds, 386,956 states |
| `lock_liveness` | `DoubleScanEnds`, `OrphanTakenOver`; one process of each kind | holds, 9,198 states |
| `mode_safety` | `ModeMatchesCount`, `CountCovered`, `PauseReachesLoops`; two processes, two backtests, a crash, a retry, an operator | holds, 5.2 million states |
| `mode_liveness` | `PausedWhileRunning`, `ScansResume`; two backtests and a loop in one process | holds, 849,114 states |
| `store_saves` | `RegularRead`, `QuietCoherence`; two producers, two readers | holds, 4.8 million states |
| `live_cycles` | `CycleRowsKept`, `OnlyFreshOverManual`, `StageOneReady`, `SymbolsReturn`, `StageOneRecurs` | holds, 250,592 states |
| `dore` | `CapHeld`, `OneOpenPerContract`, `ClosedTradeHasOutcome`, `LedgerSpec` of the plans (two contracts of a pair, two days, failed reads and writes, crashes, the page); `RecommendedWithinReach`, `ExitsOrdered` of one computation; `StaleRowsTagged`, `OpenRowsKept` of the Stage 1 cycle | holds, 1.8 million states |
| `dore_retired` | `CycleIsSaved`; no faults at all | violated |
| `iv_rank` | `RankFromObservations`; no faults at all | violated |
| `setup_plans` | `EndedHasOutcome`, `BarTakenWhole`, `LevelsFrozen`; worker, Run Scan and page over two days | holds, 3.1 million states |
| `setup_ended` | `OutcomeMeansEnded`; the worker alone, no faults | violated |
| `services` | `TradesDisjoint`, `ClosedAtFirstReason`, `SavedOnce`, `GateSettles`, `InnerBarsFinal`, `RateBudget`, `ChainAgeBound`, `CheckpointsComplete`, `SinceWitnessed`, `SwapsStable`, `PromotionReach`, `ReplayFollowsAdvice` | holds, 2.0 million states |

Most modules have a type invariant. Each is proved (see Proofs), and no run repeats it.
`BookSpec` too was checked by hand only: on the instance of `setup_plans`, and on one where the
page runs LS too and FP, switched off, has a plan from before (990,666 states). With it
`setup_plans` would take more than five minutes, and `LevelsFrozen`, which the run does check,
is its most telling consequence.

### What the violations say

* `dore_retired`: retiring the weakest plan appends it to `updated_plans`
  (`dore_options_persistence.py:1592`) though its own row may have put it there earlier
  in the cycle. The upsert then names a `plan_id` twice, Postgres refuses the statement,
  and everything that cycle decided is lost, without a look at the answer.
* `iv_rank`: the buffer of the day's IV readings is never cleared, and a flush writes all of it
  under the date of the moment (`iv_history_store.py:165`). A symbol that was read on one day
  has a row of that reading for every later day on which the process flushes, and ends
  up with a rank "from too little data" that its docstring excludes. The sibling
  `iv_intraday_store.py` does compare dates. It takes a process that lives past midnight, as
  the worker does.
* `setup_ended`: a plan that ends in the scan whose row mints its successor is
  replaced by it before it is queued (`setup_persistence.py:1255`). Its outcome is
  recorded and its closed row never written; the next scan loads it as open, and it
  hides the successor.

### Known deviations

Found while modelling, and not given a run of their own; the models contain the
behaviour unless marked (not modelled).

Scheduler and snapshots:

* Outside market hours the owner does not renew (`system_state.py:919`), so a waiting
  process takes the lock 120 s after the close although comments call a second instance
  safe. At the open both may compute a cycle. `DoubleScanEnds` shows that this ends.
* A web app that fails open at startup never wrote the row. Its first renewal after
  the outage is refused, its loops return, and nothing acquires the lock again.
* With two loops on one cached copy of the row, the second may judge a heartbeat older
  than 300 s that is renewed in the table, and reset the lock of a running backtest.
* A save whose last statement fails leaves new rows under the old version. A failed
  read is cached as None, and a failed cycle hides the last good rows
  (`scan_state.py:515`) until the next save.
* `merged` is empty after a restart, so the rows of a batch that fails in the first
  cycle are pruned though the log says that they are kept. `SymbolsReturn` shows that
  they come back.
* Another process keeps its six-hour copy of the gate, though a docstring (541) says
  that a toggle is seen within one cycle. A failed read's default is kept in that
  copy for six hours too, though `get_system_state` (326) takes care not to cache it.

Option plans:

* A plan removed by the page is written open again by a worker that holds it.
* Two tracked plans of one symbol and direction can both be entered: only minting
  looks for the other.
* A plan minted again on the day it was closed overwrites the closed row, and after
  a failed read of the open plans a mint overwrites an entered one.
* The sweep and the page record outcomes for plans that were never entered.
* The exit on a broken EMA thesis needs fields that carried rows do not have; a plan
  of source PB is never activated (~1568).
* A bumped Balanced or capped Aggressive strike may be nearer to the spot than the
  comment at ~2640 says; an anchored Conservative keeps the odds computed for
  its old strike; an exception in the structural read after an anchor ends
  in an AttributeError (4310), and the plan is lost.
* A row carried twice is dated by the previous snapshot (878), not by its own computation.
  A plan minted after the open plans were read loses its row if its symbol is rejected.
* Rows and quotes are paired by position although a blocked candidate is dropped from
  the rows (`dore_live_state.py:467`; not modelled).

Setup plans:

* A manual close is undone by the stale write of a cycle under way.
* The corroboration branch at 1246-1252 cannot be reached; a row with an empty
  `setup_id` is upserted for a symbol without a plan (not modelled).
* Source FP mints in manual scans only, PB and MOM are switched off.

Backtest:

* A bar that opens beyond the stop fills at the stop, where it never traded.
* A run that fails before its first checkpoint shows the trades of the previous run as
  its own partial result.
* The page says "saved" even when the save of a delta failed, and a batch whose
  acknowledgement was lost is stored twice.
* The save reads `pnl_r` and `result`, which the trades do not have, and statistics over
  reloaded rows raise KeyError on `pnl_pct` (not modelled).

Price history and option chains:

* `run_scanner` passes all frames, those fetched from Yahoo too, into the Upstox memory
  (~3380), contrary to the comment above it.
* Upstox quotes are stamped with today's date on days without trading: a phantom bar
  in 24/7 mode (not modelled). A scan that runs across midnight leaves a partial bar
  behind; `NextDay` excludes it.
* After a failed tail fetch a patched quote stays as a close until the next full refresh:
  these days are `gaps`.
* The repeat of a request that was answered 429 takes no token, as a comment decides;
  `RateBudget` leaves such repeats out.
* A slower answer, read earlier, overwrites a newer chain and is dated afresh. An empty
  chain is cached for its full age (not modelled).

Outcomes and portfolio:

* The final row is written before the closing cycle's update, so the lifetime excursions
  miss the exit price; a failed read, or two scans, lose excursions (not modelled).
* A plan minted again under the same key inherits what its predecessor fired.
* A failed read of the dates stamps a call anew, though the docstring says that it
  is stamped once. Rows of symbols no longer flagged stay in the table
  (`clear_rotate_flags` has no caller), so a later call for the same target shows the
  old date, contrary to the comment at `pages/portfolio.py:1418`.

Recommendation:

* A timing signal is almost never fresh. The ages are read as `int(getattr(r, ...) or -1)`
  (`promotion_engine.py:322`, 330, 334), which turns an age of 0 into -1, and a cross is
  reported on its own bar only, with age 0: "Stoch Up" never counts. `scoring_core.py:2112`
  computes `i - touch_bar`, but `touch_bar` is bars ago already (`stoch_convergence.py:332`):
  "VWAP Reversal" never counts. A low is known `pvt_lb` = 20 bars late and must be reclaimed
  within 10, so its reclaim is at least 10 bars old where 3 are allowed: "LL Confirmed" never
  counts either. What is left is volume, 25 points of the 50 that a promotion needs.
  So at the default settings neither the promotion nor the universe-wide bypass happens, and
  Elite by timing happens with no setting, though the comments at 103-104 promise Execute
  from two signals and Elite from three. `PromotionReach` says so; a test
  (`tests/test_cv4_audit_fixes.py`, ~328) notes that its universe "never fires a real bypass".
* With `ENABLE_STRUCTURAL_GATE` the scanner lowers a tier that the backtest admits, and the
  scanner asks no reward of 2.0 where the backtest does: `ReplayFollowsAdvice` names both
  differences and shows that there is no other under the same settings.

### Bounds

* Lock: `Stale = 2` and `MaxDelay = 3` keep the order of 20 s renewal, 120 s limit
  and pauses longer than it; three ids let a claim pass on twice, so that an owner
  meets the claim of a successor's successor. One outage is enough to fail open,
  come back and be refused. Liveness needs two: an owner and its taker.
* Mode: `Stale`, `Ttl`, `Poll` keep the order 30 s renewal < 300 s stale < 540 s
  cached < 600 s paused sleep, which is what decides who judges whose heartbeat.
  Two backtests overlap; more only count higher. One fault of each kind.
* Store: two producers and two saves give each interleaving of two saves; two
  readers give a fill by one thread under a version another polled.
* Live scanner: three symbols in batches of two give a full and a partial batch,
  and F&O prefixes that end in the first and at the end of the last. A manual list
  with a symbol of each batch reaches every case of the prune. One restart gives
  an empty `merged` over a full table.
* Option plans: two contracts of one pair, one of which expires on the first day, with
  a cap of one: a second plan has to retire the first. Two confidence scores
  on either side of the floor and one margin apart, two days for age and overnight, one
  failed read. `dore_retired` takes contracts of two pairs and no fault.
* Setup plans: the worker runs source LS and the page FP, over two days with one fault; LS
  has two sets of levels, so that a plan minted over another is seen.
* Stage 1: two stocks, one of them eligible, and an index; three cycles carry a row twice.
  The engine has strikes 1000 apart around 20300 (between two strikes, so that
  rounding goes both ways), three moves on both sides of the ceilings, four boards
  (all strikes, few, few tradable, none) and blocks before, behind and across the spot.
* IV history: two symbols, two levels, a window and a retention of two days and two rows for a
  rank, over four days, which keeps the order of 20 rows, 252 days and 400.
* Trades: every history of four bars of five shapes (to a target, to a stop, over both,
  gaps beyond either), hold of two days. With five bars it holds too.
* Backtest run: three symbols with a checkpoint every two, two runs, two faults.
* Gate: two processes with a loop each, row copy of one tick, gate copy of two.
  With two toggles it holds too.
* History: two tickers, three days, a refresh every two days, a queue of one task, one
  mishap. For one ticker it also holds with both feeds over four days.
* Chains: two threads, two contracts, a bucket of one token refilled every second tick,
  a cache of one entry that lives two ticks, requests of up to one tick, two retries. It
  holds over five ticks too.
* Outcome: two scans, two intervals, two errors, one second mint. Portfolio: two
  holdings, three offers, six views (in one the holdings are equals), a time at which the dates
  of UTC and India differ and one at which they agree, one lost statement.
* Recommendation: four bars after bar 210, enough for a touch to leave the window of three bars
  and a cross that of four; lags of 5 and of the default 20; a reclaim after 2 and after 10 bars;
  scores on each side of every floor that separates two tiers, rewards on each side of 1.5
  and 2.0; four settings, with and without each gate.

Every counter that the code leaves unbounded (outages, crashes, saves, faults,
restarts, retries, days) has a constant named `Max...` or `Last...` in the guard of its
action. `CHECK_DEADLOCK FALSE` appears in `dore`, `iv_rank` and `services` only, whose parts
end: a plan is computed, a run is over, the last day or tick has passed. `SYMMETRY` is used
where the run has no liveness property and the permuted values appear alike in every
constant.

### Fairness

* Time passes, the market opens and closes, an outage ends (weak fairness).
* Each thread is an endless loop with bounded sleeps, so a step that stays enabled
  is taken. The acquire poll (30 s), the heartbeat's wake-up (20 s) and the cycle
  boundary meet conditions that come and go, an outage or a trading session, but
  each session is orders of magnitude longer than those sleeps: strong fairness.
* Nothing makes a process start, crash or leave, except that one which lost the
  lock leaves. Nothing makes a backtest start; one that started ends.
* In `LiveScanner` the data provider answers for a whole batch, and the database
  takes its upsert, again and again in each batch (strong fairness): without it no
  symbol could ever be promised to return. The run makes no promise about a cycle
  in which they fail.
* The other modules state no fairness: their properties are about safety. Two of them
  bound time instead: no read of the gate takes more than a tick, and a request for
  a chain is answered or given up within `Patience`, as its HTTP timeout says.

## Proofs

The theorems hold for every value of the constants that satisfies the
`...Assumption` of its module (sets of processes, backtests, symbols of any size,
any limits, any number of faults). TLC evaluates the assumptions in every run, and
has checked each inductive invariant named below on the instance of its module. Two
theorems assume more, and say so in their statement: `PauseLasts` and `ExitsInOrder`.

What the assumptions say of the values that stand for "nothing": no plan is a plan, a
trade or an entry of the book, no swap is an offer, a dated call or a score, no row is a row, no price is a number. `Contracts`, `Holdings`, `Callers` and the
like are finite where something is counted or searched.

* `SchedulerLockProofs`. `TypeCorrect`. `Exclusion`: `ExclusiveScanning` is not
  inductive, since it says nothing of the row. `CalmInv` is: while `calm`, the
  database is up and every running process is named by a row that is not stale.
  A process becomes "running" only by claiming a row that is free or stale, and in
  the first case nobody runs, in the second the owner that let it go stale would
  have ended `calm`. `Implementation`: every step is a step of the lease or leaves
  it alone; it needs `NullTogether`, that owner and heartbeat are NULL together.
  `OwnClaims`: `ClaimKept` from the same invariant.
* `ExecutionModeProofs`. `TypeCorrect`. `ModeTracksCount` from `RowInv`, over the two
  SQL functions, the reset, the heartbeat and the operator, retried or not.
  `CountIsCovered` from `CoverInv`: the count grows only with a lock that is held or a
  statement that took effect twice, and cardinalities follow. `MaintenanceStays`, of an
  action property no run repeats: the SQL functions keep the mode, only the reset does not.
  `PauseArrives` from `CopyInv`: a copy that says LIVE is at least as old as the pause.
  `PauseLasts` assumes `OneReader`: one loop a process and no page that reads the row, and
  the order of the code's limits (renewal 30 s, stale 300 s, copy 540 s, paused sleep
  600 s). `PauseInv` says what holds while no fault is counted: the count is the number of
  backtests inside their lock, the heartbeat of a paused row is young, and a loop meets a
  copy of a paused row in its own sleep only, where the sleep that is left and the age of
  the copy make up the whole sleep. So what a loop finds abandoned it has just read, and
  what it has just read is not. With a page that reads the row the assumption fails, and
  so does the property: the loop may wake to a copy of the page's, older than 300 s.
* `SnapshotStoreProofs`. `TypeCorrect`. `Regularity`: every version in use, in
  `state_meta`, in a reader or a key of the cache, was written over a revision not
  newer than the table, and every cached payload is at least as new as its key.
  `Coherence` adds `Published`: without faults, a table that no save is about to
  publish was published, so the current version was written over its revision, and
  a payload kept under that version lies between the two.
* `LiveScannerProofs`. `TypeCorrect`. `CycleRows` from `KeysInv`: what a cycle
  saved is in `merged`, and `merged` is what the prune keeps. `FreshOverManual`:
  what is upserted is a part of the current batch. `PrefixComplete` rests on
  `BatchOrder`, the monotonicity of integer division, and says that the trigger
  index is right for every prefix and batch size.
* `RecommendationProofs`. `PromotionIsLowWithVolume` from `FunnelInv`, one conjunct per
  stage: a touch is at most 3 bars old, but dated from the first bar of the history, which
  is further back than 2; a cross has age 0 or none; a low is at least `lag` bars old and
  its reclaim at most `Reclaim` younger. So two signals of 25 points are left.
  `ReplayAdmitsTheAdvised` from `AgreementInv`: what `Promote` promotes off Actionable is
  what the backtest's inline bypass admits, a maximum of tiers calls for action exactly if
  one of them does, a cap leaves it exactly if the cap itself does.
* `DoreProofs`, Stage 1. `StaleRows` and `OpenRows` from `RowsInv`: the snapshot is of an
  earlier cycle than the one under way, each of the two is tagged with its own cycle, and
  after the carry-forward every symbol that was open when the cycle looked has its row.
* `DoreProofs`, Stage 2. `ClosedTrades`, `Cap`, `OneOpen` and `TradesAreLedgered` from
  `PlansInv`, which relates three copies of a plan: the row, the object a cycle loaded from
  it, and the object it minted. `TableSound`: a row is lawful (created, entered, today in
  order; a tracked plan has no entry, an active one has) and a closed trade has its
  outcome. `LoadedSound`: row and object differ only in what happened today (`Linked`), so a
  trade held overnight has one price and one day in both; and an open object whose row the
  page has closed meanwhile is past its expiry or age, so that the cycle will not write it
  back as open. `Unretired` is the book without the retirement that is pending, `Left` the
  rows still to come. For the cap, as long as no read failed (`misreads = 0`): every open row has
  been loaded, and no more objects are active than the cap allows; the batch that is
  saved writes all of them at once. `Cap` follows by an injection from the active rows into the
  active objects. The refinement maps a row that was entered to its trade
  (`TradeOf`); a save is a `Deal` of the ledger by `Linked`, everything else a stutter but the
  change of the day. `PlansTyped` adds to `PlansInv` the types of what it does not speak of
  (`RestTypes`): the rows still to come, the removal of the page, the objects while no cycle runs.
* `DoreProofs`, the engine. `WithinReach` from `EngineInv`: from the choice of strikes on, the strike
  of the tier to be recommended, Balanced or, once anchored, Conservative, is near; `RoundedNear` (a
  price moves by half an interval at most when rounded to a strike) and `SpreadNear`
  (the bump included) carry it. `ExitsInOrder` assumes `FineUnit`: prices are
  counted in a unit of which the nearest target, 9 per cent of the premium, is at least one;
  below that the exits round to the premium itself, in the code as in the model.
* `SetupProofs`. `SetupTypes`. `EndedPlans` and `FrozenLevels` from `SetupInv`: what a producer or
  the page is about to write is sound for the table at that moment, whoever wrote in between:
  its day has come, an end has its outcome already, and the levels of an earlier day are those
  of the row.
  `BarsTakenWhole` by cases over status, reach, stop and age: `Outcome` is a fixed point of `Step`
  that four hops reach. `PlansAreBooked`, the refinement of `PlanBook`: a stage and the page's close
  settle a plan that is open in the table at that moment; what an upsert or the page writes is
  sound (`RowSound`), hence a `Save`; a fault, a crash and the end of a stage change nothing the
  book shows. It needs, beyond the other theorems, that no plan in the table or about to be
  written is of a day to come (`Dated`): the book opens a plan on its day, and the producers load
  the oldest plans whatever their day.
* `ServicesProofs`, which first shows that a finite set of integers has a greatest and a least
  element, by a smallest set that has none (the provers cannot use the library's induction
  theorems, but its well-foundedness theorem they can).
  * `Checkpoints` from `OutcomeInv`: a scan may hold an outdated set of fired intervals, but whatever it
    holds has its row, and rows are never deleted.
  * `OnePosition` and `FirstReasonCloses` from `TradesInv`: while overlaps are not allowed the
    exit of every trade lies before the bar up to which the next entry is blocked; the
    exit found is the least of the bars with a reason. `TradesTyped` from the same.
  * `DatesWitnessed` from `RotationInv`: every date in the table, in a session's memory and in a
    render under way has its witness, and witnesses stay.
  * `SwapsAreStable` follows from how the swaps are defined, for any number of holdings and
    offers. `BestSwapIs`: a holding gets the best of its candidates, or that one gains too little.
    Who outranks another has the earlier turn (`OutranksGoesBefore`). If the checks or the falling
    offers leave it no candidate, the next one to get an offer would have had the same pool and the
    same checks, so nobody after it gets any (`NoneAfter`). Otherwise what the other got was still
    there, and within reach of the checks or behind a better candidate (`OfferedBefore`).
    `RendersAreOfViews` shows that every render saves the swaps of a view, and `SwapsAreMade` that
    there are some for every view, as a handing out that has reached some of the holdings
    can reach one more (`OneMore`): the theorem is not about nothing.
  * `AnswersYoung` from `AgeInv`: what a thread holds is no older than its own request, and what is
    cached no older than its entry says. `RequestsWithinBudget` from `BudgetInv`: for every
    moment `a`, the requests since `a`, the threads that hold a token and the tokens left are
    within what the bucket held at `a` and has gained (`Funded`). The budget itself
    speaks of requests only and is not inductive. `ChainTyped` from both and
    `ChainRest`: a token may be taken for one attempt past the last, but no request leaves for it,
    and a sweep leaves no more entries than the cache may have.
  * `TradesSavedOnce` from `RunInv`, where a trade is: not yet collected, in the delta, in a batch that
    was lost, or saved. `RunTyped` from it and `RunRest`: while futures complete, fewer have done
    so since the last checkpoint than bring about the next.
  * `ClosesFinal` from `HistoryInv`: a history kept anywhere has every bar before its last one
    final; those a scan works on, and a memory loaded today, have every bar before today. The
    second is what makes the patch of today's bar safe. `HistoryTyped` adds the shape of
    files, copies, scan and queue (`HistoryRest`).
  * `GateTypes`. `FlagSettles`: `SettleInv` says how long a value that differs from the flag
    can have been in the row cache, in a thread's hand or in the gate cache; each step adds
    to the one before, a tick at most.

Not proved, and checked by TLC only:

* the liveness properties (`DoubleScanEnds`, `OrphanTakenOver`, `ScansResume`,
  `SymbolsReturn`, `StageOneRecurs`): fairness and ENABLED are out of the prover's reach;
* the three violations, which are single behaviours.

## Not modelled, and why

* Recommendation: the filters of regime and buy type before the backtest's admission, its
  experimental modifier and its shadow mode (off by default), settings that move a
  threshold, the pre-breakout, CCI and Five Pillars strategies.
* Scoring, regime, Greeks, structure detection and the statistics are floating-point
  functions of price series without state; they appear as inputs of the models.
  News and language models are remote I/O; pages render. DORE 2.0 is retired.
* Execution and lock: the environment variable and the holiday calendar of the gate, the
  connection pool, retention deletes, scan priority windows (of their two jobs one is
  retired, so they only delay) and the health monitor, whose skipped cycle is a stutter.
* Snapshots: version timestamps are distinct and grow (the code uses milliseconds of the
  producer's clock). Live scanner: the universe of symbols is fixed within a process
  (one that leaves it stays in `merged`, `scan_worker.py:1090`, until the restart),
  and `merged` has keys and no values.
* Plans: entry snapshots, the display lifecycle (`lifecycle_engine`), the wording of reasons.
* Price history: the Supabase tier, which is switched off, the cut to 280 bars and with it
  the flush of a cut frame over a longer file, which the range check repairs.
* Upstox candles and quotes, which have a spacing of their own; returns and excursions
  of outcomes; position sizing and exit hysteresis, which no caller feeds a prior value.
* The open-interest tracker, whose loops are retired (read in passing:
  `_loaded_from_supabase` is set before the load ends); the intraday skew tracker, which feeds
  a log only; `event_cache`, which has no caller (a reload brings back withdrawn events).

## Plan

1. Done: every module is model-checked. Proved: every safety invariant, every action property
   and every type invariant, and the three refinements (`LeaseSpec`, `LedgerSpec`, `BookSpec`).
2. To come: the liveness properties stay with TLC until the provers handle ENABLED; what could
   be proved for them are the steps of a hand proof (which step helps, and that nothing undoes
   it). To be modelled next: the rows and quotes of a Stage 2 cycle (`dore_live_state.py:467`),
   a promise about failed cycles of the snapshot store once the code makes one, and the filters
   in front of the backtest's admission.
