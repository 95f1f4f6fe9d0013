---------------------------- MODULE ExecutionMode ----------------------------
(***************************************************************************)
(* The execution mode of utils/system_state.py: the reference-counted      *)
(* backtest lock of backtest_pause(), its heartbeat, the process-wide      *)
(* cache of the system_state row, and the watchdog in                      *)
(* should_scheduler_run() that resets an abandoned lock.                   *)
(*                                                                         *)
(* Backtests and scan loops live in processes; a process has one cache of  *)
(* the row, shared by its threads.  The market-hours gate, which answers   *)
(* before any of this is read, is taken to be open.  Time is counted in    *)
(* ticks; the row's and the cache's timestamps are kept as ages that stop  *)
(* growing once the code no longer tells them apart.                       *)
(***************************************************************************)
EXTENDS Integers, FiniteSets

CONSTANTS
    Processes,
    Backtests,      \* runs of a backtest: one `with backtest_pause()` each
    Loops,          \* scan loop threads
    Home,           \* the process of each backtest and each loop
    NoTime,         \* SQL NULL of heartbeat_at
    NoRow,          \* an empty or expired cache
    Stale,          \* _HEARTBEAT_STALE_AFTER_SECS (300 s)
    Ttl,            \* _STATE_CACHE_TTL_SECS (540 s)
    Poll,           \* the sleep of a paused loop (600 s)
    MaxDelay,       \* how old the heartbeat of a running backtest can get
    PageReads,      \* whether a dashboard render reads the row too
    MaxMaintenance, \* bound: how often an operator sets MAINTENANCE by hand
    MaxCrashes,     \* bound: killed processes
    MaxOutages,     \* bound: database outages
    MaxRetries      \* bound: statements applied twice by the retry of db._run

Modes == {"LIVE", "BACKTEST", "MAINTENANCE"}
Times == 0..(Stale + 1) \cup {NoTime}

ASSUME ModeAssumption ==
    /\ Home \in [Backtests \cup Loops -> Processes]
    /\ Stale \in Nat /\ Ttl \in Nat \ {0} /\ Poll \in Nat /\ MaxDelay \in Nat \ {0}
    /\ NoTime \notin 0..(Stale + 1)
    /\ NoRow \notin [mode : Modes, heartbeat : Times, age : 0..(Ttl - 1)]
    /\ PageReads \in BOOLEAN
    /\ MaxMaintenance \in Nat /\ MaxCrashes \in Nat
    /\ MaxOutages \in Nat /\ MaxRetries \in Nat

VARIABLES
    row,        \* mode, backtest_lock_count and the age of heartbeat_at
    cache,      \* per process: _STATE_CACHE with its age, or NoRow
    backtest,   \* per backtest: where backtest_pause() stands
    hb,         \* per backtest: its _HeartbeatThread
    holds,      \* backtests whose increment is not matched by their decrement
    loop,       \* per loop: where should_scheduler_run() stands
    timer,      \* per loop: what is left of its paused sleep
    pausedFor,  \* how long the row has not been LIVE, up to Ttl + 1
    dbUp,
    faults      \* faults so far, by kind

vars == <<row, cache, backtest, hb, holds, loop, timer, pausedFor, dbUp, faults>>
runs == <<backtest, hb, holds>>
loops == <<loop, timer>>
env == <<dbUp, faults>>

Rows == [mode : Modes, count : Nat, heartbeat : Times]
Cached == [mode : Modes, heartbeat : Times, age : 0..(Ttl - 1)]

TypeOK ==
    /\ row \in Rows
    /\ cache \in [Processes -> Cached \cup {NoRow}]
    /\ backtest \in [Backtests -> {"idle", "locked", "entering", "running",
                                   "stopping", "unlocked", "done", "dead"}]
    /\ hb \in [Backtests -> {"off", "sleeping", "writing"}]
    /\ holds \subseteq Backtests
    /\ loop \in [Loops -> {"boundary", "resetting", "invalidating", "cycle", "paused"}]
    /\ timer \in [Loops -> 0..Poll]
    /\ pausedFor \in 0..(Ttl + 1)
    /\ dbUp \in BOOLEAN
    /\ faults \in [{"maintenance", "crash", "outage", "retry"} -> Nat]

LiveRow == [mode |-> "LIVE", count |-> 0, heartbeat |-> NoTime]

Init ==
    /\ row = LiveRow
    /\ cache = [p \in Processes |-> NoRow]
    /\ backtest = [b \in Backtests |-> "idle"]
    /\ hb = [b \in Backtests |-> "off"]
    /\ holds = {}
    /\ loop = [l \in Loops |-> "boundary"]
    /\ timer = [l \in Loops |-> 0]
    /\ pausedFor = 0
    /\ dbUp = TRUE
    /\ faults = [k \in {"maintenance", "crash", "outage", "retry"} |-> 0]

-----------------------------------------------------------------------------
(* The SQL function acquire_backtest_lock. *)
Locked(r) ==
    [mode |-> IF r.count = 0 /\ r.mode # "MAINTENANCE" THEN "BACKTEST" ELSE r.mode,
     count |-> r.count + 1,
     heartbeat |-> 0]

(* Fault: every release switches back to LIVE. *)
UnlockedAtOnce(r) ==
    [mode |-> IF r.mode = "BACKTEST" THEN "LIVE" ELSE r.mode,
     count |-> IF r.count > 0 THEN r.count - 1 ELSE 0,
     heartbeat |-> r.heartbeat]

(* Fault: the last release leaves the count at one. *)
UnlockedStuck(r) ==
    [mode |-> IF r.count <= 1 /\ r.mode = "BACKTEST" THEN "LIVE" ELSE r.mode,
     count |-> IF r.count > 1 THEN r.count - 1 ELSE r.count,
     heartbeat |-> r.heartbeat]

(* The SQL function release_backtest_lock. *)
Unlocked(r) ==
    [mode |-> IF r.count <= 1 /\ r.mode = "BACKTEST" THEN "LIVE" ELSE r.mode,
     count |-> IF r.count > 0 THEN r.count - 1 ELSE 0,
     heartbeat |-> r.heartbeat]

SetRow(r) ==
    /\ row' = r
    /\ pausedFor' = IF r.mode = "LIVE" THEN 0 ELSE pausedFor

(* db._run retries a statement whose connection dropped; when only the
   acknowledgement of the commit was lost, the statement takes effect twice. *)
SqlFunction(once, twice) ==
    /\ dbUp
    /\ \/ SetRow(once) /\ UNCHANGED faults
       \/ /\ faults["retry"] < MaxRetries
          /\ SetRow(twice)
          /\ faults' = [faults EXCEPT !["retry"] = @ + 1]
    /\ UNCHANGED dbUp

Invalidate(p) == cache' = [cache EXCEPT ![p] = NoRow]

-----------------------------------------------------------------------------
(* backtest_pause(), entry: the SQL function, the invalidation of this
   process's cache, and a first heartbeat.  When the database is down the
   backtest runs without the lock. *)
Acquire(b) ==
    /\ backtest[b] = "idle"
    /\ SqlFunction(Locked(row), Locked(Locked(row)))
    /\ holds' = holds \cup {b}
    /\ backtest' = [backtest EXCEPT ![b] = "locked"]
    /\ UNCHANGED <<cache, hb, loops>>

AcquireInvalidate(b) ==
    /\ backtest[b] = "locked"
    /\ Invalidate(Home[b])
    /\ backtest' = [backtest EXCEPT ![b] = "entering"]
    /\ UNCHANGED <<row, pausedFor, hb, holds, loops, env>>

AcquireFails(b) ==
    /\ backtest[b] = "idle"
    /\ ~dbUp
    /\ backtest' = [backtest EXCEPT ![b] = "entering"]
    /\ UNCHANGED <<row, pausedFor, cache, hb, holds, loops, env>>

(* _heartbeat() writes the timestamp whatever the mode is, and does not
   invalidate any cache. *)
WriteHeartbeat ==
    /\ row' = IF dbUp THEN [row EXCEPT !.heartbeat = 0] ELSE row
    /\ UNCHANGED <<pausedFor, cache, env>>

Enter(b) ==
    /\ backtest[b] = "entering"
    /\ WriteHeartbeat
    /\ backtest' = [backtest EXCEPT ![b] = "running"]
    /\ hb' = [hb EXCEPT ![b] = "sleeping"]
    /\ UNCHANGED <<holds, loops>>

(* _HeartbeatThread.run: a wake-up that finds the stop event unset is
   followed by a write, even if the event is set in between. *)
HbWake(b) ==
    /\ hb[b] = "sleeping"
    /\ backtest[b] = "running"
    /\ hb' = [hb EXCEPT ![b] = "writing"]
    /\ UNCHANGED <<row, pausedFor, cache, backtest, holds, loops, env>>

HbWrite(b) ==
    /\ hb[b] = "writing"
    /\ WriteHeartbeat
    /\ hb' = [hb EXCEPT ![b] = IF backtest[b] = "running" THEN "sleeping" ELSE "off"]
    /\ UNCHANGED <<backtest, holds, loops>>

(* The finally block: stop the thread, release, invalidate. *)
Finish(b) ==
    /\ backtest[b] = "running"
    /\ backtest' = [backtest EXCEPT ![b] = "stopping"]
    /\ hb' = [hb EXCEPT ![b] = IF @ = "sleeping" THEN "off" ELSE @]
    /\ UNCHANGED <<row, pausedFor, cache, holds, loops, env>>

Release(b) ==
    /\ backtest[b] = "stopping"
    /\ SqlFunction(Unlocked(row), Unlocked(Unlocked(row)))
    /\ holds' = holds \ {b}
    /\ backtest' = [backtest EXCEPT ![b] = "unlocked"]
    /\ UNCHANGED <<cache, hb, loops>>

ReleaseInvalidate(b) ==
    /\ backtest[b] = "unlocked"
    /\ Invalidate(Home[b])
    /\ backtest' = [backtest EXCEPT ![b] = "done"]
    /\ UNCHANGED <<row, pausedFor, hb, holds, loops, env>>

(* The row may stay wedged until the watchdog times it out. *)
ReleaseFails(b) ==
    /\ backtest[b] = "stopping"
    /\ ~dbUp
    /\ backtest' = [backtest EXCEPT ![b] = "done"]
    /\ UNCHANGED <<row, pausedFor, cache, hb, holds, loops, env>>

-----------------------------------------------------------------------------
(* get_system_state(): the cached row while it is young enough, else a read
   that fills the cache.  Its lock is held across the read, so nothing of this
   process comes between the read and the fill; a failed read is not cached. *)
Fresh == [mode |-> row.mode, heartbeat |-> row.heartbeat, age |-> 0]

View(p) == IF cache[p] # NoRow THEN cache[p] ELSE Fresh

Fill(p) == cache' = [cache EXCEPT ![p] = View(p)]

(* Fault: a stale heartbeat is not taken for an abandoned lock. *)
AbandonedIfMissing(v) == v.heartbeat = NoTime

Abandoned(v) == v.heartbeat = NoTime \/ v.heartbeat = Stale + 1

(* should_scheduler_run() at a cycle boundary. *)
CheckRuns(l) ==
    /\ loop[l] = "boundary"
    /\ \/ dbUp \/ cache[Home[l]] # NoRow
    /\ View(Home[l]).mode = "LIVE"
    /\ Fill(Home[l])
    /\ loop' = [loop EXCEPT ![l] = "cycle"]
    /\ UNCHANGED <<row, pausedFor, runs, timer, env>>

CheckFailsOpen(l) ==
    /\ loop[l] = "boundary"
    /\ ~dbUp
    /\ cache[Home[l]] = NoRow
    /\ loop' = [loop EXCEPT ![l] = "cycle"]
    /\ UNCHANGED <<row, pausedFor, cache, runs, timer, env>>

CheckPauses(l) ==
    /\ loop[l] = "boundary"
    /\ \/ dbUp \/ cache[Home[l]] # NoRow
    /\ View(Home[l]).mode # "LIVE"
    /\ ~Abandoned(View(Home[l]))
    /\ Fill(Home[l])
    /\ loop' = [loop EXCEPT ![l] = "paused"]
    /\ timer' = [timer EXCEPT ![l] = Poll]
    /\ UNCHANGED <<row, pausedFor, runs, env>>

CheckAbandoned(l) ==
    /\ loop[l] = "boundary"
    /\ \/ dbUp \/ cache[Home[l]] # NoRow
    /\ View(Home[l]).mode # "LIVE"
    /\ Abandoned(View(Home[l]))
    /\ Fill(Home[l])
    /\ loop' = [loop EXCEPT ![l] = "resetting"]
    /\ UNCHANGED <<row, pausedFor, runs, timer, env>>

(* _force_reset_to_live(): an UPDATE with no condition on what was read. *)
Reset(l) ==
    /\ loop[l] = "resetting"
    /\ dbUp
    /\ SetRow(LiveRow)
    /\ loop' = [loop EXCEPT ![l] = "invalidating"]
    /\ UNCHANGED <<cache, runs, timer, env>>

ResetFails(l) ==
    /\ loop[l] = "resetting"
    /\ ~dbUp
    /\ loop' = [loop EXCEPT ![l] = "cycle"]
    /\ UNCHANGED <<row, pausedFor, cache, runs, timer, env>>

ResetInvalidate(l) ==
    /\ loop[l] = "invalidating"
    /\ Invalidate(Home[l])
    /\ loop' = [loop EXCEPT ![l] = "cycle"]
    /\ UNCHANGED <<row, pausedFor, runs, timer, env>>

EndCycle(l) ==
    /\ loop[l] = "cycle"
    /\ loop' = [loop EXCEPT ![l] = "boundary"]
    /\ UNCHANGED <<row, pausedFor, cache, runs, timer, env>>

Wake(l) ==
    /\ loop[l] = "paused"
    /\ timer[l] = 0
    /\ loop' = [loop EXCEPT ![l] = "boundary"]
    /\ UNCHANGED <<row, pausedFor, cache, runs, timer, env>>

(* The dashboard's mode banner reads the row through the same cache. *)
PageRead(p) ==
    /\ PageReads
    /\ dbUp
    /\ Fill(p)
    /\ UNCHANGED <<row, pausedFor, runs, loops, env>>

-----------------------------------------------------------------------------
(* An operator sets MAINTENANCE in SQL; no code does. *)
SetMaintenance ==
    /\ dbUp
    /\ faults["maintenance"] < MaxMaintenance
    /\ SetRow([row EXCEPT !.mode = "MAINTENANCE", !.heartbeat = 0])
    /\ faults' = [faults EXCEPT !["maintenance"] = @ + 1]
    /\ UNCHANGED <<cache, runs, loops, dbUp>>

(* A process is killed, with its backtests, and its loops start over. *)
Crash(p) ==
    /\ faults["crash"] < MaxCrashes
    /\ faults' = [faults EXCEPT !["crash"] = @ + 1]
    /\ backtest' = [b \in Backtests |->
          IF Home[b] = p /\ backtest[b] \notin {"idle", "done"} THEN "dead" ELSE backtest[b]]
    /\ hb' = [b \in Backtests |-> IF Home[b] = p THEN "off" ELSE hb[b]]
    /\ loop' = [l \in Loops |-> IF Home[l] = p THEN "boundary" ELSE loop[l]]
    /\ timer' = [l \in Loops |-> IF Home[l] = p THEN 0 ELSE timer[l]]
    /\ Invalidate(p)
    /\ UNCHANGED <<row, pausedFor, holds, dbUp>>

DbFail ==
    /\ dbUp
    /\ faults["outage"] < MaxOutages
    /\ dbUp' = FALSE
    /\ faults' = [faults EXCEPT !["outage"] = @ + 1]
    /\ UNCHANGED <<row, pausedFor, cache, runs, loops>>

DbRecover ==
    /\ ~dbUp
    /\ dbUp' = TRUE
    /\ UNCHANGED <<row, pausedFor, cache, runs, loops, faults>>

(* A backtest that holds the lock is not late: it enters, renews and leaves
   before the timestamp is MaxDelay old. *)
HeartbeatDue ==
    /\ dbUp
    /\ \E b \in Backtests : backtest[b] \in {"locked", "entering", "running", "stopping"}
    /\ row.heartbeat \notin 0..(MaxDelay - 1)

(* Fault: the age of a stale timestamp is not cut off. *)
OlderUncut(t) == IF t \in Nat THEN t + 1 ELSE t

Older(t) == IF t \in 0..Stale THEN t + 1 ELSE t

(* Fault: a cached row never expires. *)
OlderCacheForever(c) ==
    IF c = NoRow THEN NoRow ELSE [c EXCEPT !.heartbeat = Older(@)]

OlderCache(c) ==
    IF c = NoRow \/ c.age + 1 >= Ttl THEN NoRow
    ELSE [c EXCEPT !.heartbeat = Older(@), !.age = @ + 1]

Tick ==
    /\ ~HeartbeatDue
    /\ row' = [row EXCEPT !.heartbeat = Older(@)]
    /\ cache' = [p \in Processes |-> OlderCache(cache[p])]
    /\ timer' = [l \in Loops |-> IF timer[l] > 0 THEN timer[l] - 1 ELSE 0]
    /\ pausedFor' = IF row.mode # "LIVE" /\ pausedFor <= Ttl THEN pausedFor + 1 ELSE pausedFor
    /\ UNCHANGED <<runs, loop, env>>

BacktestStep(b) ==
    \/ Acquire(b) \/ AcquireInvalidate(b) \/ AcquireFails(b) \/ Enter(b)
    \/ HbWake(b) \/ HbWrite(b)
    \/ Finish(b) \/ Release(b) \/ ReleaseInvalidate(b) \/ ReleaseFails(b)

LoopStep(l) ==
    \/ CheckRuns(l) \/ CheckFailsOpen(l) \/ CheckPauses(l) \/ CheckAbandoned(l)
    \/ Reset(l) \/ ResetFails(l) \/ ResetInvalidate(l) \/ EndCycle(l) \/ Wake(l)

Next ==
    \/ \E b \in Backtests : BacktestStep(b)
    \/ \E l \in Loops : LoopStep(l)
    \/ \E p \in Processes : PageRead(p) \/ Crash(p)
    \/ SetMaintenance \/ DbFail \/ DbRecover \/ Tick

Spec == Init /\ [][Next]_vars

(* Every thread keeps going; a backtest that started ends; nothing makes a
   backtest start. *)
Fairness ==
    /\ WF_vars(Tick) /\ WF_vars(DbRecover)
    /\ \A l \in Loops : WF_vars(LoopStep(l))
    /\ \A b \in Backtests : WF_vars(backtest[b] # "idle" /\ BacktestStep(b))
                            /\ WF_vars(Finish(b)) /\ WF_vars(HbWrite(b))

FairSpec == Spec /\ Fairness

-----------------------------------------------------------------------------
(* The mode column and the reference count never disagree, whatever the
   interleaving of locks, releases, retries, resets and crashes: a row that
   is paused has someone to count down, a LIVE row has nobody. *)
ModeMatchesCount ==
    /\ row.mode = "BACKTEST" => row.count > 0
    /\ row.mode = "LIVE" => row.count = 0

(* The count is never more than the increments still to be matched: a reset
   followed by late releases leaves no count behind that would pause the
   scheduler with no backtest to wait for. *)
CountCovered == row.count <= Cardinality(holds) + faults["retry"]

(* Neither a lock nor a release takes the row out of a MAINTENANCE that was
   set independently of any backtest; only the watchdog does. *)
MaintenanceKept ==
    [][(row.mode = "MAINTENANCE" /\ row'.mode # "MAINTENANCE")
          => \E l \in Loops : loop[l] = "resetting" /\ loop'[l] = "invalidating"]_vars

(* A pause reaches the loops of every process: once the row has not been LIVE
   for the lifetime of a cached copy, no loop starts a cycle on a copy from
   before the pause.  A loop that cannot read the row at all runs. *)
PauseReachesLoops ==
    [][\A l \in Loops : (loop[l] = "boundary" /\ loop'[l] = "cycle" /\ dbUp)
          => row.mode = "LIVE" \/ pausedFor < Ttl]_vars

(* "Two concurrent backtests must both finish before the scheduler resumes":
   while a backtest that took the lock is running, and its heartbeat thread
   with it, the row is not LIVE. *)
RunningBacktestPauses ==
    \A b \in Backtests : (backtest[b] = "running" /\ b \in holds) => row.mode # "LIVE"

(* With one scan loop in the process and nothing going wrong they do: a paused
   loop sleeps longer than its copy of the row lives, so it judges the
   heartbeat by a copy it has just read. *)
PausedWhileRunning ==
    (\A k \in DOMAIN faults : faults[k] = 0) => RunningBacktestPauses

(* Scans are never wedged: whatever backtests crash or fail to release, every
   loop starts a cycle again and again. *)
ScansResume == \A l \in Loops : []<>(loop[l] = "cycle")
=============================================================================
