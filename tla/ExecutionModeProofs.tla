------------------------- MODULE ExecutionModeProofs -------------------------
(***************************************************************************)
(* Theorems about ExecutionMode for any processes, backtests, loops and    *)
(* limits, with every fault of the model allowed.  The last one is about   *)
(* the runs without a fault and takes the order of the limits from the     *)
(* code.                                                                   *)
(***************************************************************************)
EXTENDS ExecutionMode, FiniteSetTheorems, TLAPS

Consistent(r) ==
    /\ r.mode = "BACKTEST" => r.count > 0
    /\ r.mode = "LIVE" => r.count = 0

(* The two SQL functions keep a row a row and its mode in step with its count. *)
LEMMA LockedRow ==
    ASSUME NEW r \in Rows
    PROVE  Locked(r) \in Rows /\ (Consistent(r) => Consistent(Locked(r)))
<1>1. r.mode \in Modes /\ r.count \in Nat /\ r.heartbeat \in Times /\ 0 \in Times
  BY ModeAssumption DEF Rows, Times
<1> QED
  BY <1>1 DEF Locked, Rows, Modes, Consistent

LEMMA UnlockedRow ==
    ASSUME NEW r \in Rows
    PROVE  Unlocked(r) \in Rows /\ (Consistent(r) => Consistent(Unlocked(r)))
<1>1. r.mode \in Modes /\ r.count \in Nat /\ r.heartbeat \in Times
  BY DEF Rows
<1> QED
  BY <1>1 DEF Unlocked, Rows, Modes, Consistent

LEMMA LiveRowOK == LiveRow \in Rows /\ Consistent(LiveRow)
BY DEF LiveRow, Rows, Modes, Times, Consistent

(* The row alone carries the argument: nothing a cache, a loop or a backtest
   remembers can put the mode out of step with the count. *)
RowInv == row \in Rows /\ Consistent(row)

(* A row that is BACKTEST has a positive count and a LIVE row has none,
   through every interleaving of locks, releases, retries, resets, crashes
   and outages. *)
THEOREM ModeTracksCount == Spec => []ModeMatchesCount
<1>1. Init => RowInv
  BY LiveRowOK DEF Init, RowInv
<1>2. RowInv /\ [Next]_vars => RowInv'
  <2> SUFFICES ASSUME RowInv, [Next]_vars PROVE RowInv'
    OBVIOUS
  <2>1. ASSUME NEW b \in Backtests, Acquire(b) PROVE RowInv'
    <3>1. row' = Locked(row) \/ row' = Locked(Locked(row))
      BY <2>1 DEF Acquire, SqlFunction, SetRow
    <3> QED
      BY <3>1, LockedRow DEF RowInv
  <2>2. ASSUME NEW b \in Backtests, Release(b) PROVE RowInv'
    <3>1. row' = Unlocked(row) \/ row' = Unlocked(Unlocked(row))
      BY <2>2 DEF Release, SqlFunction, SetRow
    <3> QED
      BY <3>1, UnlockedRow DEF RowInv
  <2>3. ASSUME NEW b \in Backtests, Enter(b) \/ HbWrite(b) PROVE RowInv'
    <3>1. row' = row \/ row' = [row EXCEPT !.heartbeat = 0]
      BY <2>3 DEF Enter, HbWrite, WriteHeartbeat
    <3> QED
      BY <3>1, ModeAssumption DEF RowInv, Rows, Times, Consistent
  <2>4. ASSUME NEW l \in Loops, Reset(l) PROVE RowInv'
    BY <2>4, LiveRowOK DEF Reset, SetRow, RowInv
  <2>5. CASE SetMaintenance
    <3>1. row' = [row EXCEPT !.mode = "MAINTENANCE", !.heartbeat = 0]
      BY <2>5 DEF SetMaintenance, SetRow
    <3>2. row' = [mode |-> "MAINTENANCE", count |-> row.count, heartbeat |-> 0]
      BY <3>1 DEF RowInv, Rows
    <3>3. row.count \in Nat /\ 0 \in Times /\ "MAINTENANCE" \in Modes
      BY ModeAssumption DEF RowInv, Rows, Times, Modes
    <3> QED
      BY <3>2, <3>3 DEF RowInv, Rows, Consistent
  <2>6. CASE Tick
    <3>1. row' = [row EXCEPT !.heartbeat = Older(row.heartbeat)]
      BY <2>6 DEF Tick
    <3>2. Older(row.heartbeat) \in Times
      BY ModeAssumption DEF RowInv, Rows, Times, Older
    <3> QED
      BY <3>1, <3>2 DEF RowInv, Rows, Consistent
  <2>7. ASSUME NEW b \in Backtests, BacktestStep(b),
               ~Acquire(b), ~Release(b), ~Enter(b), ~HbWrite(b)
        PROVE  row' = row
    BY <2>7 DEF BacktestStep, AcquireInvalidate, AcquireFails, HbWake, Finish,
       ReleaseInvalidate, ReleaseFails
  <2>8. ASSUME NEW l \in Loops, LoopStep(l), ~Reset(l) PROVE row' = row
    BY <2>8 DEF LoopStep, CheckRuns, CheckFailsOpen, CheckPauses, CheckAbandoned,
       ResetFails, ResetInvalidate, EndCycle, Wake
  <2>9. ASSUME NEW p \in Processes, PageRead(p) \/ Crash(p) PROVE row' = row
    BY <2>9 DEF PageRead, Crash
  <2>10. CASE DbFail \/ DbRecover
    BY <2>10 DEF DbFail, DbRecover, RowInv
  <2>11. CASE UNCHANGED vars
    BY <2>11 DEF vars, RowInv
  <2>12. row' = row => RowInv'
    BY DEF RowInv
  <2> QED
    BY <2>1, <2>2, <2>3, <2>4, <2>5, <2>6, <2>7, <2>8, <2>9, <2>10, <2>11, <2>12 DEF Next
<1>3. RowInv => ModeMatchesCount
  BY DEF RowInv, Consistent, ModeMatchesCount
<1> QED
  BY <1>1, <1>2, <1>3, PTL DEF Spec

-----------------------------------------------------------------------------
(* The types of the state are kept by every step. *)
LEMMA AgeTypes ==
    /\ 0 \in Times /\ NoTime \in Times
    /\ \A t \in Times : Older(t) \in Times
    /\ \A c \in Cached \cup {NoRow} : OlderCache(c) \in Cached \cup {NoRow}
<1>1. 0 \in Times /\ NoTime \in Times
  BY ModeAssumption DEF Times
<1>2. ASSUME NEW t \in Times PROVE Older(t) \in Times
  BY ModeAssumption DEF Times, Older
<1>3. ASSUME NEW c \in Cached, c # NoRow, ~(c.age + 1 >= Ttl)
      PROVE  [c EXCEPT !.heartbeat = Older(c.heartbeat), !.age = c.age + 1] \in Cached
  <2>1. c.heartbeat \in Times /\ c.age \in 0..(Ttl - 1)
    BY DEF Cached
  <2>2. Older(c.heartbeat) \in Times /\ c.age + 1 \in 0..(Ttl - 1)
    BY <1>2, <1>3, <2>1, ModeAssumption
  <2> QED
    BY <2>2 DEF Cached
<1> QED
  BY <1>1, <1>2, <1>3 DEF OlderCache

LEMMA ViewType ==
    ASSUME TypeOK, NEW p \in Processes
    PROVE  View(p) \in Cached
<1>1. 0 \in 0..(Ttl - 1)
  BY ModeAssumption
<1> QED
  BY <1>1 DEF TypeOK, View, Fresh, Rows, Cached

LEMMA FillType ==
    ASSUME TypeOK, NEW p \in Processes, Fill(p) \/ Invalidate(p)
    PROVE  cache' \in [Processes -> Cached \cup {NoRow}]
BY ViewType DEF TypeOK, Fill, Invalidate

LEMMA SetRowType ==
    ASSUME TypeOK, NEW r \in Rows, SetRow(r)
    PROVE  row' \in Rows /\ pausedFor' \in 0..(Ttl + 1)
BY ModeAssumption DEF TypeOK, SetRow

LEMMA BacktestTypes ==
    ASSUME TypeOK, NEW b \in Backtests, BacktestStep(b)
    PROVE  TypeOK'
<1>0. Home[b] \in Processes
  BY ModeAssumption
<1>1. CASE Acquire(b)
  <2>1. Locked(row) \in Rows /\ Locked(Locked(row)) \in Rows
    BY LockedRow DEF TypeOK
  <2>2. row' \in Rows /\ pausedFor' \in 0..(Ttl + 1)
    BY <1>1, <2>1, SetRowType DEF Acquire, SqlFunction
  <2>3. faults' \in [{"maintenance", "crash", "outage", "retry"} -> Nat]
    BY <1>1 DEF Acquire, SqlFunction, TypeOK
  <2> QED
    BY <1>1, <2>2, <2>3 DEF Acquire, SqlFunction, TypeOK, loops
<1>2. CASE Release(b)
  <2>1. Unlocked(row) \in Rows /\ Unlocked(Unlocked(row)) \in Rows
    BY UnlockedRow DEF TypeOK
  <2>2. row' \in Rows /\ pausedFor' \in 0..(Ttl + 1)
    BY <1>2, <2>1, SetRowType DEF Release, SqlFunction
  <2>3. faults' \in [{"maintenance", "crash", "outage", "retry"} -> Nat]
    BY <1>2 DEF Release, SqlFunction, TypeOK
  <2> QED
    BY <1>2, <2>2, <2>3 DEF Release, SqlFunction, TypeOK, loops
<1>3. CASE AcquireInvalidate(b) \/ ReleaseInvalidate(b)
  <2>1. cache' \in [Processes -> Cached \cup {NoRow}]
    BY <1>0, <1>3, FillType DEF AcquireInvalidate, ReleaseInvalidate
  <2> QED
    BY <1>3, <2>1 DEF AcquireInvalidate, ReleaseInvalidate, TypeOK, loops, env
<1>4. CASE Enter(b) \/ HbWrite(b)
  <2>1. row' \in Rows
    BY <1>4, AgeTypes DEF Enter, HbWrite, WriteHeartbeat, TypeOK, Rows
  <2> QED
    BY <1>4, <2>1 DEF Enter, HbWrite, WriteHeartbeat, TypeOK, loops, env
<1>5. CASE AcquireFails(b) \/ HbWake(b) \/ Finish(b) \/ ReleaseFails(b)
  BY <1>5 DEF AcquireFails, HbWake, Finish, ReleaseFails, TypeOK, loops, env
<1> QED
  BY <1>1, <1>2, <1>3, <1>4, <1>5 DEF BacktestStep

LEMMA LoopTypes ==
    ASSUME TypeOK, NEW l \in Loops, LoopStep(l)
    PROVE  TypeOK'
<1>0. Home[l] \in Processes
  BY ModeAssumption
<1>1. CASE CheckRuns(l) \/ CheckPauses(l) \/ CheckAbandoned(l) \/ ResetInvalidate(l)
  <2>1. cache' \in [Processes -> Cached \cup {NoRow}]
    BY <1>0, <1>1, FillType DEF CheckRuns, CheckPauses, CheckAbandoned, ResetInvalidate
  <2>2. timer' \in [Loops -> 0..Poll]
    BY <1>1, ModeAssumption
    DEF CheckRuns, CheckPauses, CheckAbandoned, ResetInvalidate, TypeOK
  <2> QED
    BY <1>1, <2>1, <2>2
    DEF CheckRuns, CheckPauses, CheckAbandoned, ResetInvalidate, TypeOK, runs, env
<1>2. CASE Reset(l)
  <2>1. row' \in Rows /\ pausedFor' \in 0..(Ttl + 1)
    BY <1>2, LiveRowOK, SetRowType DEF Reset
  <2> QED
    BY <1>2, <2>1 DEF Reset, TypeOK, runs, env
<1>3. CASE CheckFailsOpen(l) \/ ResetFails(l) \/ EndCycle(l) \/ Wake(l)
  BY <1>3 DEF CheckFailsOpen, ResetFails, EndCycle, Wake, TypeOK, runs, env
<1> QED
  BY <1>1, <1>2, <1>3 DEF LoopStep

LEMMA TickTypes ==
    ASSUME TypeOK, Tick
    PROVE  TypeOK'
<1>1. row' \in Rows
  <2>1. row.heartbeat \in Times /\ row' = [row EXCEPT !.heartbeat = Older(row.heartbeat)]
    BY DEF Tick, TypeOK, Rows
  <2>2. Older(row.heartbeat) \in Times
    BY <2>1, AgeTypes
  <2> QED
    BY <2>1, <2>2 DEF TypeOK, Rows
<1>2. cache' \in [Processes -> Cached \cup {NoRow}]
  BY AgeTypes DEF Tick, TypeOK
<1>3. timer' \in [Loops -> 0..Poll]
  BY ModeAssumption DEF Tick, TypeOK
<1>4. pausedFor' \in 0..(Ttl + 1)
  BY ModeAssumption DEF Tick, TypeOK
<1> QED
  BY <1>1, <1>2, <1>3, <1>4 DEF Tick, TypeOK, runs, env

(* Every variable keeps its type, whatever fails, crashes or is retried: the ages in the row
   and in the caches stay cut off, and the count never goes below zero. *)
THEOREM TypeCorrect == Spec => []TypeOK
<1>1. Init => TypeOK
  BY LiveRowOK, ModeAssumption DEF Init, TypeOK
<1>2. TypeOK /\ [Next]_vars => TypeOK'
  <2> SUFFICES ASSUME TypeOK, [Next]_vars PROVE TypeOK'
    OBVIOUS
  <2>1. ASSUME NEW p \in Processes, PageRead(p) PROVE TypeOK'
    <3>1. cache' \in [Processes -> Cached \cup {NoRow}]
      BY <2>1, FillType DEF PageRead
    <3> QED
      BY <2>1, <3>1 DEF PageRead, TypeOK, runs, loops, env
  <2>2. ASSUME NEW p \in Processes, Crash(p) PROVE TypeOK'
    <3>1. cache' \in [Processes -> Cached \cup {NoRow}]
      BY <2>2, FillType DEF Crash
    <3>2. 0 \in 0..Poll
      BY ModeAssumption
    <3> QED
      BY <2>2, <3>1, <3>2 DEF Crash, TypeOK
  <2>3. CASE SetMaintenance
    <3>1. [row EXCEPT !.mode = "MAINTENANCE", !.heartbeat = 0] \in Rows
      BY AgeTypes DEF TypeOK, Rows, Modes
    <3>2. row' \in Rows /\ pausedFor' \in 0..(Ttl + 1)
      BY <2>3, <3>1, SetRowType DEF SetMaintenance
    <3> QED
      BY <2>3, <3>2 DEF SetMaintenance, TypeOK, runs, loops
  <2>4. CASE DbFail \/ DbRecover
    <3>1. dbUp' \in BOOLEAN
      BY <2>4 DEF DbFail, DbRecover
    <3>2. faults' \in [{"maintenance", "crash", "outage", "retry"} -> Nat]
      BY <2>4 DEF DbFail, DbRecover, TypeOK
    <3>3. UNCHANGED <<row, pausedFor, cache, backtest, hb, holds, loop, timer>>
      BY <2>4 DEF DbFail, DbRecover, runs, loops
    <3> QED
      BY <3>1, <3>2, <3>3 DEF TypeOK
  <2>5. CASE UNCHANGED vars
    BY <2>5 DEF vars, TypeOK
  <2> QED
    BY <2>1, <2>2, <2>3, <2>4, <2>5, BacktestTypes, LoopTypes, TickTypes DEF Next
<1> QED
  BY <1>1, <1>2, PTL DEF Spec

-----------------------------------------------------------------------------
(* The SQL functions leave a MAINTENANCE alone, once or twice. *)
LEMMA FunctionsKeepMaintenance ==
    ASSUME NEW r, r.mode = "MAINTENANCE"
    PROVE  Locked(r).mode = "MAINTENANCE" /\ Unlocked(r).mode = "MAINTENANCE"
BY DEF Locked, Unlocked

(* A MAINTENANCE set by hand ends by the watchdog's reset only: no lock, release, retry,
   heartbeat or crash takes the row out of it. *)
THEOREM MaintenanceStays == Spec => MaintenanceKept
<1> DEFINE Kept == (row.mode = "MAINTENANCE" /\ row'.mode # "MAINTENANCE")
                     => \E l \in Loops : loop[l] = "resetting" /\ loop'[l] = "invalidating"
<1>1. TypeOK /\ [Next]_vars => Kept
  <2> SUFFICES ASSUME TypeOK, [Next]_vars, row.mode = "MAINTENANCE", row'.mode # "MAINTENANCE"
               PROVE  \E l \in Loops : loop[l] = "resetting" /\ loop'[l] = "invalidating"
    OBVIOUS
  <2>1. ASSUME NEW b \in Backtests, BacktestStep(b) PROVE FALSE
    <3>1. CASE Acquire(b) \/ Release(b)
      BY <3>1, FunctionsKeepMaintenance DEF Acquire, Release, SqlFunction, SetRow
    <3>2. CASE Enter(b) \/ HbWrite(b)
      BY <3>2 DEF Enter, HbWrite, WriteHeartbeat, TypeOK, Rows
    <3> QED
      BY <2>1, <3>1, <3>2 DEF BacktestStep, AcquireInvalidate, AcquireFails, HbWake, Finish,
         ReleaseInvalidate, ReleaseFails
  <2>2. ASSUME NEW l \in Loops, LoopStep(l)
        PROVE  loop[l] = "resetting" /\ loop'[l] = "invalidating"
    <3>1. CASE Reset(l)
      BY <3>1 DEF Reset, TypeOK
    <3> QED
      BY <2>2, <3>1 DEF LoopStep, CheckRuns, CheckFailsOpen, CheckPauses, CheckAbandoned,
         ResetFails, ResetInvalidate, EndCycle, Wake
  <2>3. ASSUME NEW p \in Processes, PageRead(p) \/ Crash(p) PROVE FALSE
    BY <2>3 DEF PageRead, Crash
  <2>4. CASE SetMaintenance \/ Tick
    BY <2>4 DEF SetMaintenance, SetRow, Tick, TypeOK, Rows
  <2>5. CASE DbFail \/ DbRecover \/ UNCHANGED vars
    BY <2>5 DEF DbFail, DbRecover, vars
  <2> QED
    BY <2>1, <2>2, <2>3, <2>4, <2>5 DEF Next
<1>2. TypeOK /\ [Next]_vars => [Kept]_vars
  BY <1>1
<1> QED
  BY <1>2, TypeCorrect, PTL DEF Spec, MaintenanceKept

-----------------------------------------------------------------------------
(* What makes a pause reach every process: a row that is LIVE is not paused, and a copy that
   still says LIVE is at least as old as the pause. *)
CopyInv ==
    /\ row.mode = "LIVE" => pausedFor = 0
    /\ \A p \in Processes :
          cache[p] # NoRow /\ cache[p].mode = "LIVE" => pausedFor <= cache[p].age

LEMMA RowChanges ==
    ASSUME TypeOK, CopyInv, NEW r, SetRow(r), UNCHANGED cache
    PROVE  CopyInv'
<1>1. pausedFor \in Nat
  BY ModeAssumption DEF TypeOK
<1>2. ASSUME NEW p \in Processes, cache[p] # NoRow, cache[p].mode = "LIVE"
      PROVE  pausedFor' <= cache[p].age
  <2>1. cache[p].age \in Nat /\ pausedFor <= cache[p].age
    BY <1>2, ModeAssumption DEF TypeOK, Cached, CopyInv
  <2>2. pausedFor' = 0 \/ pausedFor' = pausedFor
    BY DEF SetRow
  <2> QED
    BY <1>1, <2>1, <2>2
<1>3. row'.mode = "LIVE" => pausedFor' = 0
  BY DEF SetRow
<1> QED
  BY <1>2, <1>3 DEF CopyInv

LEMMA CacheChanges ==
    ASSUME TypeOK, CopyInv, NEW p \in Processes, Fill(p) \/ Invalidate(p),
           UNCHANGED <<row, pausedFor>>
    PROVE  CopyInv'
<1>1. ASSUME NEW q \in Processes, q # p PROVE cache'[q] = cache[q]
  BY <1>1 DEF Fill, Invalidate, TypeOK
<1>2. cache'[p] = NoRow \/ cache'[p] = View(p)
  BY DEF Fill, Invalidate, TypeOK
<1>3. View(p).mode = "LIVE" => pausedFor <= View(p).age
  BY DEF View, Fresh, CopyInv, TypeOK
<1> QED
  BY <1>1, <1>2, <1>3 DEF CopyInv

LEMMA CopyStep == TypeOK /\ CopyInv /\ [Next]_vars => CopyInv'
<1> SUFFICES ASSUME TypeOK, CopyInv, [Next]_vars PROVE CopyInv'
  OBVIOUS
<1>1. ASSUME NEW b \in Backtests, BacktestStep(b) PROVE CopyInv'
  <2>0. Home[b] \in Processes
    BY ModeAssumption
  <2>1. CASE Acquire(b) \/ Release(b)
    BY <2>1, RowChanges DEF Acquire, Release, SqlFunction
  <2>2. CASE AcquireInvalidate(b) \/ ReleaseInvalidate(b)
    BY <2>0, <2>2, CacheChanges DEF AcquireInvalidate, ReleaseInvalidate
  <2>3. CASE Enter(b) \/ HbWrite(b)
    <3>1. row'.mode = row.mode /\ UNCHANGED <<pausedFor, cache>>
      BY <2>3 DEF Enter, HbWrite, WriteHeartbeat, TypeOK, Rows
    <3> QED
      BY <3>1 DEF CopyInv
  <2>4. CASE AcquireFails(b) \/ HbWake(b) \/ Finish(b) \/ ReleaseFails(b)
    BY <2>4 DEF AcquireFails, HbWake, Finish, ReleaseFails, CopyInv
  <2> QED
    BY <1>1, <2>1, <2>2, <2>3, <2>4 DEF BacktestStep
<1>2. ASSUME NEW l \in Loops, LoopStep(l) PROVE CopyInv'
  <2>0. Home[l] \in Processes
    BY ModeAssumption
  <2>1. CASE CheckRuns(l) \/ CheckPauses(l) \/ CheckAbandoned(l) \/ ResetInvalidate(l)
    BY <2>0, <2>1, CacheChanges DEF CheckRuns, CheckPauses, CheckAbandoned, ResetInvalidate
  <2>2. CASE Reset(l)
    BY <2>2, RowChanges DEF Reset
  <2>3. CASE CheckFailsOpen(l) \/ ResetFails(l) \/ EndCycle(l) \/ Wake(l)
    BY <2>3 DEF CheckFailsOpen, ResetFails, EndCycle, Wake, CopyInv
  <2> QED
    BY <1>2, <2>1, <2>2, <2>3 DEF LoopStep
<1>3. ASSUME NEW p \in Processes, PageRead(p) \/ Crash(p) PROVE CopyInv'
  BY <1>3, CacheChanges DEF PageRead, Crash
<1>4. CASE SetMaintenance
  BY <1>4, RowChanges DEF SetMaintenance
<1>5. CASE Tick
  <2>1. row'.mode = row.mode
    BY <1>5 DEF Tick, TypeOK, Rows
  <2>2. pausedFor' \in {pausedFor, pausedFor + 1} /\ (row.mode = "LIVE" => pausedFor' = pausedFor)
    BY <1>5 DEF Tick
  <2>3. ASSUME NEW p \in Processes, cache'[p] # NoRow, cache'[p].mode = "LIVE"
        PROVE  pausedFor' <= cache'[p].age
    <3>1. cache'[p] = OlderCache(cache[p])
      BY <1>5 DEF Tick
    <3>2. cache[p] \in Cached /\ cache[p] # NoRow
      BY <2>3, <3>1 DEF OlderCache, TypeOK
    <3>3. cache'[p].mode = cache[p].mode /\ cache'[p].age = cache[p].age + 1
      BY <2>3, <3>1, <3>2 DEF OlderCache, Cached
    <3>4. pausedFor <= cache[p].age /\ pausedFor \in Nat /\ cache[p].age \in Nat
      BY <2>3, <3>2, <3>3, ModeAssumption DEF CopyInv, TypeOK, Cached
    <3> QED
      BY <2>2, <3>3, <3>4
  <2> QED
    BY <2>1, <2>2, <2>3 DEF CopyInv
<1>6. CASE DbFail \/ DbRecover \/ UNCHANGED vars
  BY <1>6 DEF DbFail, DbRecover, vars, CopyInv
<1> QED
  BY <1>1, <1>2, <1>3, <1>4, <1>5, <1>6 DEF Next

(* A pause reaches the loops of every process: a loop starts a cycle on what it read only when
   the row is LIVE or has been paused for less than the lifetime of a copy. *)
THEOREM PauseArrives == Spec => PauseReachesLoops
<1> DEFINE Reaches == \A l \in Loops : (loop[l] = "boundary" /\ loop'[l] = "cycle" /\ dbUp)
                         => row.mode = "LIVE" \/ pausedFor < Ttl
<1>1. Init => CopyInv
  BY DEF Init, CopyInv
<1>2. TypeOK /\ CopyInv /\ [Next]_vars => Reaches
  <2> SUFFICES ASSUME TypeOK, CopyInv, [Next]_vars, NEW l \in Loops,
                      loop[l] = "boundary", loop'[l] = "cycle", dbUp
               PROVE  row.mode = "LIVE" \/ pausedFor < Ttl
    OBVIOUS
  <2>1. Home[l] \in Processes
    BY ModeAssumption
  <2>2. CheckRuns(l)
    <3>1. ASSUME NEW k \in Loops, LoopStep(k) PROVE CheckRuns(l)
      <4>1. k = l
        BY <3>1 DEF LoopStep, CheckRuns, CheckFailsOpen, CheckPauses, CheckAbandoned, Reset,
           ResetFails, ResetInvalidate, EndCycle, Wake, TypeOK
      <4> QED
        BY <3>1, <4>1 DEF LoopStep, CheckFailsOpen, CheckPauses, CheckAbandoned, Reset,
           ResetFails, ResetInvalidate, EndCycle, Wake, TypeOK
    <3>2. ASSUME NEW b \in Backtests, BacktestStep(b) PROVE UNCHANGED loop
      BY <3>2 DEF BacktestStep, Acquire, AcquireInvalidate, AcquireFails, Enter, HbWake, HbWrite,
         Finish, Release, ReleaseInvalidate, ReleaseFails, loops
    <3>3. ASSUME NEW p \in Processes, PageRead(p) \/ Crash(p) PROVE loop'[l] # "cycle"
      BY <3>3 DEF PageRead, Crash, loops
    <3>4. SetMaintenance \/ DbFail \/ DbRecover \/ Tick \/ UNCHANGED vars => UNCHANGED loop
      BY DEF SetMaintenance, DbFail, DbRecover, Tick, vars, loops
    <3> QED
      BY <3>1, <3>2, <3>3, <3>4 DEF Next
  <2>3. View(Home[l]).mode = "LIVE"
    BY <2>2 DEF CheckRuns
  <2>4. CASE cache[Home[l]] = NoRow
    BY <2>3, <2>4 DEF View, Fresh
  <2>5. CASE cache[Home[l]] # NoRow
    <3>1. pausedFor <= cache[Home[l]].age
      BY <2>1, <2>3, <2>5 DEF View, CopyInv
    <3>2. cache[Home[l]].age \in 0..(Ttl - 1)
      BY <2>1, <2>5 DEF TypeOK, Cached
    <3> QED
      BY <3>1, <3>2, ModeAssumption DEF TypeOK
  <2> QED
    BY <2>4, <2>5
<1>3. TypeOK /\ CopyInv /\ [Next]_vars => [Reaches]_vars
  BY <1>2
<1> QED
  BY <1>1, <1>3, CopyStep, TypeCorrect, PTL DEF Spec, PauseReachesLoops

-----------------------------------------------------------------------------
(* The backtests whose increment is open are finitely many, they have started, and together
   with the repeated statements they cover the count. *)
CoverInv ==
    /\ IsFiniteSet(holds)
    /\ \A b \in holds : backtest[b] # "idle"
    /\ CountCovered

LEMMA CountStep ==
    ASSUME NEW r \in Rows
    PROVE  /\ Locked(r).count = r.count + 1
           /\ Unlocked(r).count = (IF r.count > 0 THEN r.count - 1 ELSE 0)
BY DEF Locked, Unlocked

LEMMA AcquireCovers ==
    ASSUME TypeOK, CoverInv, NEW b \in Backtests, Acquire(b)
    PROVE  CoverInv'
<1>1. b \notin holds /\ IsFiniteSet(holds)
  BY DEF Acquire, CoverInv
<1>2. IsFiniteSet(holds') /\ Cardinality(holds') = Cardinality(holds) + 1
  BY <1>1, FS_AddElement DEF Acquire
<1>3. \A c \in holds' : backtest'[c] # "idle"
  BY DEF Acquire, CoverInv, TypeOK
<1>4. row.count \in Nat /\ faults["retry"] \in Nat /\ Cardinality(holds) \in Nat
  BY <1>1, FS_CardinalityType DEF TypeOK, Rows
<1>5. row.count <= Cardinality(holds) + faults["retry"]
  BY DEF CoverInv, CountCovered
<1>6. CASE row' = Locked(row) /\ UNCHANGED faults
  <2>1. row'.count = row.count + 1
    BY <1>6, CountStep DEF TypeOK
  <2>2. row'.count <= Cardinality(holds') + faults'["retry"]
    BY <1>2, <1>4, <1>5, <1>6, <2>1
  <2> QED
    BY <1>2, <1>3, <2>2 DEF CoverInv, CountCovered
<1>7. CASE row' = Locked(Locked(row)) /\ faults' = [faults EXCEPT !["retry"] = faults["retry"] + 1]
  <2>1. row'.count = row.count + 2
    BY <1>4, <1>7, CountStep, LockedRow DEF TypeOK
  <2>2. faults'["retry"] = faults["retry"] + 1
    BY <1>7 DEF TypeOK
  <2>3. row'.count <= Cardinality(holds') + faults'["retry"]
    BY <1>2, <1>4, <1>5, <2>1, <2>2
  <2> QED
    BY <1>2, <1>3, <2>3 DEF CoverInv, CountCovered
<1> QED
  BY <1>6, <1>7 DEF Acquire, SqlFunction, SetRow

LEMMA ReleaseCovers ==
    ASSUME TypeOK, CoverInv, NEW b \in Backtests, Release(b)
    PROVE  CoverInv'
<1>1. IsFiniteSet(holds) /\ holds' = holds \ {b}
  BY DEF Release, CoverInv
<1>2. IsFiniteSet(holds') /\ Cardinality(holds') \in Nat
      /\ Cardinality(holds) <= Cardinality(holds') + 1
  <2>1. IsFiniteSet(holds')
        /\ Cardinality(holds') = (IF b \in holds THEN Cardinality(holds) - 1 ELSE Cardinality(holds))
    BY <1>1, FS_RemoveElement
  <2>2. Cardinality(holds) \in Nat
    BY <1>1, FS_CardinalityType
  <2>3. Cardinality(holds') \in Nat
    BY <2>1, FS_CardinalityType
  <2> QED
    BY <2>1, <2>2, <2>3
<1>3. \A c \in holds' : backtest'[c] # "idle"
  BY DEF Release, CoverInv, TypeOK
<1>4. row.count \in Nat /\ faults["retry"] \in Nat /\ Cardinality(holds) \in Nat
  BY <1>1, FS_CardinalityType DEF TypeOK, Rows
<1>5. row.count <= Cardinality(holds) + faults["retry"]
  BY DEF CoverInv, CountCovered
<1>6. faults'["retry"] \in Nat /\ faults["retry"] <= faults'["retry"]
  BY DEF Release, SqlFunction, TypeOK
<1>7. row'.count = 0 \/ (row'.count \in Nat /\ row'.count + 1 <= row.count)
  BY <1>4, CountStep, UnlockedRow DEF Release, SqlFunction, SetRow, TypeOK
<1>8. row'.count <= Cardinality(holds') + faults'["retry"]
  BY <1>2, <1>4, <1>5, <1>6, <1>7
<1> QED
  BY <1>2, <1>3, <1>8 DEF CoverInv, CountCovered

LEMMA OthersCover ==
    ASSUME TypeOK, CoverInv, UNCHANGED holds, row'.count = row.count \/ row'.count = 0,
           faults'["retry"] = faults["retry"], \A b \in holds : backtest'[b] # "idle"
    PROVE  CoverInv'
<1>1. Cardinality(holds) \in Nat /\ faults["retry"] \in Nat
  BY FS_CardinalityType DEF CoverInv, TypeOK
<1> QED
  BY <1>1 DEF CoverInv, CountCovered

LEMMA CoverStep == TypeOK /\ CoverInv /\ [Next]_vars => CoverInv'
<1> SUFFICES ASSUME TypeOK, CoverInv, [Next]_vars PROVE CoverInv'
  OBVIOUS
<1>0. \A b \in holds : b \in Backtests /\ backtest[b] # "idle"
  BY DEF CoverInv, TypeOK
<1>1. ASSUME NEW b \in Backtests, BacktestStep(b), ~Acquire(b), ~Release(b) PROVE CoverInv'
  <2>1. row'.count = row.count
    BY <1>1 DEF BacktestStep, AcquireInvalidate, AcquireFails, Enter, HbWake, HbWrite, WriteHeartbeat,
       Finish, ReleaseInvalidate, ReleaseFails, TypeOK, Rows
  <2>2. UNCHANGED <<holds, faults>>
    BY <1>1 DEF BacktestStep, AcquireInvalidate, AcquireFails, Enter, HbWake, HbWrite, WriteHeartbeat,
       Finish, ReleaseInvalidate, ReleaseFails, env
  <2>3. \A c \in holds : backtest'[c] # "idle"
    BY <1>0, <1>1 DEF BacktestStep, AcquireInvalidate, AcquireFails, Enter, HbWake, HbWrite, Finish,
       ReleaseInvalidate, ReleaseFails, TypeOK
  <2> QED
    BY <2>1, <2>2, <2>3, OthersCover
<1>2. ASSUME NEW l \in Loops, LoopStep(l) PROVE CoverInv'
  <2>1. (UNCHANGED row \/ row' = LiveRow) /\ UNCHANGED <<backtest, holds, faults>>
    BY <1>2 DEF LoopStep, CheckRuns, CheckFailsOpen, CheckPauses, CheckAbandoned, Reset, SetRow,
       ResetFails, ResetInvalidate, EndCycle, Wake, runs, env
  <2>2. row'.count = row.count \/ row'.count = 0
    BY <2>1 DEF LiveRow
  <2>3. faults'["retry"] = faults["retry"] /\ (\A b \in holds : backtest'[b] # "idle")
    BY <1>0, <2>1
  <2> QED
    BY <2>1, <2>2, <2>3, OthersCover
<1>3. ASSUME NEW p \in Processes, PageRead(p) \/ Crash(p) PROVE CoverInv'
  <2>1. UNCHANGED <<row, holds>>
    BY <1>3 DEF PageRead, Crash, runs
  <2>3. faults'["retry"] = faults["retry"]
    <3>1. CASE PageRead(p)
      BY <3>1 DEF PageRead, env
    <3>2. CASE Crash(p)
      BY <3>2 DEF Crash, TypeOK
    <3> QED
      BY <1>3, <3>1, <3>2
  <2>2. \A b \in holds : backtest'[b] # "idle"
    BY <1>0, <1>3 DEF PageRead, Crash, runs
  <2> QED
    BY <2>1, <2>2, <2>3, OthersCover
<1>4. CASE SetMaintenance \/ DbFail \/ DbRecover \/ Tick \/ UNCHANGED vars
  <2>1. row'.count = row.count
    BY <1>4 DEF SetMaintenance, SetRow, DbFail, DbRecover, Tick, vars, TypeOK, Rows
  <2>2. UNCHANGED <<backtest, holds>>
    BY <1>4 DEF SetMaintenance, DbFail, DbRecover, Tick, vars, runs
  <2>3. faults'["retry"] = faults["retry"]
    BY <1>4 DEF SetMaintenance, DbFail, DbRecover, Tick, vars, env, TypeOK
  <2> QED
    BY <1>0, <2>1, <2>2, <2>3, OthersCover
<1> QED
  BY <1>1, <1>2, <1>3, <1>4, AcquireCovers, ReleaseCovers DEF Next

(* No count is left behind that no backtest will take down: it never exceeds the increments
   still open and the statements that took effect twice. *)
THEOREM CountIsCovered == Spec => []CountCovered
<1>1. Init => CoverInv
  BY FS_EmptySet DEF Init, CoverInv, CountCovered, LiveRow
<1>2. CoverInv => CountCovered
  BY DEF CoverInv
<1> QED
  BY <1>1, <1>2, CoverStep, TypeCorrect, PTL DEF Spec

-----------------------------------------------------------------------------
(* The order of the limits in the code, renewal 30 s, stale 300 s, cached copy 540 s, paused
   sleep 600 s, with one scan loop in a process and nobody else reading the row there. *)
OneReader ==
    /\ ~PageReads
    /\ \A l, m \in Loops : Home[l] = Home[m] => l = m
    /\ MaxDelay <= Stale /\ Ttl <= Poll

NoFaults == \A k \in DOMAIN faults : faults[k] = 0

Locking == {"locked", "entering", "running", "stopping"}

(* A loop meets a copy of a paused row only in its own sleep, and the copy has lived for as
   long as the loop has slept. *)
SleepsOnCopy(l) ==
    (cache[Home[l]] # NoRow /\ cache[Home[l]].mode # "LIVE")
       => loop[l] = "paused" /\ timer[l] + cache[Home[l]].age >= Poll

(* Without a fault the count is the number of backtests that are inside their lock, the row's
   heartbeat is young while there is one, and no watchdog fires. *)
CalmInv ==
    /\ dbUp /\ row.mode # "MAINTENANCE"
    /\ \A b \in Backtests : b \in holds <=> backtest[b] \in Locking
    /\ row.count = Cardinality(holds)
    /\ row.mode = "BACKTEST" => row.heartbeat \in 0..MaxDelay
    /\ \A l \in Loops : loop[l] \notin {"resetting", "invalidating"} /\ SleepsOnCopy(l)

PauseInv == NoFaults => CalmInv

(* A fault is never taken back: when none is counted after a step, the step counted none. *)
LEMMA FaultsStay ==
    ASSUME TypeOK, [Next]_vars, NoFaults'
    PROVE  NoFaults /\ UNCHANGED faults
<1>0. /\ DOMAIN faults = {"maintenance", "crash", "outage", "retry"}
      /\ \A k \in DOMAIN faults : faults[k] \in Nat
  BY DEF TypeOK
<1>1. ASSUME NEW k \in DOMAIN faults, faults' = [faults EXCEPT ![k] = faults[k] + 1] PROVE FALSE
  <2>1. k \in DOMAIN faults' /\ faults'[k] = faults[k] + 1
    BY <1>1
  <2> QED
    BY <1>0, <2>1 DEF NoFaults
<1>2. ASSUME NEW b \in Backtests, BacktestStep(b)
      PROVE  UNCHANGED faults \/ faults' = [faults EXCEPT !["retry"] = faults["retry"] + 1]
  BY <1>2 DEF BacktestStep, Acquire, Release, SqlFunction, AcquireInvalidate, AcquireFails, Enter,
     WriteHeartbeat, HbWake, HbWrite, Finish, ReleaseInvalidate, ReleaseFails, env
<1>3. ASSUME NEW l \in Loops, LoopStep(l) PROVE UNCHANGED faults
  BY <1>3 DEF LoopStep, CheckRuns, CheckFailsOpen, CheckPauses, CheckAbandoned, Reset,
     ResetFails, ResetInvalidate, EndCycle, Wake, env
<1>4. ASSUME NEW p \in Processes, PageRead(p) \/ Crash(p)
      PROVE  UNCHANGED faults \/ faults' = [faults EXCEPT !["crash"] = faults["crash"] + 1]
  BY <1>4 DEF PageRead, Crash, env
<1>5. CASE SetMaintenance \/ DbFail \/ DbRecover \/ Tick \/ UNCHANGED vars
  BY <1>0, <1>1, <1>5 DEF SetMaintenance, DbFail, DbRecover, Tick, vars, env, NoFaults
<1>6. UNCHANGED faults
  BY <1>0, <1>1, <1>2, <1>3, <1>4, <1>5 DEF Next
<1> QED
  BY <1>6 DEF NoFaults

(* What a backtest does without a fault. *)
LEMMA LocksCalm ==
    ASSUME TypeOK, CoverInv, ModeMatchesCount, CalmInv, NEW b \in Backtests, BacktestStep(b),
           UNCHANGED faults
    PROVE  CalmInv'
<1>0. /\ row \in Rows /\ row.count \in Nat /\ Cardinality(holds) \in Nat /\ IsFiniteSet(holds)
      /\ row.mode \in {"LIVE", "BACKTEST"} /\ 0 \in 0..MaxDelay
      /\ backtest \in [Backtests -> {"idle", "locked", "entering", "running",
                                     "stopping", "unlocked", "done", "dead"}]
  BY FS_CardinalityType, ModeAssumption DEF TypeOK, CoverInv, CalmInv, Rows, Modes
<1>1. faults # [faults EXCEPT !["retry"] = faults["retry"] + 1]
  BY DEF TypeOK
<1>2. CASE Acquire(b)
  <2>1. /\ row' = Locked(row) /\ dbUp' /\ UNCHANGED <<cache, loop, timer>>
        /\ backtest' = [backtest EXCEPT ![b] = "locked"] /\ holds' = holds \cup {b}
    BY <1>1, <1>2 DEF Acquire, SqlFunction, SetRow, loops
  <2>2. b \notin holds
    BY <1>2 DEF Acquire, CalmInv, Locking
  <2>3. Cardinality(holds') = Cardinality(holds) + 1
    BY <1>0, <2>1, <2>2, FS_AddElement
  <2>4. row'.count = Cardinality(holds') /\ row'.mode # "MAINTENANCE" /\ row'.heartbeat = 0
    BY <1>0, <2>1, <2>3 DEF Locked, CalmInv
  <2>5. \A c \in Backtests : c \in holds' <=> backtest'[c] \in Locking
    BY <1>0, <2>1 DEF CalmInv, Locking
  <2> QED
    BY <1>0, <2>1, <2>4, <2>5 DEF CalmInv, SleepsOnCopy
<1>3. CASE Release(b)
  <2>1. /\ row' = Unlocked(row) /\ dbUp' /\ UNCHANGED <<cache, loop, timer>>
        /\ backtest' = [backtest EXCEPT ![b] = "unlocked"] /\ holds' = holds \ {b}
    BY <1>1, <1>3 DEF Release, SqlFunction, SetRow, loops
  <2>2. b \in holds
    BY <1>3 DEF Release, CalmInv, Locking
  <2>3. Cardinality(holds') = Cardinality(holds) - 1
    BY <1>0, <2>1, <2>2, FS_RemoveElement
  <2>4. Cardinality(holds) # 0
    BY <1>0, <2>2, FS_EmptySet
  <2>5. /\ row'.count = Cardinality(holds') /\ row'.mode # "MAINTENANCE"
        /\ row'.heartbeat = row.heartbeat
        /\ (row'.mode = "BACKTEST" => row.mode = "BACKTEST")
    BY <1>0, <2>1, <2>3, <2>4 DEF Unlocked, CalmInv
  <2>6. \A c \in Backtests : c \in holds' <=> backtest'[c] \in Locking
    BY <1>0, <2>1 DEF CalmInv, Locking
  <2> QED
    BY <2>1, <2>5, <2>6 DEF CalmInv, SleepsOnCopy
<1>4. CASE AcquireInvalidate(b) \/ ReleaseInvalidate(b)
  <2>1. \A l \in Loops : cache'[Home[l]] = NoRow \/ cache'[Home[l]] = cache[Home[l]]
    BY <1>4, ModeAssumption DEF AcquireInvalidate, ReleaseInvalidate, Invalidate, TypeOK
  <2>2. /\ UNCHANGED <<row, holds, loop, timer, dbUp>>
        /\ \A c \in Backtests : backtest'[c] \in Locking <=> backtest[c] \in Locking
    BY <1>0, <1>4 DEF AcquireInvalidate, ReleaseInvalidate, loops, env, Locking
  <2> QED
    BY <2>1, <2>2 DEF CalmInv, SleepsOnCopy
<1>5. CASE Enter(b) \/ HbWrite(b) \/ HbWake(b) \/ Finish(b)
  <2>1. \/ UNCHANGED row
        \/ row'.count = row.count /\ row'.mode = row.mode /\ row'.heartbeat = 0
    BY <1>0, <1>5 DEF Enter, HbWrite, WriteHeartbeat, HbWake, Finish, Rows
  <2>2. /\ UNCHANGED <<cache, holds, loop, timer, dbUp>>
        /\ \A c \in Backtests : backtest'[c] \in Locking <=> backtest[c] \in Locking
    BY <1>0, <1>5 DEF Enter, HbWrite, WriteHeartbeat, HbWake, Finish, loops, env, Locking
  <2> QED
    BY <1>0, <2>1, <2>2 DEF CalmInv, SleepsOnCopy
<1>6. CASE AcquireFails(b) \/ ReleaseFails(b)
  BY <1>6 DEF AcquireFails, ReleaseFails, CalmInv
<1> QED
  BY <1>2, <1>3, <1>4, <1>5, <1>6 DEF BacktestStep

(* A loop at its boundary has no copy of a paused row: what it finds paused it has just read,
   and the heartbeat it has just read is young. *)
LEMMA JudgesFresh ==
    ASSUME OneReader, TypeOK, ModeMatchesCount, CalmInv, NEW l \in Loops, loop[l] = "boundary",
           View(Home[l]).mode # "LIVE"
    PROVE  cache[Home[l]] = NoRow /\ ~Abandoned(View(Home[l]))
<1>1. cache[Home[l]] = NoRow
  BY DEF CalmInv, SleepsOnCopy, View
<1>2. row.mode = "BACKTEST" /\ row.heartbeat \in 0..MaxDelay
  BY <1>1 DEF CalmInv, View, Fresh, TypeOK, Rows, Modes
<1>3. View(Home[l]).heartbeat = row.heartbeat
  BY <1>1 DEF View, Fresh
<1>4. row.heartbeat # NoTime /\ row.heartbeat # Stale + 1
  BY <1>2, ModeAssumption DEF OneReader
<1> QED
  BY <1>1, <1>3, <1>4 DEF Abandoned

(* What a loop does without a fault. *)
LEMMA LoopsCalm ==
    ASSUME OneReader, TypeOK, ModeMatchesCount, CalmInv, NEW l \in Loops, LoopStep(l)
    PROVE  CalmInv'
<1>0. Home[l] \in Processes /\ (\A m \in Loops \ {l} : Home[m] # Home[l] /\ Home[m] \in Processes)
      /\ loop[l] \notin {"resetting", "invalidating"} /\ dbUp
  BY ModeAssumption DEF OneReader, CalmInv
<1>1. UNCHANGED <<row, holds, backtest, dbUp>> /\ loop'[l] \notin {"resetting", "invalidating"}
      /\ (\A m \in Loops \ {l} : loop'[m] = loop[m] /\ timer'[m] = timer[m])
  BY <1>0, JudgesFresh DEF LoopStep, CheckRuns, CheckFailsOpen, CheckPauses, CheckAbandoned, Reset,
     ResetFails, ResetInvalidate, EndCycle, Wake, runs, env, TypeOK
<1>2. \A m \in Loops \ {l} : cache'[Home[m]] = cache[Home[m]]
  BY <1>0 DEF LoopStep, CheckRuns, CheckFailsOpen, CheckPauses, CheckAbandoned, Reset,
     ResetFails, ResetInvalidate, EndCycle, Wake, Fill, Invalidate, TypeOK
<1>3. SleepsOnCopy(l)'
  <2>1. CASE CheckRuns(l)
    BY <1>0, <2>1 DEF CheckRuns, Fill, TypeOK, SleepsOnCopy
  <2>2. CASE CheckPauses(l)
    <3>1. cache'[Home[l]] = Fresh
      BY <1>0, <2>2, JudgesFresh DEF CheckPauses, Fill, View, TypeOK
    <3>2. loop'[l] = "paused" /\ timer'[l] = Poll
      BY <2>2 DEF CheckPauses, TypeOK
    <3> QED
      BY <3>1, <3>2, ModeAssumption DEF Fresh, SleepsOnCopy
  <2>3. CASE Wake(l)
    <3>1. cache[Home[l]] = NoRow \/ cache[Home[l]].mode = "LIVE"
      <4>1. SUFFICES ASSUME cache[Home[l]] # NoRow, cache[Home[l]].mode # "LIVE" PROVE FALSE
        OBVIOUS
      <4>2. timer[l] = 0 /\ timer[l] + cache[Home[l]].age >= Poll
        BY <2>3, <4>1 DEF Wake, CalmInv, SleepsOnCopy
      <4>3. cache[Home[l]].age \in 0..(Ttl - 1)
        BY <1>0, <4>1 DEF TypeOK, Cached
      <4> QED
        BY <4>2, <4>3, ModeAssumption DEF OneReader
    <3> QED
      BY <2>3, <3>1 DEF Wake, SleepsOnCopy
  <2>4. CASE EndCycle(l)
    BY <2>4 DEF EndCycle, CalmInv, SleepsOnCopy
  <2>5. ~(CheckFailsOpen(l) \/ CheckAbandoned(l) \/ Reset(l) \/ ResetFails(l) \/ ResetInvalidate(l))
    BY <1>0, JudgesFresh DEF CheckFailsOpen, CheckAbandoned, Reset, ResetFails, ResetInvalidate
  <2> QED
    BY <2>1, <2>2, <2>3, <2>4, <2>5 DEF LoopStep
<1>4. \A m \in Loops \ {l} : SleepsOnCopy(m)'
  BY <1>1, <1>2 DEF CalmInv, SleepsOnCopy
<1>5. \A m \in Loops : loop'[m] \notin {"resetting", "invalidating"} /\ SleepsOnCopy(m)'
  BY <1>1, <1>3, <1>4 DEF CalmInv
<1> QED
  BY <1>1, <1>5 DEF CalmInv

(* A tick takes from a sleep what it adds to the age of the copy, and does not come while the
   heartbeat of a locked row is due. *)
LEMMA TicksCalm ==
    ASSUME OneReader, TypeOK, ModeMatchesCount, CoverInv, CalmInv, Tick
    PROVE  CalmInv'
<1>1. /\ UNCHANGED <<holds, backtest, dbUp, loop>>
      /\ row'.mode = row.mode /\ row'.count = row.count /\ row'.heartbeat = Older(row.heartbeat)
  BY DEF Tick, runs, env, TypeOK, Rows
<1>2. ASSUME row.mode = "BACKTEST" PROVE row'.heartbeat \in 0..MaxDelay
  <2>1. \E b \in Backtests : backtest[b] \in Locking
    <3>1. holds # {}
      BY <1>2, FS_EmptySet DEF CalmInv, ModeMatchesCount
    <3> QED
      BY <3>1 DEF CalmInv, TypeOK
  <2>2. row.heartbeat \in 0..(MaxDelay - 1)
    BY <2>1 DEF Tick, HeartbeatDue, CalmInv, Locking
  <2> QED
    BY <1>1, <2>2, ModeAssumption DEF Older, OneReader
<1>3. ASSUME NEW l \in Loops PROVE SleepsOnCopy(l)'
  <2>1. SUFFICES ASSUME cache'[Home[l]] # NoRow, cache'[Home[l]].mode # "LIVE"
                 PROVE  loop'[l] = "paused" /\ timer'[l] + cache'[Home[l]].age >= Poll
    BY DEF SleepsOnCopy
  <2>2. Home[l] \in Processes /\ cache'[Home[l]] = OlderCache(cache[Home[l]])
    BY ModeAssumption DEF Tick
  <2>3. cache[Home[l]] \in Cached /\ cache[Home[l]] # NoRow
    BY <2>1, <2>2 DEF OlderCache, TypeOK
  <2>4. cache'[Home[l]].mode = cache[Home[l]].mode /\ cache'[Home[l]].age = cache[Home[l]].age + 1
    BY <2>1, <2>2, <2>3 DEF OlderCache, Cached
  <2>5. loop[l] = "paused" /\ timer[l] + cache[Home[l]].age >= Poll
    BY <2>1, <2>3, <2>4 DEF CalmInv, SleepsOnCopy
  <2>6. timer[l] \in Nat /\ cache[Home[l]].age \in Nat
        /\ timer'[l] = (IF timer[l] > 0 THEN timer[l] - 1 ELSE 0)
    BY <2>3, ModeAssumption DEF Tick, TypeOK, Cached
  <2> QED
    BY <1>1, <2>4, <2>5, <2>6, ModeAssumption
<1> QED
  BY <1>1, <1>2, <1>3 DEF CalmInv

LEMMA PauseStep ==
    ASSUME OneReader
    PROVE  TypeOK /\ CoverInv /\ ModeMatchesCount /\ PauseInv /\ [Next]_vars => PauseInv'
<1> SUFFICES ASSUME TypeOK, CoverInv, ModeMatchesCount, PauseInv, [Next]_vars, NoFaults'
             PROVE  CalmInv'
  BY DEF PauseInv
<1>1. NoFaults /\ UNCHANGED faults /\ CalmInv
  BY FaultsStay DEF PauseInv
<1>2. ASSUME NEW p \in Processes, PageRead(p) \/ Crash(p) PROVE FALSE
  BY <1>1, <1>2 DEF PageRead, Crash, OneReader, TypeOK
<1>3. ~(SetMaintenance \/ DbFail \/ DbRecover)
  <2>1. \A k \in {"maintenance", "outage"} :
           faults[k] \in Nat /\ faults' # [faults EXCEPT ![k] = faults[k] + 1]
    BY <1>1 DEF TypeOK
  <2> QED
    BY <1>1, <2>1 DEF SetMaintenance, DbFail, DbRecover, CalmInv
<1>4. CASE UNCHANGED vars
  BY <1>1, <1>4 DEF vars, CalmInv, SleepsOnCopy
<1> QED
  BY <1>1, <1>2, <1>3, <1>4, LocksCalm, LoopsCalm, TicksCalm DEF Next

(* Two concurrent backtests must both finish before the scheduler resumes: with one scan loop
   in a process, the code's order of the limits and no fault, the row is not LIVE while a
   backtest that took the lock runs, for any number of backtests, processes and loops. *)
THEOREM PauseLasts ==
    ASSUME OneReader
    PROVE  Spec => []PausedWhileRunning
<1>1. Init => PauseInv
  BY FS_EmptySet, ModeAssumption DEF Init, PauseInv, CalmInv, SleepsOnCopy, LiveRow, Locking
<1>2. TypeOK /\ CoverInv /\ ModeMatchesCount /\ PauseInv => PausedWhileRunning
  <2> SUFFICES ASSUME TypeOK, CoverInv, ModeMatchesCount, PauseInv, NoFaults,
                      NEW b \in Backtests, b \in holds
               PROVE  row.mode # "LIVE"
    BY DEF PausedWhileRunning, RunningBacktestPauses, NoFaults
  <2>1. row.count = Cardinality(holds) /\ IsFiniteSet(holds)
    BY DEF PauseInv, CalmInv, CoverInv
  <2>2. Cardinality(holds) # 0
    BY <2>1, FS_EmptySet
  <2> QED
    BY <2>1, <2>2 DEF ModeMatchesCount
<1>3. Init => CoverInv
  BY FS_EmptySet DEF Init, CoverInv, CountCovered, LiveRow
<1> QED
  BY <1>1, <1>2, <1>3, PauseStep, CoverStep, TypeCorrect, ModeTracksCount, PTL DEF Spec
=============================================================================
