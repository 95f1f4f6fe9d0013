---------------------------- MODULE SchedulerLock ----------------------------
(***************************************************************************)
(* The scheduler-ownership lock of utils/system_state.py and the two kinds *)
(* of process that compete for it: scheduler/scan_worker.py's main(), a    *)
(* standalone process a supervisor restarts, and the in-process fallback   *)
(* of utils/inprocess_scheduler.py, which lives as long as the web app.    *)
(*                                                                         *)
(* Each process draws a fresh owner id when it starts, so an owner id is   *)
(* one incarnation of a process: a restart is another id of Owners leaving *)
(* "off".  Time is counted in renewal intervals (20 s of the code), and    *)
(* the row's timestamp is kept as its age, which stops growing once it is  *)
(* stale, so the model needs no clock.                                     *)
(***************************************************************************)
EXTENDS Integers

CONSTANTS
    Owners,       \* owner ids: incarnations of processes
    Standalone,   \* those that run scan_worker.main(); the others run in the web app
    NoOwner,      \* SQL NULL of scheduler_owner
    NoHeartbeat,  \* SQL NULL of scheduler_owner_heartbeat_at
    Stale,        \* _SCHEDULER_HEARTBEAT_STALE_AFTER_SECS, in intervals
    MaxDelay,     \* how old a live owner's heartbeat can get while it may renew:
                  \* > Stale when processes can be paused (GC, debugger, swap)
    GateEnabled,  \* the market-hours gate setting
    MaxOutages    \* bound: how many times the database becomes unreachable

ASSUME LockAssumption ==
    /\ Standalone \subseteq Owners
    /\ NoOwner \notin Owners
    /\ Stale \in Nat \ {0}
    /\ MaxDelay \in Nat \ {0}
    /\ NoHeartbeat \notin 0..(Stale + 1)
    /\ GateEnabled \in BOOLEAN
    /\ MaxOutages \in Nat

VARIABLES
    owner,        \* the row: scheduler_owner
    heartbeatAge, \* the row: now() - scheduler_owner_heartbeat_at, cut off at Stale + 1
    phase,        \* per owner id: where its main or launcher thread stands
    hb,           \* per owner id: SchedulerHeartbeatThread
    lost,         \* per owner id: the lost_ownership event
    loop,         \* per owner id: its scan loop threads, taken together
    marketOpen,   \* is_market_hours_ist()
    dbUp,         \* the database answers
    outages,      \* outages so far
    calm          \* so far the gate was never closed, the database never down and
                  \* no live owner's heartbeat stale; no action depends on it

row == <<owner, heartbeatAge>>
env == <<marketOpen, dbUp, outages, calm>>
vars == <<owner, heartbeatAge, phase, hb, lost, loop, marketOpen, dbUp, outages, calm>>

Ages == 0..(Stale + 1)

TypeOK ==
    /\ owner \in Owners \cup {NoOwner}
    /\ heartbeatAge \in Ages \cup {NoHeartbeat}
    /\ phase \in [Owners -> {"off", "starting", "waiting", "running", "stopping", "released", "exited"}]
    /\ hb \in [Owners -> {"none", "sleeping", "renewing", "ended"}]
    /\ lost \in [Owners -> BOOLEAN]
    /\ loop \in [Owners -> {"none", "boundary", "computing", "returned"}]
    /\ marketOpen \in BOOLEAN
    /\ dbUp \in BOOLEAN
    /\ outages \in 0..MaxOutages
    /\ calm \in BOOLEAN

Init ==
    /\ owner = NoOwner
    /\ heartbeatAge = NoHeartbeat
    /\ phase = [p \in Owners |-> "off"]
    /\ hb = [p \in Owners |-> "none"]
    /\ lost = [p \in Owners |-> FALSE]
    /\ loop = [p \in Owners |-> "none"]
    /\ marketOpen \in BOOLEAN /\ (~GateEnabled => marketOpen)
    /\ dbUp = TRUE
    /\ outages = 0
    /\ calm = (GateEnabled => marketOpen)

-----------------------------------------------------------------------------
(* The process whose main or launcher thread is in one of these phases is   *)
(* alive: its daemon threads run until the process exits.                   *)
Alive(p) == phase[p] \notin {"off", "exited"}

(* acquire_scheduler_lock_blocking is in its loop: "waiting" once it has been
   refused and has logged that it waits. *)
Acquiring(p) == phase[p] \in {"starting", "waiting"}

(* _scheduler_heartbeat_gate_open(), and the same test at the head of
   should_scheduler_run(). *)
GateOpen == GateEnabled => marketOpen

(* Faults for Claimable: a takeover one interval early, and none at all. *)
ClaimableEarly(p) == owner \in {NoOwner, p} \/ heartbeatAge \notin 0..(Stale - 1)
ClaimableNeverStale(p) == owner \in {NoOwner, p}

(* The WHERE clause of try_acquire_scheduler_lock. *)
Claimable(p) ==
    \/ owner \in {NoOwner, p}
    \/ heartbeatAge \notin 0..Stale      \* NULL, or older than p_stale_secs

-----------------------------------------------------------------------------
(* make_scheduler_owner_id() and the call of acquire_scheduler_lock_blocking(). *)
Start(p) ==
    /\ phase[p] = "off"
    /\ phase' = [phase EXCEPT ![p] = "starting"]
    /\ UNCHANGED <<row, hb, lost, loop, env>>

(* The acquire returned True: the heartbeat thread and the loops start. *)
Launch(p) ==
    /\ phase' = [phase EXCEPT ![p] = "running"]
    /\ hb' = [hb EXCEPT ![p] = "sleeping"]
    /\ loop' = [loop EXCEPT ![p] = "boundary"]

TryAcquire(p) ==
    /\ Acquiring(p)
    /\ dbUp
    /\ Claimable(p)
    /\ owner' = p
    /\ heartbeatAge' = 0
    /\ Launch(p)
    /\ UNCHANGED <<lost, env>>

TryAcquireRefused(p) ==
    /\ phase[p] = "starting"
    /\ dbUp
    /\ ~Claimable(p)
    /\ phase' = [phase EXCEPT ![p] = "waiting"]
    /\ UNCHANGED <<row, hb, lost, loop, env>>

(* Fails open: no row is written, and the process believes it owns the lock. *)
TryAcquireFailsOpen(p) ==
    /\ Acquiring(p)
    /\ ~dbUp
    /\ Launch(p)
    /\ UNCHANGED <<row, lost, env>>

-----------------------------------------------------------------------------
(* SchedulerHeartbeatThread.run: one wake-up.  Outside the gate it goes back
   to sleep without touching the row, which is a stuttering step. *)
HbWake(p) ==
    /\ Alive(p)
    /\ hb[p] = "sleeping"
    /\ IF phase[p] = "running"
         THEN GateOpen /\ hb' = [hb EXCEPT ![p] = "renewing"]
         ELSE hb' = [hb EXCEPT ![p] = "ended"]
    /\ UNCHANGED <<row, phase, lost, loop, env>>

HbRenew(p) ==
    /\ Alive(p)
    /\ hb[p] = "renewing"
    /\ dbUp
    /\ owner = p
    /\ heartbeatAge' = 0
    /\ hb' = [hb EXCEPT ![p] = "sleeping"]
    /\ UNCHANGED <<owner, phase, lost, loop, env>>

HbRenewFailsOpen(p) ==
    /\ Alive(p)
    /\ hb[p] = "renewing"
    /\ ~dbUp
    /\ hb' = [hb EXCEPT ![p] = "sleeping"]
    /\ UNCHANGED <<row, phase, lost, loop, env>>

(* Fault: the thread returns without setting the event. *)
HbRejectedSilently(p) ==
    /\ Alive(p)
    /\ hb[p] = "renewing"
    /\ dbUp
    /\ owner # p
    /\ hb' = [hb EXCEPT ![p] = "ended"]
    /\ UNCHANGED <<row, phase, lost, loop, env>>

(* The renewal updated no row: the thread sets lost_ownership and returns. *)
HbRejected(p) ==
    /\ Alive(p)
    /\ hb[p] = "renewing"
    /\ dbUp
    /\ owner # p
    /\ lost' = [lost EXCEPT ![p] = TRUE]
    /\ hb' = [hb EXCEPT ![p] = "ended"]
    /\ UNCHANGED <<row, phase, loop, env>>

-----------------------------------------------------------------------------
(* The loop threads: _run_loop, and _run_live_scanner_loop, whose batches
   make the same two tests a cycle of _run_loop makes. *)
LoopBegin(p) ==
    /\ Alive(p)
    /\ loop[p] = "boundary"
    /\ ~lost[p]
    /\ GateOpen
    /\ loop' = [loop EXCEPT ![p] = "computing"]
    /\ UNCHANGED <<row, phase, hb, lost, env>>

(* The computation ends in save_snapshot whatever happened to the lock. *)
LoopSave(p) ==
    /\ Alive(p)
    /\ loop[p] = "computing"
    /\ loop' = [loop EXCEPT ![p] = "boundary"]
    /\ UNCHANGED <<row, phase, hb, lost, env>>

LoopReturn(p) ==
    /\ Alive(p)
    /\ loop[p] = "boundary"
    /\ lost[p]
    /\ loop' = [loop EXCEPT ![p] = "returned"]
    /\ UNCHANGED <<row, phase, hb, lost, env>>

-----------------------------------------------------------------------------
(* scan_worker.main() leaves its loop, on lost_ownership or on an interrupt,
   and enters its finally block: hb_thread.stop(). *)
Leave(p) ==
    /\ p \in Standalone
    /\ phase[p] = "running"
    /\ phase' = [phase EXCEPT ![p] = "stopping"]
    /\ UNCHANGED <<row, hb, lost, loop, env>>

(* Fault: the release clears the row whoever owns it. *)
ReleaseAnyone(p) ==
    /\ phase[p] = "stopping"
    /\ phase' = [phase EXCEPT ![p] = "released"]
    /\ owner' = NoOwner /\ heartbeatAge' = NoHeartbeat
    /\ UNCHANGED <<hb, lost, loop, env>>

(* release_scheduler_lock: only a row that still names p is cleared, and an
   unreachable database is shrugged off.  The daemon threads are still there. *)
Release(p) ==
    /\ phase[p] = "stopping"
    /\ phase' = [phase EXCEPT ![p] = "released"]
    /\ IF dbUp /\ owner = p
         THEN owner' = NoOwner /\ heartbeatAge' = NoHeartbeat
         ELSE UNCHANGED row
    /\ UNCHANGED <<hb, lost, loop, env>>

(* The process is gone, and its threads and events with it. *)
Gone(p) ==
    /\ phase' = [phase EXCEPT ![p] = "exited"]
    /\ hb' = [hb EXCEPT ![p] = "none"]
    /\ lost' = [lost EXCEPT ![p] = FALSE]
    /\ loop' = [loop EXCEPT ![p] = "none"]
    /\ UNCHANGED <<row, env>>

Exit(p) == phase[p] = "released" /\ Gone(p)

(* A kill, an out-of-memory stop or a redeploy: no finally block runs. *)
Crash(p) == Alive(p) /\ Gone(p)

-----------------------------------------------------------------------------
(* What the environment does to the conditions of mutual exclusion. *)
OwnerRunning == owner # NoOwner /\ phase[owner] = "running"

StaysCalm ==
    calm' = (calm /\ GateOpen' /\ dbUp' /\ (OwnerRunning => heartbeatAge' <= Stale))

(* A live owner that may renew does so before its heartbeat is MaxDelay old. *)
RenewalDue ==
    /\ OwnerRunning
    /\ GateOpen
    /\ dbUp
    /\ heartbeatAge >= MaxDelay

(* Fault: the age of a stale timestamp is not cut off. *)
TickUncut ==
    /\ owner # NoOwner
    /\ heartbeatAge' = heartbeatAge + 1
    /\ UNCHANGED <<owner, phase, hb, lost, loop, env>>

Tick ==
    /\ heartbeatAge \in 0..Stale
    /\ ~RenewalDue
    /\ heartbeatAge' = heartbeatAge + 1
    /\ UNCHANGED <<owner, phase, hb, lost, loop, marketOpen, dbUp, outages>>
    /\ StaysCalm

MarketFlip ==
    /\ GateEnabled
    /\ marketOpen' = ~marketOpen
    /\ UNCHANGED <<row, phase, hb, lost, loop, dbUp, outages>>
    /\ StaysCalm

DbFail ==
    /\ dbUp
    /\ outages < MaxOutages
    /\ dbUp' = FALSE
    /\ outages' = outages + 1
    /\ UNCHANGED <<row, phase, hb, lost, loop, marketOpen>>
    /\ StaysCalm

DbRecover ==
    /\ ~dbUp
    /\ dbUp' = TRUE
    /\ UNCHANGED <<row, phase, hb, lost, loop, marketOpen, outages>>
    /\ StaysCalm

Process(p) ==
    \/ Start(p) \/ TryAcquire(p) \/ TryAcquireRefused(p) \/ TryAcquireFailsOpen(p)
    \/ HbWake(p) \/ HbRenew(p) \/ HbRenewFailsOpen(p) \/ HbRejected(p)
    \/ LoopBegin(p) \/ LoopSave(p) \/ LoopReturn(p)
    \/ Leave(p) \/ Release(p) \/ Exit(p) \/ Crash(p)

Next ==
    \/ \E p \in Owners : Process(p)
    \/ Tick \/ MarketFlip \/ DbFail \/ DbRecover

Spec == Init /\ [][Next]_vars

(***************************************************************************)
(* Fairness.  Every thread is an endless loop with bounded sleeps, so each *)
(* of its steps that stays possible is taken.  The heartbeat thread's      *)
(* wake-up is possible again every session, and a session is three orders  *)
(* of magnitude longer than its 20 s sleep: strong fairness.  The same     *)
(* holds of the acquire poll (30 s) against an outage, and of the renewal. *)
(* Nothing makes a process start, crash or leave except losing the lock.   *)
(***************************************************************************)
Fairness ==
    /\ WF_vars(Tick) /\ WF_vars(MarketFlip) /\ WF_vars(DbRecover)
    /\ \A p \in Owners :
          /\ SF_vars(TryAcquire(p)) /\ SF_vars(TryAcquireRefused(p)) /\ SF_vars(HbWake(p))
          /\ WF_vars(HbRenew(p) \/ HbRenewFailsOpen(p) \/ HbRejected(p))
          /\ SF_vars(LoopBegin(p)) /\ WF_vars(LoopSave(p)) /\ WF_vars(LoopReturn(p))
          /\ WF_vars(lost[p] /\ Leave(p)) /\ WF_vars(Release(p)) /\ WF_vars(Exit(p))

FairSpec == Spec /\ Fairness
-----------------------------------------------------------------------------
(* The row, written by processes that may be paused, blind or on their way
   out, implements the lease: a claim passes on only after it was handed back
   or has been silent for Stale intervals. *)
Lease == INSTANCE SchedulerLease WITH
            holder <- owner,
            expired <- heartbeatAge = Stale + 1

LeaseSpec == Lease!Spec

(* Which process acts matters too: p's claim ends only by p's own release or
   once it is stale, and is extended only by p's own heartbeat thread.  An
   owner that already lost the lock cannot clear or renew a newer owner's
   claim on its way out (release_ and renew_scheduler_...). *)
ClaimKept ==
    [][\A p \in Owners : owner = p =>
          /\ owner' # p => \/ heartbeatAge \notin 0..Stale
                           \/ phase[p] = "stopping" /\ phase'[p] = "released"
          /\ (owner' = p /\ heartbeatAge > heartbeatAge')
                        => hb[p] = "renewing" \/ Acquiring(p)]_vars

(* "At most one process ever runs the scan loops": as long as the gate has been
   open, the database up and no live owner late beyond the limit, no two
   processes are past the acquire and before their shutdown at the same time,
   whatever starts, crashes, leaves and takes over. *)
ExclusiveScanning ==
    calm => \A p, q \in Owners : phase[p] = "running" /\ phase[q] = "running" => p = q

(* A process that scans without owning the row stops scanning: its next
   renewal is refused, its loops see lost_ownership and return, and no
   fail-open renewal, closed market or later owner keeps it alive for good. *)
DoubleScanEnds ==
    \A p \in Owners :
        (phase[p] = "running" /\ owner # p)
            ~> (loop[p] = "returned" \/ phase[p] = "exited")

(* A claim left behind by a process that died, or that never existed, does
   not keep a waiting process out: it gets the lock or a live owner has it. *)
OrphanTakenOver ==
    \A p \in Owners :
        (Acquiring(p) /\ (owner = NoOwner \/ ~Alive(owner)))
            ~> (~Acquiring(p) \/ (owner # NoOwner /\ Alive(owner)))
=============================================================================
