------------------------- MODULE SchedulerLockProofs -------------------------
(***************************************************************************)
(* Theorems about SchedulerLock for any set of owner ids, any staleness    *)
(* limit and any renewal delay.                                            *)
(***************************************************************************)
EXTENDS SchedulerLock, TLAPS

(* Every action of the lock keeps every variable in its type. *)
THEOREM TypeCorrect == Spec => []TypeOK
<1>1. Init => TypeOK
  BY LockAssumption DEF Init, TypeOK, Ages
<1>2. TypeOK /\ [Next]_vars => TypeOK'
  <2> SUFFICES ASSUME TypeOK, [Next]_vars PROVE TypeOK'
    OBVIOUS
  <2> USE LockAssumption DEF TypeOK, Ages, row, env
  <2>1. ASSUME NEW p \in Owners, Start(p) PROVE TypeOK'
    BY <2>1 DEF Start
  <2>2. ASSUME NEW p \in Owners, TryAcquire(p) PROVE TypeOK'
    BY <2>2 DEF TryAcquire, Launch
  <2>3. ASSUME NEW p \in Owners, TryAcquireRefused(p) \/ TryAcquireFailsOpen(p) PROVE TypeOK'
    BY <2>3 DEF TryAcquireRefused, TryAcquireFailsOpen, Launch
  <2>4. ASSUME NEW p \in Owners, HbWake(p) \/ HbRenewFailsOpen(p) \/ HbRejected(p) PROVE TypeOK'
    BY <2>4 DEF HbWake, HbRenewFailsOpen, HbRejected
  <2>5. ASSUME NEW p \in Owners, HbRenew(p) PROVE TypeOK'
    BY <2>5 DEF HbRenew
  <2>6. ASSUME NEW p \in Owners, LoopBegin(p) \/ LoopSave(p) \/ LoopReturn(p) PROVE TypeOK'
    BY <2>6 DEF LoopBegin, LoopSave, LoopReturn
  <2>7. ASSUME NEW p \in Owners, Leave(p) \/ Release(p) PROVE TypeOK'
    BY <2>7 DEF Leave, Release
  <2>8. ASSUME NEW p \in Owners, Exit(p) \/ Crash(p) PROVE TypeOK'
    BY <2>8 DEF Exit, Crash, Gone
  <2>0. ASSUME StaysCalm PROVE calm' \in BOOLEAN
    BY <2>0, Zenon DEF StaysCalm
  <2>9. CASE Tick
    <3>1. heartbeatAge' \in Ages \cup {NoHeartbeat} /\ calm' \in BOOLEAN
      BY <2>0, <2>9 DEF Tick
    <3> QED
      BY <2>9, <3>1 DEF Tick
  <2>10. CASE MarketFlip
    <3>1. marketOpen' \in BOOLEAN
      BY <2>10, Zenon DEF MarketFlip
    <3>2. calm' \in BOOLEAN
      BY <2>0, <2>10, Zenon DEF MarketFlip
    <3> QED
      BY <2>10, <3>1, <3>2 DEF MarketFlip
  <2>11. CASE DbFail
    <3>1. outages' \in 0..MaxOutages
      BY <2>11 DEF DbFail
    <3>2. UNCHANGED <<owner, heartbeatAge, phase, hb, lost, loop, marketOpen>> /\ dbUp' = FALSE
      BY <2>11 DEF DbFail
    <3>3. calm' \in BOOLEAN
      BY <2>0, <2>11, Zenon DEF DbFail
    <3> QED
      BY <3>1, <3>2, <3>3
  <2>12. CASE DbRecover
    <3>1. UNCHANGED <<owner, heartbeatAge, phase, hb, lost, loop, marketOpen, outages>>
          /\ dbUp' = TRUE
      BY <2>12 DEF DbRecover
    <3>2. calm' \in BOOLEAN
      BY <2>0, <2>12, Zenon DEF DbRecover
    <3> QED
      BY <3>1, <3>2
  <2>13. CASE UNCHANGED vars
    BY <2>13 DEF vars
  <2> QED
    BY <2>1, <2>2, <2>3, <2>4, <2>5, <2>6, <2>7, <2>8, <2>9, <2>10, <2>11, <2>12, <2>13
    DEF Next, Process
<1> QED
  BY <1>1, <1>2, PTL DEF Spec

-----------------------------------------------------------------------------
(* As long as it has been calm, a running process owns the row and its
   heartbeat is not stale.  Exclusion alone is not inductive: it does not say
   which row a running process has, so a second process could take the lock. *)
RunningOwnsFreshRow ==
    \A p \in Owners : phase[p] = "running" => owner = p /\ heartbeatAge \in 0..Stale

CalmInv == calm => dbUp /\ RunningOwnsFreshRow

(* As long as the gate has been open, the database up and no live owner
   silent past the staleness limit, at most one process runs the scan loops,
   for any owner ids and limits, whatever starts, crashes, leaves and takes
   over. *)
THEOREM Exclusion == Spec => []ExclusiveScanning
<1> USE LockAssumption
<1>1. Init => CalmInv
  BY DEF Init, CalmInv, RunningOwnsFreshRow
<1>2. TypeOK /\ TypeOK' /\ CalmInv /\ [Next]_vars => CalmInv'
  <2> SUFFICES ASSUME TypeOK, TypeOK', CalmInv, [Next]_vars, calm'
               PROVE  dbUp' /\ RunningOwnsFreshRow'
    BY DEF CalmInv
  <2> USE DEF TypeOK, Ages, row, env, RunningOwnsFreshRow
  <2>0. calm /\ dbUp /\ RunningOwnsFreshRow
    <3>1. CASE UNCHANGED calm
      BY <3>1 DEF CalmInv
    <3>2. CASE StaysCalm
      BY <3>2, Zenon DEF StaysCalm, CalmInv
    <3>3. UNCHANGED calm \/ StaysCalm
      <4>1. ASSUME NEW p \in Owners, Process(p) PROVE UNCHANGED env
        BY <4>1 DEF Process, Start, TryAcquire, TryAcquireRefused, TryAcquireFailsOpen, HbWake,
           HbRenew, HbRenewFailsOpen, HbRejected, LoopBegin, LoopSave, LoopReturn, Leave,
           Release, Exit, Crash, Gone
      <4> QED
        BY <4>1 DEF Next, vars, Tick, MarketFlip, DbFail, DbRecover
    <3> QED
      BY <3>1, <3>2, <3>3
  <2>1. ASSUME NEW p \in Owners, Start(p) PROVE dbUp' /\ RunningOwnsFreshRow'
    BY <2>0, <2>1 DEF Start
  <2>2. ASSUME NEW p \in Owners, TryAcquire(p) PROVE dbUp' /\ RunningOwnsFreshRow'
    <3>1. \A q \in Owners : phase[q] = "running" => q = p
      BY <2>0, <2>2 DEF TryAcquire, Claimable
    <3> QED
      BY <2>0, <2>2, <3>1 DEF TryAcquire, Launch
  <2>3. ASSUME NEW p \in Owners, TryAcquireRefused(p) \/ TryAcquireFailsOpen(p)
        PROVE  dbUp' /\ RunningOwnsFreshRow'
    BY <2>0, <2>3 DEF TryAcquireRefused, TryAcquireFailsOpen
  <2>4. ASSUME NEW p \in Owners, HbWake(p) \/ HbRenewFailsOpen(p) \/ HbRejected(p)
        PROVE  dbUp' /\ RunningOwnsFreshRow'
    BY <2>0, <2>4 DEF HbWake, HbRenewFailsOpen, HbRejected
  <2>5. ASSUME NEW p \in Owners, HbRenew(p) PROVE dbUp' /\ RunningOwnsFreshRow'
    BY <2>0, <2>5 DEF HbRenew
  <2>6. ASSUME NEW p \in Owners, LoopBegin(p) \/ LoopSave(p) \/ LoopReturn(p)
        PROVE  dbUp' /\ RunningOwnsFreshRow'
    BY <2>0, <2>6 DEF LoopBegin, LoopSave, LoopReturn
  <2>7. ASSUME NEW p \in Owners, Leave(p) PROVE dbUp' /\ RunningOwnsFreshRow'
    BY <2>0, <2>7 DEF Leave
  <2>8. ASSUME NEW p \in Owners, Release(p) PROVE dbUp' /\ RunningOwnsFreshRow'
    <3>1. CASE owner = p
      BY <2>0, <2>8, <3>1 DEF Release
    <3>2. CASE owner # p
      BY <2>0, <2>8, <3>2 DEF Release
    <3> QED
      BY <3>1, <3>2
  <2>9. ASSUME NEW p \in Owners, Exit(p) \/ Crash(p) PROVE dbUp' /\ RunningOwnsFreshRow'
    <3>1. Gone(p)
      BY <2>0, <2>9 DEF Exit, Crash
    <3>2. \A q \in Owners : phase'[q] = "running" => phase[q] = "running"
      BY <3>1 DEF Gone
    <3> QED
      BY <2>0, <3>1, <3>2 DEF Gone
  <2>10. CASE Tick
    <3>1. dbUp' /\ UNCHANGED <<owner, phase>> /\ heartbeatAge' = heartbeatAge + 1
      BY <2>0, <2>10 DEF Tick
    <3>2. OwnerRunning => heartbeatAge' <= Stale
      BY <2>10, Zenon DEF Tick, StaysCalm
    <3> QED
      BY <2>0, <3>1, <3>2 DEF OwnerRunning
  <2>11. CASE MarketFlip \/ DbFail \/ DbRecover
    <3>1. UNCHANGED <<owner, heartbeatAge, phase>>
      BY <2>11 DEF MarketFlip, DbFail, DbRecover
    <3>2. dbUp'
      BY <2>11, Zenon DEF MarketFlip, DbFail, DbRecover, StaysCalm
    <3> QED
      BY <2>0, <3>1, <3>2
  <2>12. CASE UNCHANGED vars
    BY <2>0, <2>12 DEF vars
  <2> QED
    BY <2>1, <2>2, <2>3, <2>4, <2>5, <2>6, <2>7, <2>8, <2>9, <2>10, <2>11, <2>12
    DEF Next, Process
<1>3. TypeOK /\ CalmInv => ExclusiveScanning
  BY DEF CalmInv, RunningOwnsFreshRow, ExclusiveScanning
<1>4. Spec => []TypeOK
  BY TypeCorrect
<1> QED
  BY <1>1, <1>2, <1>3, <1>4, PTL DEF Spec

-----------------------------------------------------------------------------
(* An unowned row carries no timestamp and an owned row always does: without
   this the NULL timestamp would make an owned row claimable. *)
NullTogether == owner = NoOwner <=> heartbeatAge = NoHeartbeat

LEMMA RowConsistent == Spec => [](TypeOK /\ NullTogether)
<1> USE LockAssumption
<1>1. Init => NullTogether
  BY DEF Init, NullTogether
<1>2. TypeOK /\ NullTogether /\ [Next]_vars => NullTogether'
  <2> SUFFICES ASSUME TypeOK, NullTogether, [Next]_vars PROVE NullTogether'
    OBVIOUS
  <2> USE DEF TypeOK, Ages, row, env, NullTogether
  <2>1. ASSUME NEW p \in Owners, TryAcquire(p) PROVE NullTogether'
    BY <2>1 DEF TryAcquire
  <2>2. ASSUME NEW p \in Owners, HbRenew(p) PROVE NullTogether'
    BY <2>2 DEF HbRenew
  <2>3. ASSUME NEW p \in Owners, Release(p) PROVE NullTogether'
    BY <2>3 DEF Release
  <2>4. ASSUME NEW p \in Owners,
               Process(p), ~TryAcquire(p), ~HbRenew(p), ~Release(p)
        PROVE  UNCHANGED row
    BY <2>4 DEF Process, Start, TryAcquireRefused, TryAcquireFailsOpen, HbWake,
       HbRenewFailsOpen, HbRejected, LoopBegin, LoopSave, LoopReturn, Leave, Exit, Crash, Gone
  <2>5. CASE Tick
    BY <2>5 DEF Tick
  <2>6. CASE MarketFlip \/ DbFail \/ DbRecover
    BY <2>6 DEF MarketFlip, DbFail, DbRecover
  <2>7. CASE UNCHANGED vars
    BY <2>7 DEF vars
  <2> QED
    BY <2>1, <2>2, <2>3, <2>4, <2>5, <2>6, <2>7 DEF Next
<1> QED
  BY <1>1, <1>2, TypeCorrect, PTL DEF Spec

(* Every step of every process, the fail-open ones included, is a step of the
   lease or leaves it alone. *)
THEOREM Implementation == Spec => LeaseSpec
<1> USE LockAssumption
<1>1. Init => Lease!Init
  BY DEF Init, Lease!Init
<1>2. TypeOK /\ NullTogether /\ [Next]_vars => [Lease!Next]_Lease!vars
  <2> SUFFICES ASSUME TypeOK, NullTogether, [Next]_vars PROVE [Lease!Next]_Lease!vars
    OBVIOUS
  <2> USE DEF TypeOK, Ages, row, env, Lease!vars, NullTogether
  <2>1. ASSUME NEW p \in Owners, TryAcquire(p) PROVE Lease!Claim(p)
    <3>1. owner \in {NoOwner, p} \/ heartbeatAge = Stale + 1
      BY <2>1 DEF TryAcquire, Claimable
    <3>2. owner' = p /\ heartbeatAge' = 0
      BY <2>1 DEF TryAcquire
    <3> QED
      BY <3>1, <3>2 DEF Lease!Claim
  <2>2. ASSUME NEW p \in Owners, HbRenew(p) PROVE Lease!Renew(p)
    BY <2>2 DEF HbRenew, Lease!Renew
  <2>3. ASSUME NEW p \in Owners, Release(p) PROVE Lease!Release(p) \/ UNCHANGED row
    BY <2>3 DEF Release, Lease!Release
  <2>4. ASSUME NEW p \in Owners,
               Process(p), ~TryAcquire(p), ~HbRenew(p), ~Release(p)
        PROVE  UNCHANGED row
    BY <2>4 DEF Process, Start, TryAcquireRefused, TryAcquireFailsOpen, HbWake,
       HbRenewFailsOpen, HbRejected, LoopBegin, LoopSave, LoopReturn, Leave, Exit, Crash, Gone
  <2>5. CASE Tick
    <3>1. owner # NoOwner /\ owner' = owner /\ heartbeatAge' = heartbeatAge + 1
      BY <2>5 DEF Tick
    <3>2. CASE heartbeatAge' = Stale + 1
      BY <3>1, <3>2 DEF Lease!Expire, Lease!Next
    <3>3. CASE heartbeatAge' # Stale + 1
      BY <2>5, <3>1, <3>3 DEF Tick
    <3> QED
      BY <3>2, <3>3
  <2>6. CASE MarketFlip \/ DbFail \/ DbRecover
    BY <2>6 DEF MarketFlip, DbFail, DbRecover
  <2>7. CASE UNCHANGED vars
    BY <2>7 DEF vars
  <2> QED
    BY <2>1, <2>2, <2>3, <2>4, <2>5, <2>6, <2>7 DEF Next, Lease!Next
<1> QED
  BY <1>1, <1>2, RowConsistent, PTL DEF Spec, LeaseSpec, Lease!Spec

(* A claim that is not stale is ended only by its own process's release, and
   a claim is extended only by its own process's heartbeat thread. *)
THEOREM OwnClaims == Spec => ClaimKept
<1> USE LockAssumption
<1> DEFINE Kept(p) ==
      owner = p =>
          /\ owner' # p => \/ heartbeatAge \notin 0..Stale
                           \/ phase[p] = "stopping" /\ phase'[p] = "released"
          /\ (owner' = p /\ heartbeatAge > heartbeatAge') => hb[p] = "renewing" \/ Acquiring(p)
<1>1. TypeOK /\ NullTogether /\ [Next]_vars => \A p \in Owners : Kept(p)
  <2> SUFFICES ASSUME TypeOK, NullTogether, [Next]_vars, NEW p \in Owners, owner = p
               PROVE  Kept(p)
    OBVIOUS
  <2> USE DEF TypeOK, Ages, row, env, NullTogether
  <2>1. ASSUME NEW q \in Owners, TryAcquire(q) PROVE Kept(p)
    <3>1. CASE q = p
      BY <2>1, <3>1 DEF TryAcquire
    <3>2. CASE q # p
      BY <2>1, <3>2 DEF TryAcquire, Claimable
    <3> QED
      BY <3>1, <3>2
  <2>2. ASSUME NEW q \in Owners, HbRenew(q) PROVE Kept(p)
    BY <2>2 DEF HbRenew
  <2>3. ASSUME NEW q \in Owners, Release(q) PROVE Kept(p)
    <3>1. CASE q = p /\ dbUp
      <4>1. phase[p] = "stopping" /\ phase'[p] = "released" /\ owner' = NoOwner
        BY <2>3, <3>1 DEF Release
      <4> QED
        BY <4>1
    <3>2. CASE ~(q = p /\ dbUp)
      <4>1. UNCHANGED row
        BY <2>3, <3>2 DEF Release
      <4> QED
        BY <4>1
    <3> QED
      BY <3>1, <3>2
  <2>4. ASSUME NEW q \in Owners,
               Process(q), ~TryAcquire(q), ~HbRenew(q), ~Release(q)
        PROVE  UNCHANGED row
    BY <2>4 DEF Process, Start, TryAcquireRefused, TryAcquireFailsOpen, HbWake,
       HbRenewFailsOpen, HbRejected, LoopBegin, LoopSave, LoopReturn, Leave, Exit, Crash, Gone
  <2>5. CASE Tick
    BY <2>5 DEF Tick
  <2>6. CASE MarketFlip \/ DbFail \/ DbRecover
    BY <2>6 DEF MarketFlip, DbFail, DbRecover
  <2>7. CASE UNCHANGED vars
    BY <2>7 DEF vars
  <2>8. UNCHANGED row => Kept(p)
    OBVIOUS
  <2> QED
    BY <2>1, <2>2, <2>3, <2>4, <2>5, <2>6, <2>7, <2>8 DEF Next
<1> QED
  BY <1>1, RowConsistent, PTL DEF Spec, ClaimKept
=============================================================================
