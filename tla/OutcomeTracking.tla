--------------------------- MODULE OutcomeTracking ---------------------------
(* The forward outcome of one plan key (utils/outcome_tracking.py): the running row with
   the intervals that have fired, the immutable checkpoint rows and the final row. The
   scans that track a plan, the worker's cycle and the Run Scan of a page, each read the
   running row, compute, and write in statements of their own. The returns and the
   excursions are left out. *)
EXTENDS Integers, FiniteSets, FiniteSetsExt

CONSTANTS
    Scans,          \* the scans that track the plan
    Intervals,      \* CHECKPOINT_MINUTES, in the unit of elapsed
    LastMinute,     \* bound: time since the mint
    MaxMints,       \* bound: plans minted under the key on one day
    MaxErrors,      \* bound: statements that fail
    NoRow

ASSUME OutcomeAssumption ==
    /\ Intervals \subseteq Nat \ {0} /\ IsFiniteSet(Intervals)
    /\ {LastMinute, MaxMints, MaxErrors} \subseteq Nat /\ NoRow \notin Nat

VARIABLES
    elapsed,        \* minutes since the plan's entry
    isOpen,         \* the plan is open
    mints,          \* plans minted under this key
    fired,          \* checkpoints_fired of the row of outcome_running
    checkpoints,    \* the rows of outcome_checkpoints: the minute of each
    final,          \* the row of outcome_final: the plan it is of, and the minute it closed
    work,           \* where each scan is
    errors,
    reached         \* history: the latest minute of an update that met no error

outcomeVars == <<elapsed, isOpen, mints, fired, checkpoints, final, work, errors, reached>>

NoWork == [pc |-> "idle", elapsed |-> 0, prior |-> {}]

Is(s, pc) == work[s].pc = pc

Fails == errors < MaxErrors /\ errors' = errors + 1
-----------------------------------------------------------------------------
OutcomeInit ==
    /\ elapsed = 0 /\ isOpen = TRUE /\ mints = 1 /\ reached = 0 /\ errors = 0
    /\ fired = {} /\ final = NoRow
    /\ checkpoints = [m \in Intervals |-> NoRow]
    /\ work = [s \in Scans |-> NoWork]

\* A scan that holds the plan as open.
Begin(s) ==
    /\ Is(s, "idle") /\ isOpen
    /\ work' = [work EXCEPT ![s] = [NoWork EXCEPT !.pc = "load", !.elapsed = elapsed]]
    /\ UNCHANGED <<elapsed, isOpen, mints, fired, checkpoints, final, errors, reached>>

\* _load_running: a row that cannot be read counts as a plan without one.
Load(s) ==
    /\ Is(s, "load")
    /\ \/ /\ work' = [work EXCEPT ![s].pc = "write", ![s].prior = fired]
          /\ UNCHANGED errors
       \/ Fails /\ work' = [work EXCEPT ![s].pc = "write"]
    /\ UNCHANGED <<elapsed, isOpen, mints, fired, checkpoints, final, reached>>

Due(s) == {m \in Intervals : m <= work[s].elapsed} \ work[s].prior

\* Mutant: the first statement marks the intervals that are only due.
AllFired(s) == work[s].prior \cup Due(s)

FiredBefore(s) == work[s].prior

Reach(s) == reached' = Max({reached, work[s].elapsed})

\* The first upsert; its failure does not keep the checkpoints from being written.
Write(s) ==
    /\ Is(s, "write")
    /\ \/ fired' = FiredBefore(s) /\ UNCHANGED errors
       \/ Fails /\ UNCHANGED fired
    /\ IF Due(s) = {}
       THEN Reach(s) /\ work' = [work EXCEPT ![s] = NoWork]
       ELSE UNCHANGED reached /\ work' = [work EXCEPT ![s].pc = "insert"]
    /\ UNCHANGED <<elapsed, isOpen, mints, checkpoints, final>>

\* Insert or ignore; a failure ends the update.
Insert(s) ==
    /\ Is(s, "insert")
    /\ \/ /\ checkpoints' = [m \in Intervals |->
                IF m \in Due(s) /\ checkpoints[m] = NoRow THEN work[s].elapsed
                ELSE checkpoints[m]]
          /\ Reach(s) /\ work' = [work EXCEPT ![s].pc = "mark"]
          /\ UNCHANGED errors
       \/ /\ Fails /\ work' = [work EXCEPT ![s] = NoWork]
          /\ UNCHANGED <<checkpoints, reached>>
    /\ UNCHANGED <<elapsed, isOpen, mints, fired, final>>

Mark(s) ==
    /\ Is(s, "mark")
    /\ \/ fired' = FiredBefore(s) \cup Due(s) /\ UNCHANGED errors
       \/ Fails /\ UNCHANGED fired
    /\ work' = [work EXCEPT ![s] = NoWork]
    /\ UNCHANGED <<elapsed, isOpen, mints, checkpoints, final, reached>>

\* record_final_outcome, by the scan that closes the plan and before any update with the
\* price it closed at: the last plan of the key takes the row, unless the write fails.
Close(s) ==
    /\ Is(s, "idle") /\ isOpen
    /\ isOpen' = FALSE
    /\ \/ final' = [mint |-> mints, closed |-> elapsed] /\ UNCHANGED errors
       \/ Fails /\ UNCHANGED final
    /\ UNCHANGED <<elapsed, mints, fired, checkpoints, work, reached>>

\* A plan minted again on the day has the same key, and the rows are still there.
Remint ==
    /\ ~isOpen /\ mints < MaxMints
    /\ isOpen' = TRUE /\ mints' = mints + 1 /\ elapsed' = 0
    /\ UNCHANGED <<fired, checkpoints, final, work, errors, reached>>

Minute ==
    /\ isOpen /\ elapsed < LastMinute /\ elapsed' = elapsed + 1
    /\ UNCHANGED <<isOpen, mints, fired, checkpoints, final, work, errors, reached>>

OutcomeNext ==
    \/ \E s \in Scans : \/ Begin(s) \/ Load(s) \/ Write(s) \/ Insert(s) \/ Mark(s) \/ Close(s)
    \/ Remint \/ Minute

OutcomeSpec == OutcomeInit /\ [][OutcomeNext]_outcomeVars
-----------------------------------------------------------------------------
(* No checkpoint is lost and none is early: an interval marked as fired has its row,
   every interval that an update without an error in it has passed has one, and a row was
   written at its interval or later, whatever failed in between and whichever scan's
   older set of intervals was written last. (update_forward_outcome) *)
CheckpointsComplete ==
    /\ \A m \in fired : checkpoints[m] # NoRow
    /\ \A m \in Intervals :
         /\ m <= reached => checkpoints[m] # NoRow
         /\ checkpoints[m] # NoRow => checkpoints[m] >= m
=============================================================================
