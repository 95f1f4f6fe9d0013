----------------------------- MODULE BacktestRun -----------------------------
(* A backtest started on the page (pages/backtest.py) and run over a pool of threads
   (utils/backtest_engine.py, run_backtest): the results of the symbols arrive in any
   order, every so many of them are handed to the page's callback, which shows and
   saves them, and the page ends by showing all of them. A run may be interrupted by
   the user or with its host, may fail to fetch its data, and a save may fail.

   The trades of a symbol are one item, the symbol itself; what BacktestTrades says of
   them is not repeated here. *)
EXTENDS Integers, FiniteSets, FiniteSetsExt

CONSTANTS
    Symbols,      \* the symbols of the universe with data, valid_symbols
    Every,        \* checkpoint_every
    LastRun,      \* bound: runs started
    MaxFaults     \* bound: saves that fail, whole or in part, and killed hosts

ASSUME RunAssumption ==
    /\ IsFiniteSet(Symbols) /\ Every \in Nat \ {0} /\ LastRun \in Nat /\ MaxFaults \in Nat

VARIABLES
    run,          \* the number of the run, which stands for _bt_run_ts
    stage,        \* where the page's thread is
    pending,      \* the symbols whose futures are not done
    failed,       \* those of this run whose future raised
    collected,    \* all_trades
    delta,        \* _new_since_checkpoint
    since,        \* _since_checkpoint
    shown,        \* bt_trades in the session: the run they are of and the trades
    progress,     \* bt_progress_n in the session: the symbols done
    saved,        \* backtest_results: how often each trade of each run is there
    lost,         \* the trades of the run whose save has failed
    resent,       \* those whose batch was sent again after its acknowledgement was lost
    faults

runVars == <<run, stage, pending, failed, collected, delta, since, shown, progress, saved,
             lost, resent, faults>>

NothingShown == [run |-> 0, trades |-> {}]

\* Fault: a save that fails or a host that dies.
Fault == faults < MaxFaults /\ faults' = faults + 1
-----------------------------------------------------------------------------
RunInit ==
    /\ run = 0 /\ stage = "idle"
    /\ pending = {} /\ failed = {} /\ collected = {} /\ delta = {} /\ since = 0
    /\ shown = NothingShown /\ progress = 0
    /\ saved = [x \in (1 .. LastRun) \X Symbols |-> 0]
    /\ lost = {} /\ resent = {} /\ faults = 0

\* The button: a new time stamp; what the session shows is left as it is.
Start ==
    /\ stage = "idle" /\ run < LastRun
    /\ run' = run + 1 /\ stage' = "fetching"
    /\ pending' = Symbols /\ failed' = {} /\ collected' = {} /\ delta' = {} /\ since' = 0
    /\ lost' = {} /\ resent' = {}
    /\ UNCHANGED <<shown, progress, saved, faults>>

Fetched ==
    /\ stage = "fetching" /\ stage' = "scoring"
    /\ UNCHANGED <<run, pending, failed, collected, delta, since, shown, progress, saved, lost,
                   resent, faults>>

\* One future is done: its trades are collected, or there are none, or it raised and is skipped.
Complete(s, result) ==
    /\ stage = "scoring" /\ s \in pending
    /\ pending' = pending \ {s}
    /\ collected' = IF result = "trades" THEN collected \cup {s} ELSE collected
    /\ delta' = IF result = "trades" THEN delta \cup {s} ELSE delta
    /\ failed' = IF result = "raised" THEN failed \cup {s} ELSE failed
    /\ since' = since + 1
    /\ stage' = IF since + 1 >= Every THEN "checkpoint" ELSE "scoring"
    /\ UNCHANGED <<run, shown, progress, saved, lost, resent, faults>>

\* The page's callback saves the rows of d it is given, in batches: those in part are stored,
\* and those in twice again, because the database layer repeats a statement whose connection
\* dropped before it was acknowledged.
Save(d, part, twice) ==
    /\ saved' = [x \in DOMAIN saved |-> IF x[1] # run THEN saved[x]
                                        ELSE saved[x] + Cardinality({x[2]} \cap part)
                                                      + Cardinality({x[2]} \cap twice)]
    /\ lost' = lost \cup (d \ part)
    /\ resent' = resent \cup twice

\* Mutant: the delta is kept until the next checkpoint has fired.
FireKeepingDelta(next, part, twice) ==
    /\ since' = 0 /\ delta' = delta
    /\ shown' = [run |-> run, trades |-> collected]
    /\ progress' = Cardinality(Symbols \ pending)
    /\ Save(delta, part, twice)
    /\ stage' = next
    /\ UNCHANGED <<run, pending, failed, collected>>

\* _fire_checkpoint: the delta is taken and cleared, then the callback shows what there is
\* and saves the delta; what it raises is logged.
Fire(next, part, twice) ==
    /\ since' = 0 /\ delta' = {}
    /\ shown' = [run |-> run, trades |-> collected]
    /\ progress' = Cardinality(Symbols \ pending)
    /\ Save(delta, part, twice)
    /\ stage' = next
    /\ UNCHANGED <<run, pending, failed, collected>>

\* What a save stores: all of it once, or, with a fault, less or more.
Stored(part, twice) ==
    \/ part = delta /\ twice = {} /\ UNCHANGED faults
    \/ (part # delta \/ twice # {}) /\ Fault

Checkpoint(part, twice) ==
    /\ stage = "checkpoint" /\ Stored(part, twice)
    /\ Fire("scoring", part, twice)

\* The forced one at the end, which stands for the full result.
FinalCheckpoint(part, twice) ==
    /\ stage = "scoring" /\ pending = {} /\ Stored(part, twice)
    /\ Fire("returned", part, twice)

\* Back on the page: trades are shown and, if no checkpoint ever fired, saved here.
Finish ==
    /\ stage = "returned"
    /\ stage' = "idle"
    /\ shown' = [run |-> run, trades |-> collected]
    /\ IF progress = 0 /\ collected # {} THEN Save(collected, collected, {})
       ELSE UNCHANGED <<saved, lost, resent>>
    /\ UNCHANGED <<run, pending, failed, collected, delta, since, progress, faults>>

\* run_backtest raises before its first symbol: the page goes on with what the session shows,
\* as the partial result, which may be that of an earlier run.
FetchFails ==
    /\ stage = "fetching" /\ Fault
    /\ stage' = "idle"
    /\ shown' = [shown EXCEPT !.run = IF shown.trades = {} THEN @ ELSE run]
    /\ UNCHANGED <<run, pending, failed, collected, delta, since, progress, saved, lost,
                   resent>>

\* The user leaves or clicks elsewhere: the page's thread is stopped, the session stays.
Interrupt ==
    /\ stage \in {"fetching", "scoring", "checkpoint"}
    /\ stage' = "idle"
    /\ lost' = lost \cup delta
    /\ UNCHANGED <<run, pending, failed, collected, delta, since, shown, progress, saved, resent,
                   faults>>

\* The host dies: the session is lost too.
Kill ==
    /\ Fault
    /\ stage' = "idle"
    /\ shown' = NothingShown /\ progress' = 0
    /\ lost' = lost \cup delta
    /\ UNCHANGED <<run, pending, failed, collected, delta, since, saved, resent>>

RunNext ==
    \/ Start \/ Fetched \/ FetchFails \/ Finish \/ Interrupt \/ Kill
    \/ \E s \in Symbols, result \in {"trades", "none", "raised"} : Complete(s, result)
    \/ \E part \in SUBSET delta : \E twice \in SUBSET part :
         Checkpoint(part, twice) \/ FinalCheckpoint(part, twice)

RunSpec == RunInit /\ [][RunNext]_runVars
-----------------------------------------------------------------------------
(* The types of the state. *)
RunTypeOK ==
    /\ run \in 0 .. LastRun
    /\ stage \in {"idle", "fetching", "scoring", "checkpoint", "returned"}
    /\ pending \subseteq Symbols /\ failed \subseteq Symbols /\ collected \subseteq Symbols
    /\ delta \subseteq collected /\ since \in 0 .. Every
    /\ shown \in [run : 0 .. LastRun, trades : SUBSET Symbols] /\ progress \in 0 .. Cardinality(Symbols)
    /\ saved \in [(1 .. LastRun) \X Symbols -> Nat]
    /\ lost \subseteq Symbols /\ resent \subseteq Symbols /\ faults \in 0 .. MaxFaults

(* Every trade of a run is saved once: though the callback is given both everything so far
   and what is new, the last checkpoint is forced whatever the count, and the page has a save
   of its own, a trade is saved a second time only if its batch was sent again, and one that is
   not saved is either waiting in the delta or was in a save that failed; when the run is back
   none is waiting (_fire_checkpoint, _bt_checkpoint, the fallback at the end of the page). *)
SavedOnce ==
    /\ \A s \in collected :
         saved[<<run, s>>] = (IF s \in resent THEN 2 ELSE IF s \in delta \cup lost THEN 0 ELSE 1)
    /\ stage = "returned" => delta = {}
=============================================================================
