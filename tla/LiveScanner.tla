------------------------------ MODULE LiveScanner ------------------------------
(***************************************************************************)
(* How the rows of live_scanner_state come and go: the batched cycle of    *)
(* _run_live_scanner_loop() in scheduler/scan_worker.py against the manual *)
(* "Run Scan" of pages/scanner.py, which saves its own result, prunes all  *)
(* other rows, and asks the loop through the manual-override columns of    *)
(* system_state to reseed its in-memory `merged` dict.                     *)
(*                                                                         *)
(* A record is abstracted to where it came from, and `merged` to its keys: *)
(* only they decide what the last batch of a cycle prunes.  The version    *)
(* and status of a save, and what a concurrent read sees of it, are the    *)
(* subject of SnapshotStore; pausing, of ExecutionMode.                    *)
(***************************************************************************)
EXTENDS Integers

CONSTANTS
    N,           \* symbols 1..N are scanned, the F&O-eligible ones first
    Outside,     \* symbols only a manual scan can name (the Settings page's list)
    BatchSize,   \* LIVE_SCANNER_BATCH_SIZE
    FoCounts,    \* how many symbols may turn out F&O-eligible (0: the lookup failed)
    ManualLists, \* the symbol lists a manual scan may be run with
    SameProcess, \* the loop runs in the web app's process, and shares its cache
    MaxRestarts  \* bound: restarts of the loop's process

Universe == 1..N
Symbols == Universe \cup Outside

ASSUME ScannerAssumption ==
    /\ N \in Nat \ {0} /\ BatchSize \in Nat \ {0}
    /\ FoCounts \subseteq 0..N /\ FoCounts # {}
    /\ ManualLists \subseteq SUBSET Symbols
    /\ SameProcess \in BOOLEAN /\ MaxRestarts \in Nat

VARIABLES
    rows,      \* live_scanner_state: per symbol "none", or where its record came from
    merged,    \* keys of the loop's `merged`, carried across cycles
    fetched,   \* keys of batch_records
    loop,      \* where the loop stands, in which batch, and its F&O prefix
    manual,    \* where a manual scan stands, and the symbols it returned
    override,  \* manual_override_section is live_scanner and _until is not past
    restarts

vars == <<rows, merged, fetched, loop, manual, override, restarts>>
others == <<manual, restarts>>

(* "cycle": written by this cycle of the loop; "older": by an earlier one. *)
Origins == {"none", "older", "cycle", "manual"}

(* Fault: only whole batches are made. *)
WholeBatches == N \div BatchSize - 1

(* batches[i], and the index of the last one. *)
Chunk(i) == {s \in Universe : (s - 1) \div BatchSize = i}
LastBatch == (N - 1) \div BatchSize

TypeOK ==
    /\ rows \in [Symbols -> Origins]
    /\ merged \subseteq Symbols /\ fetched \subseteq Universe
    /\ loop \in [pc : {"boundary", "head", "override", "reseed", "clear", "save", "prune", "stage"},
                 batch : 0..LastBatch,
                 fo : FoCounts]
    /\ manual \in [pc : {"idle", "saving", "pruning", "announcing"}, got : SUBSET Symbols]
    /\ override \in BOOLEAN
    /\ restarts \in 0..MaxRestarts

Init ==
    /\ rows = [s \in Symbols |-> "none"]
    /\ merged = {} /\ fetched = {}
    /\ \E fo \in FoCounts : loop = [pc |-> "boundary", batch |-> 0, fo |-> fo]
    /\ manual = [pc |-> "idle", got |-> {}]
    /\ override = FALSE
    /\ restarts = 0

Goto(pc) == loop' = [loop EXCEPT !.pc = pc]
Present == {s \in Symbols : rows[s] # "none"}
Write(S, origin) == rows' = [s \in Symbols |-> IF s \in S THEN origin ELSE rows[s]]
DeleteAllBut(S) == rows' = [s \in Symbols |-> IF s \in S THEN rows[s] ELSE "none"]

-----------------------------------------------------------------------------
(* A cycle starts.  Nothing happens to the rows: they are a cycle older. *)
BeginCycle ==
    /\ loop.pc = "boundary"
    /\ loop' = [loop EXCEPT !.pc = "head", !.batch = 0]
    /\ rows' = [s \in Symbols |-> IF rows[s] = "cycle" THEN "older" ELSE rows[s]]
    /\ UNCHANGED <<merged, fetched, override, others>>

(* should_scheduler_run() is false at the head of a batch: the cycle is over. *)
Pause ==
    /\ loop.pc = "head"
    /\ Goto("boundary")
    /\ UNCHANGED <<rows, merged, fetched, override, others>>

(* compute_live_scan_batch() answers for some symbols of the batch, and for
   none when it raises. *)
Fetch(got) ==
    /\ loop.pc = "head"
    /\ got \subseteq Chunk(loop.batch)
    /\ fetched' = got
    /\ merged' = merged \cup got
    /\ Goto("override")
    /\ UNCHANGED <<rows, override, others>>

(* manual_override_active() reads a cached copy of the row: a process that did
   not set the override itself may not see it. *)
SeeOverride ==
    /\ loop.pc = "override"
    /\ override
    /\ Goto("reseed")
    /\ UNCHANGED <<rows, merged, fetched, override, others>>

MissOverride ==
    /\ loop.pc = "override"
    /\ override => ~SameProcess
    /\ Goto("save")
    /\ UNCHANGED <<rows, merged, fetched, override, others>>

(* The snapshot is read and merged; a read that fails answers None, which is
   taken for a snapshot without records. *)
Reseed ==
    /\ loop.pc = "reseed"
    /\ \/ merged' = merged \cup Present
       \/ UNCHANGED merged
    /\ Goto("clear")
    /\ UNCHANGED <<rows, fetched, override, others>>

ClearOverride ==
    /\ loop.pc = "clear"
    /\ override' \in {FALSE, override}
    /\ Goto("save")
    /\ UNCHANGED <<rows, merged, fetched, others>>

(* Fault: the save before the write-amplification fix, all of `merged`. *)
UpsertMerged ==
    /\ loop.pc = "save"
    /\ fetched # {}
    /\ rows' = [s \in Symbols |-> IF s \in fetched THEN "cycle"
                                  ELSE IF s \in merged THEN "older" ELSE rows[s]]
    /\ Goto(IF loop.batch = LastBatch THEN "prune" ELSE "stage")
    /\ UNCHANGED <<merged, fetched, override, others>>

(* The progressive save of the batch's records, and on the last batch of the
   cycle the prune. *)
Upsert ==
    /\ loop.pc = "save"
    /\ fetched # {}
    /\ Write(fetched, "cycle")
    /\ Goto(IF loop.batch = LastBatch THEN "prune" ELSE "stage")
    /\ UNCHANGED <<merged, fetched, override, others>>

(* Without records nothing is upserted and nothing pruned, and a failed upsert
   ends the save. *)
UpsertNothing ==
    /\ loop.pc = "save"
    /\ Goto("stage")
    /\ UNCHANGED <<rows, merged, fetched, override, others>>

(* Fault: the prune of 2026-09-24, against the batch's own keys. *)
PruneOwnKeys ==
    /\ loop.pc = "prune"
    /\ DeleteAllBut(fetched)
    /\ Goto("stage")
    /\ UNCHANGED <<merged, fetched, override, others>>

(* Every row whose key is not in `merged` is deleted. *)
Prune ==
    /\ loop.pc = "prune"
    /\ DeleteAllBut(merged)
    /\ Goto("stage")
    /\ UNCHANGED <<merged, fetched, override, others>>

PruneFails ==
    /\ loop.pc = "prune"
    /\ Goto("stage")
    /\ UNCHANGED <<rows, merged, fetched, override, others>>

(* Fault: the number of whole batches instead of the last batch with an
   F&O-eligible symbol. *)
TriggerWholeBatches(fo) == IF fo = 0 THEN LastBatch ELSE fo \div BatchSize - 1

(* _dore_trigger_batch_i *)
TriggerBatch(fo) == IF fo = 0 THEN LastBatch ELSE (fo - 1) \div BatchSize

(* Fault: the batches do not end. *)
NextBatchEndless ==
    /\ loop' = [loop EXCEPT !.pc = "head", !.batch = @ + 1]
    /\ fetched' = {}
    /\ UNCHANGED <<rows, merged, override, others>>

NextBatch ==
    /\ loop' = IF loop.batch = LastBatch
               THEN [loop EXCEPT !.pc = "boundary", !.batch = 0]
               ELSE [loop EXCEPT !.pc = "head", !.batch = @ + 1]
    /\ fetched' = {}
    /\ UNCHANGED <<rows, merged, override, others>>

(* compute_dore_technical_plans(live_pool=dict(merged)), inline. *)
StageOne ==
    /\ loop.pc = "stage"
    /\ loop.batch = TriggerBatch(loop.fo)
    /\ NextBatch

SkipStageOne ==
    /\ loop.pc = "stage"
    /\ loop.batch # TriggerBatch(loop.fo)
    /\ NextBatch

-----------------------------------------------------------------------------
(* A manual scan: compute, save with a prune to its own keys, and set the
   override, whether the save worked or not. *)
Manually(pc) == manual' = [manual EXCEPT !.pc = pc]

ManualScan ==
    /\ manual.pc = "idle"
    /\ \E list \in ManualLists : \E got \in SUBSET list \ {{}} :
          manual' = [pc |-> "saving", got |-> got]
    /\ UNCHANGED <<rows, merged, fetched, loop, override, restarts>>

ManualUpsert ==
    /\ manual.pc = "saving"
    /\ \/ Write(manual.got, "manual") /\ Manually("pruning")
       \/ UNCHANGED rows /\ Manually("announcing")
    /\ UNCHANGED <<merged, fetched, loop, override, restarts>>

ManualPrune ==
    /\ manual.pc = "pruning"
    /\ DeleteAllBut(manual.got) \/ UNCHANGED rows
    /\ Manually("announcing")
    /\ UNCHANGED <<merged, fetched, loop, override, restarts>>

Idle == manual' = [pc |-> "idle", got |-> {}]

SetManualOverride ==
    /\ manual.pc = "announcing"
    /\ override' \in {TRUE, override}
    /\ Idle
    /\ UNCHANGED <<rows, merged, fetched, loop, restarts>>

ManualDies ==
    /\ manual.pc # "idle"
    /\ Idle
    /\ UNCHANGED <<rows, merged, fetched, loop, override, restarts>>

(* Its 90 seconds are over. *)
OverrideExpires ==
    /\ override
    /\ override' = FALSE
    /\ UNCHANGED <<rows, merged, fetched, loop, others>>

(* A crash, a redeploy or a lost scheduler lock, and the loop of the next
   process: `merged` is empty and the F&O symbols are looked up again. *)
Restart ==
    /\ restarts < MaxRestarts
    /\ restarts' = restarts + 1
    /\ merged' = {} /\ fetched' = {}
    /\ \E fo \in FoCounts : loop' = [pc |-> "boundary", batch |-> 0, fo |-> fo]
    /\ IF SameProcess THEN Idle ELSE UNCHANGED manual
    /\ UNCHANGED <<rows, override>>

LoopStep ==
    \/ BeginCycle \/ Pause
    \/ \E got \in SUBSET Chunk(loop.batch) : Fetch(got)
    \/ SeeOverride \/ MissOverride \/ Reseed \/ ClearOverride
    \/ Upsert \/ UpsertNothing \/ Prune \/ PruneFails
    \/ StageOne \/ SkipStageOne

ManualStep ==
    \/ ManualScan \/ ManualUpsert \/ ManualPrune \/ SetManualOverride \/ ManualDies

Next == LoopStep \/ ManualStep \/ OverrideExpires \/ Restart

Spec == Init /\ [][Next]_vars

(***************************************************************************)
(* Fairness.  The loop never stops (its process is restarted, and how      *)
(* often is bounded).  What only the outside can grant, it grants again    *)
(* and again in each batch: no pause at its head and the provider's data   *)
(* for all of it (Fetch), and a database that takes the upsert.            *)
(***************************************************************************)
Fairness ==
    /\ WF_vars(LoopStep)
    /\ \A i \in 0..LastBatch :
          /\ SF_vars(loop.batch = i /\ Fetch(Chunk(i)))
          /\ SF_vars(loop.batch = i /\ fetched = Chunk(i) /\ Upsert)

FairSpec == Spec /\ Fairness

-----------------------------------------------------------------------------
(* What the loop has saved in a cycle stays until the cycle is over, whichever
   batches failed, whatever was reseeded: no save of a later batch and no prune
   takes it back or replaces it by an older record. *)
CycleRowsKept ==
    [][\A s \in Symbols :
          (rows[s] = "cycle" /\ loop.pc # "boundary" /\ loop' # loop) => rows'[s] = "cycle"]_vars

(* A progressive save "doesn't clobber" what a manual scan wrote "with old
   values": the loop replaces a manual row only by a record it computed in the
   batch it is in. *)
OnlyFreshOverManual ==
    [][\A s \in Symbols :
          (rows[s] = "manual" /\ loop' # loop) =>
              \/ rows'[s] \in {"manual", "none"}
              \/ rows'[s] = "cycle" /\ s \in Chunk(loop.batch)]_vars

(* Stage 1 runs when every F&O-eligible symbol's batch has been computed in
   this cycle, whatever the size of the prefix and of the batches. *)
StageOneReady ==
    [][StageOne => \A s \in 1..loop.fo : \E i \in 0..loop.batch : s \in Chunk(i)]_vars

(* A symbol that a manual scan of other symbols, or a prune after a restart,
   took out of the table comes back. *)
SymbolsReturn == \A s \in Universe : []<>(rows[s] # "none")

(* Stage 1 is never skipped for good, wherever the F&O prefix ends. *)
StageOneRecurs == []<><<StageOne>>_vars
=============================================================================
