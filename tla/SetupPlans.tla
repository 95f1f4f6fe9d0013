----------------------------- MODULE SetupPlans ------------------------------
(***************************************************************************)
(* The setup plans of one symbol: the frozen trade plans the scanner       *)
(* mints, advances by price and age, and keeps in setup_plans              *)
(* (src/utils/setup_persistence.py, src/utils/scanner_engine.py).          *)
(*                                                                         *)
(* Two producers run the same stages one after the other: the worker at    *)
(* the end of a cycle, and Run Scan in the page's process.  A stage loads  *)
(* the open plans, decides in memory, records a final outcome where a plan *)
(* ends, and upserts what it changed.  A third hand is the page's Close    *)
(* trade button.  A plan's levels are one value, a bar is what it touches  *)
(* of them, with stop < entry < T1 < T2.                                   *)
(***************************************************************************)
EXTENDS Naturals, Sequences

CONSTANTS
    Producers,  \* the worker, the page's Run Scan
    Stages,     \* the stages of a producer, by the source each stands for
    Sources,    \* "LS" and the side sources, with a stage of their own each
    Minting,    \* the sources switched on (ENABLE_PB_SOURCE, ENABLE_MOM_SOURCE)
    MaxAge,     \* MAX_SETUP_AGE_DAYS_BY_SOURCE
    Levels,     \* the sets of entry, stop and target prices of a source
    LastDay,    \* bound: the last day looked at
    MaxFaults,  \* bound: failed reads, writes, crashes
    NoPlan      \* no plan

ASSUME SetupAssumption ==
    /\ "LS" \in Sources /\ Minting \subseteq Sources
    /\ Stages \in [Producers -> Seq(Sources)]
    /\ \A p \in Producers : Stages[p] # <<>>
    /\ MaxAge \in [Sources -> Nat]
    /\ LastDay \in Nat /\ MaxFaults \in Nat

VARIABLES
    today,
    table,      \* setup_plans: source and day of creation to plan
    settled,    \* outcome_final: the plans with a final outcome
    at,         \* producer to the stage it is in
    pending,    \* producer to what its stage is about to upsert
    closing,    \* what the page is about to write as closed
    faults      \* failures so far

vars == <<today, table, settled, at, pending, closing, faults>>
-----------------------------------------------------------------------------
Days == 0 .. LastDay

(* setup_id: one identity per symbol, source and day. *)
Ids == Sources \X Days

Open == {"WAITING", "ACTIVE", "T1_HIT"}
Terminal == {"CLOSED", "EXPIRED"}
Plan == [status : Open \cup Terminal, levels : UNION {Levels[s] : s \in Sources}]

ASSUME NoPlanAssumption ==
    NoPlan \notin Plan \cup [levels : UNION {Levels[s] : s \in Sources}, ended : BOOLEAN]

IsOpen(r) == r # NoPlan /\ r.status \in Open

(* The levels a bar touches: the stop from above; nothing, the entry, T1 or
   T2 from below. *)
Bars == [stop : BOOLEAN, reach : 0 .. 3]

(* _advance_lifecycle_step: the stop before the target, the age last. *)
Step(status, bar, aged) ==
    CASE status = "WAITING" ->
            IF bar.stop THEN "CLOSED" ELSE IF bar.reach >= 1 THEN "ACTIVE"
            ELSE IF aged THEN "EXPIRED" ELSE status
      [] status = "ACTIVE" ->
            IF bar.stop THEN "CLOSED" ELSE IF bar.reach >= 2 THEN "T1_HIT"
            ELSE IF aged THEN "CLOSED" ELSE status
      [] status = "T1_HIT" ->
            IF bar.stop \/ bar.reach >= 3 \/ aged THEN "CLOSED" ELSE status
      [] OTHER -> status

(* Fault: one hop a scan. *)
OneHop(status, bar, aged) == Step(status, bar, aged)

(* advance_lifecycle: at most four hops on one bar *)
Advance(status, bar, aged) ==
    Step(Step(Step(Step(status, bar, aged), bar, aged), bar, aged), bar, aged)

(* _compute_days_active and _max_setup_age_days *)
Aged(id) == today > id[2] + MaxAge[id[1]]

Minted(levels) == [status |-> "WAITING", levels |-> levels]

Write(id, row) == [id |-> id, row |-> row]
-----------------------------------------------------------------------------
(* load_open_setup_plans, by the oldest, and load_open_setup_plans_by_source *)
OpenIds(source) == {id \in Ids : IsOpen(table[id]) /\ source \in {"any", id[1]}}

Oldest == {id \in OpenIds("any") : \A other \in OpenIds("any") : id[2] <= other[2]}

(* Where a read fails, or finds nothing, there is no plan. *)
Loaded(ids, fails) == IF fails \/ ids = {} THEN {<<>>} ELSE ids

Fault(fails) ==
    /\ fails => faults < MaxFaults
    /\ faults' = IF fails THEN faults + 1 ELSE faults

Source(p) == Stages[p][at[p]]

Deciding(p) == pending[p] = <<>>

(* advance_lifecycle on the loaded plan *)
Advances(id) ==
    IF id = <<>> THEN {NoPlan}
    ELSE {[table[id] EXCEPT !.status = Advance(@, bar, Aged(id))] : bar \in Bars}

(* The plan is upserted if advancing it, or a late entry of its source
   (_backfill_missing_source_entry), changed it. *)
PlanWrites(id, row) ==
    IF id = <<>> THEN {{}}
    ELSE IF row = table[id] THEN {{}, {Write(id, row)}}
    ELSE {{Write(id, row)}}

(* Fault: an identity without its day. *)
MintsUndated(source) ==
    {{}} \cup {{Write(<<source, 0>>, Minted(levels))} : levels \in Levels[source]}

(* _create_plan: where the levels fail the validation the row is left without
   identity, which stands for no plan. *)
MintWrites(source) ==
    {{}} \cup {{Write(<<source, today>>, Minted(levels))} : levels \in Levels[source]}

(* Fault: a plan that expired has no outcome. *)
DecidesClosed(p, id, row, choices) ==
    /\ settled' = IF id # <<>> /\ row.status = "CLOSED" THEN settled \cup {id} ELSE settled
    /\ \E writes \in choices : pending' = [pending EXCEPT ![p] = <<writes>>]
    /\ UNCHANGED <<today, table, at, closing>>

(* The end of a stage in memory: the outcome of a plan that ended is
   recorded, and it upserts nothing or one plan. *)
Decides(p, id, row, choices) ==
    /\ settled' = IF id # <<>> /\ ~IsOpen(row) THEN settled \cup {id} ELSE settled
    /\ \E writes \in choices : pending' = [pending EXCEPT ![p] = <<writes>>]
    /\ UNCHANGED <<today, table, at, closing>>

(* enrich_scanner_row, in _enrich_with_setup_persistence: for the oldest open
   plan of any source.  Where that has just ended and the row qualifies, the
   new plan is upserted and not the ended one. *)
MainStage(p) ==
    /\ Deciding(p) /\ Source(p) = "LS"
    /\ \E fails \in BOOLEAN :
          /\ Fault(fails)
          /\ \E id \in Loaded(Oldest, fails) : \E row \in Advances(id) :
                Decides(p, id, row,
                        PlanWrites(id, row)
                            \cup IF IsOpen(row) THEN {} ELSE MintWrites("LS"))

(* enrich_momentum_row and enrich_five_pillars_row: for the plan of their own
   source; where it would mint, an open plan of another source is
   corroborated instead. *)
SideStage(p) ==
    /\ Deciding(p) /\ Source(p) # "LS"
    /\ \E ownFails, crossFails \in BOOLEAN :
          /\ Fault(ownFails \/ crossFails)
          /\ \E id \in Loaded(OpenIds(Source(p)), ownFails),
                cross \in Loaded(Oldest, crossFails) : \E row \in Advances(id) :
                Decides(p, id, row,
                        PlanWrites(id, row)
                            \cup IF IsOpen(row) \/ Source(p) \notin Minting THEN {}
                                 ELSE IF cross # <<>> /\ cross[1] # Source(p)
                                 THEN PlanWrites(cross, table[cross])
                                 ELSE MintWrites(Source(p)))

(* Fault: the stages do not start over. *)
NextStageOnly(p) ==
    /\ pending' = [pending EXCEPT ![p] = <<>>]
    /\ at' = [at EXCEPT ![p] = @ + 1]

NextStage(p) ==
    /\ pending' = [pending EXCEPT ![p] = <<>>]
    /\ at' = [at EXCEPT ![p] = IF @ = Len(Stages[p]) THEN 1 ELSE @ + 1]

(* upsert_setup_plans_batch *)
Upsert(p) ==
    /\ ~Deciding(p)
    /\ table' = [id \in Ids |->
                    IF \E w \in pending[p][1] : w.id = id
                    THEN (CHOOSE w \in pending[p][1] : w.id = id).row ELSE table[id]]
    /\ NextStage(p)
    /\ UNCHANGED <<today, settled, closing, faults>>

(* The write fails, logged, and the next stage goes on. *)
UpsertFails(p) ==
    /\ ~Deciding(p)
    /\ Fault(TRUE)
    /\ NextStage(p)
    /\ UNCHANGED <<today, table, settled, closing>>

Crash(p) ==
    /\ ~Deciding(p)
    /\ Fault(TRUE)
    /\ pending' = [pending EXCEPT ![p] = <<>>]
    /\ at' = [at EXCEPT ![p] = 1]
    /\ UNCHANGED <<today, table, settled, closing>>

(* close_setup_plan_manually: the row is read, its outcome recorded *)
CloseManually(id) ==
    /\ closing = <<>>
    /\ table[id] # NoPlan /\ table[id].status \in {"ACTIVE", "T1_HIT"}
    /\ closing' = <<id, [table[id] EXCEPT !.status = "CLOSED"]>>
    /\ settled' = settled \cup {id}
    /\ UNCHANGED <<today, table, at, pending, faults>>

(* ... and then the row is written. *)
CloseSaves ==
    /\ closing # <<>>
    /\ table' = [table EXCEPT ![closing[1]] = closing[2]]
    /\ closing' = <<>>
    /\ UNCHANGED <<today, settled, at, pending, faults>>

CloseFails ==
    /\ closing # <<>>
    /\ Fault(TRUE)
    /\ closing' = <<>>
    /\ UNCHANGED <<today, table, settled, at, pending>>

NextDay ==
    /\ today < LastDay /\ closing = <<>>
    /\ \A p \in Producers : Deciding(p) /\ at[p] = 1
    /\ today' = today + 1
    /\ UNCHANGED <<table, settled, at, pending, closing, faults>>

(* A source that is switched off may still have a plan from before. *)
Init ==
    /\ today = 0
    /\ table \in [Ids -> Plan \cup {NoPlan}]
    /\ \A id \in Ids : table[id] # NoPlan =>
          id[1] \notin Minting /\ id[2] = 0 /\ IsOpen(table[id])
    /\ settled = {}
    /\ at = [p \in Producers |-> 1]
    /\ pending = [p \in Producers |-> <<>>]
    /\ closing = <<>>
    /\ faults = 0

Next ==
    \/ \E p \in Producers : MainStage(p) \/ SideStage(p) \/ Upsert(p) \/ UpsertFails(p) \/ Crash(p)
    \/ \E id \in Ids : CloseManually(id)
    \/ CloseSaves \/ CloseFails
    \/ NextDay

Spec == Init /\ [][Next]_vars
-----------------------------------------------------------------------------
Writes == [id : Ids, row : Plan]

(* Plans, identities and pending writes keep their types; a stage writes one
   plan at most. *)
TypeOK ==
    /\ today \in Days
    /\ table \in [Ids -> Plan \cup {NoPlan}]
    /\ settled \subseteq Ids
    /\ \A p \in Producers : at[p] \in 1 .. Len(Stages[p])
    /\ \A p \in Producers : pending[p] \in {<<>>, <<{}>>} \cup {<<{w}>> : w \in Writes}
    /\ closing # <<>> => closing \in Ids \X Plan
    /\ faults \in 0 .. MaxFaults

(* A plan that has ended in the table has its final outcome: the outcome is
   recorded before the row is written, by every hand that ends a plan. *)
EndedHasOutcome ==
    \A id \in Ids : (table[id] # NoPlan /\ ~IsOpen(table[id])) => id \in settled

(* The levels of a plan are frozen once its first day is over, and the plan
   stays, under stale writers, failures and the page; on its first day a mint
   may repeat its identity. *)
LevelsFrozen ==
    [][\A id \in Ids : (table[id] # NoPlan /\ id[2] < today) =>
          table'[id] # NoPlan /\ table'[id].levels = table[id].levels]_vars

(* Where one bar takes a plan: four hops are enough for a bar that jumps over
   several levels, the stop comes first, and age ends only what the bar left
   open. *)
Outcome(status, bar, aged) ==
    LET entered == status # "WAITING" \/ bar.reach >= 1
        t1 == entered /\ (status = "T1_HIT" \/ bar.reach >= 2)
    IN  CASE bar.stop -> "CLOSED"
          [] ~bar.stop /\ ~entered -> IF aged THEN "EXPIRED" ELSE "WAITING"
          [] ~bar.stop /\ entered /\ (aged \/ (t1 /\ bar.reach >= 3)) -> "CLOSED"
          [] OTHER -> IF t1 THEN "T1_HIT" ELSE "ACTIVE"

BarTakenWhole ==
    \A id \in OpenIds("any"), bar \in Bars :
        Advance(table[id].status, bar, Aged(id)) = Outcome(table[id].status, bar, Aged(id))

\* What the book says of a plan: its levels, and whether it has ended.
EntryOf(r) == IF r = NoPlan THEN NoPlan ELSE [levels |-> r.levels, ended |-> ~IsOpen(r)]

Book == INSTANCE PlanBook WITH
    Plans <- Ids,
    DayOf <- [id \in Ids |-> id[2]],
    Levels <- UNION {Levels[s] : s \in Sources},
    book <- [id \in Ids |-> EntryOf(table[id])],
    outcomes <- settled

(* What two producers and the page do to the table and the outcomes, each on what it
   loaded a while ago and any of them failing between the two writes, is one after
   the other what the book allows: an outcome for an open plan, the row of one plan,
   with the levels it has if its day is over. *)
BookSpec == Book!Spec

(* Violated: a plan with a final outcome is closed in the table, when no write
   is under way and none has failed. *)
OutcomeMeansEnded ==
    (faults = 0 /\ closing = <<>> /\ \A p \in Producers : Deciding(p)) =>
        \A id \in settled : ~IsOpen(table[id])
=============================================================================
