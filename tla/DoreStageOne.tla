---------------------------- MODULE DoreStageOne ----------------------------
(***************************************************************************)
(* Stage 1 of DORE: once per cycle of the live scanner a technical row for *)
(* every tradable symbol, saved as the snapshot dore_technical_plans       *)
(* (src/utils/dore_options_scan.py).                                       *)
(*                                                                         *)
(* A symbol's row is the cycle that computed it and what was said of it    *)
(* since; DorePlanEngine is the computation, here one of its three         *)
(* outcomes.  Stage 2 (DorePlans) opens and closes plans meanwhile.        *)
(***************************************************************************)
EXTENDS Naturals, FiniteSets

CONSTANTS
    Stocks,     \* the scanner's universe
    Indices,    \* NIFTY, SENSEX, BANKNIFTY
    Eligible,   \* the stocks with listed options
    LastCycle,  \* bound: cycles of the scanner
    MaxFaults,  \* bound: reads and saves that fail
    NoRow       \* no technical row

(* The cycle that computed a row, its label, and what is said of its age. *)
TechnicalRow == [read : Nat, source : {"PB", "LS"}, carried : BOOLEAN, asOf : Nat]

ASSUME StageOneAssumption ==
    /\ Eligible \subseteq Stocks /\ Stocks \cap Indices = {}
    /\ LastCycle \in Nat /\ MaxFaults \in Nat
    /\ NoRow \notin TechnicalRow

VARIABLES
    cycle,      \* the scanner's cycles so far
    step,       \* where the cycle's Stage 1 is
    open,       \* symbols with an open plan in dore_options_plans
    pool,       \* live_pool after the index rows and the eligibility filter
    openRead,   \* open_plan_symbols, read before the chains are fetched
    squeezed,   \* squeeze_release_symbols of this cycle
    rows,       \* records: the rows of this cycle
    rejected,   \* the symbols with a rejection
    saved,      \* the snapshot: the cycle it was made in, and its rows
    faults      \* failures so far

stageOneVars == <<cycle, step, open, pool, openRead, squeezed, rows, rejected,
                  saved, faults>>
-----------------------------------------------------------------------------
Symbols == Stocks \cup Indices
NoRows == [s \in Symbols |-> NoRow]

(* Fault: a carried row is given the time of the cycle that carries it. *)
CarriedNow(r, from) == [r EXCEPT !.carried = TRUE, !.asOf = cycle]

(* A row computed in a cycle, with its label and its age as Stage 1 tells
   it: not carried, or carried as of the snapshot it was taken from. *)
Fresh(s, c) == [read |-> c, source |-> IF s \in squeezed THEN "PB" ELSE "LS",
                carried |-> FALSE, asOf |-> c]
CarriedRow(r, from) == [r EXCEPT !.carried = TRUE, !.asOf = from]

Fault == faults < MaxFaults /\ faults' = faults + 1

StageOneInit ==
    /\ cycle = 0 /\ step = "idle" /\ open = {}
    /\ pool = {} /\ openRead = {} /\ squeezed = {}
    /\ rows = NoRows /\ rejected = {} /\ faults = 0
    /\ saved = [made |-> 0, rows |-> NoRows]

(* The indices join the pool if they could be scored; stocks without options
   leave it, unless the list of those with options cannot be had. *)
Pooled(scanned, scored, listed) ==
    (IF listed THEN scanned \cap Eligible ELSE scanned) \cup scored

StartStageOne ==
    /\ step = "idle" /\ cycle < LastCycle
    /\ cycle' = cycle + 1
    /\ \E scanned \in SUBSET Stocks, scored \in SUBSET Indices, listed \in BOOLEAN :
         /\ pool' = Pooled(scanned, scored, listed)
         /\ IF listed THEN UNCHANGED faults ELSE Fault
         /\ step' = IF pool' = {} THEN "save" ELSE "open"
    /\ rows' = NoRows /\ rejected' = {} /\ openRead' = {}
    /\ UNCHANGED <<open, squeezed, saved>>

(* load_open_dore_options_plan_symbols; no symbols if it fails. *)
ReadOpen ==
    /\ step = "open"
    /\ \/ openRead' = open /\ UNCHANGED faults
       \/ openRead' = {} /\ Fault
    /\ squeezed' \in SUBSET pool
    /\ step' = "process"
    /\ UNCHANGED <<cycle, open, pool, rows, rejected, saved>>

(* top_dore_trade_plans: a row or a rejection for each, an exception being a
   rejection. *)
Process ==
    /\ step = "process"
    /\ \E planned \in SUBSET pool :
         /\ rows' = [s \in Symbols |-> IF s \in planned THEN Fresh(s, cycle) ELSE NoRow]
         /\ rejected' = pool \ planned
    /\ step' = "carry"
    /\ UNCHANGED <<cycle, open, pool, openRead, squeezed, saved, faults>>

(* Fault: only rejected symbols are carried, not those that left the pool. *)
MissingInPool == {s \in openRead \cap pool : rows[s] = NoRow}

(* Symbols with an open plan and no row get the previous snapshot's; if it
   cannot be read the cycle is saved bare. *)
Missing == {s \in openRead : rows[s] = NoRow}
CarryForward ==
    [s \in Symbols |->
        IF s \in Missing /\ saved.rows[s] # NoRow
        THEN CarriedRow(saved.rows[s], saved.made) ELSE rows[s]]
Carry ==
    /\ step = "carry"
    /\ \/ rows' = CarryForward /\ step' = "save" /\ UNCHANGED faults
       \/ UNCHANGED rows /\ step' = "bare" /\ Missing # {} /\ Fault
    /\ UNCHANGED <<cycle, open, pool, openRead, squeezed, rejected, saved>>

SaveSnapshot ==
    /\ step \in {"save", "bare"}
    /\ \/ saved' = [made |-> cycle, rows |-> rows] /\ UNCHANGED faults
       \/ UNCHANGED saved /\ Fault
    /\ step' = "idle"
    /\ UNCHANGED <<cycle, open, pool, openRead, squeezed, rows, rejected>>

(* Stage 1 raises before it saves: the scanner logs it and goes on. *)
Fails ==
    /\ step \in {"open", "process", "carry"} /\ Fault
    /\ step' = "idle"
    /\ UNCHANGED <<cycle, open, pool, openRead, squeezed, rows, rejected, saved>>

(* Stage 2 mints plans from the saved rows and closes plans, at any time. *)
StageTwoMints ==
    /\ \E s \in Symbols \ open : saved.rows[s] # NoRow /\ open' = open \cup {s}
    /\ UNCHANGED <<cycle, step, pool, openRead, squeezed, rows, rejected, saved, faults>>
StageTwoCloses ==
    /\ \E s \in open : open' = open \ {s}
    /\ UNCHANGED <<cycle, step, pool, openRead, squeezed, rows, rejected, saved, faults>>

StageOneNext ==
    \/ StartStageOne \/ ReadOpen \/ Process \/ Carry \/ SaveSnapshot \/ Fails
    \/ StageTwoMints \/ StageTwoCloses

StageOneSpec == StageOneInit /\ [][StageOneNext]_stageOneVars
-----------------------------------------------------------------------------
(* A symbol whose plan was open when the cycle looked keeps its technical row
   from one snapshot to the next, rejected, failed or out of the pool as it
   may be this cycle: unless the previous snapshot could not be read. *)
OpenRowsKept ==
    [][\A s \in openRead :
          (step = "save" /\ saved' # saved /\ saved.rows[s] # NoRow)
              => saved'.rows[s] # NoRow]_stageOneVars

(* A row that is older than its snapshot says so, and names a cycle between
   the one that computed it and the snapshot's, however often it was carried. *)
StaleRowsTagged ==
    \A s \in Symbols :
        LET r == saved.rows[s]
        IN  r # NoRow => IF r.read = saved.made THEN ~r.carried
                         ELSE r.carried /\ r.asOf \in r.read .. saved.made - 1
=============================================================================
