------------------------------ MODULE IvHistory ------------------------------
(***************************************************************************)
(* The history of implied volatility behind Stage 1's IV rank: a reading   *)
(* per symbol and cycle kept in RAM, flushed by one background thread into *)
(* the table dore_iv_history, one row per symbol and trading day, and read *)
(* back over a trailing window (src/utils/iv_history_store.py).            *)
(*                                                                         *)
(* A reading is its volatility and, which the program does not keep, the   *)
(* day it was made on.                                                     *)
(***************************************************************************)
EXTENDS Integers, FiniteSets, Sequences

CONSTANTS
    Watched,     \* symbols DORE shortlists
    Vols,        \* at-the-money volatilities told apart, in per cent
    MinHistory,  \* _MIN_HISTORY_DAYS
    Lookback,    \* lookback_days
    KeepDays,    \* keep_days of the retention loop
    LastDate,     \* bound: trading days
    LastRound,   \* bound: cycles of a day
    MaxOops,     \* bound: failed reads and writes, restarts
    NoIv         \* no reading

ASSUME IvAssumption ==
    /\ Vols \subseteq Nat
    /\ MinHistory \in Nat \ {0} /\ Lookback \in Nat /\ KeepDays \in Nat
    /\ LastDate \in Nat /\ LastRound \in Nat /\ MaxOops \in Nat

VARIABLES
    date,       \* date.today()
    round,      \* cycles of Stage 1 begun today
    scanning,   \* a cycle is under way
    todo,       \* its shortlisted symbols whose chain is still to come
    buffer,     \* _today_iv
    flushes,    \* the queue of _flush_executor: copies of the buffer
    ivRows,     \* dore_iv_history: symbol and trade_date to the reading
    context,    \* the last IVContext: its symbol, rank and the rows behind it
    oops        \* failures so far

ivVars == <<date, round, scanning, todo, buffer, flushes, ivRows, context, oops>>
-----------------------------------------------------------------------------
Dates == 1 .. LastDate

Oops == oops < MaxOops /\ oops' = oops + 1

NoContext == [of |-> NoIv, rank |-> NoIv, rows |-> {}]

IvInit ==
    /\ date = 1 /\ round = 0 /\ scanning = FALSE /\ todo = {}
    /\ buffer = [s \in Watched |-> NoIv]
    /\ flushes = <<>>
    /\ ivRows = [s \in Watched |-> [d \in Dates |-> NoIv]]
    /\ context = NoContext /\ oops = 0

(* A cycle of compute_dore_technical_plans, with its shortlist. *)
StartCycle ==
    /\ ~scanning /\ round < LastRound
    /\ scanning' = TRUE /\ round' = round + 1
    /\ todo' \in SUBSET Watched
    /\ UNCHANGED <<date, buffer, flushes, ivRows, context, oops>>

(* load_iv_history: the rows of the window, today's excluded. *)
Window(s) == {d \in Dates : d >= date - Lookback /\ d < date /\ ivRows[s][d] # NoIv}

(* iv_rank: the place of a reading between the extremes of the window. *)
RankIn(ivs, iv) ==
    LET lo == CHOOSE x \in ivs : \A y \in ivs : x <= y
        hi == CHOOSE x \in ivs : \A y \in ivs : x >= y
    IN  CASE lo = hi -> 50
          [] iv <= lo -> 0
          [] iv >= hi -> 100
          [] OTHER -> ((iv - lo) * 100) \div (hi - lo)

(* get_iv_rank_percentile *)
ContextOf(s, iv, dates) ==
    IF Cardinality(dates) < MinHistory THEN NoContext
    ELSE LET hist == {[on |-> d, row |-> ivRows[s][d]] : d \in dates}
         IN  [of |-> s, rank |-> RankIn({h.row.iv : h \in hist}, iv), rows |-> hist]

(* record_iv: the last reading of a symbol, until the next. *)
Recorded(s, iv) == [buffer EXCEPT ![s] = [iv |-> iv, readOn |-> date]]

(* The chain of a symbol has come: the rank is looked up, then the reading
   recorded.  A failed read answers no rows; a chain without volatilities is
   neither ranked nor recorded. *)
Evaluate(s) ==
    /\ s \in todo
    /\ todo' = todo \ {s}
    /\ \/ \E iv \in Vols :
            /\ \/ context' = ContextOf(s, iv, Window(s)) /\ UNCHANGED oops
               \/ context' = NoContext /\ Oops
            /\ buffer' = Recorded(s, iv)
       \/ context' = NoContext /\ UNCHANGED <<buffer, oops>>
    /\ UNCHANGED <<date, round, scanning, flushes, ivRows>>

(* Stage 1 raises before the end of its cycle. *)
CycleFails ==
    /\ scanning /\ Oops
    /\ scanning' = FALSE /\ todo' = {}
    /\ UNCHANGED <<date, round, buffer, flushes, ivRows, context>>

(* flush_to_supabase, once per cycle: whatever the buffer holds is copied for
   the thread. *)
HandOver ==
    /\ scanning /\ todo = {}
    /\ scanning' = FALSE
    /\ flushes' = IF \E s \in Watched : buffer[s] # NoIv THEN Append(flushes, buffer)
                  ELSE flushes
    /\ UNCHANGED <<date, round, todo, buffer, ivRows, context, oops>>

(* The thread's task, with the date of the moment: one row per symbol and day. *)
FlushIv ==
    /\ flushes # <<>>
    /\ flushes' = Tail(flushes)
    /\ \/ /\ ivRows' = [s \in Watched |->
                IF Head(flushes)[s] = NoIv THEN ivRows[s]
                ELSE [ivRows[s] EXCEPT ![date] = Head(flushes)[s]]]
          /\ UNCHANGED oops
       \/ UNCHANGED ivRows /\ Oops
    /\ UNCHANGED <<date, round, scanning, todo, buffer, context>>

(* prune_iv_history, in the retention loop *)
PruneIv ==
    /\ ivRows' = [s \in Watched |-> [d \in Dates |->
                    IF d < date - KeepDays THEN NoIv ELSE ivRows[s][d]]]
    /\ ivRows' # ivRows
    /\ UNCHANGED <<date, round, scanning, todo, buffer, flushes, context, oops>>

(* The process is restarted: its RAM is gone, the table is not. *)
RestartIv ==
    /\ Oops
    /\ buffer' = [s \in Watched |-> NoIv] /\ flushes' = <<>>
    /\ scanning' = FALSE /\ todo' = {} /\ context' = NoContext
    /\ UNCHANGED <<date, round, ivRows>>

(* The loops rest from 15:30, so the last flush is done by midnight. *)
NextIvDay ==
    /\ ~scanning /\ flushes = <<>> /\ date < LastDate
    /\ date' = date + 1 /\ round' = 0
    /\ UNCHANGED <<scanning, todo, buffer, flushes, ivRows, context, oops>>

IvNext ==
    \/ StartCycle \/ (\E s \in Watched : Evaluate(s)) \/ CycleFails \/ HandOver
    \/ FlushIv \/ PruneIv \/ RestartIv \/ NextIvDay

IvSpec == IvInit /\ [][IvNext]_ivVars
-----------------------------------------------------------------------------
(* Violated: a rank is never fabricated from too little data (the module's
   docstring).  It rests on MinHistory days of the window on which the symbol
   was really read, not on one reading flushed again on days without any. *)
RankFromObservations ==
    context.rank # NoIv =>
        Cardinality({h \in context.rows : h.row.readOn = h.on}) >= MinHistory
=============================================================================
