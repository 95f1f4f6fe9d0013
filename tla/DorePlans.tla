------------------------------ MODULE DorePlans ------------------------------
(***************************************************************************)
(* Stage 2 of the DORE options scanner: the life of an option plan from    *)
(* the mint of a tracked candidate through its entry to its close          *)
(* (src/utils/dore_options_persistence.py, called once a minute by         *)
(* src/utils/dore_live_state.py), the rows of dore_options_plans it keeps, *)
(* the final outcomes it records, and the Remove button of the Active      *)
(* Plans page, which closes plans from another process.                    *)
(*                                                                         *)
(* A cycle loads the open plans, treats the rows of the Stage 1 snapshot   *)
(* and then those of the open plans the snapshot does not name, in memory, *)
(* sweeps what it has not seen and writes everything it touched in one     *)
(* statement.  A premium is one of the levels at which something happens;  *)
(* a day is a trading session.  The statuses before the entry (TRACKED,    *)
(* WAITING_FOR_ENTRY, ENTRY_READY, IN_ENTRY_ZONE) are one, since no        *)
(* decision tells them apart.                                              *)
(***************************************************************************)
EXTENDS Naturals, FiniteSets

CONSTANTS
    Contracts,      \* option contracts (symbol, direction, strike, expiry)
    Pair,           \* the symbol and direction of a contract
    Expiry,         \* the last day of a contract
    Confidences,    \* the confidence scores told apart
    Floor,          \* track_floor(): below it nothing is minted
    Margin,         \* MATERIALLY_BETTER_MARGIN
    MaxActive,      \* MAX_ACTIVE_DORE_OPTIONS_PLANS
    MaxAge,         \* MAX_DORE_OPTIONS_PLAN_AGE_DAYS
    Zone,           \* the premium levels of the entry zone, of 1 and 2
    LastDay,        \* bound: the last day looked at
    MaxMisreads,    \* bound: failed reads of the open plans
    FaultySaves,    \* whether a write may fail, and the worker die
    NoPlan          \* the absence of a plan

ASSUME DoreAssumption ==
    /\ IsFiniteSet(Contracts)
    /\ Expiry \in [Contracts -> Nat]
    /\ Confidences \subseteq Nat
    /\ Floor \in Nat /\ Margin \in Nat
    /\ MaxActive \in Nat \ {0} /\ MaxAge \in Nat \ {0}
    /\ Zone \subseteq {1, 2}
    /\ LastDay \in Nat /\ MaxMisreads \in Nat /\ FaultySaves \in BOOLEAN

VARIABLES
    today,      \* the date in IST
    table,      \* dore_options_plans: contract and day of creation to row
    settled,    \* outcome_final: contract to the days of its recorded plans
    pc,         \* where the worker is in refresh_dore_live_state
    fresh,      \* contracts of the Stage 1 snapshot still to treat
    carried,    \* contracts carried forward, still to treat
    skipped,    \* contracts whose row was left out of this cycle
    old,        \* existing_plans: the plan objects loaded this cycle
    new,        \* the plan objects minted this cycle
    slot,       \* open_now: which of the two a contract has in it
    batch,      \* updated_plans: the objects to write
    twice,      \* updated_plans names one object twice
    misreads,   \* failed reads of the open plans so far
    removal     \* the plan the page is about to write as closed

book == <<fresh, carried, skipped, old, new, slot, batch, twice>>
vars == <<today, table, settled, pc, book, misreads, removal>>
-----------------------------------------------------------------------------
Days == 0 .. LastDay
Kinds == {"old", "new"}

(* Premium levels: the stop loss, an entry zone of two prices, the targets. *)
StopLoss == 0
Target1 == 3
Target2 == 4
NoQuote == 5
Premiums == StopLoss .. NoQuote
NoEntry == 0

(* DoreOptionsPlan: "entered" is the day of entry_triggered_at.  Which reason
   closed a plan decides nothing here; it only words the outcome. *)
Plan == [created : Days, status : {"TRACKED", "ACTIVE", "CLOSED"},
         entry : {NoEntry} \cup Zone, entered : Days, t1 : BOOLEAN,
         confidence : Confidences \cup {0}]

ASSUME NoPlanAssumption ==
    NoPlan \notin Plan \cup [price : Zone, day : Days, open : BOOLEAN]

IsOpen(p) == p # NoPlan /\ p.status # "CLOSED"
IsActive(p) == p # NoPlan /\ p.status = "ACTIVE"

Expired(c) == Expiry[c] < today

(* _lifecycle_age_start and _is_stale_by_age *)
AgeStart(p) == IF IsActive(p) THEN p.entered ELSE p.created
Stale(p) == today >= AgeStart(p) + MaxAge

(* sl_locked: raised to the entry when T1 is reached. *)
StopOf(p) == IF p.t1 THEN p.entry ELSE StopLoss

(* Fault: the plan is dated in another time zone. *)
MintedTomorrow ==
    [created |-> today + 1, status |-> "TRACKED", entry |-> NoEntry,
     entered |-> today, t1 |-> FALSE, confidence |-> 0]

(* _make_plan_id: one identity per contract and day, so the row.  Nothing
   asks for the confidence of a plan before its entry. *)
Minted ==
    [created |-> today, status |-> "TRACKED", entry |-> NoEntry,
     entered |-> today, t1 |-> FALSE, confidence |-> 0]

(* A closed plan, without the fields nothing reads again. *)
Close(p) ==
    [p EXCEPT !.status = "CLOSED", !.t1 = FALSE]

(* Fault: the outcome goes to the plan_id minted today. *)
RecordToday(s, c, p) == [s EXCEPT ![c] = @ \cup {today}]

(* _record: the first of the two writes that close a trade *)
Record(s, c, p) == [s EXCEPT ![c] = @ \cup {p.created}]
-----------------------------------------------------------------------------
(* open_now *)
InBook(c) ==
    CASE slot[c] = "old" -> old[c]
      [] slot[c] = "new" -> new[c]
      [] OTHER -> NoPlan

(* Fault: the cap is counted on the plans as loaded. *)
ActiveWhenLoaded == {c \in Contracts : IsActive(old[c])}

ActiveInBook == {c \in Contracts : IsActive(InBook(c))}

(* _blocking_open_plan *)
Blocked(c) ==
    \E other \in ActiveInBook \ {c} : Pair[other] = Pair[c] /\ ~InBook(other).t1

(* _find_weakest_open_plan: lowest confidence, then the oldest. *)
Weakest(c) ==
    /\ c \in ActiveInBook
    /\ \A d \in ActiveInBook :
          \/ InBook(c).confidence < InBook(d).confidence
          \/ /\ InBook(c).confidence = InBook(d).confidence
             /\ InBook(c).created <= InBook(d).created

(* The book once contract w is retired: its object is closed and leaves
   open_now, and it joins updated_plans, where its own row may have put it. *)
Retire(w) ==
    LET p == Close(InBook(w))
        k == slot[w]
    IN  [old |-> IF k = "old" THEN [old EXCEPT ![w] = p] ELSE old,
         new |-> IF k = "new" THEN [new EXCEPT ![w] = p] ELSE new,
         slot |-> [slot EXCEPT ![w] = "none"],
         batch |-> batch \cup {<<k, w>>},
         twice |-> twice \/ <<k, w>> \in batch,
         settled |-> Record(settled, w, p)]

Unretired ==
    [old |-> old, new |-> new, slot |-> slot, batch |-> batch, twice |-> twice,
     settled |-> settled]

(* The book with plan p as contract c's, after its row: in updated_plans,
   unless validate_single_plan refuses the row, which also takes a plan
   minted by it out of open_now. *)
KeepRow(b, c, p, minted, valid) ==
    LET k == IF minted THEN "new" ELSE slot[c]
    IN  /\ old' = IF k = "old" THEN [b.old EXCEPT ![c] = p] ELSE b.old
        /\ new' = IF k = "new" THEN [b.new EXCEPT ![c] = p] ELSE b.new
        /\ slot' = IF minted
                   THEN [b.slot EXCEPT ![c] = IF valid THEN "new" ELSE "none"]
                   ELSE b.slot
        /\ batch' = IF valid THEN b.batch \cup {<<k, c>>} ELSE b.batch
        /\ twice' = b.twice

(* A row is done: fresh ones first, then the carried forward. *)
Take(c, isFresh) ==
    /\ pc = "rows"
    /\ IF isFresh THEN c \in fresh ELSE fresh = {} /\ c \in carried
    /\ fresh' = fresh \ {c}
    /\ carried' = IF isFresh THEN carried ELSE carried \ {c}
    /\ UNCHANGED <<today, table, pc, misreads, removal>>

(* A carried-forward row repeats the confidence of its plan. *)
RowConfidence(c, isFresh) ==
    IF isFresh THEN Confidences ELSE {old[c].confidence}

(* Fault: an open plan is found by its plan_id, so only on its first day. *)
MintsDaily(c) == ~(IsOpen(InBook(c)) /\ InBook(c).created = today)

(* The plan a row works on: the open one, or one minted for it. *)
Mints(c) == ~IsOpen(InBook(c))
MayMint(c, confidence) == confidence >= Floor /\ ~Expired(c) /\ ~Blocked(c)
PlanFor(c) == IF Mints(c) THEN Minted ELSE InBook(c)
-----------------------------------------------------------------------------
Init ==
    /\ today = 0
    /\ table = [c \in Contracts |-> [d \in Days |-> NoPlan]]
    /\ settled = [c \in Contracts |-> {}]
    /\ pc = "idle"
    /\ fresh = {} /\ carried = {} /\ skipped = {}
    /\ old = [c \in Contracts |-> NoPlan] /\ new = old
    /\ slot = [c \in Contracts |-> "none"]
    /\ batch = {} /\ twice = FALSE
    /\ misreads = 0
    /\ removal = NoPlan

Begin(plans, stageOne) ==
    /\ pc = "idle"
    /\ pc' = "rows"
    /\ fresh' = stageOne
    /\ carried' = {c \in Contracts \ stageOne : plans[c] # NoPlan}
    /\ old' = plans
    /\ new' = [c \in Contracts |-> NoPlan]
    /\ slot' = [c \in Contracts |-> IF plans[c] = NoPlan THEN "none" ELSE "old"]
    /\ batch' = {} /\ twice' = FALSE /\ skipped' = {}
    /\ UNCHANGED <<today, table, settled, removal>>

(* Of several open rows of one contract, load_open_dore_options_plans keeps
   one.  A stale or missing Stage 1 snapshot names no contract. *)
Load(stageOne) ==
    /\ \E day \in [Contracts -> Days] :
          /\ \A c \in Contracts :
                IF \E d \in Days : IsOpen(table[c][d])
                THEN IsOpen(table[c][day[c]])
                ELSE day[c] = 0
          /\ Begin([c \in Contracts |-> IF IsOpen(table[c][day[c]])
                                        THEN table[c][day[c]] ELSE NoPlan], stageOne)
    /\ UNCHANGED misreads

(* A failed read answers {}. *)
LoadFails(stageOne) ==
    /\ misreads < MaxMisreads
    /\ misreads' = misreads + 1
    /\ Begin([c \in Contracts |-> NoPlan], stageOne)

(* The live refresh of one plan fails, and its row is left out. *)
RowSkipped(c, isFresh) ==
    /\ Take(c, isFresh)
    /\ skipped' = skipped \cup {c}
    /\ UNCHANGED <<settled, old, new, slot, batch, twice>>

(* No open plan, and none is minted. *)
RowUntracked(c, isFresh) ==
    /\ Take(c, isFresh)
    /\ Mints(c)
    /\ \E confidence \in RowConfidence(c, isFresh) : ~MayMint(c, confidence)
    /\ UNCHANGED <<settled, skipped, old, new, slot, batch, twice>>

(* The entry conditions of Level 2 but for the capacity: a fresh row with a
   valid structure, the premium in its zone, the underlying confirming, before
   the cut-off.  "ready" is all of them but the premium. *)
Enters(isFresh, premium, ready) == isFresh /\ premium \in Zone /\ ready

(* Not entered: the plan stays; a carried one that has expired or grown old
   is closed without an outcome. *)
RowWatched(c, isFresh) ==
    /\ Take(c, isFresh)
    /\ \E confidence \in RowConfidence(c, isFresh), premium \in Premiums,
          ready \in BOOLEAN, valid \in BOOLEAN :
          /\ Mints(c) => MayMint(c, confidence)
          /\ LET p == PlanFor(c)
                 closes == ~Mints(c) /\ ~isFresh /\ (Expired(c) \/ Stale(p))
             IN  /\ ~IsActive(p)
                 /\ Enters(isFresh, premium, ready) =>
                       /\ Cardinality(ActiveInBook) >= MaxActive
                       /\ \A w \in Contracts : Weakest(w) =>
                             confidence < InBook(w).confidence + Margin
                 /\ IF closes
                    THEN KeepRow(Unretired, c, Close(p), FALSE, TRUE)
                    ELSE KeepRow(Unretired, c, p, Mints(c), valid)
    /\ UNCHANGED <<settled, skipped>>

(* Fault: expiry and age are left to the sweep and the page. *)
ExitsOnPrice(c, p, premium, breach, minted) ==
    breach \/ premium <= StopOf(p) \/ premium = Target2

(* An active plan against this tick: thesis, stop and target, and for a plan
   of an earlier cycle its expiry and age.  The EMA thesis is read off the
   row, and only a Stage 1 row carries it. *)
Exits(c, p, premium, breach, minted) ==
    \/ breach
    \/ premium <= StopOf(p)
    \/ premium = Target2
    \/ ~minted /\ (Expired(c) \/ Stale(p))

(* T1 is sticky and raises the stop; a breach is looked at before it. *)
Ticked(p, premium, breach) ==
    [p EXCEPT !.t1 = @ \/ (~breach /\ premium \in {Target1, Target2})]

Monitor(b, c, p, premium, breach, minted, valid) ==
    LET q == Ticked(p, premium, breach)
    IN  IF Exits(c, q, premium, breach, minted)
        THEN /\ KeepRow(b, c, Close(q), minted, TRUE)
             /\ settled' = Record(b.settled, c, q)
        ELSE /\ KeepRow(b, c, q, minted, valid)
             /\ settled' = b.settled

RowActive(c, isFresh) ==
    /\ Take(c, isFresh)
    /\ IsActive(InBook(c))
    /\ \E premium \in Premiums, breach \in BOOLEAN, valid \in BOOLEAN :
          Monitor(Unretired, c, InBook(c), premium, breach, FALSE, valid)
    /\ UNCHANGED skipped

(* The entry: the premium is locked, a full book first retires its weakest
   plan if this one is materially better, and the same tick is monitored. *)
RowEnters(c) ==
    /\ Take(c, TRUE)
    /\ ~IsActive(InBook(c))
    /\ \E confidence \in Confidences, premium \in Zone, breach \in BOOLEAN,
          valid \in BOOLEAN, b \in {Unretired} \cup {Retire(w) : w \in ActiveInBook} :
          /\ Mints(c) => MayMint(c, confidence)
          /\ IF Cardinality(ActiveInBook) < MaxActive
             THEN b = Unretired
             ELSE \E w \in ActiveInBook :
                     /\ Weakest(w)
                     /\ confidence >= InBook(w).confidence + Margin
                     /\ b = Retire(w)
          /\ Monitor(b, c, [PlanFor(c) EXCEPT
                                !.status = "ACTIVE", !.entry = premium,
                                !.entered = today, !.confidence = confidence],
                     premium, breach, Mints(c), valid)
    /\ UNCHANGED skipped

(* The pass over the loaded plans no row named: expiry, then age. *)
Sweep ==
    /\ pc = "rows" /\ fresh = {} /\ carried = {}
    /\ pc' = "save"
    /\ LET closing == {c \in skipped : IsOpen(old[c]) /\ (Expired(c) \/ Stale(old[c]))}
       IN  /\ old' = [c \in Contracts |->
                         IF c \in closing THEN Close(old[c]) ELSE old[c]]
           /\ batch' = batch \cup {<<"old", c>> : c \in closing}
           /\ settled' = [c \in Contracts |->
                           IF c \in closing THEN settled[c] \cup {old[c].created} ELSE settled[c]]
    /\ UNCHANGED <<today, table, fresh, carried, skipped, new, slot, twice, misreads,
                   removal>>

(* upsert_dore_options_plans_batch: one INSERT ... ON CONFLICT, which the
   database refuses when it names a plan_id twice. *)
ObjectOf(k, c) == IF k = "old" THEN old[c] ELSE new[c]

TwoOfOnePlan ==
    \/ twice
    \/ \E c \in Contracts : /\ {<<"old", c>>, <<"new", c>>} \subseteq batch
                            /\ old[c].created = new[c].created

(* The cycle is over, and its objects with it. *)
Done ==
    /\ pc' = "idle"
    /\ fresh' = {} /\ carried' = {} /\ skipped' = {}
    /\ old' = [c \in Contracts |-> NoPlan] /\ new' = old'
    /\ slot' = [c \in Contracts |-> "none"]
    /\ batch' = {} /\ twice' = FALSE

Save ==
    /\ pc = "save"
    /\ ~TwoOfOnePlan
    /\ table' = [c \in Contracts |-> [d \in Days |->
           IF \E k \in Kinds : <<k, c>> \in batch /\ ObjectOf(k, c).created = d
           THEN ObjectOf(CHOOSE k \in Kinds :
                           <<k, c>> \in batch /\ ObjectOf(k, c).created = d, c)
           ELSE table[c][d]]]
    /\ Done
    /\ UNCHANGED <<today, settled, misreads, removal>>

(* Refused, or the database is down: logged, and the answer is not looked at. *)
SaveFails ==
    /\ pc = "save"
    /\ TwoOfOnePlan \/ FaultySaves
    /\ Done
    /\ UNCHANGED <<today, table, settled, misreads, removal>>

Crash ==
    /\ FaultySaves /\ pc # "idle"
    /\ Done
    /\ UNCHANGED <<today, table, settled, misreads, removal>>

(* _remove_inactive_dore_plans: the plan is read anew and looked at, its
   outcome recorded; then the row is written as closed. *)
RemoveInactive(c, d) ==
    /\ removal = NoPlan
    /\ IsOpen(table[c][d])
    /\ Expired(c) \/ Stale(table[c][d])
    /\ removal' = [contract |-> c, plan |-> Close(table[c][d])]
    /\ settled' = Record(settled, c, removal'.plan)
    /\ UNCHANGED <<today, table, pc, book, misreads>>

RemoveSaves ==
    /\ removal # NoPlan
    /\ table' = [table EXCEPT ![removal.contract][removal.plan.created] = removal.plan]
    /\ removal' = NoPlan
    /\ UNCHANGED <<today, settled, pc, book, misreads>>

RemoveFails ==
    /\ FaultySaves /\ removal # NoPlan
    /\ removal' = NoPlan
    /\ UNCHANGED <<today, table, settled, pc, book, misreads>>

NextDay ==
    /\ pc = "idle" /\ removal = NoPlan
    /\ today < LastDay
    /\ today' = today + 1
    /\ UNCHANGED <<table, settled, pc, book, misreads, removal>>

Row(c) ==
    \/ RowEnters(c)
    \/ \E isFresh \in BOOLEAN :
          \/ RowSkipped(c, isFresh)
          \/ RowUntracked(c, isFresh)
          \/ RowWatched(c, isFresh)
          \/ RowActive(c, isFresh)

Cycle ==
    \/ \E stageOne \in SUBSET Contracts : Load(stageOne) \/ LoadFails(stageOne)
    \/ \E c \in Contracts : Row(c)
    \/ Sweep \/ Save \/ SaveFails \/ Crash

Page ==
    \/ \E c \in Contracts, d \in Days : RemoveInactive(c, d)
    \/ RemoveSaves \/ RemoveFails

Next == Cycle \/ Page \/ NextDay

Spec == Init /\ [][Next]_vars
-----------------------------------------------------------------------------
Places == Contracts \X Days
RowAt(x) == table[x[1]][x[2]]

(* The plans, the objects of a cycle and the recorded outcomes keep their
   types, and a row is where its identity says. *)
TypeOK ==
    /\ today \in Days
    /\ table \in [Contracts -> [Days -> Plan \cup {NoPlan}]]
    /\ \A x \in Places : RowAt(x) # NoPlan => RowAt(x).created = x[2]
    /\ settled \in [Contracts -> SUBSET Days]
    /\ pc \in {"idle", "rows", "save"}
    /\ fresh \subseteq Contracts /\ carried \subseteq Contracts /\ skipped \subseteq Contracts
    /\ old \in [Contracts -> Plan \cup {NoPlan}]
    /\ new \in [Contracts -> Plan \cup {NoPlan}]
    /\ slot \in [Contracts -> Kinds \cup {"none"}]
    /\ batch \subseteq Kinds \X Contracts
    /\ twice \in BOOLEAN
    /\ misreads \in 0 .. MaxMisreads
    /\ removal \in [contract : Contracts, plan : Plan] \cup {NoPlan}

(* The portfolio cap holds in the table: whatever a cycle decided against its
   own copy of the book, and whatever was lost of it, no more than MaxActive
   plans are entered, as long as no read of the open plans failed. *)
CapHeld ==
    misreads = 0 => Cardinality({x \in Places : IsActive(RowAt(x))}) <= MaxActive

(* One open row per contract, as the contract_key of the loaded dict assumes:
   a plan it hides would be looked at by nobody. *)
OneOpenPerContract ==
    misreads = 0 =>
        \A x, y \in Places : (x[1] = y[1] /\ IsOpen(RowAt(x)) /\ IsOpen(RowAt(y))) => x = y

(* A trade that is closed in the table has its final outcome, although the
   two are written by separate statements, in this order. *)
ClosedTradeHasOutcome ==
    \A x \in Places :
        (RowAt(x) # NoPlan /\ RowAt(x).status = "CLOSED" /\ RowAt(x).entry # NoEntry)
            => x[2] \in settled[x[1]]

(* The rows as a ledger of trades: one held overnight keeps its entry and is
   closed once, under failed reads and writes, crashes, and the page. *)
TradeOf(row) ==
    IF row = NoPlan \/ row.entry = NoEntry
    THEN NoPlan
    ELSE [price |-> row.entry, day |-> row.entered, open |-> IsActive(row)]

Ledger == INSTANCE TradeLedger WITH
    Plans <- Places, Prices <- Zone, NoTrade <- NoPlan,
    ledger <- [x \in Places |-> TradeOf(RowAt(x))]

LedgerSpec == Ledger!Spec

(* Violated: what a cycle decided is in the table when it ends, unless the
   database failed. *)
CycleIsSaved ==
    [][(pc = "save" /\ pc' = "idle") =>
          \A o \in batch : LET p == ObjectOf(o[1], o[2])
                           IN  table'[o[2]][p.created] = p]_vars
=============================================================================
