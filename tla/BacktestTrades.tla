--------------------------- MODULE BacktestTrades ---------------------------
(* The simulation of one symbol by the backtest (utils/backtest_engine.py,
   simulate_trades): the signals of the symbol are taken in date order, and one
   that is not blocked by an earlier trade is entered at the next bar's open and
   followed bar by bar to its target, its stop, the exit signal of a CCI plan or
   the end of the holding period. One step is one signal.

   Prices are whole numbers; which of two levels a bar reached first is told by
   the distance from the bar's open, as in utils/trade_levels.py. The bars are
   chosen in the initial state and never change. *)
EXTENDS Integers, Sequences, FiniteSets, FiniteSetsExt, SequencesExt

CONSTANTS
    LastBar,      \* the number of bars of the symbol's history
    HoldDays,     \* hold_days
    AllowOverlap, \* allow_overlap: every signal is an opportunity of its own
    Shapes,       \* the bars that may occur: records open, high, low, close
    Plans,        \* the plans a signal may publish: records sl, t1
    NoExit        \* a plan without an exit signal of its own

ASSUME HistoryAssumption ==
    /\ LastBar \in Nat /\ HoldDays \in Nat \ {0} /\ AllowOverlap \in BOOLEAN
    /\ \A b \in Shapes : /\ {b.open, b.low, b.high, b.close} \subseteq Int
                         /\ b.low <= b.open /\ b.open <= b.high
                         /\ b.low <= b.close /\ b.close <= b.high
    /\ \A p \in Plans : {p.sl, p.t1} \subseteq Int /\ 0 < p.sl /\ p.sl < p.t1

VARIABLES
    bar,          \* the price history, df_full
    signalled,    \* the date of the last signal taken
    blockedUntil, \* the exit date of the last trade, 0 before the first
    trades        \* the closed trades, in the order of their entries

tradeVars == <<bar, signalled, blockedUntil, trades>>

Bars == 1 .. LastBar

Reasons == {"T1 HIT", "SL HIT", "CCI_EXIT", "TIMEOUT"}
-----------------------------------------------------------------------------
(* A bar against the two levels of a plan. *)

Touched(b, plan) ==
    {x \in {"T1 HIT", "SL HIT"} : IF x = "T1 HIT" THEN b.high >= plan.t1 ELSE b.low <= plan.sl}

LevelOf(plan, hit) == IF hit = "T1 HIT" THEN plan.t1 ELSE plan.sl

Distance(b, plan, hit) == LET d == b.open - LevelOf(plan, hit) IN IF d < 0 THEN -d ELSE d

\* evaluate_bar_crossing: of two levels the one nearer to the open, of two as near the target.
Crossing(b, plan) ==
    IF Touched(b, plan) = {"T1 HIT", "SL HIT"}
    THEN IF Distance(b, plan, "T1 HIT") <= Distance(b, plan, "SL HIT") THEN "T1 HIT" ELSE "SL HIT"
    ELSE CHOOSE x \in Touched(b, plan) : TRUE
-----------------------------------------------------------------------------
(* The bars a trade entered at bar e is followed over. *)

HoldEnd(e) == Min({e + HoldDays, LastBar})

\* Mutant: the window is one bar shorter than the holding period.
ShortWindowEnd(e, cciExit) ==
    LET last == Max({e, HoldEnd(e) - 1})
    IN IF cciExit = NoExit \/ cciExit < e THEN last ELSE Min({cciExit, last})

\* The exit signal of a CCI plan closes the window early; one before the entry does not.
WindowEnd(e, cciExit) ==
    IF cciExit = NoExit \/ cciExit < e THEN HoldEnd(e) ELSE Min({cciExit, HoldEnd(e)})

Window(e, cciExit) == e .. WindowEnd(e, cciExit)

IsCciExit(i, cciExit) == cciExit # NoExit /\ i >= cciExit

\* The bars at which the walk over the window stops.
Stops(e, plan, cciExit) ==
    {i \in Window(e, cciExit) : IsCciExit(i, cciExit) \/ Touched(bar[i], plan) # {}}

\* Where the trade ends, why and at which price.
Outcome(e, plan, cciExit) ==
    LET stops == Stops(e, plan, cciExit)
        i == IF stops = {} THEN HoldEnd(e) ELSE Min(stops)
        reason == IF stops = {} THEN "TIMEOUT"
                  ELSE IF IsCciExit(i, cciExit) THEN "CCI_EXIT" ELSE Crossing(bar[i], plan)
    IN [bar |-> i, reason |-> reason,
        price |-> IF reason \in {"TIMEOUT", "CCI_EXIT"} THEN bar[i].close ELSE LevelOf(plan, reason)]

\* The best and the worst price of the window, whatever the trade's exit.
RunHigh(e, cciExit) == Max({bar[i].high : i \in Window(e, cciExit)})
RunLow(e, cciExit) == Min({bar[i].low : i \in Window(e, cciExit)})

Trade(d, plan, cciExit) ==
    [signal |-> d, entry |-> d + 1, price |-> bar[d + 1].open, plan |-> plan,
     cciExit |-> cciExit, exit |-> Outcome(d + 1, plan, cciExit),
     high |-> RunHigh(d + 1, cciExit), low |-> RunLow(d + 1, cciExit)]
-----------------------------------------------------------------------------
TradesInit ==
    /\ bar \in [Bars -> Shapes]
    /\ signalled = 0 /\ blockedUntil = 0 /\ trades = <<>>

\* Mutant: the date of the entry, not that of the signal, is compared.
BlockedByEntry(d) == ~AllowOverlap /\ d + 1 < blockedUntil

\* A signal is dropped while the last trade is open (its own exit date is free again)
\* and when fewer than two bars follow it.
Blocked(d) == ~AllowOverlap /\ d < blockedUntil
Considered(d) == ~Blocked(d) /\ LastBar - d >= 2

Skip(d) ==
    /\ ~Considered(d)
    /\ UNCHANGED <<blockedUntil, trades>>

\* An open at the stop or below spends the entry bar; one at the target or above does not.
GapDown(d, plan) ==
    /\ Considered(d) /\ bar[d + 1].open <= plan.sl
    /\ blockedUntil' = d + 1
    /\ UNCHANGED trades

GapUp(d, plan) ==
    /\ Considered(d) /\ bar[d + 1].open > plan.sl /\ bar[d + 1].open >= plan.t1
    /\ UNCHANGED <<blockedUntil, trades>>

Enter(d, plan, cciExit) ==
    /\ Considered(d) /\ plan.sl < bar[d + 1].open /\ bar[d + 1].open < plan.t1
    /\ LET t == Trade(d, plan, cciExit) IN
       /\ trades' = Append(trades, t)
       /\ blockedUntil' = t.exit.bar

\* The signal generators: dates in order, a plan, and for a CCI plan the bar of its exit.
TakeSignal(d, plan, cciExit) ==
    /\ d > signalled
    /\ signalled' = d
    /\ UNCHANGED bar
    /\ \/ Skip(d)
       \/ GapDown(d, plan)
       \/ GapUp(d, plan)
       \/ Enter(d, plan, cciExit)

TradesNext ==
    \E d \in Bars, plan \in Plans : \E cciExit \in {NoExit} \cup (d + 1 .. LastBar) :
        TakeSignal(d, plan, cciExit)

TradesSpec == TradesInit /\ [][TradesNext]_tradeVars
-----------------------------------------------------------------------------
(* The types of the state. *)
TradesTypeOK ==
    /\ bar \in [Bars -> Shapes]
    /\ signalled \in 0 .. LastBar /\ blockedUntil \in 0 .. LastBar
    /\ \A k \in DOMAIN trades : trades[k].exit.reason \in Reasons /\ trades[k].exit.bar \in Bars

(* Unless overlaps are allowed, one position at a time: a trade is entered at a bar its
   signal had not seen, and it is neither signalled before an earlier trade was closed nor
   entered at a bar of that trade (the blocking by exit date in simulate_trades). *)
TradesDisjoint ==
    \A k \in DOMAIN trades :
        /\ trades[k].entry > trades[k].signal
        /\ \A j \in 1 .. k - 1 : ~AllowOverlap =>
             /\ trades[k].signal >= trades[j].exit.bar
             /\ trades[k].entry > trades[j].exit.bar

(* No bar from e up to n, not included, touched a level or carried the exit signal. *)
QuietUntil(e, n, plan, cciExit) ==
    \A i \in e .. n - 1 : /\ plan.sl < bar[i].low /\ bar[i].high < plan.t1
                          /\ cciExit # NoExit => i < cciExit

ClosedFirst(t) ==
    /\ t.exit.bar \in t.entry .. t.entry + HoldDays
    /\ QuietUntil(t.entry, t.exit.bar, t.plan, t.cciExit)
    /\ t.exit.reason = "TIMEOUT" =>
         /\ t.exit.bar \in {t.entry + HoldDays, LastBar}
         /\ t.plan.sl < bar[t.exit.bar].low /\ bar[t.exit.bar].high < t.plan.t1
    /\ t.low <= t.exit.price /\ t.exit.price <= t.high

(* A trade is closed at the first bar that gave a reason to: none of the bars before
   its exit touched a level or carried its exit signal, it is held for no more than
   HoldDays bars after its entry, a timeout is a trade whose every bar was looked at,
   and the excursion it reports includes the price at which it was closed (the window
   and the default exit of simulate_trades count their bars separately). *)
ClosedAtFirstReason == \A k \in DOMAIN trades : ClosedFirst(trades[k])
=============================================================================
