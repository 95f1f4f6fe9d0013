----------------------------- MODULE TradeLedger -----------------------------
(***************************************************************************)
(* What the option plans promise about the trades of a book, whatever      *)
(* reads and writes fail and whoever else writes the table: a trade is     *)
(* dated the day of its entry, and one held overnight keeps its day and    *)
(* its price until it is closed, once and for all.  Within its first day   *)
(* nothing is promised: a mint may write over the row, and the page may.   *)
(***************************************************************************)
EXTENDS Naturals

CONSTANTS
    Plans,      \* identities of plans
    Prices,     \* entry premiums
    LastDay,    \* bound: the last day looked at
    NoTrade     \* a plan that is not entered

VARIABLES
    today,
    ledger      \* the trade of each plan

vars == <<today, ledger>>
-----------------------------------------------------------------------------
Trade == [price : Prices, day : 0 .. LastDay, open : BOOLEAN]

Overnight(x) == ledger[x] # NoTrade /\ ledger[x].day < today

Settled(t) == [t EXCEPT !.open = FALSE]

Init ==
    /\ today = 0
    /\ ledger = [x \in Plans |-> NoTrade]

NextDay ==
    /\ today' = today + 1
    /\ today' \in 0 .. LastDay
    /\ UNCHANGED ledger

Deal ==
    /\ ledger' \in [Plans -> Trade \cup {NoTrade}]
    /\ \A x \in Plans :
          IF Overnight(x)
          THEN ledger'[x] \in {ledger[x], Settled(ledger[x])}
          ELSE ledger'[x] # NoTrade => ledger'[x].day = today
    /\ UNCHANGED today

Next == NextDay \/ Deal

Spec == Init /\ [][Next]_vars
=============================================================================
