------------------------------- MODULE PlanBook -------------------------------
(***************************************************************************)
(* What the setup plans of a symbol promise to whoever reads their table   *)
(* and their outcomes, however the writers get in one another's way: a     *)
(* plan is entered on its own day, and its levels are kept from the next   *)
(* day on; an outcome is given to a plan that is in the book and open, it  *)
(* is never taken back, and no plan ends in the book before it has one.    *)
(* What is not promised: that a plan with an outcome has ended, or that    *)
(* one that has ended is not opened again by a writer who has not seen it. *)
(***************************************************************************)
EXTENDS Naturals

CONSTANTS
    Plans,      \* identities of plans
    DayOf,      \* the day of each
    Levels,     \* sets of entry, stop and target prices
    LastDay,    \* bound: the last day looked at
    NoPlan      \* a plan that is not in the book

VARIABLES
    today,
    book,       \* the levels of each plan, and whether it has ended
    outcomes    \* the plans with a final outcome

vars == <<today, book, outcomes>>
-----------------------------------------------------------------------------
Entry == [levels : Levels, ended : BOOLEAN]

Init ==
    /\ today = 0
    /\ book \in [Plans -> Entry \cup {NoPlan}]
    /\ \A x \in Plans : book[x] # NoPlan => DayOf[x] = 0 /\ ~book[x].ended
    /\ outcomes = {}

NextDay ==
    /\ today < LastDay
    /\ today' = today + 1
    /\ UNCHANGED <<book, outcomes>>

Settle(x) ==
    /\ book[x] # NoPlan /\ ~book[x].ended
    /\ outcomes' = outcomes \cup {x}
    /\ UNCHANGED <<today, book>>

\* One plan is written; its day has come, and when it is over the levels are those it has.
Save(x, entry) ==
    /\ DayOf[x] <= today
    /\ DayOf[x] < today => book[x] # NoPlan /\ entry.levels = book[x].levels
    /\ entry.ended => x \in outcomes
    /\ book' = [book EXCEPT ![x] = entry]
    /\ UNCHANGED <<today, outcomes>>

Next ==
    \/ NextDay
    \/ \E x \in Plans : Settle(x) \/ \E entry \in Entry : Save(x, entry)

Spec == Init /\ [][Next]_vars
=============================================================================
