-------------------------- MODULE PortfolioRotation --------------------------
(* The rotation of weak holdings on the portfolio page (_apply_rotation and _best_swap of
   pages/portfolio.py, utils/rotate_candidates.py) and the dates since when each call has
   stood: one table for all sessions (upsert_rotate_flags) and a copy in the memory of
   each session. *)
EXTENDS Integers, FiniteSets, Functions

CONSTANTS
    Sessions,       \* the browser sessions
    Holdings,       \* the symbols of the portfolio
    Offers,         \* the symbols of the scan that are not held
    Views,          \* what one render sees: the actions, the scores, the eligible offers
                    \* (tier, age of the snapshot) and the offers that fall today
    MinSwap,        \* min_swap_score
    MaxChecks,      \* ROTATE_MAX_LIVE_CHECKS
    LastHalf,       \* bound: time, in parts of a day
    MaxLost,        \* bound: statements that fail
    NoSwap          \* no target, no flag, no score

ASSUME RotationAssumption ==
    /\ IsFiniteSet(Holdings) /\ IsFiniteSet(Offers) /\ Holdings \cap Offers = {}
    /\ NoSwap \notin Offers \cup Int \cup [target : Offers, since : Int]
    /\ MinSwap \in Nat \ {0} /\ MaxChecks \in Nat \ {0}
    /\ {LastHalf, MaxLost} \subseteq Nat
    /\ \A v \in Views : /\ v.action \in [Holdings -> {"EXIT", "REDUCE", "HOLD"}]
                        /\ v.score \in [Holdings -> Int \cup {NoSwap}]
                        /\ v.offer \in [Offers -> Int]
                        /\ v.eligible \subseteq Offers /\ v.falling \subseteq Offers
                        /\ \A x, y \in Offers : v.offer[x] = v.offer[y] => x = y

VARIABLES
    half,           \* time: the date turns in India before it turns in UTC
    flags,          \* the table rotate_flags
    mem,            \* _rotate_since_mem of each session, which the rows it last flagged show
    render,         \* the render each session is in
    losses,
    made            \* history: which target stood for which symbol, and when

rotationVars == <<half, flags, mem, render, losses, made>>

UtcDay(n) == n \div 2
IstDay(n) == (n + 1) \div 2

NoSwaps == [p \in Holdings |-> NoSwap]
-----------------------------------------------------------------------------
\* The pool is walked from the best score down, and no further than the checks allow.
Walked(v, pool) ==
    {x \in pool : Cardinality({y \in pool : v.offer[y] > v.offer[x]}) < MaxChecks}

\* pick_first_not_falling.
Candidates(v, taken) ==
    LET standing == Walked(v, v.eligible \ taken) \ v.falling
    IN {x \in standing : \A y \in standing : v.offer[y] <= v.offer[x]}

\* _best_swap: the offer, when it is enough above the score of the holding.
Gain(v, p, x) == v.offer[x] - v.score[p]

BestSwap(v, p, taken) ==
    IF \E x \in Candidates(v, taken) : v.score[p] # NoSwap /\ Gain(v, p, x) >= MinSwap
    THEN CHOOSE x \in Candidates(v, taken) : TRUE
    ELSE NoSwap

Urgency(v, p) == IF v.action[p] = "EXIT" THEN 0 ELSE 1

SortScore(v, p) == IF v.score[p] = NoSwap THEN 999 ELSE v.score[p]

\* Mutant: the strongest of the weak holdings comes first.
StrongestFirst(v, p, q) ==
    \/ Urgency(v, p) < Urgency(v, q)
    \/ Urgency(v, p) = Urgency(v, q) /\ SortScore(v, p) > SortScore(v, q)

Before(v, p, q) ==
    \/ Urgency(v, p) < Urgency(v, q)
    \/ Urgency(v, p) = Urgency(v, q) /\ SortScore(v, p) < SortScore(v, q)

Weak(v) == {p \in Holdings : v.action[p] \in {"REDUCE", "EXIT"}}

Swapped(swaps) == {p \in Holdings : swaps[p] # NoSwap}

\* The turns of the weak holdings: the sort leaves equal keys as the rows of the page were.
Turns(v) ==
    {turn \in Injection(Weak(v), 1..Cardinality(Weak(v))) :
        \A p, q \in Weak(v) : Before(v, p, q) => turn[p] < turn[q]}

Earlier(v, turn, p) == {q \in Weak(v) : turn[q] < turn[p]}

\* Each accepted swap takes its target out of the pool of the holdings after it.
Rounds(v) ==
    {round \in [turn : Turns(v), swaps : [Holdings -> Offers \cup {NoSwap}]] :
        \A p \in Holdings :
            LET taken == {round.swaps[q] : q \in Earlier(v, round.turn, p)}
            IN round.swaps[p] = IF p \in Weak(v) THEN BestSwap(v, p, taken) ELSE NoSwap}

Swaps == [v \in Views |-> {round.swaps : round \in Rounds(v)}]
-----------------------------------------------------------------------------
RotationInit ==
    /\ half = 1 /\ losses = 0 /\ made = {}
    /\ flags = NoSwaps
    /\ mem = [s \in Sessions |-> NoSwaps]
    /\ render = [s \in Sessions |-> NoSwap]

Witness(swaps) == made' = made \cup {<<p, swaps[p], half>> : p \in Swapped(swaps)}

Loses == losses < MaxLost /\ losses' = losses + 1

\* Mutant: a date is kept whatever the target it was for.
KeptAnyTarget(flag, target) == flag # NoSwap

Kept(flag, target) == flag # NoSwap /\ flag.target = target

\* The dates upsert_rotate_flags decides on, from the rows it read.
Stamped(swaps, rows, today) ==
    [p \in Holdings |-> IF swaps[p] = NoSwap THEN NoSwap
                    ELSE [target |-> swaps[p],
                          since |-> IF Kept(rows[p], swaps[p]) THEN rows[p].since ELSE today]]

\* A render up to the read of the table; rows that cannot be read count as none.
Render(s, v) ==
    /\ render[s] = NoSwap
    /\ \E swaps \in Swaps[v] :
         IF Swapped(swaps) = {}
         THEN UNCHANGED <<render, losses, made>>
         ELSE /\ Witness(swaps)
              /\ \/ /\ render' = [render EXCEPT ![s] = Stamped(swaps, flags, UtcDay(half))]
                    /\ UNCHANGED losses
                 \/ /\ Loses
                    /\ render' = [render EXCEPT ![s] = Stamped(swaps, NoSwaps, UtcDay(half))]
    /\ UNCHANGED <<half, flags, mem>>

\* The end of a render: each call is shown with its date, and the memory is left with the
\* calls of this render only.
Show(s, dated) ==
    /\ mem' = [mem EXCEPT ![s] = dated]
    /\ render' = [render EXCEPT ![s] = NoSwap]

\* The dates of the table are shown even if their upsert failed.
Upsert(s) ==
    /\ render[s] # NoSwap
    /\ \/ /\ flags' = [p \in Holdings |-> IF render[s][p] = NoSwap THEN flags[p] ELSE render[s][p]]
          /\ UNCHANGED losses
       \/ Loses /\ UNCHANGED flags
    /\ Show(s, render[s])
    /\ UNCHANGED <<half, made>>

\* Without a database the memory of the session decides.
RenderAlone(s, v) ==
    /\ render[s] = NoSwap /\ Loses
    /\ \E swaps \in Swaps[v] : /\ Swapped(swaps) # {}
                               /\ Witness(swaps)
                               /\ Show(s, Stamped(swaps, mem[s], IstDay(half)))
    /\ UNCHANGED <<half, flags>>

\* Time passes; the new session of a browser starts without a memory.
Pass ==
    /\ half < LastHalf /\ half' = half + 1
    /\ UNCHANGED <<flags, mem, render, losses, made>>

Reconnect(s) ==
    /\ mem' = [mem EXCEPT ![s] = NoSwaps]
    /\ render' = [render EXCEPT ![s] = NoSwap]
    /\ UNCHANGED <<half, flags, losses, made>>

RotationNext ==
    \/ \E s \in Sessions :
         \/ \E v \in Views : Render(s, v) \/ RenderAlone(s, v)
         \/ Upsert(s) \/ Reconnect(s)
    \/ Pass

RotationSpec == RotationInit /\ [][RotationNext]_rotationVars
-----------------------------------------------------------------------------
(* A date is one on which that very target stood for the symbol, in some session: no call
   carries the date of another, however the sessions' reads and writes of the table
   interleave and whichever of them fail. (upsert_rotate_flags, _apply_rotation) *)
SinceWitnessed ==
    \A p \in Holdings : \A flag \in {flags[p]} \cup {mem[s][p] : s \in Sessions} :
        flag # NoSwap => \E m \in made : /\ m[1] = p /\ m[2] = flag.target
                                         /\ flag.since \in {UtcDay(m[3]), IstDay(m[3])}

\* Holdings that must not have to give way to one another, by the words of the code: the
\* urgent before the weak, the lower score first.
Outranks(v, p, q) ==
    /\ v.score[p] # NoSwap
    /\ \/ v.action[p] = "EXIT" /\ v.action[q] = "REDUCE"
       \/ v.action[p] = v.action[q] /\ v.score[p] < v.score[q]

\* The targets a session is about to save, and the views that may have given them.
Targets(s) == [p \in Holdings |-> IF render[s][p] = NoSwap THEN NoSwap ELSE render[s][p].target]

Saving(s) == {v \in Views : render[s] # NoSwap /\ Targets(s) \in Swaps[v]}

(* The most urgent holdings get the best offers: none gets an offer that falls today or
   that another gets too, or that a holding which outranks it could have used better.
   (_apply_rotation, _best_swap) *)
SwapsStable ==
    \A s \in Sessions : \A v \in Saving(s) :
        LET swaps == Targets(s)
            Envies(p, q) == IF swaps[p] = NoSwap THEN Gain(v, p, swaps[q]) >= MinSwap
                            ELSE v.offer[swaps[p]] < v.offer[swaps[q]]
        IN \A q \in Swapped(swaps) :
             /\ swaps[q] \in v.eligible \ v.falling
             /\ \A p \in Weak(v) \ {q} : /\ swaps[p] # swaps[q]
                                         /\ Outranks(v, p, q) => ~Envies(p, q)
=============================================================================
