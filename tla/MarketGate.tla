----------------------------- MODULE MarketGate -----------------------------
(* The market-hours gate (utils/system_state.py): a flag in the system_state row,
   which Settings toggles, read through two caches per process, that of the row
   (540 s, filled under its lock) and that of the gate alone (six hours, filled
   outside its lock from the first). The scan loops ask the gate's cache, the pages
   that of the row.

   Time passes in ticks; StateTtl and GateTtl are the lifetimes in ticks, and no
   read takes more than one. The environment variable that overrides the flag is
   left out: with it there is nothing to read. *)
EXTENDS Integers

CONSTANTS
    Procs,        \* the processes: the web app and the worker
    App,          \* the one whose Settings page toggles
    Threads,      \* the threads that ask
    Home,         \* the process of each
    StateTtl,     \* _STATE_CACHE_TTL_SECS
    GateTtl,      \* _GATE_ENABLED_CACHE_TTL_SECS
    MaxToggles,   \* bound: toggles of the flag
    MaxFailures   \* bound: reads that fail

ASSUME GateAssumption ==
    /\ App \in Procs /\ Home \in [Threads -> Procs]
    /\ StateTtl \in Nat \ {0} /\ GateTtl \in Nat /\ StateTtl < GateTtl
    /\ MaxToggles \in Nat /\ MaxFailures \in Nat

VARIABLES
    flag,         \* market_hours_gate_enabled in the row
    rowCache,     \* _STATE_CACHE of each process, as far as the flag goes
    gateCache,    \* _GATE_ENABLED_CACHE of each process
    lockedBy,     \* the thread that holds _STATE_CACHE_LOCK of each process, or Nobody
    thread,       \* where each thread is: pc, who asks, what it has read, whether late
    toggle,       \* where the Settings page is in set_market_hours_gate_enabled
    settled,      \* ticks since the flag was last written or a read last failed
    toggles, failures

gateVars == <<flag, rowCache, gateCache, lockedBy, thread, toggle, settled, toggles, failures>>

Nobody == "nobody"
Empty == [value |-> TRUE, age |-> GateTtl]
Idle == [pc |-> "idle", asker |-> "loop", got |-> TRUE, late |-> FALSE]

\* The longest a written flag may be ignored: a row read before and filled in a tick late is
\* kept for StateTtl, and passed on at its end to the gate's cache, which keeps it for GateTtl.
Settling == StateTtl + GateTtl + 1

\* Mutant: the row's copy is used for as long as the gate's.
RowFreshForGate(c) == c.age < GateTtl

RowFresh(c) == c.age < StateTtl
GateFresh(c) == c.age < GateTtl
-----------------------------------------------------------------------------
GateInit ==
    /\ flag \in BOOLEAN
    /\ rowCache = [p \in Procs |-> Empty] /\ gateCache = [p \in Procs |-> Empty]
    /\ lockedBy = [p \in Procs |-> Nobody]
    /\ thread = [t \in Threads |-> Idle]
    /\ toggle = "idle" /\ settled = 0 /\ toggles = 0 /\ failures = 0

\* A loop whose gate cache is fresh answers from it and changes nothing; otherwise it asks
\* for the row, as a page does at once.
Ask(t, asker) ==
    /\ thread[t].pc = "idle"
    /\ asker = "loop" => ~GateFresh(gateCache[Home[t]])
    /\ thread' = [thread EXCEPT ![t] = [Idle EXCEPT !.pc = "ask", !.asker = asker]]
    /\ UNCHANGED <<flag, rowCache, gateCache, lockedBy, toggle, settled, toggles, failures>>

\* What a thread does with the flag it got: a loop goes on to store it, a page is done.
Got(t, value) ==
    IF thread[t].asker = "loop" THEN [thread[t] EXCEPT !.pc = "store", !.got = value] ELSE Idle

\* get_system_state, with the lock free: a fresh copy is the answer,
RowHit(t) == LET p == Home[t] IN
    /\ thread[t].pc = "ask" /\ lockedBy[p] = Nobody /\ RowFresh(rowCache[p])
    /\ thread' = [thread EXCEPT ![t] = Got(t, rowCache[p].value)]
    /\ UNCHANGED <<flag, rowCache, gateCache, lockedBy, toggle, settled, toggles, failures>>

\* a stale one is replaced, with the lock held from the query
Query(t) == LET p == Home[t] IN
    /\ thread[t].pc = "ask" /\ lockedBy[p] = Nobody /\ ~RowFresh(rowCache[p])
    /\ lockedBy' = [lockedBy EXCEPT ![p] = t]
    /\ thread' = [thread EXCEPT ![t].pc = "fill", ![t].got = flag]
    /\ UNCHANGED <<flag, rowCache, gateCache, toggle, settled, toggles, failures>>

\* to the fill,
FillRow(t) == LET p == Home[t] IN
    /\ thread[t].pc = "fill"
    /\ rowCache' = [rowCache EXCEPT ![p] = [value |-> thread[t].got, age |-> 0]]
    /\ lockedBy' = [lockedBy EXCEPT ![p] = Nobody]
    /\ thread' = [thread EXCEPT ![t] = Got(t, thread[t].got)]
    /\ UNCHANGED <<flag, gateCache, toggle, settled, toggles, failures>>

\* and a failed query answers the default, which is not put into the row's cache.
\* Fault: the database does not answer.
QueryFails(t) ==
    /\ thread[t].pc = "fill" /\ failures < MaxFailures
    /\ failures' = failures + 1 /\ settled' = 0
    /\ lockedBy' = [lockedBy EXCEPT ![Home[t]] = Nobody]
    /\ thread' = [thread EXCEPT ![t] = Got(t, TRUE)]
    /\ UNCHANGED <<flag, rowCache, gateCache, toggle, toggles>>

\* The value is stored when it was read some time ago, whatever was toggled meanwhile.
StoreGate(t) ==
    /\ thread[t].pc = "store"
    /\ gateCache' = [gateCache EXCEPT ![Home[t]] = [value |-> thread[t].got, age |-> 0]]
    /\ thread' = [thread EXCEPT ![t] = Idle]
    /\ UNCHANGED <<flag, rowCache, lockedBy, toggle, settled, toggles, failures>>

\* set_market_hours_gate_enabled: the statement (a failed one changes nothing and invalidates
\* nothing), then one cache of the page's process, then the other.
WriteFlag ==
    /\ toggle = "idle" /\ toggles < MaxToggles
    /\ flag' = ~flag /\ toggle' = "written" /\ settled' = 0 /\ toggles' = toggles + 1
    /\ UNCHANGED <<rowCache, gateCache, lockedBy, thread, failures>>

ForgetRow ==
    /\ toggle = "written" /\ lockedBy[App] = Nobody
    /\ rowCache' = [rowCache EXCEPT ![App] = Empty]
    /\ toggle' = "forgetting"
    /\ UNCHANGED <<flag, gateCache, lockedBy, thread, settled, toggles, failures>>

ForgetGate ==
    /\ toggle = "forgetting"
    /\ gateCache' = [gateCache EXCEPT ![App] = Empty]
    /\ toggle' = "idle"
    /\ UNCHANGED <<flag, rowCache, lockedBy, thread, settled, toggles, failures>>

\* A direct edit of the row from outside: no cache is told.
EditOutside ==
    /\ toggles < MaxToggles
    /\ flag' = ~flag /\ settled' = 0 /\ toggles' = toggles + 1
    /\ UNCHANGED <<rowCache, gateCache, lockedBy, thread, toggle, failures>>

Older(c) == [c EXCEPT !.age = IF @ < GateTtl THEN @ + 1 ELSE @]

Tick ==
    /\ \A t \in Threads : ~thread[t].late
    /\ rowCache' = [p \in Procs |-> Older(rowCache[p])]
    /\ gateCache' = [p \in Procs |-> Older(gateCache[p])]
    /\ thread' = [t \in Threads |-> [thread[t] EXCEPT !.late = thread[t].pc # "idle"]]
    /\ settled' = IF settled < Settling THEN settled + 1 ELSE settled
    /\ UNCHANGED <<flag, lockedBy, toggle, toggles, failures>>

GateNext ==
    \/ \E t \in Threads :
         \/ \E asker \in {"loop", "page"} : Ask(t, asker)
         \/ RowHit(t) \/ Query(t) \/ FillRow(t) \/ QueryFails(t) \/ StoreGate(t)
    \/ WriteFlag \/ ForgetRow \/ ForgetGate \/ EditOutside \/ Tick

GateSpec == GateInit /\ [][GateNext]_gateVars
-----------------------------------------------------------------------------
(* The types of the state. *)
GateTypeOK ==
    LET Cached == [value : BOOLEAN, age : 0 .. GateTtl] IN
    /\ flag \in BOOLEAN /\ rowCache \in [Procs -> Cached] /\ gateCache \in [Procs -> Cached]
    /\ lockedBy \in [Procs -> Threads \cup {Nobody}]
    /\ thread \in [Threads -> [pc : {"idle", "ask", "fill", "store"}, asker : {"loop", "page"},
                               got : BOOLEAN, late : BOOLEAN]]
    /\ toggle \in {"idle", "written", "forgetting"} /\ settled \in 0 .. Settling
    /\ toggles \in 0 .. MaxToggles /\ failures \in 0 .. MaxFailures

(* A written flag takes effect: no loop of any process goes by another value for longer
   than the lifetimes of the two caches together, though the second is filled from the
   first and outside its lock, so that a toggle made meanwhile is overwritten
   (_resolve_gate_enabled_cheap). *)
GateSettles ==
    settled = Settling => \A p \in Procs : GateFresh(gateCache[p]) => gateCache[p].value = flag
=============================================================================
