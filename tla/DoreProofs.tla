----------------------------- MODULE DoreProofs -----------------------------
(***************************************************************************)
(* What holds of DORE for every value of the constants: the technical rows *)
(* of Stage 1 (DoreStageOne), the plans of Stage 2 and the ledger of       *)
(* trades they implement (DorePlans, TradeLedger), and the strike and the  *)
(* exits of a plan (DorePlanEngine).                                       *)
(***************************************************************************)
EXTENDS DoreStageOne, DorePlans, DorePlanEngine, TLAPS, FiniteSetTheorems

(***************************************************************************)
(* Stage 1: the rows of a snapshot.                                        *)
(***************************************************************************)

MaybeRows == [Symbols -> TechnicalRow \cup {NoRow}]

StageOneTypes ==
    /\ cycle \in Nat /\ faults \in Nat
    /\ step \in {"idle", "open", "process", "carry", "save", "bare"}
    /\ open \subseteq Symbols /\ openRead \subseteq Symbols
    /\ pool \subseteq Symbols
    /\ rows \in MaybeRows
    /\ saved \in [made : Nat, rows : MaybeRows]

(* The rows of a cycle, computed in it or carried from an earlier one. *)
TaggedAt(snapshot, made) ==
    \A s \in Symbols :
        snapshot[s] # NoRow =>
            \/ snapshot[s].read = made /\ ~snapshot[s].carried
            \/ /\ snapshot[s].read < made /\ snapshot[s].carried
               /\ snapshot[s].asOf \in snapshot[s].read .. made - 1

(* The snapshot is of an earlier cycle than the one under way, and both are
   tagged, each with its own cycle. *)
RowsInv ==
    /\ StageOneTypes
    /\ saved.made <= cycle
    /\ step # "idle" => saved.made < cycle
    /\ TaggedAt(saved.rows, saved.made)
    /\ step \in {"carry", "save", "bare"} => TaggedAt(rows, cycle)
    /\ step = "save" => \A s \in openRead : saved.rows[s] # NoRow => rows[s] # NoRow

LEMMA StageOneInitInv == StageOneInit => RowsInv
BY StageOneAssumption
DEF StageOneInit, RowsInv, StageOneTypes, TaggedAt, MaybeRows, NoRows

LEMMA FreshRow ==
    ASSUME NEW s, NEW c \in Nat
    PROVE  /\ Fresh(s, c) \in TechnicalRow
           /\ Fresh(s, c).read = c /\ ~Fresh(s, c).carried
BY DEF Fresh, TechnicalRow

LEMMA CarriedRowOf ==
    ASSUME NEW r \in TechnicalRow, NEW c \in Nat
    PROVE  /\ CarriedRow(r, c) \in TechnicalRow
           /\ CarriedRow(r, c).read = r.read
           /\ CarriedRow(r, c).carried /\ CarriedRow(r, c).asOf = c
BY DEF CarriedRow, TechnicalRow

(* What Stage 1 computes is tagged with the cycle; what it carries comes from
   the snapshot, so from a cycle before. *)
LEMMA CarryForwardTagged ==
    ASSUME RowsInv, step = "carry"
    PROVE  /\ CarryForward \in MaybeRows
           /\ TaggedAt(CarryForward, cycle)
           /\ \A s \in openRead : saved.rows[s] # NoRow => CarryForward[s] # NoRow
<1>1. /\ saved.made \in Nat /\ cycle \in Nat /\ saved.made < cycle
      /\ saved.rows \in MaybeRows /\ rows \in MaybeRows
      /\ TaggedAt(saved.rows, saved.made) /\ TaggedAt(rows, cycle)
      /\ openRead \subseteq Symbols
  BY DEF RowsInv, StageOneTypes
<1>2. ASSUME NEW s \in Symbols
      PROVE  /\ CarryForward[s] \in TechnicalRow \cup {NoRow}
             /\ CarryForward[s] # NoRow =>
                   \/ CarryForward[s].read = cycle /\ ~CarryForward[s].carried
                   \/ /\ CarryForward[s].read < cycle /\ CarryForward[s].carried
                      /\ CarryForward[s].asOf \in CarryForward[s].read .. cycle - 1
             /\ s \in openRead /\ saved.rows[s] # NoRow => CarryForward[s] # NoRow
  <2>1. CASE s \in Missing /\ saved.rows[s] # NoRow
    <3> DEFINE r == saved.rows[s]
    <3>1. CarryForward[s] = CarriedRow(r, saved.made)
      BY <2>1 DEF CarryForward
    <3>2. r \in TechnicalRow
      BY <1>1, <2>1 DEF MaybeRows
    <3>3. /\ CarriedRow(r, saved.made) \in TechnicalRow
          /\ CarriedRow(r, saved.made).read = r.read
          /\ CarriedRow(r, saved.made).carried
          /\ CarriedRow(r, saved.made).asOf = saved.made
      BY <1>1, <3>2, CarriedRowOf
    <3>4. r.read \in Nat /\ r.read <= saved.made
      BY <1>1, <2>1, <3>2 DEF TaggedAt, TechnicalRow
    <3> QED
      BY <1>1, <3>1, <3>3, <3>4, StageOneAssumption
  <2>2. CASE ~(s \in Missing /\ saved.rows[s] # NoRow)
    <3>1. CarryForward[s] = rows[s]
      BY <2>2 DEF CarryForward
    <3>2. s \in openRead /\ saved.rows[s] # NoRow => rows[s] # NoRow
      BY <2>2 DEF Missing
    <3> QED
      BY <1>1, <3>1, <3>2 DEF MaybeRows, TaggedAt
  <2> QED
    BY <2>1, <2>2
<1>3. CarryForward = [s \in Symbols |-> CarryForward[s]]
  BY DEF CarryForward
<1> QED
  BY <1>1, <1>2, <1>3 DEF MaybeRows, TaggedAt

LEMMA StageOneNextInv == RowsInv /\ [StageOneNext]_stageOneVars => RowsInv'
<1> SUFFICES ASSUME RowsInv, [StageOneNext]_stageOneVars PROVE RowsInv'
  OBVIOUS
<1> USE DEF RowsInv, StageOneTypes
<1>f. MaxFaults \in Nat /\ (Fault => faults' \in Nat)
  BY StageOneAssumption DEF Fault
<1>1. CASE StartStageOne
  <2>1. PICK scanned \in SUBSET Stocks, scored \in SUBSET Indices, listed \in BOOLEAN :
          /\ pool' = Pooled(scanned, scored, listed)
          /\ IF listed THEN UNCHANGED faults ELSE Fault
          /\ step' = IF pool' = {} THEN "save" ELSE "open"
    BY <1>1 DEF StartStageOne
  <2>2. /\ pool' \subseteq Symbols /\ faults' \in Nat
        /\ step' \in {"save", "open"}
    BY <1>f, <2>1 DEF Pooled, Symbols
  <2>3. cycle' = cycle + 1 /\ rows' = NoRows /\ openRead' = {}
        /\ UNCHANGED <<open, saved>>
    BY <1>1 DEF StartStageOne
  <2>4. NoRows \in MaybeRows /\ TaggedAt(NoRows, cycle')
    BY DEF NoRows, MaybeRows, TaggedAt
  <2> QED
    BY <2>2, <2>3, <2>4 DEF TaggedAt
<1>2. CASE ReadOpen
  BY <1>2, <1>f DEF ReadOpen, TaggedAt
<1>3. CASE Process
  <2>1. PICK planned \in SUBSET pool :
          rows' = [s \in Symbols |-> IF s \in planned THEN Fresh(s, cycle) ELSE NoRow]
    BY <1>3 DEF Process
  <2>2. rows' \in MaybeRows /\ TaggedAt(rows', cycle)
    BY <2>1, FreshRow DEF MaybeRows, TaggedAt
  <2> QED
    BY <1>3, <2>2 DEF Process, TaggedAt
<1>4. CASE Carry
  BY <1>4, <1>f, CarryForwardTagged DEF Carry, TaggedAt
<1>5. CASE SaveSnapshot
  BY <1>5, <1>f DEF SaveSnapshot, TaggedAt
<1>6. CASE Fails
  BY <1>6, <1>f DEF Fails, TaggedAt
<1>7. CASE StageTwoMints
  BY <1>7 DEF StageTwoMints, TaggedAt
<1>8. CASE StageTwoCloses
  BY <1>8 DEF StageTwoCloses, TaggedAt
<1>9. CASE UNCHANGED stageOneVars
  BY <1>9 DEF stageOneVars, TaggedAt
<1> QED
  BY <1>1, <1>2, <1>3, <1>4, <1>5, <1>6, <1>7, <1>8, <1>9 DEF StageOneNext

LEMMA StageOneInv == StageOneSpec => []RowsInv
BY StageOneInitInv, StageOneNextInv, PTL DEF StageOneSpec

(* A row that is older than its snapshot says so, and names a cycle between
   the one that computed it and the snapshot's, for any universe and however
   often it was carried. *)
THEOREM StaleRows == StageOneSpec => []StaleRowsTagged
<1>1. RowsInv => StaleRowsTagged
  <2> SUFFICES ASSUME RowsInv, NEW s \in Symbols, saved.rows[s] # NoRow
               PROVE  IF saved.rows[s].read = saved.made THEN ~saved.rows[s].carried
                      ELSE /\ saved.rows[s].carried
                           /\ saved.rows[s].asOf \in saved.rows[s].read .. saved.made - 1
    BY DEF StaleRowsTagged
  <2>1. saved.made \in Nat /\ saved.rows[s].read \in Nat
    BY DEF RowsInv, StageOneTypes, MaybeRows, TechnicalRow
  <2> QED
    BY <2>1 DEF RowsInv, TaggedAt
<1> QED
  BY <1>1, StageOneInv, PTL

(* A symbol whose plan was open when the cycle looked keeps its technical row
   from one snapshot to the next. *)
THEOREM OpenRows == StageOneSpec => OpenRowsKept
<1>1. RowsInv /\ [StageOneNext]_stageOneVars =>
        [\A s \in openRead :
           (step = "save" /\ saved' # saved /\ saved.rows[s] # NoRow)
              => saved'.rows[s] # NoRow]_stageOneVars
  <2> SUFFICES ASSUME RowsInv, StageOneNext, NEW s \in openRead, step = "save",
                      saved' # saved, saved.rows[s] # NoRow
               PROVE  saved'.rows[s] # NoRow
    OBVIOUS
  <2>1. SaveSnapshot
    BY DEF StageOneNext, StartStageOne, ReadOpen, Process, Carry, Fails, StageTwoMints,
           StageTwoCloses
  <2>2. saved' = [made |-> cycle, rows |-> rows]
    BY <2>1 DEF SaveSnapshot
  <2> QED
    BY <2>2 DEF RowsInv
<1> QED
  BY <1>1, StageOneInv, PTL DEF StageOneSpec, OpenRowsKept
-----------------------------------------------------------------------------
(***************************************************************************)
(* Stage 2: the plans.  A cycle works on objects of its own while the page *)
(* writes the table, so the invariant says how the objects and the rows    *)
(* they came from differ: only in what happened today.                     *)
(***************************************************************************)

Lawful(day, p) ==
    /\ p \in Plan
    /\ p.created <= p.entered /\ p.entered <= day
    /\ p.status = "TRACKED" => p.entry = NoEntry
    /\ p.status = "ACTIVE" => p.entry # NoEntry

OutcomeIn(p, days) == p.status = "CLOSED" /\ p.entry # NoEntry => p.created \in days

(* A trade of an earlier day. *)
HeldOver(day, p) == p # NoPlan /\ p.entry # NoEntry /\ p.entered < day

(* Of two versions of a plan, both are the same trade of an earlier day, or
   neither is one. *)
Linked(day, p, q) ==
    /\ HeldOver(day, p) <=> HeldOver(day, q)
    /\ HeldOver(day, p) => p.entry = q.entry /\ p.entered = q.entered

(* Past the expiry of the contract, or its age. *)
PastDue(day, c, p) == Expiry[c] < day \/ day >= p.entered + MaxAge

BookTypes(b) ==
    /\ b.old \in [Contracts -> Plan \cup {NoPlan}]
    /\ b.new \in [Contracts -> Plan \cup {NoPlan}]
    /\ b.slot \in [Contracts -> Kinds \cup {"none"}]
    /\ b.batch \subseteq Kinds \X Contracts
    /\ b.settled \in [Contracts -> SUBSET Days]

(* The objects loaded: a closed one is to be written, an open one is in the
   book; one that the page may have closed meanwhile is out, and is not
   written as open. *)
LoadedSound(day, t, b, c) ==
    LET p == b.old[c]
        r == t[c][p.created]
    IN  /\ Lawful(day, p) /\ OutcomeIn(p, b.settled[c]) /\ Linked(day, p, r)
        /\ IF IsOpen(p) THEN b.slot[c] = "old" ELSE <<"old", c>> \in b.batch
        /\ HeldOver(day, r) /\ ~IsOpen(r) /\ IsOpen(p) => PastDue(day, c, p)
        /\ HeldOver(day, p) /\ IsOpen(p) /\ <<"old", c>> \in b.batch => ~PastDue(day, c, p)

MintedSound(day, b, c) ==
    LET p == b.new[c]
    IN  /\ Lawful(day, p) /\ OutcomeIn(p, b.settled[c]) /\ p.created = day
        /\ <<"new", c>> \in b.batch /\ IsOpen(p) => b.slot[c] = "new"

BookSound(day, t, left, b) ==
    /\ BookTypes(b)
    /\ \A c \in Contracts :
         /\ b.old[c] # NoPlan => LoadedSound(day, t, b, c)
         /\ b.new[c] # NoPlan => MintedSound(day, b, c)
         /\ b.slot[c] = "old" \/ <<"old", c>> \in b.batch => b.old[c] # NoPlan
         /\ b.slot[c] = "new" \/ <<"new", c>> \in b.batch => b.new[c] # NoPlan
         /\ c \in left => b.slot[c] # "new" /\ <<"new", c>> \notin b.batch

TableSound(day, t, days) ==
    /\ t \in [Contracts -> [Days -> Plan \cup {NoPlan}]]
    /\ \A c \in Contracts, d \in Days :
         t[c][d] # NoPlan => /\ Lawful(day, t[c][d]) /\ t[c][d].created = d
                             /\ OutcomeIn(t[c][d], days[c])

RemovalSound(day, t, x, days) ==
    x # NoPlan =>
        /\ x.contract \in Contracts
        /\ Lawful(day, x.plan) /\ x.plan.status = "CLOSED" /\ OutcomeIn(x.plan, days[x.contract])
        /\ Linked(day, x.plan, t[x.contract][x.plan.created])
        /\ HeldOver(day, x.plan) => PastDue(day, x.contract, x.plan)

OneOpenRow(t) ==
    \A c \in Contracts : \A d, e \in Days : IsOpen(t[c][d]) /\ IsOpen(t[c][e]) => d = e

ActiveRows(t) == {x \in Places : IsActive(t[x[1]][x[2]])}

ActiveOf(b) ==
    {c \in Contracts : \/ b.slot[c] = "old" /\ IsActive(b.old[c])
                       \/ b.slot[c] = "new" /\ IsActive(b.new[c])}

(* The open rows have been loaded, and the active ones as active. *)
RowsLoaded(t, o) ==
    \A c \in Contracts, d \in Days :
        IsOpen(t[c][d]) =>
            /\ o[c] # NoPlan /\ o[c].created = d
            /\ IsActive(t[c][d]) /\ IsOpen(o[c]) => IsActive(o[c])

CapOf(t) == OneOpenRow(t) /\ Cardinality(ActiveRows(t)) <= MaxActive

Left == fresh \cup carried

PlansInv ==
    /\ today \in Days /\ misreads \in Nat /\ pc \in {"idle", "rows", "save"}
    /\ settled \in [Contracts -> SUBSET Days] /\ skipped \subseteq Contracts
    /\ TableSound(today, table, settled) /\ RemovalSound(today, table, removal, settled)
    /\ misreads = 0 => CapOf(table)
    /\ pc # "idle" =>
         /\ fresh \cap carried = {}
         /\ BookSound(today, table, Left, Unretired)
         /\ misreads = 0 => /\ RowsLoaded(table, old)
                            /\ Cardinality(ActiveOf(Unretired)) <= MaxActive

LEMMA Dates ==
    /\ LastDay \in Nat /\ MaxAge \in Nat /\ MaxActive \in Nat /\ MaxActive >= 1
    /\ \A d \in Days : d \in Nat
    /\ \A x \in Zone : x # NoEntry
BY DoreAssumption DEF Days, NoEntry

LEMMA PlanFields ==
    ASSUME NEW p \in Plan
    PROVE  /\ p # NoPlan /\ p.created \in Days /\ p.entered \in Days
           /\ p.created \in Nat /\ p.entered \in Nat
           /\ p.status \in {"TRACKED", "ACTIVE", "CLOSED"} /\ p.t1 \in BOOLEAN
           /\ p.entry \in {NoEntry} \cup Zone
BY NoPlanAssumption, Dates DEF Plan

LEMMA ClosedPlan ==
    ASSUME NEW p \in Plan
    PROVE  /\ Close(p) \in Plan /\ Close(p) # NoPlan /\ Close(p).status = "CLOSED"
           /\ Close(p).created = p.created /\ Close(p).entered = p.entered
           /\ Close(p).entry = p.entry
<1>1. /\ Close(p) \in Plan /\ Close(p).status = "CLOSED"
      /\ Close(p).created = p.created /\ Close(p).entered = p.entered
      /\ Close(p).entry = p.entry
  BY DEF Close, Plan
<1> QED
  BY <1>1, NoPlanAssumption

LEMMA MintedPlan ==
    ASSUME today \in Days
    PROVE  /\ Minted \in Plan /\ Minted # NoPlan /\ Lawful(today, Minted)
           /\ Minted.created = today /\ Minted.status = "TRACKED" /\ Minted.entry = NoEntry
<1>1. /\ Minted \in Plan /\ Minted.created = today /\ Minted.entered = today
      /\ Minted.status = "TRACKED" /\ Minted.entry = NoEntry
  BY DEF Minted, Plan
<1> HIDE DEF Minted
<1> QED
  BY <1>1, NoPlanAssumption, Dates DEF Lawful

LEMMA TickedPlan ==
    ASSUME NEW p \in Plan, NEW premium, NEW breach
    PROVE  LET q == Ticked(p, premium, breach)
           IN  /\ q \in Plan /\ q.status = p.status /\ q.created = p.created
               /\ q.entered = p.entered /\ q.entry = p.entry
BY DEF Ticked, Plan

(* The plan of a row that enters. *)
EnteredPlan(p, premium, confidence) ==
    [p EXCEPT !.status = "ACTIVE", !.entry = premium, !.entered = today,
              !.confidence = confidence]

LEMMA EnteredPlanIs ==
    ASSUME today \in Days, NEW p \in Plan, NEW premium \in Zone, NEW confidence \in Confidences
    PROVE  LET q == EnteredPlan(p, premium, confidence)
           IN  /\ q \in Plan /\ q.status = "ACTIVE" /\ q.created = p.created
               /\ q.entered = today /\ q.entry = premium
BY DEF EnteredPlan, Plan

(* What a row makes of the plan it works on. *)
Follows(c, p, q) ==
    /\ Lawful(today, q) /\ q.created = p.created /\ Linked(today, q, p)
    /\ IsActive(p) => q.status # "TRACKED"
    /\ HeldOver(today, q) /\ IsOpen(q) => ~PastDue(today, c, q)

(* A row keeps plan q as contract c's, in the book b. *)
Keeps(b, c, q, valid) ==
    /\ Follows(c, PlanFor(c), q)
    /\ valid \in BOOLEAN /\ (~IsOpen(q) => valid)
    /\ KeepRow(b, c, q, Mints(c), valid)
    /\ settled' \in [Contracts -> SUBSET Days]
    /\ \A e \in Contracts : b.settled[e] \subseteq settled'[e]
    /\ OutcomeIn(q, settled'[c])

After ==
    [old |-> old', new |-> new', slot |-> slot', batch |-> batch', twice |-> twice',
     settled |-> settled']

(* The plan a row works on is open. *)
LEMMA PlanForSound ==
    ASSUME PlansInv, pc # "idle", NEW c \in Contracts
    PROVE  /\ Lawful(today, PlanFor(c)) /\ PlanFor(c) \in Plan /\ IsOpen(PlanFor(c))
           /\ Mints(c) => PlanFor(c) = Minted /\ ~IsOpen(old[c])
           /\ ~Mints(c) => \/ slot[c] = "old" /\ PlanFor(c) = old[c] /\ old[c] # NoPlan
                           \/ slot[c] = "new" /\ PlanFor(c) = new[c] /\ new[c] # NoPlan
<1>1. /\ BookSound(today, table, Left, Unretired) /\ today \in Days
      /\ Unretired.old = old /\ Unretired.new = new /\ Unretired.slot = slot
  BY DEF PlansInv, Unretired
<1>2. slot[c] \in {"old", "new", "none"}
  BY <1>1 DEF BookSound, BookTypes, Kinds
<1>3. IsOpen(old[c]) => slot[c] = "old"
  BY <1>1 DEF BookSound, LoadedSound, IsOpen
<1>4. CASE Mints(c)
  <2>1. PlanFor(c) = Minted
    BY <1>4 DEF PlanFor
  <2>2. IsOpen(Minted)
    BY <1>1, MintedPlan DEF IsOpen
  <2>3. ~IsOpen(old[c])
    BY <1>3, <1>4 DEF Mints, InBook
  <2> QED
    BY <1>1, <1>4, <2>1, <2>2, <2>3, MintedPlan
<1>5. CASE ~Mints(c)
  <2>1. PlanFor(c) = InBook(c) /\ IsOpen(InBook(c))
    BY <1>5 DEF PlanFor, Mints
  <2>2. slot[c] # "none"
    BY <2>1 DEF InBook, IsOpen
  <2>3. CASE slot[c] = "old"
    <3>1. InBook(c) = old[c] /\ old[c] # NoPlan
      BY <1>1, <2>3 DEF InBook, BookSound
    <3>2. Lawful(today, old[c])
      BY <1>1, <3>1 DEF BookSound, LoadedSound
    <3> QED
      BY <1>5, <2>1, <2>3, <3>1, <3>2 DEF Lawful
  <2>4. CASE slot[c] = "new"
    <3>1. InBook(c) = new[c] /\ new[c] # NoPlan
      BY <1>1, <2>4 DEF InBook, BookSound
    <3>2. Lawful(today, new[c])
      BY <1>1, <3>1 DEF BookSound, MintedSound
    <3> QED
      BY <1>5, <2>1, <2>4, <3>1, <3>2 DEF Lawful
  <2> QED
    BY <1>2, <2>2, <2>3, <2>4
<1> QED
  BY <1>4, <1>5

LEMMA UnretiredFields ==
    /\ Unretired.old = old /\ Unretired.new = new /\ Unretired.slot = slot
    /\ Unretired.batch = batch /\ Unretired.settled = settled
BY DEF Unretired

LEMMA ActiveIs ==
    ASSUME PlansInv, pc # "idle"
    PROVE  /\ ActiveInBook = ActiveOf(Unretired)
           /\ \A w \in ActiveInBook :
                \/ slot[w] = "old" /\ InBook(w) = old[w] /\ IsActive(old[w]) /\ Lawful(today, old[w])
                \/ slot[w] = "new" /\ InBook(w) = new[w] /\ IsActive(new[w]) /\ Lawful(today, new[w])
<1>1. BookSound(today, table, Left, Unretired)
  BY DEF PlansInv
<1>2. ASSUME NEW w \in Contracts
      PROVE  /\ slot[w] = "old" => InBook(w) = old[w]
             /\ slot[w] = "new" => InBook(w) = new[w]
             /\ slot[w] = "none" => InBook(w) = NoPlan
             /\ slot[w] \in {"old", "new", "none"}
  BY <1>1, UnretiredFields DEF InBook, BookSound, BookTypes, Kinds
<1>3. ActiveInBook = ActiveOf(Unretired)
  BY <1>2, UnretiredFields DEF ActiveInBook, ActiveOf, IsActive
<1>4. ASSUME NEW w \in ActiveInBook
      PROVE  \/ slot[w] = "old" /\ InBook(w) = old[w] /\ IsActive(old[w]) /\ Lawful(today, old[w])
             \/ slot[w] = "new" /\ InBook(w) = new[w] /\ IsActive(new[w]) /\ Lawful(today, new[w])
  <2>1. w \in Contracts /\ IsActive(InBook(w))
    BY <1>4 DEF ActiveInBook
  <2>2. CASE slot[w] = "old"
    BY <1>1, <1>2, <2>1, <2>2, UnretiredFields DEF BookSound, LoadedSound, IsActive
  <2>3. CASE slot[w] = "new"
    BY <1>1, <1>2, <2>1, <2>3, UnretiredFields DEF BookSound, MintedSound, IsActive
  <2> QED
    BY <1>2, <2>1, <2>2, <2>3 DEF IsActive
<1> QED
  BY <1>3, <1>4

LEMMA CloseSound ==
    ASSUME NEW p, Lawful(today, p)
    PROVE  /\ Close(p) \in Plan /\ Close(p) # NoPlan /\ Lawful(today, Close(p)) /\ ~IsOpen(Close(p))
           /\ Close(p).created = p.created /\ Linked(today, Close(p), p)
<1>1. p \in Plan
  BY DEF Lawful
<1> QED
  BY <1>1, ClosedPlan, PlanFields DEF Lawful, IsOpen, Linked, HeldOver

(* A book whose plan w is retired. *)
LEMMA RetiredBook ==
    ASSUME PlansInv, pc # "idle", NEW w \in ActiveInBook, NEW b, b = Retire(w)
    PROVE  /\ BookSound(today, table, Left, b)
           /\ \A c \in Contracts \ {w} :
                b.old[c] = old[c] /\ b.new[c] = new[c] /\ b.slot[c] = slot[c]
           /\ \A c \in Contracts : settled[c] \subseteq b.settled[c]
           /\ w \in Contracts /\ b.slot[w] = "none"
           /\ b.old[w] # NoPlan => b.old[w].created = old[w].created /\ old[w] # NoPlan
                                  /\ ~IsOpen(b.old[w])
           /\ old[w] # NoPlan => b.old[w] # NoPlan
<1> DEFINE p == Close(InBook(w))
           k == slot[w]
<1>1. /\ w \in Contracts /\ BookSound(today, table, Left, Unretired) /\ today \in Days
  BY DEF PlansInv, ActiveInBook
<1>2. \/ slot[w] = "old" /\ InBook(w) = old[w] /\ IsActive(old[w]) /\ Lawful(today, old[w])
      \/ slot[w] = "new" /\ InBook(w) = new[w] /\ IsActive(new[w]) /\ Lawful(today, new[w])
  BY ActiveIs
<1>3. /\ p \in Plan /\ p # NoPlan /\ Lawful(today, p) /\ ~IsOpen(p)
      /\ p.created = InBook(w).created /\ Linked(today, p, InBook(w)) /\ p.created \in Days
  BY <1>2, CloseSound, PlanFields
<1>4. /\ b.old = IF k = "old" THEN [old EXCEPT ![w] = p] ELSE old
      /\ b.new = IF k = "new" THEN [new EXCEPT ![w] = p] ELSE new
      /\ b.slot = [slot EXCEPT ![w] = "none"]
      /\ b.batch = batch \cup {<<k, w>>}
      /\ b.settled = [settled EXCEPT ![w] = settled[w] \cup {p.created}]
  BY DEF Retire, Record
<1> HIDE DEF p
<1>5. /\ old \in [Contracts -> Plan \cup {NoPlan}] /\ new \in [Contracts -> Plan \cup {NoPlan}]
      /\ slot \in [Contracts -> Kinds \cup {"none"}] /\ batch \subseteq Kinds \X Contracts
      /\ settled \in [Contracts -> SUBSET Days]
  BY <1>1, UnretiredFields DEF BookSound, BookTypes
<1>6. BookTypes(b)
  BY <1>1, <1>2, <1>3, <1>4, <1>5 DEF BookTypes, Kinds
<1>7. \A c \in Contracts \ {w} :
        /\ b.old[c] = old[c] /\ b.new[c] = new[c] /\ b.slot[c] = slot[c]
        /\ b.settled[c] = settled[c]
        /\ \A kind \in Kinds : <<kind, c>> \in b.batch <=> <<kind, c>> \in batch
  BY <1>4, <1>5
<1>8. /\ b.slot[w] = "none" /\ b.settled[w] = settled[w] \cup {p.created}
      /\ b.old[w] = IF k = "old" THEN p ELSE old[w]
      /\ b.new[w] = IF k = "new" THEN p ELSE new[w]
      /\ <<k, w>> \in b.batch
      /\ \A kind \in Kinds \ {k} : <<kind, w>> \in b.batch <=> <<kind, w>> \in batch
  BY <1>1, <1>4, <1>5
<1>9. \A c \in Contracts \ {w} :
        /\ b.old[c] # NoPlan => LoadedSound(today, table, b, c)
        /\ b.new[c] # NoPlan => MintedSound(today, b, c)
        /\ b.slot[c] = "old" \/ <<"old", c>> \in b.batch => b.old[c] # NoPlan
        /\ b.slot[c] = "new" \/ <<"new", c>> \in b.batch => b.new[c] # NoPlan
        /\ c \in Left => b.slot[c] # "new" /\ <<"new", c>> \notin b.batch
  <2> SUFFICES ASSUME NEW c \in Contracts \ {w}
               PROVE  /\ b.old[c] # NoPlan => LoadedSound(today, table, b, c)
                      /\ b.new[c] # NoPlan => MintedSound(today, b, c)
                      /\ b.slot[c] = "old" \/ <<"old", c>> \in b.batch => b.old[c] # NoPlan
                      /\ b.slot[c] = "new" \/ <<"new", c>> \in b.batch => b.new[c] # NoPlan
                      /\ c \in Left => b.slot[c] # "new" /\ <<"new", c>> \notin b.batch
    OBVIOUS
  <2>1. "old" \in Kinds /\ "new" \in Kinds
    BY DEF Kinds
  <2> QED
    BY <1>1, <1>7, <2>1, UnretiredFields DEF BookSound, LoadedSound, MintedSound
<1>10. CASE k = "old"
  <2>1. InBook(w) = old[w] /\ old[w] # NoPlan /\ IsActive(old[w])
    BY <1>2, <1>10 DEF IsActive
  <2>2. LoadedSound(today, table, Unretired, w)
    BY <1>1, <2>1, UnretiredFields DEF BookSound
  <2>3. LoadedSound(today, table, b, w)
    BY <1>3, <1>8, <1>10, <2>1, <2>2, UnretiredFields DEF LoadedSound, Linked, OutcomeIn
  <2>4. b.new[w] # NoPlan => MintedSound(today, b, w)
    BY <1>1, <1>8, <1>10, UnretiredFields DEF BookSound, MintedSound, OutcomeIn, Kinds
  <2>5. /\ b.old[w] # NoPlan /\ b.old[w] = p
        /\ <<"new", w>> \in b.batch => b.new[w] # NoPlan /\ w \notin Left
    BY <1>1, <1>3, <1>8, <1>10, UnretiredFields DEF BookSound, Kinds
  <2>6. BookSound(today, table, Left, b)
    BY <1>6, <1>8, <1>9, <2>3, <2>4, <2>5 DEF BookSound
  <2> QED
    BY <1>1, <1>3, <1>7, <1>8, <2>1, <2>5, <2>6
<1>11. CASE k = "new"
  <2>1. InBook(w) = new[w] /\ new[w] # NoPlan /\ IsActive(new[w])
    BY <1>2, <1>11 DEF IsActive
  <2>2. MintedSound(today, Unretired, w)
    BY <1>1, <2>1, UnretiredFields DEF BookSound
  <2>3. MintedSound(today, b, w)
    BY <1>3, <1>8, <1>11, <2>1, <2>2, UnretiredFields DEF MintedSound, OutcomeIn
  <2>4. old[w] # NoPlan => ~IsOpen(old[w])
    BY <1>1, <1>11, UnretiredFields DEF BookSound, LoadedSound
  <2>5. b.old[w] # NoPlan => LoadedSound(today, table, b, w)
    BY <1>1, <1>8, <1>11, <2>4, UnretiredFields DEF BookSound, LoadedSound, OutcomeIn, Kinds
  <2>6. /\ b.new[w] # NoPlan /\ b.old[w] = old[w] /\ w \notin Left
        /\ <<"old", w>> \in b.batch => b.old[w] # NoPlan
    BY <1>1, <1>3, <1>8, <1>11, UnretiredFields DEF BookSound, Kinds
  <2>7. BookSound(today, table, Left, b)
    BY <1>6, <1>8, <1>9, <2>3, <2>5, <2>6 DEF BookSound
  <2> QED
    BY <1>1, <1>7, <1>8, <2>4, <2>6, <2>7
<1> QED
  BY <1>2, <1>10, <1>11

(* The row of contract c writes nothing of another contract. *)
LEMMA KeptBook ==
    ASSUME PlansInv, pc = "rows", NEW c \in Left, c \in Contracts, NEW b,
           BookSound(today, table, Left, b),
           b.old[c] = old[c], b.new[c] = new[c], b.slot[c] = slot[c],
           NEW q, NEW valid, Keeps(b, c, q, valid)
    PROVE  BookSound(today, table, Left \ {c}, After)
<1> DEFINE k == IF Mints(c) THEN "new" ELSE slot[c]
<1>1. /\ After.old = old' /\ After.new = new' /\ After.slot = slot'
      /\ After.batch = batch' /\ After.settled = settled'
  BY DEF After
<1>2. BookTypes(b) /\ today \in Days
  BY DEF BookSound, PlansInv
<1>3. /\ Lawful(today, PlanFor(c)) /\ IsOpen(PlanFor(c))
      /\ Mints(c) => PlanFor(c) = Minted /\ ~IsOpen(old[c])
      /\ ~Mints(c) => slot[c] = "old" /\ PlanFor(c) = old[c] /\ old[c] # NoPlan
  BY PlanForSound DEF BookSound
<1>4. k \in Kinds /\ (Mints(c) => k = "new") /\ (~Mints(c) => k = "old")
  BY <1>3 DEF Kinds
<1> HIDE DEF k
<1>5. /\ Lawful(today, q) /\ q \in Plan /\ q # NoPlan /\ q.created = PlanFor(c).created
      /\ Linked(today, q, PlanFor(c)) /\ (HeldOver(today, q) /\ IsOpen(q) => ~PastDue(today, c, q))
      /\ valid \in BOOLEAN /\ (~IsOpen(q) => valid) /\ OutcomeIn(q, settled'[c])
      /\ settled' \in [Contracts -> SUBSET Days]
      /\ \A e \in Contracts : b.settled[e] \subseteq settled'[e]
  BY PlanFields DEF Keeps, Follows, Lawful
<1>6. /\ old' = IF k = "old" THEN [b.old EXCEPT ![c] = q] ELSE b.old
      /\ new' = IF k = "new" THEN [b.new EXCEPT ![c] = q] ELSE b.new
      /\ slot' = IF Mints(c) THEN [b.slot EXCEPT ![c] = IF valid THEN "new" ELSE "none"]
                 ELSE b.slot
      /\ batch' = IF valid THEN b.batch \cup {<<k, c>>} ELSE b.batch
  BY DEF Keeps, KeepRow, k
<1>7. BookTypes(After)
  <2>1. old' \in [Contracts -> Plan \cup {NoPlan}] /\ new' \in [Contracts -> Plan \cup {NoPlan}]
    BY <1>2, <1>5, <1>6 DEF BookTypes
  <2>2. slot' \in [Contracts -> Kinds \cup {"none"}]
    BY <1>2, <1>6 DEF BookTypes, Kinds
  <2>3. batch' \subseteq Kinds \X Contracts
    BY <1>2, <1>4, <1>6 DEF BookTypes
  <2> QED
    BY <1>1, <1>5, <2>1, <2>2, <2>3 DEF BookTypes
<1>8. \A e \in Contracts \ {c} :
        /\ old'[e] = b.old[e] /\ new'[e] = b.new[e] /\ slot'[e] = b.slot[e]
        /\ \A kind \in Kinds : <<kind, e>> \in batch' <=> <<kind, e>> \in b.batch
  BY <1>2, <1>6 DEF BookTypes
<1>9. /\ old'[c] = IF k = "old" THEN q ELSE old[c]
      /\ new'[c] = IF k = "new" THEN q ELSE new[c]
      /\ slot'[c] = IF Mints(c) THEN IF valid THEN "new" ELSE "none" ELSE slot[c]
      /\ \A kind \in Kinds \ {k} : <<kind, c>> \in batch' <=> <<kind, c>> \in b.batch
      /\ valid => <<k, c>> \in batch'
      /\ ~valid => batch' = b.batch
  BY <1>2, <1>6 DEF BookTypes
<1>10. \A e \in Contracts \ {c} :
        /\ old'[e] # NoPlan => LoadedSound(today, table, After, e)
        /\ new'[e] # NoPlan => MintedSound(today, After, e)
        /\ slot'[e] = "old" \/ <<"old", e>> \in batch' => old'[e] # NoPlan
        /\ slot'[e] = "new" \/ <<"new", e>> \in batch' => new'[e] # NoPlan
        /\ e \in Left \ {c} => slot'[e] # "new" /\ <<"new", e>> \notin batch'
  <2> SUFFICES ASSUME NEW e \in Contracts \ {c}
               PROVE  /\ old'[e] # NoPlan => LoadedSound(today, table, After, e)
                      /\ new'[e] # NoPlan => MintedSound(today, After, e)
                      /\ slot'[e] = "old" \/ <<"old", e>> \in batch' => old'[e] # NoPlan
                      /\ slot'[e] = "new" \/ <<"new", e>> \in batch' => new'[e] # NoPlan
                      /\ e \in Left \ {c} => slot'[e] # "new" /\ <<"new", e>> \notin batch'
    OBVIOUS
  <2>1. "old" \in Kinds /\ "new" \in Kinds
    BY DEF Kinds
  <2>2. \A p : OutcomeIn(p, b.settled[e]) => OutcomeIn(p, settled'[e])
    BY <1>5 DEF OutcomeIn
  <2>3. old'[e] # NoPlan => LoadedSound(today, table, After, e)
    BY <1>1, <1>8, <2>1, <2>2 DEF BookSound, LoadedSound
  <2>4. new'[e] # NoPlan => MintedSound(today, After, e)
    BY <1>1, <1>8, <2>1, <2>2 DEF BookSound, MintedSound
  <2> QED
    BY <1>8, <2>1, <2>3, <2>4 DEF BookSound
<1>11. \A p : OutcomeIn(p, b.settled[c]) => OutcomeIn(p, settled'[c])
  BY <1>5 DEF OutcomeIn
<1>12. CASE Mints(c)
  <2>1. k = "new" /\ old'[c] = old[c] /\ new'[c] = q
    BY <1>4, <1>9, <1>12
  <2>2. old'[c] # NoPlan => LoadedSound(today, table, After, c)
    <3> SUFFICES ASSUME old[c] # NoPlan
                 PROVE  LoadedSound(today, table, After, c)
      BY <2>1
    <3>1. LoadedSound(today, table, b, c) /\ ~IsOpen(old[c])
      BY <1>3, <1>12 DEF BookSound
    <3>2. <<"old", c>> \in batch'
      BY <1>9, <2>1, <3>1 DEF LoadedSound, Kinds
    <3> QED
      BY <1>1, <1>11, <2>1, <3>1, <3>2 DEF LoadedSound
  <2>3. MintedSound(today, After, c)
    <3>1. q.created = today
      BY <1>2, <1>3, <1>5, <1>12, MintedPlan
    <3>2. <<"new", c>> \in batch' => slot'[c] = "new"
      BY <1>9, <1>12 DEF BookSound
    <3> QED
      BY <1>1, <1>5, <2>1, <3>1, <3>2 DEF MintedSound
  <2>4. slot'[c] = "old" \/ <<"old", c>> \in batch' => old'[c] # NoPlan
    BY <1>9, <1>12, <2>1 DEF BookSound, Kinds
  <2> QED
    BY <1>1, <1>5, <1>7, <1>10, <2>1, <2>2, <2>3, <2>4 DEF BookSound
<1>13. CASE ~Mints(c)
  <2>1. /\ k = "old" /\ old'[c] = q /\ new'[c] = new[c] /\ slot'[c] = "old"
        /\ PlanFor(c) = old[c] /\ old[c] # NoPlan /\ IsOpen(old[c])
    BY <1>3, <1>4, <1>9, <1>13
  <2>2. LoadedSound(today, table, b, c)
    BY <2>1 DEF BookSound
  <2>3. LoadedSound(today, table, After, c)
    <3>1. Linked(today, q, old[c]) /\ q.created = old[c].created
      BY <1>5, <2>1
    <3>2. Linked(today, q, table[c][q.created])
      BY <2>2, <3>1 DEF LoadedSound, Linked
    <3>3. HeldOver(today, table[c][q.created]) /\ ~IsOpen(table[c][q.created]) => ~IsOpen(q)
      BY <1>5, <2>1, <2>2, <3>1, <3>2 DEF LoadedSound, Linked, PastDue
    <3>4. ~IsOpen(q) => <<"old", c>> \in batch'
      BY <1>5, <1>9, <2>1
    <3> QED
      BY <1>1, <1>5, <2>1, <3>2, <3>3, <3>4 DEF LoadedSound
  <2>4. new'[c] # NoPlan => MintedSound(today, After, c)
    BY <1>1, <1>9, <1>11, <2>1, <2>2 DEF BookSound, MintedSound, Kinds
  <2>5. slot'[c] = "new" \/ <<"new", c>> \in batch' => new'[c] # NoPlan
    BY <1>9, <2>1 DEF BookSound, Kinds
  <2> QED
    BY <1>1, <1>5, <1>7, <1>10, <2>1, <2>3, <2>4, <2>5 DEF BookSound
<1> QED
  BY <1>12, <1>13

LEMMA RetiredActive ==
    ASSUME PlansInv, pc # "idle", NEW w \in ActiveInBook, NEW b, b = Retire(w)
    PROVE  ActiveOf(b) = ActiveOf(Unretired) \ {w} /\ w \in ActiveOf(Unretired)
<1>1. /\ \A c \in Contracts \ {w} :
           b.old[c] = old[c] /\ b.new[c] = new[c] /\ b.slot[c] = slot[c]
      /\ b.slot[w] = "none"
  BY RetiredBook
<1>2. w \in ActiveOf(Unretired)
  BY ActiveIs
<1> QED
  BY <1>1, <1>2, UnretiredFields DEF ActiveOf

(* A row adds its own contract to the active ones, and only by entering. *)
LEMMA KeptActive ==
    ASSUME PlansInv, pc = "rows", NEW c \in Left, c \in Contracts, NEW b,
           BookSound(today, table, Left, b),
           b.old[c] = old[c], b.new[c] = new[c], b.slot[c] = slot[c],
           NEW q, NEW valid, Keeps(b, c, q, valid)
    PROVE  /\ ActiveOf(After) \subseteq ActiveOf(b) \cup {c}
           /\ (IsActive(q) => IsActive(PlanFor(c))) => ActiveOf(After) \subseteq ActiveOf(b)
<1>1. /\ After.old = old' /\ After.new = new' /\ After.slot = slot'
  BY DEF After
<1>2. /\ Mints(c) => PlanFor(c) = Minted /\ ~IsOpen(old[c])
      /\ ~Mints(c) => slot[c] = "old" /\ PlanFor(c) = old[c] /\ old[c] # NoPlan
  BY PlanForSound DEF BookSound
<1>3. BookTypes(b)
  BY DEF BookSound
<1>4. \A e \in Contracts \ {c} :
        old'[e] = b.old[e] /\ new'[e] = b.new[e] /\ slot'[e] = b.slot[e]
  BY <1>3 DEF Keeps, KeepRow, BookTypes
<1>5. ActiveOf(After) \subseteq ActiveOf(b) \cup {c}
  BY <1>1, <1>4 DEF ActiveOf
<1>6. ASSUME IsActive(q) => IsActive(PlanFor(c)), c \in ActiveOf(After)
      PROVE  c \in ActiveOf(b)
  <2>1. CASE Mints(c)
    <3>1. ~IsActive(PlanFor(c))
      BY <1>2, <2>1, MintedPlan DEF IsActive, PlansInv
    <3>2. new'[c] = q /\ old'[c] = old[c]
      BY <1>3, <2>1 DEF Keeps, KeepRow, BookTypes
    <3>3. ~IsActive(old[c])
      BY <1>2, <2>1 DEF IsOpen, IsActive
    <3> QED
      BY <1>1, <1>6, <3>1, <3>2, <3>3 DEF ActiveOf
  <2>2. CASE ~Mints(c)
    <3>1. old'[c] = q /\ slot'[c] = "old" /\ b.slot[c] = "old" /\ PlanFor(c) = b.old[c]
      BY <1>2, <1>3, <2>2 DEF Keeps, KeepRow, BookTypes
    <3> QED
      BY <1>1, <1>6, <3>1 DEF ActiveOf
  <2> QED
    BY <2>1, <2>2
<1> QED
  BY <1>5, <1>6

LEMMA KeptLoaded ==
    ASSUME PlansInv, pc = "rows", NEW c \in Left, c \in Contracts, NEW b,
           BookSound(today, table, Left, b), RowsLoaded(table, b.old),
           b.old[c] = old[c], b.new[c] = new[c], b.slot[c] = slot[c],
           NEW q, NEW valid, Keeps(b, c, q, valid)
    PROVE  RowsLoaded(table, old')
<1>1. /\ Mints(c) => PlanFor(c) = Minted /\ ~IsOpen(old[c])
      /\ ~Mints(c) => slot[c] = "old" /\ PlanFor(c) = old[c] /\ old[c] # NoPlan
      /\ IsOpen(PlanFor(c)) /\ Lawful(today, PlanFor(c))
  BY PlanForSound DEF BookSound
<1>2. BookTypes(b)
  BY DEF BookSound
<1>3. q # NoPlan /\ q.status \in {"TRACKED", "ACTIVE", "CLOSED"}
  BY PlanFields DEF Keeps, Follows, Lawful
<1>4. CASE Mints(c)
  BY <1>2, <1>4 DEF Keeps, KeepRow, BookTypes
<1>5. CASE ~Mints(c)
  <2>1. \A e \in Contracts \ {c} : old'[e] = b.old[e]
    BY <1>2 DEF Keeps, KeepRow, BookTypes
  <2>2. old'[c] = q /\ q.created = b.old[c].created
    BY <1>1, <1>2, <1>5 DEF Keeps, Follows, KeepRow, BookTypes
  <2>3. IsActive(b.old[c]) /\ IsOpen(q) => IsActive(q)
    BY <1>1, <1>3, <1>5 DEF Keeps, Follows, IsOpen, IsActive
  <2>4. IsOpen(b.old[c])
    BY <1>1, <1>5
  <2> QED
    BY <1>3, <2>1, <2>2, <2>3, <2>4 DEF RowsLoaded
<1> QED
  BY <1>4, <1>5

LEMMA RetiredLoaded ==
    ASSUME PlansInv, pc # "idle", NEW w \in ActiveInBook, NEW b, b = Retire(w),
           RowsLoaded(table, old)
    PROVE  RowsLoaded(table, b.old)
<1>1. \A c \in Contracts \ {w} : b.old[c] = old[c]
  BY RetiredBook
<1>2. /\ b.old[w] # NoPlan => b.old[w].created = old[w].created /\ old[w] # NoPlan
                              /\ ~IsOpen(b.old[w])
      /\ old[w] # NoPlan => b.old[w] # NoPlan
  BY RetiredBook
<1> QED
  BY <1>1, <1>2 DEF RowsLoaded

LEMMA MoreSettled ==
    ASSUME NEW day, NEW t, NEW x, NEW days, NEW more,
           \A c \in Contracts : days[c] \subseteq more[c]
    PROVE  /\ TableSound(day, t, days) => TableSound(day, t, more)
           /\ RemovalSound(day, t, x, days) => RemovalSound(day, t, x, more)
BY DEF TableSound, RemovalSound, OutcomeIn

LEMMA ActiveCount ==
    ASSUME NEW S \in SUBSET Contracts
    PROVE  /\ IsFiniteSet(S) /\ Cardinality(S) \in Nat
           /\ \A T \in SUBSET S : Cardinality(T) <= Cardinality(S)
           /\ \A c \in Contracts : Cardinality(S \cup {c}) <= Cardinality(S) + 1
           /\ \A c \in S : Cardinality(S \ {c}) = Cardinality(S) - 1
<1>1. IsFiniteSet(S)
  BY FS_Subset, DoreAssumption
<1>2. Cardinality(S) \in Nat
  BY <1>1, FS_CardinalityType
<1>3. \A T \in SUBSET S : Cardinality(T) <= Cardinality(S)
  BY <1>1, FS_Subset
<1>4. ASSUME NEW c \in Contracts
      PROVE  Cardinality(S \cup {c}) <= Cardinality(S) + 1
  <2>1. Cardinality(S \cup {c}) = IF c \in S THEN Cardinality(S) ELSE Cardinality(S) + 1
    BY <1>1, FS_AddElement
  <2> QED
    BY <1>2, <2>1
<1>5. ASSUME NEW c \in S
      PROVE  Cardinality(S \ {c}) = Cardinality(S) - 1
  BY <1>1, FS_RemoveElement
<1> QED
  BY <1>1, <1>2, <1>3, <1>4, <1>5

(* The row of contract c, in the book as it is or with a plan retired for it,
   when there is room for what it makes of its plan. *)
LEMMA RowInv ==
    ASSUME PlansInv, NEW c \in Contracts, NEW isFresh \in BOOLEAN, Take(c, isFresh), NEW b,
           b = Unretired \/ \E w \in ActiveInBook : w # c /\ b = Retire(w),
           NEW q, NEW valid, Keeps(b, c, q, valid),
           \/ IsActive(q) => IsActive(PlanFor(c))
           \/ Cardinality(ActiveInBook) < MaxActive
           \/ b # Unretired,
           skipped' = skipped
    PROVE  PlansInv'
<1>1. /\ pc = "rows" /\ c \in Left /\ Left' = Left \ {c} /\ fresh' \cap carried' = {}
      /\ today' = today /\ table' = table /\ pc' = pc /\ misreads' = misreads
      /\ removal' = removal
  BY DEF Take, Left, PlansInv
<1>2. /\ BookSound(today, table, Left, b)
      /\ b.old[c] = old[c] /\ b.new[c] = new[c] /\ b.slot[c] = slot[c]
      /\ \A e \in Contracts : settled[e] \subseteq b.settled[e]
  BY <1>1, RetiredBook, UnretiredFields DEF PlansInv
<1>3. BookSound(today, table, Left \ {c}, After)
  BY <1>1, <1>2, KeptBook
<1>4. Unretired' = After
  BY DEF Unretired, After
<1>5. /\ settled' \in [Contracts -> SUBSET Days]
      /\ \A e \in Contracts : settled[e] \subseteq settled'[e]
  BY <1>2 DEF Keeps
<1>6. TableSound(today, table, settled') /\ RemovalSound(today, table, removal, settled')
  BY <1>5, MoreSettled DEF PlansInv
<1>7. ASSUME misreads = 0
      PROVE  RowsLoaded(table, old') /\ Cardinality(ActiveOf(After)) <= MaxActive
  <2>1. RowsLoaded(table, old) /\ Cardinality(ActiveOf(Unretired)) <= MaxActive
    BY <1>1, <1>7 DEF PlansInv
  <2>2. RowsLoaded(table, b.old)
    BY <1>1, <2>1, RetiredLoaded, UnretiredFields
  <2>3. RowsLoaded(table, old')
    BY <1>1, <1>2, <2>2, KeptLoaded
  <2>4. /\ ActiveOf(After) \subseteq ActiveOf(b) \cup {c}
        /\ (IsActive(q) => IsActive(PlanFor(c))) => ActiveOf(After) \subseteq ActiveOf(b)
    BY <1>1, <1>2, KeptActive
  <2>5. /\ ActiveOf(Unretired) \in SUBSET Contracts /\ ActiveOf(b) \in SUBSET Contracts
        /\ ActiveOf(b) \cup {c} \in SUBSET Contracts
    BY DEF ActiveOf
  <2>6. Cardinality(ActiveOf(After)) <= MaxActive
    <3>1. CASE b = Unretired /\ (IsActive(q) => IsActive(PlanFor(c)))
      <4>1. Cardinality(ActiveOf(After)) <= Cardinality(ActiveOf(Unretired))
        BY <2>4, <2>5, <3>1, ActiveCount
      <4>2. ActiveOf(After) \in SUBSET Contracts
        BY <2>4, <2>5
      <4> QED
        BY <2>1, <2>5, <4>1, <4>2, ActiveCount, Dates
    <3>2. CASE \/ Cardinality(ActiveInBook) < MaxActive /\ b = Unretired
               \/ b # Unretired
      <4>1. Cardinality(ActiveOf(b)) < MaxActive
        <5>1. CASE Cardinality(ActiveInBook) < MaxActive /\ b = Unretired
          BY <1>1, <5>1, ActiveIs
        <5>2. CASE \E w \in ActiveInBook : w # c /\ b = Retire(w)
          <6>1. PICK w \in ActiveInBook : b = Retire(w)
            BY <5>2
          <6>2. ActiveOf(b) = ActiveOf(Unretired) \ {w} /\ w \in ActiveOf(Unretired)
            BY <1>1, <6>1, RetiredActive
          <6> QED
            BY <2>1, <2>5, <6>2, ActiveCount, Dates
        <5> QED
          BY <3>2, <5>1, <5>2
      <4>2. Cardinality(ActiveOf(b) \cup {c}) <= Cardinality(ActiveOf(b)) + 1
        BY <2>5, ActiveCount
      <4>3. Cardinality(ActiveOf(After)) <= Cardinality(ActiveOf(b) \cup {c})
        BY <2>4, <2>5, ActiveCount
      <4>4. ActiveOf(After) \in SUBSET Contracts
        BY <2>4, <2>5
      <4> QED
        BY <2>5, <4>1, <4>2, <4>3, <4>4, ActiveCount, Dates
    <3> QED
      BY <3>1, <3>2
  <2> QED
    BY <2>3, <2>6
<1> QED
  BY <1>1, <1>3, <1>4, <1>5, <1>6, <1>7 DEF PlansInv

(* A row that leaves the objects of the cycle alone. *)
LEMMA SameBook ==
    ASSUME PlansInv, NEW c \in Contracts, NEW isFresh \in BOOLEAN, Take(c, isFresh),
           UNCHANGED <<settled, old, new, slot, batch>>, skipped' \subseteq Contracts
    PROVE  PlansInv'
<1>1. /\ pc = "rows" /\ Left' \subseteq Left /\ fresh' \cap carried' = {}
      /\ today' = today /\ table' = table /\ pc' = pc /\ misreads' = misreads
      /\ removal' = removal
  BY DEF Take, Left, PlansInv
<1>2. BookSound(today, table, Left, Unretired)
  BY <1>1 DEF PlansInv
<1>3. /\ Unretired'.old = old /\ Unretired'.new = new /\ Unretired'.slot = slot
      /\ Unretired'.batch = batch /\ Unretired'.settled = settled
  BY DEF Unretired
<1>4. BookSound(today, table, Left', Unretired')
  BY <1>1, <1>2, <1>3, UnretiredFields DEF BookSound, BookTypes, LoadedSound, MintedSound
<1>5. ActiveOf(Unretired') = ActiveOf(Unretired)
  BY <1>3, UnretiredFields DEF ActiveOf
<1> QED
  BY <1>1, <1>4, <1>5 DEF PlansInv

LEMMA RowSkippedInv ==
    ASSUME PlansInv, NEW c \in Contracts, NEW isFresh \in BOOLEAN,
           RowSkipped(c, isFresh) \/ RowUntracked(c, isFresh)
    PROVE  PlansInv'
BY SameBook DEF RowSkipped, RowUntracked, PlansInv

(* A plan open and not entered is not a trade. *)
LEMMA NotEntered ==
    ASSUME NEW p, Lawful(today, p), ~IsActive(p), IsOpen(p)
    PROVE  p.entry = NoEntry /\ p.status = "TRACKED" /\ ~HeldOver(today, p)
BY PlanFields DEF Lawful, IsActive, IsOpen, HeldOver

LEMMA RowWatchedInv ==
    ASSUME PlansInv, NEW c \in Contracts, NEW isFresh \in BOOLEAN, RowWatched(c, isFresh)
    PROVE  PlansInv'
<1> DEFINE p == PlanFor(c)
<1>1. /\ pc = "rows" /\ Take(c, isFresh) /\ ~IsActive(p)
      /\ settled' = settled /\ skipped' = skipped
  BY DEF RowWatched, Take
<1>2. /\ Lawful(today, p) /\ IsOpen(p) /\ p.entry = NoEntry /\ p.status = "TRACKED"
      /\ ~HeldOver(today, p)
  BY <1>1, PlanForSound, NotEntered
<1>3. /\ Lawful(today, Close(p)) /\ ~IsOpen(Close(p)) /\ Close(p).created = p.created
      /\ Linked(today, Close(p), p) /\ Close(p).entry = NoEntry
      /\ Close(p) # NoPlan /\ Close(p).status = "CLOSED"
  BY <1>2, CloseSound, ClosedPlan DEF Lawful
<1>4. settled \in [Contracts -> SUBSET Days]
  BY DEF PlansInv
<1>5. PICK valid \in BOOLEAN :
        \/ ~Mints(c) /\ KeepRow(Unretired, c, Close(p), FALSE, TRUE)
        \/ KeepRow(Unretired, c, p, Mints(c), valid)
  BY DEF RowWatched
<1> HIDE DEF p
<1>6. CASE ~Mints(c) /\ KeepRow(Unretired, c, Close(p), FALSE, TRUE)
  <2>1. KeepRow(Unretired, c, Close(p), Mints(c), TRUE)
    BY <1>6 DEF KeepRow
  <2>2. Keeps(Unretired, c, Close(p), TRUE)
    BY <1>1, <1>2, <1>3, <1>4, <2>1, UnretiredFields DEF Keeps, Follows, OutcomeIn, p
  <2> QED
    BY <1>1, <1>3, <2>2, RowInv DEF IsActive
<1>7. CASE KeepRow(Unretired, c, p, Mints(c), valid)
  <2>1. Keeps(Unretired, c, p, valid)
    BY <1>1, <1>2, <1>4, <1>7, UnretiredFields DEF Keeps, Follows, OutcomeIn, Linked, p
  <2> QED
    BY <1>1, <2>1, RowInv
<1> QED
  BY <1>5, <1>6, <1>7

(* An entered plan against a tick: what the row keeps is that plan, closed with
   its outcome or neither expired nor too old. *)
LEMMA MonitorKeeps ==
    ASSUME PlansInv, NEW c \in Contracts, NEW b, b.settled \in [Contracts -> SUBSET Days],
           NEW p, Lawful(today, p), p.status = "ACTIVE", p.created = PlanFor(c).created,
           Linked(today, p, PlanFor(c)), HeldOver(today, p) => ~Mints(c),
           NEW premium, NEW breach, NEW minted, minted <=> Mints(c), NEW valid \in BOOLEAN,
           Monitor(b, c, p, premium, breach, minted, valid)
    PROVE  \E q, v : Keeps(b, c, q, v)
<1> DEFINE q == Ticked(p, premium, breach)
<1>1. /\ q \in Plan /\ q.status = "ACTIVE" /\ q.created = p.created
      /\ q.entered = p.entered /\ q.entry = p.entry /\ q # NoPlan
  BY TickedPlan, PlanFields DEF Lawful
<1>2. IF Exits(c, q, premium, breach, minted)
      THEN KeepRow(b, c, Close(q), minted, TRUE) /\ settled' = Record(b.settled, c, q)
      ELSE KeepRow(b, c, q, minted, valid) /\ settled' = b.settled
  BY DEF Monitor
<1> HIDE DEF q
<1>3. /\ Lawful(today, q) /\ Linked(today, q, PlanFor(c)) /\ p # NoPlan
      /\ (HeldOver(today, q) => ~Mints(c)) /\ q.created \in Days
  BY <1>1, PlanFields DEF Lawful, Linked, HeldOver
<1>4. CASE Exits(c, q, premium, breach, minted)
  <2>1. /\ Lawful(today, Close(q)) /\ ~IsOpen(Close(q)) /\ Close(q).created = q.created
        /\ Linked(today, Close(q), PlanFor(c)) /\ Close(q).status = "CLOSED"
    BY <1>1, <1>3, CloseSound, ClosedPlan DEF Linked
  <2>2. /\ settled' = [b.settled EXCEPT ![c] = b.settled[c] \cup {q.created}]
        /\ KeepRow(b, c, Close(q), minted, TRUE)
    BY <1>2, <1>4 DEF Record
  <2>3. /\ settled' \in [Contracts -> SUBSET Days] /\ q.created \in settled'[c]
        /\ \A e \in Contracts : b.settled[e] \subseteq settled'[e]
    BY <1>3, <2>2
  <2>4. KeepRow(b, c, Close(q), Mints(c), TRUE)
    BY <2>2 DEF KeepRow
  <2>5. Keeps(b, c, Close(q), TRUE)
    BY <1>1, <2>1, <2>3, <2>4 DEF Keeps, Follows, OutcomeIn
  <2> QED
    BY <2>5
<1>5. CASE ~Exits(c, q, premium, breach, minted)
  <2>1. HeldOver(today, q) => ~PastDue(today, c, q)
    BY <1>1, <1>3, <1>5 DEF Exits, PastDue, Expired, Stale, AgeStart, IsActive
  <2>2. settled' = b.settled /\ KeepRow(b, c, q, Mints(c), valid)
    BY <1>2, <1>5 DEF KeepRow
  <2>3. Keeps(b, c, q, valid)
    BY <1>1, <1>3, <2>1, <2>2 DEF Keeps, Follows, OutcomeIn, IsOpen
  <2> QED
    BY <2>3
<1> QED
  BY <1>4, <1>5

LEMMA RowActiveInv ==
    ASSUME PlansInv, NEW c \in Contracts, NEW isFresh \in BOOLEAN, RowActive(c, isFresh)
    PROVE  PlansInv'
<1> DEFINE p == InBook(c)
<1>1. pc = "rows" /\ Take(c, isFresh) /\ IsActive(p) /\ skipped' = skipped
  BY DEF RowActive, Take
<1>2. PICK premium \in Premiums, breach \in BOOLEAN, valid \in BOOLEAN :
        Monitor(Unretired, c, p, premium, breach, FALSE, valid)
  BY DEF RowActive
<1>3. ~Mints(c) /\ PlanFor(c) = p
  BY <1>1 DEF Mints, PlanFor, IsOpen, IsActive
<1>4. Lawful(today, p) /\ p.status = "ACTIVE" /\ p # NoPlan
  BY <1>1, <1>3, PlanForSound DEF IsActive
<1>5. Unretired.settled \in [Contracts -> SUBSET Days]
  BY UnretiredFields DEF PlansInv
<1> HIDE DEF p
<1>6. Linked(today, p, PlanFor(c)) /\ p.created = PlanFor(c).created
  BY <1>3 DEF Linked
<1>7. \E q, v : Keeps(Unretired, c, q, v)
  BY <1>2, <1>3, <1>4, <1>5, <1>6, MonitorKeeps
<1> QED
  BY <1>1, <1>3, <1>7, RowInv

LEMMA RowEntersInv ==
    ASSUME PlansInv, NEW c \in Contracts, RowEnters(c)
    PROVE  PlansInv'
<1>1. pc = "rows" /\ Take(c, TRUE) /\ ~IsActive(InBook(c)) /\ skipped' = skipped
  BY DEF RowEnters, Take
<1>2. PICK confidence \in Confidences, premium \in Zone, breach \in BOOLEAN,
           valid \in BOOLEAN, b \in {Unretired} \cup {Retire(w) : w \in ActiveInBook} :
        /\ IF Cardinality(ActiveInBook) < MaxActive
           THEN b = Unretired
           ELSE \E w \in ActiveInBook : b = Retire(w)
        /\ Monitor(b, c, EnteredPlan(PlanFor(c), premium, confidence), premium, breach,
                   Mints(c), valid)
  BY DEF RowEnters, EnteredPlan
<1> DEFINE p == EnteredPlan(PlanFor(c), premium, confidence)
<1>3. /\ Lawful(today, PlanFor(c)) /\ PlanFor(c) \in Plan /\ IsOpen(PlanFor(c))
      /\ ~IsActive(PlanFor(c)) /\ today \in Days
  BY <1>1, PlanForSound, MintedPlan DEF PlanFor, IsActive, PlansInv
<1>4. ~HeldOver(today, PlanFor(c))
  BY <1>3, NotEntered
<1>5. /\ p \in Plan /\ p.status = "ACTIVE" /\ p.created = PlanFor(c).created
      /\ p.entered = today /\ p.entry = premium
  BY <1>3, EnteredPlanIs
<1> HIDE DEF p
<1>6. Lawful(today, p) /\ ~HeldOver(today, p) /\ Linked(today, p, PlanFor(c))
  BY <1>3, <1>4, <1>5, PlanFields, Dates DEF Lawful, HeldOver, Linked
<1>7. b = Unretired \/ \E w \in ActiveInBook : w # c /\ b = Retire(w)
  BY <1>1, <1>2 DEF ActiveInBook
<1>8. b.settled \in [Contracts -> SUBSET Days]
  BY <1>1, <1>7, RetiredBook, UnretiredFields DEF PlansInv, BookSound, BookTypes
<1>9. Monitor(b, c, p, premium, breach, Mints(c), valid)
  BY <1>2 DEF p
<1>10. \E q, v : Keeps(b, c, q, v)
  BY <1>5, <1>6, <1>8, <1>9, MonitorKeeps
<1>11. \/ Cardinality(ActiveInBook) < MaxActive
       \/ b # Unretired
  <2>1. CASE Cardinality(ActiveInBook) < MaxActive
    BY <2>1
  <2>2. CASE \E w \in ActiveInBook : b = Retire(w)
    <3>1. PICK w \in ActiveInBook : b = Retire(w)
      BY <2>2
    <3>2. b.slot[w] = "none" /\ slot[w] # "none"
      BY <1>1, <3>1, RetiredBook, ActiveIs
    <3> QED
      BY <3>2, UnretiredFields
  <2> QED
    BY <1>2, <2>1, <2>2
<1> QED
  BY <1>1, <1>7, <1>10, <1>11, RowInv

LEMMA RowsInvariant ==
    ASSUME PlansInv, NEW c \in Contracts, Row(c)
    PROVE  PlansInv'
BY RowSkippedInv, RowWatchedInv, RowActiveInv, RowEntersInv DEF Row

LEMMA FiniteRows ==
    ASSUME NEW t
    PROVE  IsFiniteSet(ActiveRows(t))
<1>1. IsFiniteSet(Days)
  <2>1. 0 \in Int /\ LastDay \in Int
    BY DoreAssumption
  <2> QED
    BY <2>1, FS_Interval DEF Days
<1>2. IsFiniteSet(Contracts \X Days)
  BY <1>1, FS_Product, DoreAssumption
<1> QED
  BY <1>2, FS_Subset DEF ActiveRows, Places

(* The cycle begins with what the table held. *)
LEMMA LoadInv ==
    ASSUME PlansInv, NEW stageOne \in SUBSET Contracts, Load(stageOne)
    PROVE  PlansInv'
<1>1. PICK day \in [Contracts -> Days] :
        /\ \A c \in Contracts :
              IF \E d \in Days : IsOpen(table[c][d]) THEN IsOpen(table[c][day[c]]) ELSE day[c] = 0
        /\ Begin([c \in Contracts |-> IF IsOpen(table[c][day[c]])
                                      THEN table[c][day[c]] ELSE NoPlan], stageOne)
        /\ misreads' = misreads
  BY DEF Load
<1> DEFINE plans == [c \in Contracts |-> IF IsOpen(table[c][day[c]])
                                         THEN table[c][day[c]] ELSE NoPlan]
<1>2. \A c \in Contracts : plans[c] # NoPlan =>
        plans[c] = table[c][day[c]] /\ IsOpen(plans[c])
  OBVIOUS
<1>3. \A c \in Contracts : IsOpen(table[c][day[c]]) => plans[c] = table[c][day[c]]
  OBVIOUS
<1>4. plans \in [Contracts -> Plan \cup {NoPlan}]
  BY DEF PlansInv, TableSound
<1>5. Begin(plans, stageOne)
  BY <1>1
<1> HIDE DEF plans
<1>6. /\ pc' = "rows" /\ old' = plans /\ new' = [c \in Contracts |-> NoPlan]
      /\ slot' = [c \in Contracts |-> IF plans[c] = NoPlan THEN "none" ELSE "old"]
      /\ batch' = {} /\ skipped' = {} /\ fresh' \cap carried' = {}
      /\ today' = today /\ table' = table /\ settled' = settled /\ removal' = removal
  BY <1>5 DEF Begin
<1>7. /\ Unretired'.old = old' /\ Unretired'.new = new' /\ Unretired'.slot = slot'
      /\ Unretired'.batch = {} /\ Unretired'.settled = settled
  BY <1>6 DEF Unretired
<1>8. BookTypes(Unretired')
  BY <1>4, <1>6, <1>7 DEF BookTypes, PlansInv, Kinds
<1>9. \A c \in Contracts : plans[c] # NoPlan => LoadedSound(today, table, Unretired', c)
  <2> SUFFICES ASSUME NEW c \in Contracts, plans[c] # NoPlan
               PROVE  LoadedSound(today, table, Unretired', c)
    OBVIOUS
  <2>1. /\ plans[c] = table[c][day[c]] /\ IsOpen(plans[c]) /\ plans[c].created = day[c]
        /\ Lawful(today, plans[c]) /\ OutcomeIn(plans[c], settled[c])
    BY <1>2 DEF PlansInv, TableSound
  <2>2. slot'[c] = "old" /\ old'[c] = plans[c]
    BY <1>6
  <2> QED
    BY <1>7, <2>1, <2>2 DEF LoadedSound, Linked
<1>10. BookSound(today, table, Left', Unretired')
  BY <1>6, <1>7, <1>8, <1>9 DEF BookSound
<1>11. ASSUME misreads = 0
       PROVE  RowsLoaded(table, old') /\ Cardinality(ActiveOf(Unretired')) <= MaxActive
  <2>1. OneOpenRow(table) /\ Cardinality(ActiveRows(table)) <= MaxActive
    BY <1>11 DEF PlansInv, CapOf
  <2>2. RowsLoaded(table, old')
    BY <1>1, <1>3, <1>6, <2>1 DEF RowsLoaded, OneOpenRow, PlansInv, TableSound, IsOpen
  <2> DEFINE place == [c \in ActiveOf(Unretired') |-> <<c, day[c]>>]
  <2>3. place \in Injection(ActiveOf(Unretired'), ActiveRows(table))
    <3>1. ASSUME NEW c \in ActiveOf(Unretired')
          PROVE  <<c, day[c]>> \in ActiveRows(table)
      <4>1. c \in Contracts /\ IsActive(plans[c])
        BY <1>6, <1>7, <3>1 DEF ActiveOf, IsActive
      <4> QED
        BY <1>2, <4>1 DEF ActiveRows, Places, IsActive
    <3>2. place \in [ActiveOf(Unretired') -> ActiveRows(table)]
      BY <3>1
    <3>3. \A c, e \in ActiveOf(Unretired') : place[c] = place[e] => c = e
      OBVIOUS
    <3> HIDE DEF place
    <3> QED
      BY <3>2, <3>3 DEF Injection, IsInjective
  <2>4. IsFiniteSet(ActiveRows(table))
    BY FiniteRows
  <2>5. Cardinality(ActiveOf(Unretired')) <= Cardinality(ActiveRows(table))
    BY <2>3, <2>4, FS_Injection
  <2>6. IsFiniteSet(ActiveOf(Unretired'))
    BY <2>3, <2>4, FS_Injection
  <2> QED
    BY <2>1, <2>2, <2>4, <2>5, <2>6, FS_CardinalityType, Dates
<1> QED
  BY <1>1, <1>6, <1>10, <1>11 DEF PlansInv

(* A cycle whose read of the table failed works on nothing. *)
LEMMA LoadFailsInv ==
    ASSUME PlansInv, NEW stageOne \in SUBSET Contracts, LoadFails(stageOne)
    PROVE  PlansInv'
<1> DEFINE none == [c \in Contracts |-> NoPlan]
<1>1. Begin(none, stageOne) /\ misreads' = misreads + 1
  BY DEF LoadFails
<1>2. /\ pc' = "rows" /\ old' = none /\ new' = none
      /\ slot' = [c \in Contracts |-> "none"]
      /\ batch' = {} /\ skipped' = {} /\ fresh' \cap carried' = {}
      /\ today' = today /\ table' = table /\ settled' = settled /\ removal' = removal
  BY <1>1 DEF Begin
<1>3. /\ Unretired'.old = old' /\ Unretired'.new = new' /\ Unretired'.slot = slot'
      /\ Unretired'.batch = {} /\ Unretired'.settled = settled
  BY <1>2 DEF Unretired
<1>4. BookSound(today, table, Left', Unretired')
  BY <1>2, <1>3 DEF BookSound, BookTypes, PlansInv
<1>5. misreads' \in Nat /\ misreads' # 0
  BY <1>1 DEF PlansInv
<1> QED
  BY <1>2, <1>4, <1>5 DEF PlansInv

(* The plans no row named are closed past their expiry or age. *)
LEMMA SweepInv ==
    ASSUME PlansInv, Sweep
    PROVE  PlansInv'
<1> DEFINE closing ==
             {c \in skipped : IsOpen(old[c]) /\ (Expired(c) \/ Stale(old[c]))}
<1>1. /\ pc = "rows" /\ pc' = "save"
      /\ old' = [c \in Contracts |-> IF c \in closing THEN Close(old[c]) ELSE old[c]]
      /\ batch' = batch \cup {<<"old", c>> : c \in closing}
      /\ settled' = [c \in Contracts |->
                      IF c \in closing THEN settled[c] \cup {old[c].created} ELSE settled[c]]
      /\ UNCHANGED <<today, table, fresh, carried, skipped, new, slot, misreads, removal>>
  BY DEF Sweep
<1>2. closing \subseteq Contracts /\ \A c \in closing : IsOpen(old[c])
  BY DEF PlansInv
<1> HIDE DEF closing
<1>3. BookSound(today, table, Left, Unretired) /\ BookTypes(Unretired)
  BY <1>1 DEF PlansInv, BookSound
<1>4. \A c \in closing : /\ old[c] # NoPlan /\ LoadedSound(today, table, Unretired, c)
                         /\ old[c].created \in Days
  BY <1>2, <1>3, PlanFields, UnretiredFields DEF BookSound, LoadedSound, IsOpen, Lawful
<1>5. \A c \in closing :
        /\ Close(old[c]) \in Plan /\ Close(old[c]) # NoPlan /\ Lawful(today, Close(old[c]))
        /\ ~IsOpen(Close(old[c])) /\ Close(old[c]).created = old[c].created
        /\ Linked(today, Close(old[c]), old[c])
  BY <1>4, CloseSound, UnretiredFields DEF LoadedSound
<1>6. /\ Unretired'.old = old' /\ Unretired'.new = new /\ Unretired'.slot = slot
      /\ Unretired'.batch = batch' /\ Unretired'.settled = settled'
  BY <1>1 DEF Unretired
<1>7. /\ settled' \in [Contracts -> SUBSET Days]
      /\ \A c \in Contracts : settled[c] \subseteq settled'[c]
      /\ \A c \in closing : old[c].created \in settled'[c]
  BY <1>1, <1>2, <1>4 DEF PlansInv
<1>8. BookTypes(Unretired')
  BY <1>1, <1>2, <1>3, <1>5, <1>6, <1>7, UnretiredFields DEF BookTypes, Kinds
<1>9. ASSUME NEW c \in Contracts
      PROVE  /\ old'[c] # NoPlan => LoadedSound(today, table, Unretired', c)
             /\ old'[c] # NoPlan <=> old[c] # NoPlan
             /\ <<"old", c>> \in batch' <=> c \in closing \/ <<"old", c>> \in batch
             /\ <<"new", c>> \in batch' <=> <<"new", c>> \in batch
  <2>1. /\ <<"old", c>> \in batch' <=> c \in closing \/ <<"old", c>> \in batch
        /\ <<"new", c>> \in batch' <=> <<"new", c>> \in batch
    BY <1>1
  <2>2. CASE c \in closing
    <3>1. old'[c] = Close(old[c]) /\ <<"old", c>> \in batch'
      BY <1>1, <2>2
    <3>2. LoadedSound(today, table, Unretired', c)
      BY <1>4, <1>5, <1>6, <1>7, <2>2, <3>1, UnretiredFields DEF LoadedSound, Linked, OutcomeIn
    <3> QED
      BY <1>4, <1>5, <2>1, <2>2, <3>1, <3>2
  <2>3. CASE c \notin closing
    <3>1. old'[c] = old[c] /\ settled'[c] = settled[c]
      BY <1>1, <2>3
    <3>2. old[c] # NoPlan => LoadedSound(today, table, Unretired, c)
      BY <1>3, UnretiredFields DEF BookSound
    <3>3. old[c] # NoPlan => LoadedSound(today, table, Unretired', c)
      BY <1>6, <2>1, <2>3, <3>1, <3>2, UnretiredFields DEF LoadedSound
    <3> QED
      BY <2>1, <2>3, <3>1, <3>3
  <2> QED
    BY <2>2, <2>3
<1>10. \A c \in Contracts : new[c] # NoPlan => MintedSound(today, Unretired', c)
  <2> SUFFICES ASSUME NEW c \in Contracts, new[c] # NoPlan
               PROVE  MintedSound(today, Unretired', c)
    OBVIOUS
  <2>1. MintedSound(today, Unretired, c)
    BY <1>3, UnretiredFields DEF BookSound
  <2> QED
    BY <1>6, <1>7, <1>9, <2>1, UnretiredFields DEF MintedSound, OutcomeIn
<1>11. BookSound(today, table, Left', Unretired')
  <2>1. Left' = Left
    BY <1>1 DEF Left
  <2> QED
    BY <1>3, <1>4, <1>6, <1>8, <1>9, <1>10, <2>1, UnretiredFields DEF BookSound
<1>12. ASSUME misreads = 0
       PROVE  RowsLoaded(table, old') /\ Cardinality(ActiveOf(Unretired')) <= MaxActive
  <2>1. RowsLoaded(table, old) /\ Cardinality(ActiveOf(Unretired)) <= MaxActive
    BY <1>1, <1>12 DEF PlansInv
  <2>2. RowsLoaded(table, old')
    BY <1>1, <1>2, <1>5, <1>9, <2>1 DEF RowsLoaded, IsActive
  <2>3. ActiveOf(Unretired') \subseteq ActiveOf(Unretired)
    BY <1>1, <1>5, <1>6, UnretiredFields DEF ActiveOf, IsActive, IsOpen
  <2>4. ActiveOf(Unretired) \in SUBSET Contracts /\ ActiveOf(Unretired') \in SUBSET Contracts
    BY DEF ActiveOf
  <2>5. Cardinality(ActiveOf(Unretired')) <= Cardinality(ActiveOf(Unretired))
    BY <2>3, <2>4, ActiveCount
  <2> QED
    BY <2>1, <2>2, <2>4, <2>5, ActiveCount, Dates
<1>13. TableSound(today, table, settled') /\ RemovalSound(today, table, removal, settled')
  BY <1>7, MoreSettled DEF PlansInv
<1> QED
  BY <1>1, <1>7, <1>11, <1>12, <1>13 DEF PlansInv

(* What a cycle did not write is as it was; the rest is one of its objects. *)
LEMMA SavedRow ==
    ASSUME PlansInv, Save, NEW c \in Contracts, NEW d \in Days
    PROVE  \/ /\ table'[c][d] = table[c][d]
              /\ old[c] # NoPlan /\ old[c].created = d => <<"old", c>> \notin batch
           \/ /\ <<"old", c>> \in batch /\ old[c] # NoPlan /\ old[c].created = d
              /\ table'[c][d] = old[c] /\ LoadedSound(today, table, Unretired, c)
           \/ /\ <<"new", c>> \in batch /\ new[c] # NoPlan /\ new[c].created = d
              /\ table'[c][d] = new[c] /\ MintedSound(today, Unretired, c)
<1> DEFINE written(k) == <<k, c>> \in batch /\ ObjectOf(k, c).created = d
<1>1. table'[c][d] = IF \E k \in Kinds : written(k)
                     THEN ObjectOf(CHOOSE k \in Kinds : written(k), c)
                     ELSE table[c][d]
  BY DEF Save
<1>2. BookSound(today, table, Left, Unretired)
  BY DEF Save, PlansInv
<1>3. ObjectOf("old", c) = old[c] /\ ObjectOf("new", c) = new[c]
  BY DEF ObjectOf
<1>4. CASE \E k \in Kinds : written(k)
  <2>1. PICK k \in Kinds : written(k) /\ table'[c][d] = ObjectOf(k, c)
    BY <1>1, <1>4
  <2>2. CASE k = "old"
    BY <1>2, <1>3, <2>1, <2>2, UnretiredFields DEF BookSound
  <2>3. CASE k = "new"
    BY <1>2, <1>3, <2>1, <2>3, UnretiredFields DEF BookSound
  <2> QED
    BY <2>1, <2>2, <2>3 DEF Kinds
<1>5. CASE ~\E k \in Kinds : written(k)
  BY <1>1, <1>3, <1>5 DEF Kinds
<1> QED
  BY <1>4, <1>5

(* At most one plan of a contract is written as open, and none beside a row
   that stays open. *)
LEMMA SavedOpen ==
    ASSUME PlansInv, Save, misreads = 0, NEW c \in Contracts, NEW d \in Days,
           IsOpen(table'[c][d])
    PROVE  \/ slot[c] = "old" /\ old[c] # NoPlan /\ IsOpen(old[c]) /\ old[c].created = d
              /\ (IsActive(table'[c][d]) => IsActive(old[c]))
           \/ slot[c] = "new" /\ new[c] # NoPlan /\ new[c].created = d
              /\ (IsActive(table'[c][d]) => IsActive(new[c]))
<1>1. BookSound(today, table, Left, Unretired) /\ RowsLoaded(table, old)
  BY DEF Save, PlansInv
<1>2. CASE /\ table'[c][d] = table[c][d]
           /\ old[c] # NoPlan /\ old[c].created = d => <<"old", c>> \notin batch
  <2>1. old[c] # NoPlan /\ old[c].created = d /\ <<"old", c>> \notin batch
    BY <1>1, <1>2 DEF RowsLoaded
  <2>2. LoadedSound(today, table, Unretired, c)
    BY <1>1, <2>1, UnretiredFields DEF BookSound
  <2>3. IsOpen(old[c]) /\ slot[c] = "old"
    BY <2>1, <2>2, UnretiredFields DEF LoadedSound
  <2> QED
    BY <1>1, <1>2, <2>1, <2>3 DEF RowsLoaded
<1>3. CASE /\ old[c] # NoPlan /\ old[c].created = d
           /\ table'[c][d] = old[c] /\ LoadedSound(today, table, Unretired, c)
  BY <1>3, UnretiredFields DEF LoadedSound
<1>4. CASE /\ <<"new", c>> \in batch /\ new[c] # NoPlan /\ new[c].created = d
           /\ table'[c][d] = new[c] /\ MintedSound(today, Unretired, c)
  BY <1>4, UnretiredFields DEF MintedSound
<1> QED
  BY <1>2, <1>3, <1>4, SavedRow

LEMMA DoneBook ==
    ASSUME Done
    PROVE  pc' = "idle" /\ skipped' = {}
BY DEF Done

LEMMA SaveInv ==
    ASSUME PlansInv, Save
    PROVE  PlansInv'
<1>1. /\ pc = "save" /\ pc' = "idle" /\ skipped' = {}
      /\ UNCHANGED <<today, settled, misreads, removal>>
  BY DoneBook DEF Save
<1>2. table' \in [Contracts -> [Days -> Plan \cup {NoPlan}]]
  <2>1. table' = [c \in Contracts |-> [d \in Days |-> table'[c][d]]]
    BY DEF Save
  <2>2. ASSUME NEW c \in Contracts, NEW d \in Days
        PROVE  table'[c][d] \in Plan \cup {NoPlan}
    <3>1. table[c][d] \in Plan \cup {NoPlan}
      BY DEF PlansInv, TableSound
    <3> QED
      BY <3>1, SavedRow, UnretiredFields DEF LoadedSound, MintedSound, Lawful
  <2> QED
    BY <2>1, <2>2
<1>3. TableSound(today, table', settled)
  <2> SUFFICES ASSUME NEW c \in Contracts, NEW d \in Days, table'[c][d] # NoPlan
               PROVE  /\ Lawful(today, table'[c][d]) /\ table'[c][d].created = d
                      /\ OutcomeIn(table'[c][d], settled[c])
    BY <1>2 DEF TableSound
  <2>1. table[c][d] # NoPlan => /\ Lawful(today, table[c][d]) /\ table[c][d].created = d
                                /\ OutcomeIn(table[c][d], settled[c])
    BY DEF PlansInv, TableSound
  <2>2. CASE table'[c][d] = table[c][d]
    BY <2>1, <2>2
  <2>3. CASE /\ table'[c][d] = old[c] /\ old[c].created = d
             /\ LoadedSound(today, table, Unretired, c)
    BY <2>3, UnretiredFields DEF LoadedSound
  <2>4. CASE /\ table'[c][d] = new[c] /\ new[c].created = d
             /\ MintedSound(today, Unretired, c)
    BY <2>4, UnretiredFields DEF MintedSound
  <2> QED
    BY <2>2, <2>3, <2>4, SavedRow
<1>4. RemovalSound(today, table', removal, settled)
  <2> SUFFICES ASSUME removal # NoPlan
               PROVE  Linked(today, removal.plan, table'[removal.contract][removal.plan.created])
    BY DEF PlansInv, RemovalSound
  <2> DEFINE c == removal.contract
             p == removal.plan
             d == p.created
  <2>1. /\ c \in Contracts /\ Lawful(today, p) /\ Linked(today, p, table[c][d])
        /\ d \in Days /\ d \in Nat /\ p.entered \in Nat /\ today \in Nat /\ p # NoPlan
    BY PlanFields, Dates DEF PlansInv, RemovalSound, Lawful
  <2> HIDE DEF c, p, d
  <2>2. CASE table'[c][d] = table[c][d]
    BY <2>1, <2>2 DEF c, p, d
  <2>3. CASE /\ table'[c][d] = old[c] /\ old[c].created = d
             /\ LoadedSound(today, table, Unretired, c)
    BY <2>1, <2>3, UnretiredFields DEF LoadedSound, Linked, c, p, d
  <2>4. CASE /\ new[c] # NoPlan /\ new[c].created = d
             /\ table'[c][d] = new[c] /\ MintedSound(today, Unretired, c)
    <3>1. Lawful(today, new[c]) /\ d = today /\ new[c].entered \in Nat
      BY <2>4, PlanFields, UnretiredFields DEF MintedSound, Lawful
    <3>2. ~HeldOver(today, new[c]) /\ ~HeldOver(today, p)
      BY <2>1, <2>4, <3>1 DEF Lawful, HeldOver, d
    <3> QED
      BY <2>4, <3>2 DEF Linked, c, p, d
  <2>5. \/ table'[c][d] = table[c][d]
        \/ /\ table'[c][d] = old[c] /\ old[c].created = d
           /\ LoadedSound(today, table, Unretired, c)
        \/ /\ new[c] # NoPlan /\ new[c].created = d
           /\ table'[c][d] = new[c] /\ MintedSound(today, Unretired, c)
    BY <2>1, SavedRow
  <2>6. Linked(today, p, table'[c][d])
    BY <2>2, <2>3, <2>4, <2>5 DEF c, p, d
  <2> QED
    BY <2>6 DEF c, p, d
<1>5. ASSUME misreads = 0
      PROVE  CapOf(table')
  <2>1. OneOpenRow(table')
    BY <1>5, SavedOpen DEF OneOpenRow
  <2> DEFINE whose == [x \in ActiveRows(table') |-> x[1]]
  <2>2. whose \in Injection(ActiveRows(table'), ActiveOf(Unretired))
    <3>1. ASSUME NEW x \in ActiveRows(table')
          PROVE  /\ x[1] \in ActiveOf(Unretired) /\ x = <<x[1], x[2]>> /\ x[1] \in Contracts
                 /\ x[2] \in Days /\ IsOpen(table'[x[1]][x[2]])
      <4>1. /\ x[1] \in Contracts /\ x[2] \in Days /\ x = <<x[1], x[2]>>
            /\ IsActive(table'[x[1]][x[2]])
        BY <3>1 DEF ActiveRows, Places
      <4>2. IsOpen(table'[x[1]][x[2]])
        BY <4>1 DEF IsOpen, IsActive
      <4> QED
        BY <1>5, <4>1, <4>2, SavedOpen, UnretiredFields DEF ActiveOf
    <3>2. whose \in [ActiveRows(table') -> ActiveOf(Unretired)]
      BY <3>1
    <3>3. \A x, y \in ActiveRows(table') : whose[x] = whose[y] => x = y
      BY <2>1, <3>1 DEF OneOpenRow
    <3> HIDE DEF whose
    <3> QED
      BY <3>2, <3>3 DEF Injection, IsInjective
  <2>3. ActiveOf(Unretired) \in SUBSET Contracts /\ IsFiniteSet(ActiveRows(table'))
    BY FiniteRows DEF ActiveOf
  <2>4. Cardinality(ActiveRows(table')) <= Cardinality(ActiveOf(Unretired))
    BY <2>2, <2>3, ActiveCount, FS_Injection
  <2>5. Cardinality(ActiveOf(Unretired)) <= MaxActive
    BY <1>1, <1>5 DEF PlansInv
  <2> QED
    BY <2>1, <2>3, <2>4, <2>5, ActiveCount, FS_CardinalityType, Dates DEF CapOf
<1> QED
  BY <1>1, <1>3, <1>4, <1>5 DEF PlansInv

LEMMA LostInv ==
    ASSUME PlansInv, SaveFails \/ Crash
    PROVE  PlansInv'
<1>1. pc' = "idle" /\ skipped' = {} /\ UNCHANGED <<today, table, settled, misreads, removal>>
  BY DoneBook DEF SaveFails, Crash
<1> QED
  BY <1>1 DEF PlansInv

(* The page records the outcome of the plan it looked at. *)
LEMMA RemoveInactiveInv ==
    ASSUME PlansInv, NEW c \in Contracts, NEW d \in Days, RemoveInactive(c, d)
    PROVE  PlansInv'
<1> DEFINE p == table[c][d]
           q == Close(p)
<1>1. /\ IsOpen(p) /\ (Expired(c) \/ Stale(p))
      /\ removal' = [contract |-> c, plan |-> q]
      /\ settled' = [settled EXCEPT ![c] = settled[c] \cup {q.created}]
      /\ UNCHANGED <<today, table, pc, book, misreads>>
  BY DEF RemoveInactive, Record
<1>2. Lawful(today, p) /\ p.created = d /\ p \in Plan /\ p # NoPlan
  BY <1>1 DEF PlansInv, TableSound, IsOpen, Lawful
<1>3. /\ q \in Plan /\ q # NoPlan /\ Lawful(today, q) /\ q.created = d
      /\ Linked(today, q, p) /\ q.status = "CLOSED" /\ q.entry = p.entry
      /\ q.entered = p.entered
  BY <1>2, CloseSound, ClosedPlan
<1>4. HeldOver(today, q) => PastDue(today, c, q)
  <2>1. HeldOver(today, q) => p.status = "ACTIVE"
    BY <1>1, <1>2, <1>3, PlanFields DEF HeldOver, Lawful, IsOpen
  <2> QED
    BY <1>1, <1>2, <1>3, <2>1 DEF PastDue, Expired, Stale, AgeStart, IsActive
<1> HIDE DEF p, q
<1>5. /\ settled' \in [Contracts -> SUBSET Days] /\ d \in settled'[c]
      /\ \A e \in Contracts : settled[e] \subseteq settled'[e]
  BY <1>1, <1>3 DEF PlansInv
<1>6. TableSound(today, table, settled')
  BY <1>5, MoreSettled DEF PlansInv
<1>7. RemovalSound(today, table, removal', settled')
  <2>1. removal'.contract = c /\ removal'.plan = q
    BY <1>1
  <2> QED
    BY <1>3, <1>4, <1>5, <2>1 DEF RemovalSound, OutcomeIn, p
<1>8. /\ Unretired'.old = old /\ Unretired'.new = new /\ Unretired'.slot = slot
      /\ Unretired'.batch = batch /\ Unretired'.settled = settled'
      /\ Left' = Left
  BY <1>1 DEF Unretired, book, Left
<1>9. ASSUME BookSound(today, table, Left, Unretired)
      PROVE  BookSound(today, table, Left', Unretired')
  <2>1. \A e \in Contracts : \A x : OutcomeIn(x, settled[e]) => OutcomeIn(x, settled'[e])
    BY <1>5 DEF OutcomeIn
  <2>2. BookTypes(Unretired')
    BY <1>5, <1>8, <1>9, UnretiredFields DEF BookSound, BookTypes
  <2>3. \A e \in Contracts :
          /\ LoadedSound(today, table, Unretired, e) => LoadedSound(today, table, Unretired', e)
          /\ MintedSound(today, Unretired, e) => MintedSound(today, Unretired', e)
    BY <1>8, <2>1, UnretiredFields DEF LoadedSound, MintedSound
  <2> QED
    BY <1>8, <1>9, <2>2, <2>3, UnretiredFields DEF BookSound
<1>10. ActiveOf(Unretired') = ActiveOf(Unretired)
  BY <1>8, UnretiredFields DEF ActiveOf
<1> QED
  BY <1>1, <1>5, <1>6, <1>7, <1>9, <1>10 DEF PlansInv, book

(* A closed plan takes the place of the row it was read from, or of what a cycle
   has made of that row since. *)
LEMMA RemoveSavesInv ==
    ASSUME PlansInv, RemoveSaves
    PROVE  PlansInv'
<1> DEFINE c == removal.contract
           p == removal.plan
           d == p.created
<1>1. /\ removal # NoPlan /\ removal' = NoPlan
      /\ table' = [table EXCEPT ![c][d] = p]
      /\ UNCHANGED <<today, settled, pc, book, misreads>>
  BY DEF RemoveSaves
<1>2. /\ c \in Contracts /\ Lawful(today, p) /\ p.status = "CLOSED" /\ OutcomeIn(p, settled[c])
      /\ Linked(today, p, table[c][d]) /\ (HeldOver(today, p) => PastDue(today, c, p))
      /\ p \in Plan /\ p # NoPlan /\ d \in Days /\ ~IsOpen(p)
  BY <1>1, PlanFields DEF PlansInv, RemovalSound, Lawful, IsOpen
<1> HIDE DEF c, d, p
<1>3. /\ table \in [Contracts -> [Days -> Plan \cup {NoPlan}]]
      /\ TableSound(today, table, settled)
  BY DEF PlansInv, TableSound
<1>4. /\ table' \in [Contracts -> [Days -> Plan \cup {NoPlan}]]
      /\ table'[c][d] = p
      /\ \A e \in Contracts, x \in Days :
            (e = c /\ x = d) \/ table'[e][x] = table[e][x]
  BY <1>1, <1>2, <1>3
<1>5. TableSound(today, table', settled)
  BY <1>2, <1>3, <1>4 DEF TableSound, d
<1>6. \A e \in Contracts, x \in Days :
        IsOpen(table'[e][x]) => table'[e][x] = table[e][x]
  BY <1>2, <1>4
<1>7. ASSUME CapOf(table)
      PROVE  CapOf(table')
  <2>1. OneOpenRow(table')
    BY <1>6, <1>7 DEF CapOf, OneOpenRow
  <2>2. ActiveRows(table') \subseteq ActiveRows(table)
    BY <1>6 DEF ActiveRows, Places, IsActive, IsOpen
  <2>3. Cardinality(ActiveRows(table')) <= Cardinality(ActiveRows(table))
    BY <2>2, FiniteRows, FS_Subset
  <2> QED
    BY <1>7, <2>1, <2>3, FiniteRows, FS_CardinalityType, Dates DEF CapOf
<1>8. Left' = Left /\ Unretired' = Unretired /\ old' = old
  BY <1>1 DEF Left, Unretired, book
<1>9. ASSUME BookSound(today, table, Left, Unretired)
      PROVE  BookSound(today, table', Left, Unretired)
  <2> SUFFICES ASSUME NEW e \in Contracts, old[e] # NoPlan,
                      LoadedSound(today, table, Unretired, e)
               PROVE  LoadedSound(today, table', Unretired, e)
    BY <1>9, UnretiredFields DEF BookSound
  <2>1. old[e].created \in Days
    BY PlanFields, UnretiredFields DEF LoadedSound, Lawful
  <2>2. CASE e = c /\ old[e].created = d
    BY <1>2, <1>4, <2>2, UnretiredFields DEF LoadedSound, Linked, PastDue
  <2>3. CASE ~(e = c /\ old[e].created = d)
    BY <1>4, <2>1, <2>3, UnretiredFields DEF LoadedSound
  <2> QED
    BY <2>2, <2>3
<1>10. RowsLoaded(table, old) => RowsLoaded(table', old)
  BY <1>6 DEF RowsLoaded
<1>11. RemovalSound(today, table', removal', settled)
  BY <1>1 DEF RemovalSound
<1> QED
  BY <1>1, <1>5, <1>7, <1>8, <1>9, <1>10, <1>11 DEF PlansInv, book

LEMMA RemoveFailsInv ==
    ASSUME PlansInv, RemoveFails \/ UNCHANGED vars
    PROVE  PlansInv'
<1>1. /\ UNCHANGED <<today, table, settled, pc, book, misreads>>
      /\ RemovalSound(today, table, removal', settled)
  BY DEF RemoveFails, RemovalSound, vars, PlansInv
<1>2. Left' = Left /\ Unretired' = Unretired /\ old' = old /\ fresh' = fresh
      /\ carried' = carried /\ skipped' = skipped
  BY <1>1 DEF Left, Unretired, book
<1> QED
  BY <1>1, <1>2 DEF PlansInv

LEMMA NextDayInv ==
    ASSUME PlansInv, NextDay
    PROVE  PlansInv'
<1>1. /\ pc = "idle" /\ removal = NoPlan /\ today < LastDay /\ today' = today + 1
      /\ UNCHANGED <<table, settled, pc, misreads, removal>> /\ skipped' = skipped
  BY DEF NextDay, book
<1>2. today' \in Days /\ today \in Nat
  BY <1>1, Dates DEF PlansInv, Days
<1>3. \A p : Lawful(today, p) => Lawful(today', p)
  BY <1>1, <1>2, PlanFields DEF Lawful
<1>4. TableSound(today', table, settled)
  BY <1>3 DEF PlansInv, TableSound
<1>5. RemovalSound(today', table, removal, settled)
  BY <1>1 DEF RemovalSound
<1> QED
  BY <1>1, <1>2, <1>4, <1>5 DEF PlansInv

LEMMA PlansInitInv == Init => PlansInv
<1> SUFFICES ASSUME Init
             PROVE  PlansInv
  OBVIOUS
<1>1. /\ today = 0 /\ misreads = 0 /\ pc = "idle" /\ removal = NoPlan /\ skipped = {}
      /\ settled = [c \in Contracts |-> {}]
      /\ table = [c \in Contracts |-> [d \in Days |-> NoPlan]]
  BY DEF Init
<1>2. 0 \in Days
  BY Dates DEF Days
<1>3. ActiveRows(table) = {}
  BY <1>1 DEF ActiveRows, Places, IsActive
<1>4. CapOf(table)
  BY <1>1, <1>3, FS_EmptySet, Dates DEF CapOf, OneOpenRow, IsOpen
<1> QED
  BY <1>1, <1>2, <1>4 DEF PlansInv, TableSound, RemovalSound

LEMMA PlansNextInv == PlansInv /\ [Next]_vars => PlansInv'
<1> SUFFICES ASSUME PlansInv, [Next]_vars
             PROVE  PlansInv'
  OBVIOUS
<1>1. CASE Cycle
  BY <1>1, LoadInv, LoadFailsInv, RowsInvariant, SweepInv, SaveInv, LostInv DEF Cycle
<1>2. CASE Page
  BY <1>2, RemoveInactiveInv, RemoveSavesInv, RemoveFailsInv DEF Page
<1> QED
  BY <1>1, <1>2, NextDayInv, RemoveFailsInv DEF Next

LEMMA PlansAreSound == Spec => []PlansInv
BY PlansInitInv, PlansNextInv, PTL DEF Spec

(* A closed trade has its outcome, whatever fails or dies between the two
   writes and whoever of the worker and the page closes it. *)
THEOREM ClosedTrades == Spec => []ClosedTradeHasOutcome
<1>1. PlansInv => ClosedTradeHasOutcome
  BY DEF PlansInv, TableSound, OutcomeIn, ClosedTradeHasOutcome, Places, RowAt
<1> QED
  BY <1>1, PlansAreSound, PTL

(* No more trades are open in the table than the cap allows, for any number of
   contracts, as long as every read of the open plans succeeded. *)
THEOREM Cap == Spec => []CapHeld
<1>1. PlansInv => CapHeld
  BY DEF PlansInv, CapOf, ActiveRows, CapHeld, RowAt
<1> QED
  BY <1>1, PlansAreSound, PTL

(* And no contract has two open rows, so that the plans loaded by contract hide
   none, whatever the cycles and the page wrote and lost. *)
THEOREM OneOpen == Spec => []OneOpenPerContract
<1>1. PlansInv => OneOpenPerContract
  BY DEF PlansInv, CapOf, OneOpenRow, OneOpenPerContract, Places, RowAt
<1> QED
  BY <1>1, PlansAreSound, PTL

(***************************************************************************)
(* What the invariant leaves open of the types: the rows still to treat,   *)
(* the page's removal, and the objects between two cycles.                 *)
(***************************************************************************)

Removals == [contract : Contracts, plan : Plan]

RestTypes ==
    /\ fresh \subseteq Contracts /\ carried \subseteq Contracts /\ twice \in BOOLEAN
    /\ misreads \in 0 .. MaxMisreads /\ removal \in Removals \cup {NoPlan}
    /\ pc = "idle" => BookTypes(Unretired)

LEMMA DoneTypes ==
    ASSUME Done, PlansInv, settled' = settled
    PROVE  /\ fresh' = {} /\ carried' = {} /\ twice' \in BOOLEAN
           /\ BookTypes(Unretired)'
<1>1. /\ fresh' = {} /\ carried' = {} /\ twice' = FALSE /\ batch' = {}
      /\ old' = [c \in Contracts |-> NoPlan] /\ new' = old'
      /\ slot' = [c \in Contracts |-> "none"]
  BY DEF Done
<1>2. settled' \in [Contracts -> SUBSET Days]
  BY DEF PlansInv
<1> QED
  BY <1>1, <1>2 DEF BookTypes, Unretired

LEMMA RowRest ==
    ASSUME RestTypes, NEW c \in Contracts, Row(c)
    PROVE  RestTypes'
<1>1. \E isFresh \in BOOLEAN : Take(c, isFresh)
  BY DEF Row, RowEnters, RowSkipped, RowUntracked, RowWatched, RowActive
<1>2. /\ pc = "rows" /\ UNCHANGED <<pc, misreads, removal>>
      /\ fresh' \subseteq fresh /\ carried' \subseteq carried
  BY <1>1 DEF Take
<1>3. ASSUME NEW b, NEW p, NEW minted, NEW valid, KeepRow(b, c, p, minted, valid)
      PROVE  twice' = b.twice
  BY <1>3 DEF KeepRow
<1>4. \A w : Retire(w).twice \in BOOLEAN
  BY DEF Retire, RestTypes
<1>5. Unretired.twice = twice
  BY DEF Unretired
<1>6. twice' \in BOOLEAN
  <2>1. CASE \E isFresh \in BOOLEAN : RowSkipped(c, isFresh) \/ RowUntracked(c, isFresh)
    BY <2>1 DEF RowSkipped, RowUntracked, RestTypes
  <2>2. ASSUME NEW isFresh \in BOOLEAN, RowWatched(c, isFresh) PROVE twice' \in BOOLEAN
    <3>1. \E p, minted, valid : KeepRow(Unretired, c, p, minted, valid)
      BY <2>2 DEF RowWatched
    <3> QED
      BY <1>3, <1>5, <3>1 DEF RestTypes
  <2>3. ASSUME NEW b, NEW p, NEW premium, NEW breach, NEW minted, NEW valid,
               Monitor(b, c, p, premium, breach, minted, valid)
        PROVE  twice' = b.twice
    <3>1. \E q, m : KeepRow(b, c, q, minted, m)
      BY <2>3 DEF Monitor
    <3> QED
      BY <1>3, <3>1
  <2>4. ASSUME NEW isFresh \in BOOLEAN, RowActive(c, isFresh) PROVE twice' \in BOOLEAN
    <3>1. \E premium, breach, valid :
            Monitor(Unretired, c, InBook(c), premium, breach, FALSE, valid)
      BY <2>4 DEF RowActive
    <3> QED
      BY <1>5, <2>3, <3>1 DEF RestTypes
  <2>5. ASSUME RowEnters(c) PROVE twice' \in BOOLEAN
    <3>1. PICK b \in {Unretired} \cup {Retire(w) : w \in ActiveInBook} :
            \E p, premium, breach, minted, valid :
                Monitor(b, c, p, premium, breach, minted, valid)
      BY <2>5 DEF RowEnters
    <3>2. twice' = b.twice
      BY <2>3, <3>1
    <3> QED
      BY <1>4, <1>5, <3>2 DEF RestTypes
  <2> QED
    BY <2>1, <2>2, <2>4, <2>5 DEF Row
<1> QED
  BY <1>2, <1>6 DEF RestTypes

LEMMA RestInit == Init => RestTypes
<1> SUFFICES ASSUME Init PROVE RestTypes
  OBVIOUS
<1>1. BookTypes(Unretired)
  BY DEF Init, BookTypes, Unretired
<1>2. 0 \in 0 .. MaxMisreads
  BY DoreAssumption
<1> QED
  BY <1>1, <1>2 DEF Init, RestTypes

LEMMA RestNext == PlansInv /\ RestTypes /\ [Next]_vars => RestTypes'
<1> SUFFICES ASSUME PlansInv, RestTypes, [Next]_vars PROVE RestTypes'
  OBVIOUS
<1>1. ASSUME NEW plans, NEW stageOne \in SUBSET Contracts, Begin(plans, stageOne),
             misreads' \in 0 .. MaxMisreads
      PROVE  RestTypes'
  BY <1>1 DEF Begin, RestTypes
<1>2. ASSUME NEW stageOne \in SUBSET Contracts, Load(stageOne) PROVE RestTypes'
  <2>1. misreads' = misreads /\ \E plans : Begin(plans, stageOne)
    BY <1>2 DEF Load
  <2> QED
    BY <1>1, <2>1 DEF RestTypes
<1>3. ASSUME NEW stageOne \in SUBSET Contracts, LoadFails(stageOne) PROVE RestTypes'
  <2>1. misreads' \in 0 .. MaxMisreads
    BY <1>3, DoreAssumption DEF LoadFails, RestTypes
  <2> QED
    BY <1>1, <1>3, <2>1 DEF LoadFails
<1>4. CASE Sweep
  BY <1>4 DEF Sweep, RestTypes
<1>5. CASE Save \/ SaveFails \/ Crash
  <2>1. Done /\ UNCHANGED <<settled, misreads, removal>>
    BY <1>5 DEF Save, SaveFails, Crash
  <2>2. fresh' = {} /\ carried' = {} /\ twice' \in BOOLEAN /\ BookTypes(Unretired)'
    BY <2>1, DoneTypes
  <2> QED
    BY <2>1, <2>2 DEF RestTypes
<1>6. ASSUME UNCHANGED <<pc, book>>, settled' \in [Contracts -> SUBSET Days],
             UNCHANGED misreads, removal' \in Removals \cup {NoPlan}
      PROVE  RestTypes'
  BY <1>6 DEF RestTypes, book, BookTypes, Unretired
<1>7. settled \in [Contracts -> SUBSET Days] /\ settled' \in [Contracts -> SUBSET Days]
  BY PlansNextInv DEF PlansInv
<1>8. ASSUME NEW c \in Contracts, NEW d \in Days, RemoveInactive(c, d) PROVE RestTypes'
  <2>1. table[c][d] \in Plan
    BY <1>8 DEF RemoveInactive, IsOpen, PlansInv, TableSound
  <2>2. Close(table[c][d]) \in Plan
    BY <2>1, ClosedPlan
  <2>3. removal' \in Removals
    BY <1>8, <2>2 DEF RemoveInactive, Removals
  <2> QED
    BY <1>6, <1>7, <1>8, <2>3 DEF RemoveInactive
<1>9. CASE RemoveSaves \/ RemoveFails \/ NextDay \/ UNCHANGED vars
  <2>1. UNCHANGED <<pc, book, misreads>> /\ removal' \in {removal, NoPlan}
    BY <1>9 DEF RemoveSaves, RemoveFails, NextDay, vars
  <2> QED
    BY <1>6, <1>7, <2>1 DEF RestTypes
<1> QED
  BY <1>2, <1>3, <1>4, <1>5, <1>8, <1>9, RowRest DEF Next, Cycle, Page

(* The plans, the objects of a cycle and the page's removal keep their types,
   and a row is where its identity says. *)
THEOREM PlansTyped == Spec => []TypeOK
<1>1. PlansInv /\ RestTypes => TypeOK
  <2> SUFFICES ASSUME PlansInv, RestTypes PROVE TypeOK
    OBVIOUS
  <2>1. BookTypes(Unretired)
    BY DEF PlansInv, RestTypes, BookSound
  <2>2. \A x \in Places : RowAt(x) # NoPlan => RowAt(x).created = x[2]
    BY DEF PlansInv, TableSound, Places, RowAt
  <2> QED
    BY <2>1, <2>2, UnretiredFields DEF PlansInv, TableSound, RestTypes, TypeOK, BookTypes, Removals
<1> QED
  BY <1>1, RestInit, RestNext, PlansAreSound, PTL DEF Spec

LEMMA SettledTrade ==
    ASSUME NEW price, NEW day, NEW was
    PROVE  Ledger!Settled([price |-> price, day |-> day, open |-> was])
             = [price |-> price, day |-> day, open |-> FALSE]
<1> DEFINE t == [price |-> price, day |-> day, open |-> was]
<1>1. t \in [price : {price}, day : {day}, open : {was}]
  OBVIOUS
<1> HIDE DEF t
<1>2. Ledger!Settled(t) \in [price : {price}, day : {day}, open : {FALSE}]
  BY <1>1 DEF Ledger!Settled
<1> QED
  BY <1>2 DEF t

(* One row of the table across a step, as the trade it holds. *)
LEMMA TradeStep ==
    ASSUME today \in Days,
           NEW r, r # NoPlan => Lawful(today, r), NEW s, s # NoPlan => Lawful(today, s),
           HeldOver(today, r) => /\ HeldOver(today, s) /\ s.entry = r.entry
                                 /\ s.entered = r.entered /\ (IsActive(s) => IsActive(r)),
           ~HeldOver(today, r) => ~HeldOver(today, s)
    PROVE  /\ TradeOf(s) \in Ledger!Trade \cup {NoPlan}
           /\ IF TradeOf(r) # NoPlan /\ TradeOf(r).day < today
              THEN TradeOf(s) \in {TradeOf(r), Ledger!Settled(TradeOf(r))}
              ELSE TradeOf(s) # NoPlan => TradeOf(s).day = today
<1> DEFINE trade(p) == [price |-> p.entry, day |-> p.entered, open |-> IsActive(p)]
           entered(p) == p # NoPlan /\ p.entry # NoEntry
<1>1. ASSUME NEW p, p # NoPlan => Lawful(today, p)
      PROVE  /\ entered(p) => /\ TradeOf(p) = trade(p) /\ trade(p) # NoPlan
                              /\ trade(p) \in Ledger!Trade /\ p.entered \in Nat
                              /\ p.entered <= today /\ IsActive(p) \in BOOLEAN
             /\ ~entered(p) => TradeOf(p) = NoPlan
  <2>1. ~entered(p) => TradeOf(p) = NoPlan
    BY DEF TradeOf
  <2>2. CASE entered(p)
    <3>1. p.entry \in Zone /\ p.entered \in Days /\ p.entered \in Nat /\ p.entered <= today
      BY <1>1, <2>2, PlanFields DEF Lawful
    <3>2. IsActive(p) \in BOOLEAN
      BY DEF IsActive
    <3>3. trade(p) \in [price : Zone, day : Days, open : BOOLEAN]
      BY <3>1, <3>2
    <3>4. TradeOf(p) = trade(p)
      BY <2>2 DEF TradeOf
    <3> HIDE DEF trade
    <3> QED
      BY <3>1, <3>2, <3>3, <3>4, <2>1, NoPlanAssumption DEF Ledger!Trade, Days
  <2> QED
    BY <2>1, <2>2
<1>2. \A p : HeldOver(today, p) <=> entered(p) /\ p.entered < today
  BY DEF HeldOver
<1>3. TradeOf(s) \in Ledger!Trade \cup {NoPlan}
  BY <1>1
<1>4. CASE HeldOver(today, r)
  <2>1. /\ entered(r) /\ entered(s) /\ r.entered < today /\ s.entry = r.entry
        /\ s.entered = r.entered /\ (IsActive(s) => IsActive(r))
    BY <1>2, <1>4
  <2>2. /\ TradeOf(r) = trade(r) /\ TradeOf(s) = trade(s) /\ trade(r) # NoPlan
        /\ IsActive(r) \in BOOLEAN /\ IsActive(s) \in BOOLEAN
    BY <1>1, <2>1
  <2>3. trade(r).day = r.entered
    OBVIOUS
  <2>4. CASE IsActive(s) = IsActive(r)
    <3>1. trade(s) = trade(r)
      BY <2>1, <2>4
    <3> QED
      BY <1>3, <2>1, <2>2, <2>3, <3>1
  <2>5. CASE IsActive(s) # IsActive(r)
    <3>1. IsActive(s) = FALSE
      BY <2>1, <2>2, <2>5
    <3>2. Ledger!Settled(trade(r)) = [price |-> r.entry, day |-> r.entered, open |-> FALSE]
      <4> DEFINE was == IsActive(r)
      <4> HIDE DEF was
      <4>1. Ledger!Settled([price |-> r.entry, day |-> r.entered, open |-> was])
              = [price |-> r.entry, day |-> r.entered, open |-> FALSE]
        BY SettledTrade
      <4> QED
        BY <4>1 DEF was
    <3>3. trade(s) = Ledger!Settled(trade(r))
      BY <2>1, <3>1, <3>2
    <3> HIDE DEF trade
    <3> QED
      BY <1>3, <2>1, <2>2, <2>3, <3>3
  <2> QED
    BY <2>4, <2>5
<1>5. CASE ~HeldOver(today, r)
  <2>1. \A p : trade(p).day = p.entered
    OBVIOUS
  <2> HIDE DEF trade, entered
  <2>2. entered(r) => /\ TradeOf(r) = trade(r) /\ r.entered = today
                      /\ ~(r.entered < today)
    BY <1>1, <1>2, <1>5, Dates
  <2>3. entered(s) => TradeOf(s) = trade(s) /\ s.entered = today
    BY <1>1, <1>2, <1>5, Dates
  <2>4. ~(TradeOf(r) # NoPlan /\ TradeOf(r).day < today)
    BY <1>1, <2>1, <2>2
  <2>5. TradeOf(s) # NoPlan => TradeOf(s).day = today
    BY <1>1, <2>1, <2>3
  <2> QED
    BY <1>3, <2>4, <2>5
<1> QED
  BY <1>4, <1>5

(* The table of option plans implements the ledger of trades: whatever a cycle
   works on while the page writes, a trade held overnight keeps its day and its
   price and is closed once, under failed reads and writes and crashes. *)
THEOREM TradesAreLedgered == Spec => LedgerSpec
<1> DEFINE trades == [x \in Places |-> TradeOf(RowAt(x))]
<1>1. Init => Ledger!Init
  <2> SUFFICES ASSUME Init
               PROVE  Ledger!Init
    OBVIOUS
  <2>1. \A x \in Places : RowAt(x) = NoPlan
    BY DEF Init, RowAt, Places
  <2>2. \A x \in Places : TradeOf(RowAt(x)) = NoPlan
    BY <2>1 DEF TradeOf
  <2> QED
    BY <2>2 DEF Init, Ledger!Init
<1>2. PlansInv /\ PlansInv' /\ [Next]_vars => [Ledger!Next]_Ledger!vars
  <2> SUFFICES ASSUME PlansInv, PlansInv', [Next]_vars
               PROVE  [Ledger!Next]_Ledger!vars
    OBVIOUS
  <2>1. \A x \in Places : /\ x[1] \in Contracts /\ x[2] \in Days
                          /\ RowAt(x) # NoPlan => Lawful(today, RowAt(x)) /\ RowAt(x).created = x[2]
                          /\ RowAt(x)' # NoPlan => Lawful(today', RowAt(x)')
    BY DEF PlansInv, TableSound, Places, RowAt
  <2>2. ASSUME UNCHANGED <<today, table>>
        PROVE  UNCHANGED Ledger!vars
    BY <2>2 DEF Ledger!vars, RowAt
  <2>3. ASSUME NextDay
        PROVE  Ledger!NextDay
    <3>1. today' = today + 1 /\ table' = table /\ today' \in Days
      BY <2>3 DEF NextDay, PlansInv
    <3> QED
      BY <3>1 DEF Ledger!NextDay, RowAt, Days
  <2>4. ASSUME today' = today,
               \A x \in Places :
                 /\ HeldOver(today, RowAt(x)) =>
                      /\ HeldOver(today, RowAt(x)') /\ RowAt(x)'.entry = RowAt(x).entry
                      /\ RowAt(x)'.entered = RowAt(x).entered
                      /\ IsActive(RowAt(x)') => IsActive(RowAt(x))
                 /\ ~HeldOver(today, RowAt(x)) => ~HeldOver(today, RowAt(x)')
        PROVE  Ledger!Deal
    <3>1. \A x \in Places :
            /\ trades'[x] \in Ledger!Trade \cup {NoPlan}
            /\ IF trades[x] # NoPlan /\ trades[x].day < today
               THEN trades'[x] \in {trades[x], Ledger!Settled(trades[x])}
               ELSE trades'[x] # NoPlan => trades'[x].day = today
      <4> SUFFICES ASSUME NEW x \in Places
                   PROVE  /\ TradeOf(RowAt(x)') \in Ledger!Trade \cup {NoPlan}
                          /\ IF TradeOf(RowAt(x)) # NoPlan /\ TradeOf(RowAt(x)).day < today
                             THEN TradeOf(RowAt(x)') \in
                                    {TradeOf(RowAt(x)), Ledger!Settled(TradeOf(RowAt(x)))}
                             ELSE TradeOf(RowAt(x)') # NoPlan => TradeOf(RowAt(x)').day = today
        OBVIOUS
      <4> DEFINE r == RowAt(x)
                 s == RowAt(x)'
      <4>1. /\ today \in Days /\ (r # NoPlan => Lawful(today, r))
            /\ (s # NoPlan => Lawful(today, s))
            /\ HeldOver(today, r) => /\ HeldOver(today, s) /\ s.entry = r.entry
                                     /\ s.entered = r.entered /\ (IsActive(s) => IsActive(r))
            /\ ~HeldOver(today, r) => ~HeldOver(today, s)
        BY <2>1, <2>4 DEF PlansInv
      <4> HIDE DEF r, s
      <4>2. /\ TradeOf(s) \in Ledger!Trade \cup {NoPlan}
            /\ IF TradeOf(r) # NoPlan /\ TradeOf(r).day < today
               THEN TradeOf(s) \in {TradeOf(r), Ledger!Settled(TradeOf(r))}
               ELSE TradeOf(s) # NoPlan => TradeOf(s).day = today
        BY <4>1, TradeStep
      <4> QED
        BY <4>2 DEF r, s
    <3> QED
      BY <2>4, <3>1 DEF Ledger!Deal, Ledger!Overnight
  <2>5. ASSUME Save
        PROVE  Ledger!Deal
    <3>1. today' = today
      BY <2>5 DEF Save
    <3>2. ASSUME NEW x \in Places
          PROVE  /\ HeldOver(today, RowAt(x)) =>
                      /\ HeldOver(today, RowAt(x)') /\ RowAt(x)'.entry = RowAt(x).entry
                      /\ RowAt(x)'.entered = RowAt(x).entered
                      /\ IsActive(RowAt(x)') => IsActive(RowAt(x))
                 /\ ~HeldOver(today, RowAt(x)) => ~HeldOver(today, RowAt(x)')
      <4> DEFINE c == x[1]
                 d == x[2]
                 r == RowAt(x)
      <4>1. /\ RowAt(x)' = table'[c][d] /\ r = table[c][d] /\ c \in Contracts /\ d \in Days
            /\ (r # NoPlan => Lawful(today, r) /\ r.created = d)
        BY <2>1 DEF RowAt
      <4> HIDE DEF c, d, r
      <4>2. CASE table'[c][d] = table[c][d]
        BY <4>1, <4>2 DEF r
      <4>3. CASE /\ <<"old", c>> \in batch /\ old[c] # NoPlan /\ old[c].created = d
                 /\ table'[c][d] = old[c] /\ LoadedSound(today, table, Unretired, c)
        <5>1. /\ Linked(today, old[c], r)
              /\ HeldOver(today, r) /\ ~IsOpen(r) /\ IsOpen(old[c]) => PastDue(today, c, old[c])
              /\ HeldOver(today, old[c]) /\ IsOpen(old[c]) => ~PastDue(today, c, old[c])
          BY <4>1, <4>3, UnretiredFields DEF LoadedSound
        <5>2. HeldOver(today, r) /\ IsActive(old[c]) => IsOpen(r)
          BY <5>1 DEF Linked, IsActive, IsOpen
        <5>3. HeldOver(today, r) /\ IsOpen(r) => IsActive(r)
          BY <4>1, PlanFields DEF HeldOver, IsOpen, IsActive, Lawful
        <5> QED
          BY <4>1, <4>3, <5>1, <5>2, <5>3 DEF Linked, r
      <4>4. CASE /\ new[c] # NoPlan /\ new[c].created = d
                 /\ table'[c][d] = new[c] /\ MintedSound(today, Unretired, c)
        <5>1. Lawful(today, new[c]) /\ d = today
          BY <4>4, UnretiredFields DEF MintedSound
        <5>2. \A p : Lawful(today, p) /\ p.created = today => ~HeldOver(today, p)
          BY PlanFields, Dates DEF Lawful, HeldOver, PlansInv
        <5>3. ~HeldOver(today, r) /\ ~HeldOver(today, new[c])
          BY <4>1, <4>4, <5>1, <5>2 DEF HeldOver
        <5> QED
          BY <4>1, <4>4, <5>3 DEF r
      <4> QED
        BY <2>5, <4>1, <4>2, <4>3, <4>4, SavedRow
    <3> QED
      BY <2>4, <3>1, <3>2
  <2>6. ASSUME RemoveSaves
        PROVE  Ledger!Deal
    <3> DEFINE c == removal.contract
               p == removal.plan
               d == p.created
    <3>1. /\ removal # NoPlan /\ today' = today /\ table' = [table EXCEPT ![c][d] = p]
      BY <2>6 DEF RemoveSaves
    <3>2. /\ c \in Contracts /\ Linked(today, p, table[c][d]) /\ ~IsActive(p) /\ d \in Days
          /\ table \in [Contracts -> [Days -> Plan \cup {NoPlan}]]
      BY <3>1, PlanFields DEF PlansInv, RemovalSound, TableSound, Lawful, IsActive
    <3> HIDE DEF c, d, p
    <3>3. ASSUME NEW x \in Places
          PROVE  RowAt(x)' = IF x[1] = c /\ x[2] = d THEN p ELSE RowAt(x)
      BY <2>1, <3>1, <3>2 DEF RowAt
    <3>4. \A x \in Places :
                 /\ HeldOver(today, RowAt(x)) =>
                      /\ HeldOver(today, RowAt(x)') /\ RowAt(x)'.entry = RowAt(x).entry
                      /\ RowAt(x)'.entered = RowAt(x).entered
                      /\ IsActive(RowAt(x)') => IsActive(RowAt(x))
                 /\ ~HeldOver(today, RowAt(x)) => ~HeldOver(today, RowAt(x)')
      BY <3>2, <3>3 DEF Linked, RowAt
    <3> QED
      BY <2>4, <3>1, <3>4
  <2>7. ASSUME Next, ~NextDay, ~Save, ~RemoveSaves
        PROVE  UNCHANGED <<today, table>>
    <3>1. ASSUME NEW c \in Contracts, Row(c)
          PROVE  UNCHANGED <<today, table>>
      BY <3>1 DEF Row, RowSkipped, RowUntracked, RowWatched, RowActive, RowEnters, Take
    <3>2. ASSUME NEW stageOne \in SUBSET Contracts, Load(stageOne) \/ LoadFails(stageOne)
          PROVE  UNCHANGED <<today, table>>
      BY <3>2 DEF Load, LoadFails, Begin
    <3>3. Sweep \/ SaveFails \/ Crash => UNCHANGED <<today, table>>
      BY DEF Sweep, SaveFails, Crash
    <3>4. Page => UNCHANGED <<today, table>>
      BY <2>7 DEF Page, RemoveInactive, RemoveFails
    <3> QED
      BY <2>7, <3>1, <3>2, <3>3, <3>4 DEF Next, Cycle
  <2> QED
    BY <2>2, <2>3, <2>5, <2>6, <2>7 DEF vars, Ledger!Next
<1> QED
  BY <1>1, <1>2, PlansAreSound, PTL DEF Spec, LedgerSpec, Ledger!Spec

-----------------------------------------------------------------------------
(* The computation of one plan. *)
LEMMA DivisionLemma ==
    ASSUME NEW x \in Int, NEW n \in Nat \ {0}
    PROVE  x \div n \in Int /\ x % n \in 0..(n - 1) /\ x = (n * (x \div n)) + (x % n)
OBVIOUS

LEMMA Ceilings ==
    ASSUME NEW b \in Buckets
    PROVE  MaxOffset(b) \in Nat /\ LongOffset \in Nat /\ Interval \div 2 \in Nat
<1>1. Spot * <<20, 30, 45, 60>>[b] \in Nat /\ Spot * 50 \in Nat
  BY EngineAssumption DEF Buckets
<1> QED
  BY <1>1, EngineAssumption DEF MaxOffset, LongOffset

(* Rounding to a strike moves a price by half an interval at most. *)
LEMMA RoundedNear ==
    ASSUME NEW x \in Int
    PROVE  Rounded(x) \in Int /\ Abs(Rounded(x) - x) <= Interval \div 2
<1> DEFINE q == x \div Interval
           r == x % Interval
<1>1. q \in Int /\ r \in 0..(Interval - 1) /\ x = Interval * q + r /\ Interval \in Nat \ {0}
  BY DivisionLemma, EngineAssumption
<1>2. Interval * q \in Int /\ Interval * (q + 1) = Interval * q + Interval
  BY <1>1
<1>3. \/ Rounded(x) = Interval * q /\ 2 * r <= Interval
      \/ Rounded(x) = Interval * (q + 1) /\ 2 * r >= Interval
  BY <1>1, <1>2 DEF Rounded
<1> HIDE DEF q, r
<1> QED
  BY <1>1, <1>2, <1>3 DEF Abs

(* A strike within reach of spot: the ceiling of the expiry and the rounding. *)
Near(strike, b) == Abs(strike - Spot) <= MaxOffset(b) + Interval \div 2

(* The tiers of the volatility, with the bump of a colliding one. *)
LEMMA OffsetBound ==
    ASSUME NEW t, NEW move \in Moves, NEW c \in Captures, NEW ceiling \in Nat
    PROVE  Offset(t, move, c, ceiling) \in 0..ceiling
<1>1. Capture(t, c) \in Nat
  BY EngineAssumption DEF Capture, Greatest, Least, TierScale
<1>2. move \in Nat
  BY EngineAssumption
<1>3. move * Capture(t, c) \in Nat
  BY <1>1, <1>2
<1>4. (move * Capture(t, c)) \div 2000 \in Nat
  BY <1>3
<1> QED
  BY <1>4 DEF Offset, Least

LEMMA PricedNear ==
    ASSUME dir \in {1, -1}, NEW offset \in Nat
    PROVE  /\ Priced(offset).strike \in Int
           /\ Abs(Priced(offset).strike - Spot) <= offset + Interval \div 2
           /\ Out(Priced(offset).strike) >= -(Interval \div 2)
<1>1. Spot + dir * offset \in Int /\ Interval \div 2 \in Nat /\ Spot \in Int
  BY EngineAssumption
<1>2. Priced(offset).strike = Rounded(Spot + dir * offset)
  BY DEF Priced
<1> DEFINE s == Rounded(Spot + dir * offset)
<1>3. s \in Int /\ Abs(s - (Spot + dir * offset)) <= Interval \div 2
  BY <1>1, RoundedNear
<1> HIDE DEF s
<1>4. Abs(s - Spot) <= offset + Interval \div 2 /\ dir * (s - Spot) >= -(Interval \div 2)
  BY <1>1, <1>3 DEF Abs
<1> QED
  BY <1>2, <1>3, <1>4 DEF Out, s

LEMMA SpreadNear ==
    ASSUME dir \in {1, -1}, bucket \in Buckets, NEW move \in Moves, NEW c \in Captures,
           NEW ceiling \in Nat, ceiling <= MaxOffset(bucket)
    PROVE  Near(Spread(move, c, ceiling)["Balanced"].strike, bucket)
<1>0. MaxOffset(bucket) \in Nat /\ Interval \div 2 \in Nat /\ Spot \in Nat /\ Interval \in Nat \ {0}
      /\ Interval <= 2 * (Interval \div 2) + 1
  BY Ceilings, EngineAssumption
<1> DEFINE cons == Priced(Offset("Conservative", move, c, ceiling))
           bal == Priced(Offset("Balanced", move, c, ceiling))
<1>1. Spread(move, c, ceiling)["Balanced"] = Bumped(bal, cons, ceiling)
  BY DEF Spread, Tiers
<1>2. bal.strike \in Int /\ Near(bal.strike, bucket)
  <2>1. Offset("Balanced", move, c, ceiling) \in 0..ceiling
    BY OffsetBound
  <2>2. bal.strike \in Int /\ Abs(bal.strike - Spot)
                                 <= Offset("Balanced", move, c, ceiling) + Interval \div 2
    BY <2>1, PricedNear
  <2> QED
    BY <1>0, <2>1, <2>2 DEF Near, Abs
<1>3. cons.strike \in Int /\ Out(cons.strike) >= -(Interval \div 2)
  <2>1. Offset("Conservative", move, c, ceiling) \in Nat
    BY OffsetBound
  <2> QED
    BY <2>1, PricedNear
<1> HIDE DEF cons, bal
<1>4. ASSUME Out(cons.strike + dir * Interval) <= ceiling
      PROVE  Near(cons.strike + dir * Interval, bucket)
  BY <1>0, <1>3, <1>4 DEF Near, Abs, Out
<1> QED
  BY <1>1, <1>2, <1>4 DEF Bumped

(* Where the call stands and what it has established by then.  That a strike is a number is
   known once it has been found among the liquid ones. *)
EngineInv ==
    /\ dir \in {1, -1} /\ bucket \in Buckets /\ anchored \in BOOLEAN
    /\ stage \in {"gates", "direction", "crush", "strikes", "anchor"} => ~anchored
    /\ stage \in {"anchor", "target", "structure", "candidates", "exits"}
          => (ladder[Primary].strike \in Int => Near(ladder[Primary].strike, bucket))
    /\ stage = "anchor" => "strike" \in DOMAIN ladder["Conservative"]
    /\ board \in Boards \/ board = [quoted |-> {}, liquid |-> {}]
    /\ stage = "exits" => ladder[Primary].strike \in board.liquid
    /\ geometry # NoPrice => geometry.target \in Int
    /\ RecommendedWithinReach

LEMMA EngineStep == EngineInv /\ [EngineNext]_engineVars => EngineInv'
<1> SUFFICES ASSUME EngineInv, [EngineNext]_engineVars PROVE EngineInv'
  OBVIOUS
<1>1. CASE Reject \/ Gates \/ CrushGate
  BY <1>1 DEF EngineInv, Reject, Gates, CrushGate, Goto, RecommendedWithinReach, Planned, Primary
<1>2. CASE ChooseDirection
  BY <1>2 DEF EngineInv, ChooseDirection, Sign, Goto, RecommendedWithinReach, Planned
<1>3. CASE SelectStrikes
  <2>1. ~anchored /\ UNCHANGED <<dir, bucket, anchored, geometry, plan>> /\ board' \in Boards
        /\ stage' \in {"anchor", "candidates"}
    BY <1>3 DEF SelectStrikes, EngineInv, Goto
  <2>2. PICK move \in Moves, c \in Captures, sure \in {FALSE, bucket = 4} :
           ladder' = Spread(move, c, IF sure THEN Least(LongOffset, MaxOffset(bucket))
                                             ELSE MaxOffset(bucket))
    BY <1>3 DEF SelectStrikes
  <2> DEFINE ceiling == IF sure THEN Least(LongOffset, MaxOffset(bucket)) ELSE MaxOffset(bucket)
  <2>3. ceiling \in Nat /\ ceiling <= MaxOffset(bucket)
    BY Ceilings DEF EngineInv, Least
  <2>4. ladder' = Spread(move, c, ceiling)
    BY <2>2
  <2> HIDE DEF ceiling
  <2>5. Near(ladder'["Balanced"].strike, bucket)
    BY <2>3, <2>4, SpreadNear DEF EngineInv
  <2>6. "strike" \in DOMAIN ladder'["Conservative"]
    BY <2>4 DEF Spread, Priced, Tiers
  <2> QED
    BY <2>1, <2>5, <2>6 DEF EngineInv, Primary, RecommendedWithinReach, Planned
<1>4. CASE Anchor
  <2>1. ~anchored /\ UNCHANGED <<dir, readable, bucket, board, geometry, plan>>
        /\ stage' \in {"candidates", "target"}
    BY <1>4 DEF Anchor, EngineInv, Goto
  <2>2. \/ anchored' = FALSE /\ ladder' = ladder
        \/ anchored' = TRUE /\ \E strike : CanAnchor(strike) /\ ladder' = Anchored(strike)
    BY <1>4 DEF Anchor
  <2>3. CASE anchored' = FALSE /\ ladder' = ladder
    BY <1>4, <2>1, <2>3 DEF Anchor, EngineInv, Primary, RecommendedWithinReach, Planned
  <2>4. ASSUME NEW strike, CanAnchor(strike), ladder' = Anchored(strike), anchored' = TRUE
        PROVE  EngineInv'
    <3>1. ladder'["Conservative"].strike = strike
      <4>1. "strike" \in DOMAIN ladder["Conservative"]
        BY <1>4 DEF Anchor, EngineInv
      <4>2. ladder'["Conservative"] = [ladder["Conservative"] EXCEPT !.strike = strike]
        BY <2>4 DEF Anchored, Tiers
      <4> QED
        BY <4>1, <4>2
    <3>2. strike \in Int => Near(strike, bucket)
      BY <2>4, Ceilings, EngineAssumption DEF CanAnchor, Near, Abs, EngineInv
    <3> QED
      BY <2>1, <2>4, <3>1, <3>2 DEF EngineInv, Primary, RecommendedWithinReach, Planned
  <2> QED
    BY <2>2, <2>3, <2>4
<1>5. CASE StructuralTarget
  <2>1. geometry' # NoPrice => geometry'.target \in Int
    <3>1. PICK liquidity, gap, technical \in Targets :
             geometry' = Geometry(FirstBeyond(LevelOf(liquidity), LevelOf(gap), LevelOf(technical)))
      BY <1>5 DEF StructuralTarget
    <3>2. \A d \in Targets : LevelOf(d) \in Int \cup {NoPrice}
      BY EngineAssumption DEF LevelOf, Level, EngineInv
    <3>3. FirstBeyond(LevelOf(liquidity), LevelOf(gap), LevelOf(technical)) \in Int \cup {NoPrice}
      BY <3>2 DEF FirstBeyond
    <3> QED
      BY <3>1, <3>3 DEF Geometry
  <2> QED
    BY <1>5, <2>1 DEF StructuralTarget, EngineInv, Goto, Primary, RecommendedWithinReach, Planned
<1>6. CASE StructuralReadFails \/ StructureGate \/ Candidates
  BY <1>6 DEF StructuralReadFails, StructureGate, Candidates, Liquid, Reject, EngineInv, Goto,
     Primary, RecommendedWithinReach, Planned
<1>7. CASE Build
  <2>1. stage = "exits" /\ UNCHANGED <<dir, bucket, board, ladder, anchored, geometry>>
        /\ stage' \in {"raised", "plan"}
    BY <1>7 DEF Build, Goto
  <2>2. stage' = "plan" => plan'.strike = ladder[Primary].strike
    BY <1>7 DEF Build, Goto, Built
  <2>3. ladder[Primary].strike \in board.liquid /\ board.liquid \subseteq Int
    BY <2>1, EngineAssumption DEF EngineInv
  <2>4. Near(ladder[Primary].strike, bucket)
    BY <2>1, <2>3 DEF EngineInv
  <2> QED
    BY <2>1, <2>2, <2>3, <2>4 DEF EngineInv, Near, Primary, RecommendedWithinReach, Planned
<1>8. CASE UNCHANGED engineVars
  BY <1>8 DEF engineVars, EngineInv, Primary, RecommendedWithinReach, Planned
<1> QED
  BY <1>1, <1>2, <1>3, <1>4, <1>5, <1>6, <1>7, <1>8 DEF EngineNext

LEMMA EngineStarts == EngineInit => EngineInv
BY DEF EngineInit, EngineInv, RecommendedWithinReach, Planned

(* The strike of a plan has passed the liquidity checks and lies within the ceiling of its expiry
   and half an interval of spot, for every chain, volatility and order block. *)
THEOREM WithinReach == EngineSpec => []RecommendedWithinReach
<1>1. EngineInv => RecommendedWithinReach
  BY DEF EngineInv
<1> QED
  BY <1>1, EngineStarts, EngineStep, PTL DEF EngineSpec

(* The premium is counted in a unit fine enough for the nearest target, 18 per cent of it scaled
   by a half, to be a unit away. *)
FineUnit == \A premium \in Quotes : 9 * premium >= 100

LEMMA ExitLevels ==
    ASSUME FineUnit, NEW premium \in Quotes, NEW scale \in {50, 75, 100}, NEW b \in Buckets
    PROVE  /\ Exit(premium, -StopPct(b), scale) < premium
           /\ premium < Exit(premium, Target1Pct(b), scale)
           /\ Exit(premium, Target1Pct(b), scale) <= Exit(premium, Target2Pct(b), scale)
           /\ Exit(premium, Target1Pct(b), scale) \in Int
           /\ Exit(premium, Target2Pct(b), scale) \in Int
<1>1. premium \in Nat /\ premium > 0 /\ 9 * premium >= 100
  BY EngineAssumption DEF FineUnit
<1>2. b \in {1, 2, 3, 4}
  BY DEF Buckets
<1>3. StopPct(b) \in {22, 28, 32, 35} /\ Target1Pct(b) \in {18, 28, 40, 50}
      /\ Target2Pct(b) \in {32, 50, 75, 100} /\ Target1Pct(b) <= Target2Pct(b)
  BY <1>2 DEF StopPct, Target1Pct, Target2Pct
<1>4. Exit(premium, -StopPct(b), scale) < premium
  BY <1>1, <1>3 DEF Exit
<1>5. premium < Exit(premium, Target1Pct(b), scale) /\ Exit(premium, Target1Pct(b), scale) \in Int
  BY <1>1, <1>3 DEF Exit
<1>6. Exit(premium, Target2Pct(b), scale) \in Int
  BY <1>1, <1>3 DEF Exit
<1>7. Exit(premium, Target1Pct(b), scale) <= Exit(premium, Target2Pct(b), scale)
  BY <1>1, <1>2 DEF Exit, Target1Pct, Target2Pct
<1> QED
  BY <1>4, <1>5, <1>6, <1>7

(* A ceiling is an amount above the premium or none, and the same for both targets. *)
LEMMA CappedOrder ==
    ASSUME EngineInv, stage = "exits", NEW premium \in Int, NEW t1 \in Int, NEW t2 \in Int,
           premium < t1, t1 <= t2
    PROVE  premium < Capped(t1, premium) /\ Capped(t1, premium) <= Capped(t2, premium)
<1>1. ladder[Primary].strike \in Int
  BY EngineAssumption DEF EngineInv
<1>2. ASSUME NEW x \in Int PROVE Intrinsic(x) \in Int
  BY <1>1 DEF Intrinsic, Greatest, EngineInv
<1>3. geometry # NoPrice => Gain \in Int
  BY <1>2, EngineAssumption DEF Gain, EngineInv
<1> QED
  BY <1>3 DEF Capped, Least

(* The stop of a plan is below its premium and its premium below its targets in order, for every
   expiry, every scale of an option deep in the money and every ceiling on the targets. *)
THEOREM ExitsInOrder ==
    ASSUME FineUnit
    PROVE  EngineSpec => []ExitsOrdered
<1>1. EngineInit => ExitsOrdered
  BY DEF EngineInit, ExitsOrdered, Planned
<1>2. EngineInv /\ ExitsOrdered /\ [EngineNext]_engineVars => ExitsOrdered'
  <2> SUFFICES ASSUME EngineInv, ExitsOrdered, [EngineNext]_engineVars, stage' = "plan"
               PROVE  /\ plan'.stop < plan'.premium /\ plan'.premium < plan'.target1
                      /\ plan'.target1 <= plan'.target2
    BY DEF ExitsOrdered, Planned
  <2>1. CASE UNCHANGED engineVars
    BY <2>1 DEF engineVars, ExitsOrdered, Planned
  <2>2. CASE Build
    <3>1. PICK premium \in Quotes, scale \in ExitScales, score \in Scores,
               index, conflict \in BOOLEAN :
             plan' = Built(premium, scale, Demoted(score, index, conflict))
      BY <2>2 DEF Build, Goto
    <3>2. /\ plan'.premium = premium /\ plan'.stop = Exit(premium, -StopPct(bucket), scale)
          /\ plan'.target1 = Capped(Exit(premium, Target1Pct(bucket), scale), premium)
          /\ plan'.target2 = Capped(Exit(premium, Target2Pct(bucket), scale), premium)
      BY <3>1 DEF Built
    <3>3. scale \in {50, 75, 100} /\ bucket \in Buckets /\ stage = "exits" /\ premium \in Int
      BY <2>2, <3>1, EngineAssumption DEF ExitScales, EngineInv, Build
    <3> QED
      BY <3>2, <3>3, ExitLevels, CappedOrder
  <2>3. ~(Reject \/ Gates \/ ChooseDirection \/ CrushGate \/ SelectStrikes \/ Anchor
          \/ StructuralTarget \/ StructuralReadFails \/ StructureGate \/ Candidates)
    BY DEF Reject, Gates, ChooseDirection, CrushGate, SelectStrikes, Anchor, StructuralTarget,
       StructuralReadFails, StructureGate, Candidates, Goto
  <2> QED
    BY <2>1, <2>2, <2>3 DEF EngineNext
<1> QED
  BY <1>1, <1>2, EngineStarts, EngineStep, PTL DEF EngineSpec
=============================================================================
