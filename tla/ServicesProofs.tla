--------------------------- MODULE ServicesProofs ---------------------------
(***************************************************************************)
(* What holds of the services around the scanner for every value of the    *)
(* constants: the outcome of a plan, the trades and the saves of a         *)
(* backtest, the dates of the portfolio's calls, the option chains, the    *)
(* price history and the market-hours gate.                                *)
(***************************************************************************)
EXTENDS OutcomeTracking, BacktestTrades, PortfolioRotation, OptionChain, BacktestRun, HistoryStore,
        MarketGate, TLAPS, FiniteSetTheorems, WellFoundedInduction

(***************************************************************************)
(* The greatest and the least of a finite set of integers.  That there is  *)
(* one is shown by a smallest set without one.                             *)
(***************************************************************************)

LEMMA Greatest ==
    ASSUME NEW S \in SUBSET Int, IsFiniteSet(S), S # {}
    PROVE  Max(S) \in S /\ \A y \in S : y <= Max(S)
<1> DEFINE Bad == {U \in SUBSET S : U # {} /\ ~\E x \in U : \A y \in U : x >= y}
<1>1. Bad = {}
  <2> SUFFICES ASSUME Bad # {} PROVE FALSE
    OBVIOUS
  <2>1. Bad \subseteq FiniteSubsetsOf(S)
    BY FS_FiniteSubsetsOfFinite
  <2>2. PICK U \in Bad : \A V \in Bad : <<V, U>> \notin StrictSubsetOrdering(S)
    <3> HIDE DEF Bad
    <3> QED
      BY <2>1, WFMin, FS_StrictSubsetOrderingWellFounded
  <2>3. PICK u \in U : TRUE
    OBVIOUS
  <2>4. U # {u}
    BY <2>2
  <2>5. U \ {u} \notin Bad
    BY <2>2, <2>3 DEF StrictSubsetOrdering
  <2>6. PICK m \in U \ {u} : \A y \in U \ {u} : m >= y
    BY <2>3, <2>4, <2>5
  <2>7. m \in Int /\ u \in Int /\ \A y \in U : y \in Int
    BY <2>3, <2>6
  <2>8. \A y \in U : (IF u <= m THEN m ELSE u) >= y
    BY <2>6, <2>7
  <2> QED
    BY <2>2, <2>3, <2>6, <2>7, <2>8
<1>2. Max(S) \in S /\ \A y \in S : Max(S) >= y
  BY <1>1 DEF Max
<1> QED
  BY <1>2

LEMMA Least ==
    ASSUME NEW S \in SUBSET Int, IsFiniteSet(S), S # {}
    PROVE  Min(S) \in S /\ \A y \in S : Min(S) <= y
<1> DEFINE Bad == {U \in SUBSET S : U # {} /\ ~\E x \in U : \A y \in U : x <= y}
<1>1. Bad = {}
  <2> SUFFICES ASSUME Bad # {} PROVE FALSE
    OBVIOUS
  <2>1. Bad \subseteq FiniteSubsetsOf(S)
    BY FS_FiniteSubsetsOfFinite
  <2>2. PICK U \in Bad : \A V \in Bad : <<V, U>> \notin StrictSubsetOrdering(S)
    <3> HIDE DEF Bad
    <3> QED
      BY <2>1, WFMin, FS_StrictSubsetOrderingWellFounded
  <2>3. PICK u \in U : TRUE
    OBVIOUS
  <2>4. U # {u}
    BY <2>2
  <2>5. U \ {u} \notin Bad
    BY <2>2, <2>3 DEF StrictSubsetOrdering
  <2>6. PICK m \in U \ {u} : \A y \in U \ {u} : m <= y
    BY <2>3, <2>4, <2>5
  <2>7. m \in Int /\ u \in Int /\ \A y \in U : y \in Int
    BY <2>3, <2>6
  <2>8. \A y \in U : (IF m <= u THEN m ELSE u) <= y
    BY <2>6, <2>7
  <2> QED
    BY <2>2, <2>3, <2>6, <2>7, <2>8
<1> QED
  BY <1>1 DEF Min

LEMMA GreatestOfTwo ==
    ASSUME NEW a \in Int, NEW b \in Int
    PROVE  Max({a, b}) = IF a >= b THEN a ELSE b
BY DEF Max

LEMMA LeastOfTwo ==
    ASSUME NEW a \in Int, NEW b \in Int
    PROVE  Min({a, b}) = IF a <= b THEN a ELSE b
BY DEF Min

LEMMA HighestOf ==
    ASSUME NEW S, IsFiniteSet(S), S # {}, NEW f \in [S -> Int]
    PROVE  \E x \in S : \A y \in S : f[y] <= f[x]
<1> DEFINE T == {f[x] : x \in S}
<1>1. f \in Surjection(S, T)
  BY DEF Surjection
<1>2. IsFiniteSet(T)
  <2> HIDE DEF T
  <2> QED
    BY <1>1, FS_Surjection
<1>3. T \in SUBSET Int /\ T # {}
  OBVIOUS
<1>4. Max(T) \in T /\ \A n \in T : n <= Max(T)
  <2> HIDE DEF T
  <2> QED
    BY <1>2, <1>3, Greatest
<1>5. PICK x \in S : f[x] = Max(T)
  BY <1>4
<1>6. \A y \in S : f[y] \in T
  OBVIOUS
<1> QED
  BY <1>4, <1>5, <1>6
-----------------------------------------------------------------------------
(***************************************************************************)
(* The outcome of a plan.  Each scan holds a set of fired intervals that   *)
(* may be out of date, but whatever it holds has its row, and rows are     *)
(* never deleted.                                                          *)
(***************************************************************************)

Works == [pc : {"idle", "load", "write", "insert", "mark"}, elapsed : Nat,
          prior : SUBSET Intervals]

OutcomeTypes ==
    /\ elapsed \in Nat /\ reached \in Nat /\ errors \in Nat
    /\ fired \subseteq Intervals
    /\ checkpoints \in [Intervals -> Nat \cup {NoRow}]
    /\ work \in [Scans -> Works]

HasRow(m) == checkpoints[m] # NoRow

HeldHasRows ==
    \A s \in Scans :
        /\ \A m \in work[s].prior : HasRow(m)
        /\ work[s].pc = "mark" => \A m \in Intervals : m <= work[s].elapsed => HasRow(m)

OutcomeInv == OutcomeTypes /\ HeldHasRows /\ CheckpointsComplete

LEMMA OutcomeInitInv == OutcomeInit => OutcomeInv
BY OutcomeAssumption
DEF OutcomeInit, OutcomeInv, OutcomeTypes, HeldHasRows, CheckpointsComplete, Works, NoWork, HasRow

LEMMA NoWorkType == NoWork \in Works /\ NoWork.prior = {} /\ NoWork.pc = "idle"
BY DEF NoWork, Works

LEMMA BegunWork ==
    ASSUME NEW n \in Nat
    PROVE  /\ [NoWork EXCEPT !.pc = "load", !.elapsed = n] \in Works
           /\ [NoWork EXCEPT !.pc = "load", !.elapsed = n].pc = "load"
           /\ [NoWork EXCEPT !.pc = "load", !.elapsed = n].prior = {}
BY NoWorkType DEF Works

LEMMA LoadedWork ==
    ASSUME NEW r \in Works, NEW p \in SUBSET Intervals
    PROVE  /\ [r EXCEPT !.pc = "write", !.prior = p] \in Works
           /\ [r EXCEPT !.pc = "write", !.prior = p].pc = "write"
           /\ [r EXCEPT !.pc = "write", !.prior = p].prior = p
           /\ [r EXCEPT !.pc = "write"] \in Works
           /\ [r EXCEPT !.pc = "write"].pc = "write"
           /\ [r EXCEPT !.pc = "write"].prior = r.prior
BY DEF Works

(* Max of two moments. *)
LEMMA ReachOf ==
    ASSUME OutcomeTypes, NEW s \in Scans, Reach(s)
    PROVE  reached' \in Nat /\ (reached' = reached \/ reached' = work[s].elapsed)
BY GreatestOfTwo DEF Reach, OutcomeTypes, Works

(* A scan that only moves on. *)
LEMMA OneWork ==
    ASSUME OutcomeInv, NEW s \in Scans, NEW w \in Works,
           work' = [work EXCEPT ![s] = w],
           \A m \in w.prior : HasRow(m), w.pc # "mark",
           UNCHANGED <<elapsed, fired, checkpoints, reached>>, errors' \in Nat
    PROVE  OutcomeInv'
<1>1. OutcomeTypes'
  BY DEF OutcomeInv, OutcomeTypes
<1>2. HeldHasRows'
  BY DEF OutcomeInv, OutcomeTypes, HeldHasRows, HasRow
<1>3. CheckpointsComplete'
  BY DEF OutcomeInv, CheckpointsComplete
<1> QED
  BY <1>1, <1>2, <1>3 DEF OutcomeInv

LEMMA OutcomeNextInv == OutcomeInv /\ [OutcomeNext]_outcomeVars => OutcomeInv'
<1> SUFFICES ASSUME OutcomeInv, [OutcomeNext]_outcomeVars PROVE OutcomeInv'
  OBVIOUS
<1> USE OutcomeAssumption DEF OutcomeInv, OutcomeTypes
<1>f. Fails => errors' \in Nat
  BY DEF Fails
<1>i. \A m \in Intervals : m \in Nat
  OBVIOUS
<1>1. ASSUME NEW s \in Scans, Begin(s) PROVE OutcomeInv'
  <2>1. work' = [work EXCEPT ![s] = [NoWork EXCEPT !.pc = "load", !.elapsed = elapsed]]
    BY <1>1 DEF Begin
  <2>2. UNCHANGED <<elapsed, fired, checkpoints, errors, reached>>
    BY <1>1 DEF Begin
  <2> QED
    BY <2>1, <2>2, BegunWork, OneWork
<1>2. ASSUME NEW s \in Scans, Load(s) PROVE OutcomeInv'
  <2>1. UNCHANGED <<elapsed, fired, checkpoints, reached>> /\ errors' \in Nat
    BY <1>2, <1>f DEF Load
  <2>2. /\ \A m \in fired : HasRow(m)
        /\ \A m \in work[s].prior : HasRow(m)
    BY DEF HeldHasRows, CheckpointsComplete, HasRow
  <2>3. work[s] \in Works
    OBVIOUS
  <2>4. CASE work' = [work EXCEPT ![s].pc = "write", ![s].prior = fired]
    <3> DEFINE w == [work[s] EXCEPT !.pc = "write", !.prior = fired]
    <3>1. work' = [work EXCEPT ![s] = w]
      BY <2>4
    <3>2. w \in Works /\ w.pc = "write" /\ w.prior = fired
      BY <2>3, LoadedWork
    <3> HIDE DEF w
    <3> QED
      BY <2>1, <2>2, <3>1, <3>2, OneWork
  <2>5. CASE work' = [work EXCEPT ![s].pc = "write"]
    <3>1. work' = [work EXCEPT ![s] = [work[s] EXCEPT !.pc = "write"]]
      BY <2>5
    <3> QED
      BY <2>1, <2>2, <2>3, <3>1, LoadedWork, OneWork
  <2> QED
    BY <1>2, <2>4, <2>5 DEF Load
<1>3. ASSUME NEW s \in Scans, Write(s) PROVE OutcomeInv'
  <2>1. /\ fired' \in {fired, work[s].prior} /\ errors' \in Nat
        /\ UNCHANGED <<elapsed, checkpoints>>
    BY <1>3, <1>f DEF Write, FiredBefore
  <2>2. /\ fired' \subseteq Intervals /\ \A m \in fired' : HasRow(m)
    BY <2>1 DEF HeldHasRows, CheckpointsComplete, Works, HasRow
  <2>3. CASE Due(s) = {}
    <3>1. Reach(s) /\ work' = [work EXCEPT ![s] = NoWork]
      BY <1>3, <2>3 DEF Write
    <3>2. \A m \in Intervals : m <= work[s].elapsed => HasRow(m)
      BY <2>3 DEF Due, HeldHasRows
    <3>3. reached' \in Nat /\ (reached' = reached \/ reached' = work[s].elapsed)
      BY <3>1, ReachOf
    <3> QED
      BY <2>1, <2>2, <3>1, <3>2, <3>3, NoWorkType
      DEF HeldHasRows, CheckpointsComplete, Works, HasRow
  <2>4. CASE Due(s) # {}
    <3>1. UNCHANGED reached /\ work' = [work EXCEPT ![s].pc = "insert"]
      BY <1>3, <2>4 DEF Write
    <3> QED
      BY <2>1, <2>2, <3>1 DEF HeldHasRows, CheckpointsComplete, Works, HasRow
  <2> QED
    BY <2>3, <2>4
<1>4. ASSUME NEW s \in Scans, Insert(s) PROVE OutcomeInv'
  <2>1. UNCHANGED <<elapsed, fired>> /\ errors' \in Nat
    BY <1>4, <1>f DEF Insert
  <2>2. CASE checkpoints' = checkpoints /\ reached' = reached
                /\ work' = [work EXCEPT ![s] = NoWork]
    BY <2>1, <2>2, NoWorkType DEF HeldHasRows, CheckpointsComplete, Works, HasRow
  <2>3. CASE /\ checkpoints' = [m \in Intervals |->
                    IF m \in Due(s) /\ checkpoints[m] = NoRow THEN work[s].elapsed
                    ELSE checkpoints[m]]
             /\ Reach(s) /\ work' = [work EXCEPT ![s].pc = "mark"]
    <3>1. work[s].elapsed \in Nat /\ NoRow \notin Nat
      BY DEF Works
    <3>2. checkpoints' \in [Intervals -> Nat \cup {NoRow}]
      BY <2>3, <3>1
    <3>3. \A m \in Intervals : HasRow(m) => checkpoints'[m] = checkpoints[m]
      BY <2>3 DEF HasRow
    <3>4. \A m \in Intervals : m <= work[s].elapsed => checkpoints'[m] # NoRow
      BY <2>3, <3>1 DEF Due, HeldHasRows, HasRow
    <3>5. \A m \in Intervals : checkpoints'[m] # NoRow => checkpoints'[m] >= m
      BY <2>3, <3>1, <3>3 DEF Due, CheckpointsComplete, HasRow
    <3>6. reached' \in Nat /\ (reached' = reached \/ reached' = work[s].elapsed)
      BY <2>3, ReachOf
    <3>7. CheckpointsComplete'
      BY <2>1, <3>3, <3>4, <3>5, <3>6 DEF CheckpointsComplete, HasRow
    <3>8. work' \in [Scans -> Works]
      BY <2>3 DEF Works
    <3>9. HeldHasRows'
      BY <2>3, <3>3, <3>4 DEF HeldHasRows, HasRow, Works
    <3> QED
      BY <2>1, <3>2, <3>6, <3>7, <3>8, <3>9
  <2> QED
    BY <1>4, <2>2, <2>3 DEF Insert
<1>5. ASSUME NEW s \in Scans, Mark(s) PROVE OutcomeInv'
  <2>1. /\ fired' = fired \/ fired' = work[s].prior \cup Due(s)
        /\ errors' \in Nat /\ work' = [work EXCEPT ![s] = NoWork]
        /\ UNCHANGED <<elapsed, checkpoints, reached>>
    BY <1>5, <1>f DEF Mark, FiredBefore
  <2>2. fired' \subseteq Intervals /\ \A m \in fired' : HasRow(m)
    BY <1>5, <2>1 DEF Mark, Is, Due, HeldHasRows, CheckpointsComplete, Works, HasRow
  <2> QED
    BY <2>1, <2>2, NoWorkType DEF HeldHasRows, CheckpointsComplete, Works, HasRow
<1>6. ASSUME NEW s \in Scans, Close(s) PROVE OutcomeInv'
  BY <1>6, <1>f DEF Close, HeldHasRows, CheckpointsComplete, HasRow
<1>7. CASE Remint
  BY <1>7 DEF Remint, HeldHasRows, CheckpointsComplete, HasRow
<1>8. CASE Minute
  BY <1>8 DEF Minute, HeldHasRows, CheckpointsComplete, HasRow
<1>9. CASE UNCHANGED outcomeVars
  BY <1>9 DEF outcomeVars, HeldHasRows, CheckpointsComplete, HasRow
<1> QED
  BY <1>1, <1>2, <1>3, <1>4, <1>5, <1>6, <1>7, <1>8, <1>9 DEF OutcomeNext

(* No checkpoint is lost and none is early, for any intervals and any number
   of scans that overwrite one another's set of fired intervals. *)
THEOREM Checkpoints == OutcomeSpec => []CheckpointsComplete
<1>1. OutcomeInv => CheckpointsComplete
  BY DEF OutcomeInv
<1> QED
  BY <1>1, OutcomeInitInv, OutcomeNextInv, PTL DEF OutcomeSpec
-----------------------------------------------------------------------------
(***************************************************************************)
(* The trades of a backtest.  Where a trade is closed is a fact about the  *)
(* history of prices, which does not change; that trades do not overlap    *)
(* needs that the last exit date is the latest one.                        *)
(***************************************************************************)

TradeRecord ==
    [signal : Bars, entry : Bars, price : Int, plan : Plans, cciExit : {NoExit} \cup Bars,
     exit : [bar : Bars, reason : Reasons, price : Int], high : Int, low : Int]

ExitsBlock ==
    \A k \in DOMAIN trades :
        /\ trades[k].entry = trades[k].signal + 1
        /\ ~AllowOverlap => trades[k].exit.bar <= blockedUntil

TradesInv ==
    /\ bar \in [Bars -> Shapes]
    /\ signalled \in 0 .. LastBar /\ blockedUntil \in 0 .. LastBar
    /\ trades \in Seq(TradeRecord)
    /\ ExitsBlock /\ TradesDisjoint /\ ClosedAtFirstReason

LEMMA HistoryTypes ==
    ASSUME bar \in [Bars -> Shapes], NEW i \in Bars
    PROVE  /\ {bar[i].open, bar[i].low, bar[i].high, bar[i].close} \subseteq Int
           /\ bar[i].low <= bar[i].open /\ bar[i].open <= bar[i].high
           /\ bar[i].low <= bar[i].close /\ bar[i].close <= bar[i].high
<1>1. bar[i] \in Shapes
  OBVIOUS
<1> QED
  BY <1>1, HistoryAssumption

LEMMA CrossingTouched ==
    ASSUME NEW b, NEW plan, Touched(b, plan) # {}
    PROVE  /\ Crossing(b, plan) \in {"T1 HIT", "SL HIT"}
           /\ Crossing(b, plan) = "T1 HIT" => b.high >= plan.t1
           /\ Crossing(b, plan) = "SL HIT" => b.low <= plan.sl
<1>1. Crossing(b, plan) \in Touched(b, plan)
  BY DEF Crossing
<1> QED
  BY <1>1 DEF Touched

(* The window of a trade entered at a bar that has an exit signal after it or
   none: it begins with the entry and holds at most HoldDays bars more. *)
LEMMA WindowBounds ==
    ASSUME NEW e \in Bars, NEW c \in {NoExit} \cup (e .. LastBar)
    PROVE  /\ HoldEnd(e) \in Bars /\ HoldEnd(e) \in e .. e + HoldDays
           /\ HoldEnd(e) \in {e + HoldDays, LastBar}
           /\ WindowEnd(e, c) \in e .. HoldEnd(e)
           /\ WindowEnd(e, c) = HoldEnd(e) \/ (c # NoExit /\ WindowEnd(e, c) = c)
<1>1. LastBar \in Nat /\ HoldDays \in Nat \ {0} /\ e \in 1 .. LastBar
  BY HistoryAssumption DEF Bars
<1>2. HoldEnd(e) = IF e + HoldDays <= LastBar THEN e + HoldDays ELSE LastBar
  BY <1>1, LeastOfTwo DEF HoldEnd
<1>3. HoldEnd(e) \in e .. LastBar /\ HoldEnd(e) <= e + HoldDays
      /\ HoldEnd(e) \in {e + HoldDays, LastBar}
  BY <1>1, <1>2
<1>4. CASE c = NoExit \/ c < e
  BY <1>1, <1>3, <1>4 DEF WindowEnd, Bars
<1>5. CASE ~(c = NoExit \/ c < e)
  <2>1. c \in e .. LastBar /\ c # NoExit
    BY <1>1, <1>5
  <2>2. WindowEnd(e, c) = IF c <= HoldEnd(e) THEN c ELSE HoldEnd(e)
    BY <1>1, <1>3, <1>5, <2>1, LeastOfTwo DEF WindowEnd
  <2> QED
    BY <1>1, <1>3, <2>1, <2>2 DEF Bars
<1> QED
  BY <1>4, <1>5

LEMMA WindowFinite ==
    ASSUME NEW e \in Bars, NEW c \in {NoExit} \cup (e .. LastBar)
    PROVE  Window(e, c) \subseteq Bars /\ IsFiniteSet(Window(e, c)) /\ e \in Window(e, c)
<1>1. /\ LastBar \in Nat /\ e \in Int /\ 1 <= e
      /\ HoldEnd(e) \in 1 .. LastBar /\ WindowEnd(e, c) \in e .. HoldEnd(e)
  BY WindowBounds, HistoryAssumption DEF Bars
<1>2. WindowEnd(e, c) \in Int /\ e <= WindowEnd(e, c) /\ WindowEnd(e, c) <= LastBar
  BY <1>1
<1>3. IsFiniteSet(e .. WindowEnd(e, c))
  BY <1>1, <1>2, FS_Interval
<1> QED
  BY <1>1, <1>2, <1>3 DEF Window, Bars

(* What ClosedAtFirstReason says of one trade, by its exit. *)
FirstReason(x, e, plan, c) ==
    /\ x \in [bar : Bars, reason : Reasons, price : Int]
    /\ x.bar \in Window(e, c)
    /\ QuietUntil(e, x.bar, plan, c)
    /\ x.reason = "TIMEOUT" =>
         /\ x.bar = HoldEnd(e)
         /\ plan.sl < bar[x.bar].low /\ bar[x.bar].high < plan.t1
    /\ bar[x.bar].low <= x.price \/ bar[e].low <= x.price
    /\ x.price <= bar[x.bar].high \/ x.price <= bar[e].high

(* The exit of a trade is the first bar of its window with a reason, or the
   end of the holding period when there is none. *)
LEMMA OutcomeOf ==
    ASSUME bar \in [Bars -> Shapes], NEW e \in Bars, NEW plan \in Plans,
           NEW c \in {NoExit} \cup (e .. LastBar),
           plan.sl < bar[e].open, bar[e].open < plan.t1
    PROVE  FirstReason(Outcome(e, plan, c), e, plan, c)
<1> DEFINE stops == Stops(e, plan, c)
           x == Outcome(e, plan, c)
<1>1. LastBar \in Nat /\ HoldDays \in Nat \ {0} /\ e \in Nat /\ e >= 1 /\ e <= LastBar
      /\ plan.sl \in Int /\ plan.t1 \in Int
  BY HistoryAssumption DEF Bars
<1>2. /\ HoldEnd(e) \in Bars /\ HoldEnd(e) \in e .. e + HoldDays
      /\ WindowEnd(e, c) \in e .. HoldEnd(e)
      /\ WindowEnd(e, c) = HoldEnd(e) \/ (c # NoExit /\ WindowEnd(e, c) = c)
  BY WindowBounds
<1>3. Window(e, c) \subseteq Bars /\ IsFiniteSet(Window(e, c))
  BY WindowFinite
<1>4. stops \subseteq Window(e, c)
  BY DEF Stops
<1>5. ASSUME NEW i \in Window(e, c), i \notin stops
      PROVE  /\ plan.sl < bar[i].low /\ bar[i].high < plan.t1
             /\ c # NoExit => i < c
  <2>1. ~IsCciExit(i, c) /\ Touched(bar[i], plan) = {}
    BY <1>5 DEF Stops
  <2>2. i \in Int /\ (c # NoExit => c \in Int)
    BY <1>1, <1>3 DEF Bars
  <2>3. ~(bar[i].high >= plan.t1) /\ ~(bar[i].low <= plan.sl)
    <3>1. "T1 HIT" \notin Touched(bar[i], plan) /\ "SL HIT" \notin Touched(bar[i], plan)
      BY <2>1
    <3> QED
      BY <3>1 DEF Touched
  <2>4. bar[i].high \in Int /\ bar[i].low \in Int
    BY <1>3, HistoryTypes
  <2> QED
    BY <1>1, <2>1, <2>2, <2>3, <2>4 DEF IsCciExit
<1>6. CASE stops = {}
  <2>1. /\ x.bar = HoldEnd(e) /\ x.reason = "TIMEOUT" /\ x.price = bar[HoldEnd(e)].close
        /\ x = [bar |-> x.bar, reason |-> x.reason, price |-> x.price]
    BY <1>6 DEF Outcome
  <2>2. WindowEnd(e, c) = HoldEnd(e)
    <3>1. CASE c # NoExit /\ WindowEnd(e, c) = c
      <4>1. WindowEnd(e, c) \in Window(e, c)
        BY <1>1, <1>2 DEF Window
      <4> QED
        BY <1>1, <1>2, <1>5, <1>6, <3>1, <4>1
    <3> QED
      BY <1>2, <3>1
  <2>3. HoldEnd(e) \in Window(e, c) /\ \A i \in e .. HoldEnd(e) : i \in Window(e, c)
    BY <1>1, <1>2, <2>2 DEF Window
  <2>4. /\ bar[HoldEnd(e)].close \in Int
        /\ bar[HoldEnd(e)].low <= bar[HoldEnd(e)].close
        /\ bar[HoldEnd(e)].close <= bar[HoldEnd(e)].high
    BY <1>2, HistoryTypes
  <2>5. x \in [bar : Bars, reason : Reasons, price : Int]
    BY <1>2, <2>1, <2>4 DEF Reasons
  <2>6. \A i \in e .. HoldEnd(e) : i \in Window(e, c) /\ i \notin stops
    BY <1>6, <2>3
  <2>7. HoldEnd(e) \in e .. HoldEnd(e) /\ \A i \in e .. x.bar - 1 : i \in e .. HoldEnd(e)
    BY <1>1, <1>2, <2>1
  <2>8. \A i \in e .. HoldEnd(e) : /\ plan.sl < bar[i].low /\ bar[i].high < plan.t1
                                   /\ c # NoExit => i < c
    BY <1>5, <2>6
  <2> HIDE DEF x
  <2>9. QuietUntil(e, x.bar, plan, c)
    BY <2>7, <2>8 DEF QuietUntil
  <2>10. plan.sl < bar[x.bar].low /\ bar[x.bar].high < plan.t1
    <3>1. plan.sl < bar[HoldEnd(e)].low /\ bar[HoldEnd(e)].high < plan.t1
      <4>1. HoldEnd(e) \in Window(e, c) /\ HoldEnd(e) \notin stops
        BY <1>6, <2>3
      <4> QED
        BY <1>5, <4>1
    <3>2. x.bar = HoldEnd(e)
      BY <2>1
    <3> QED
      BY <3>1, <3>2
  <2>11. bar[x.bar].low <= x.price /\ x.price <= bar[x.bar].high
    BY <2>1, <2>4
  <2>12. x.bar \in Window(e, c)
    BY <2>1, <2>3
  <2>13. x.bar = HoldEnd(e)
    BY <2>1
  <2>14. x \in [bar : Bars, reason : Reasons, price : Int]
    BY <2>5
  <2>15. FirstReason(x, e, plan, c)
    BY <2>9, <2>10, <2>11, <2>12, <2>13, <2>14 DEF FirstReason
  <2> QED
    BY <2>15 DEF x
<1>7. CASE stops # {}
  <2> DEFINE i == Min(stops)
  <2>1. stops \in SUBSET Int /\ IsFiniteSet(stops)
    BY <1>3, <1>4, FS_Subset DEF Bars
  <2>2. i \in stops /\ \A j \in stops : i <= j
    <3> HIDE DEF stops
    <3> QED
      BY <1>7, <2>1, Least
  <2>3. i \in Window(e, c) /\ i \in Bars /\ i \in Int
    BY <1>3, <1>4, <2>1, <2>2
  <2>4. /\ x.bar = i
        /\ x.reason = IF IsCciExit(i, c) THEN "CCI_EXIT" ELSE Crossing(bar[i], plan)
        /\ x.price = IF x.reason \in {"TIMEOUT", "CCI_EXIT"} THEN bar[i].close
                     ELSE LevelOf(plan, x.reason)
        /\ x = [bar |-> x.bar, reason |-> x.reason, price |-> x.price]
    BY <1>7 DEF Outcome
  <2>5. ~IsCciExit(i, c) => Touched(bar[i], plan) # {}
    BY <2>2 DEF Stops
  <2>6. /\ x.reason \in {"CCI_EXIT", "T1 HIT", "SL HIT"}
        /\ x.reason = "T1 HIT" => bar[i].high >= plan.t1 /\ x.price = plan.t1
        /\ x.reason = "SL HIT" => bar[i].low <= plan.sl /\ x.price = plan.sl
        /\ x.reason = "CCI_EXIT" => x.price = bar[i].close
    BY <2>4, <2>5, CrossingTouched DEF LevelOf
  <2>7. /\ {bar[i].open, bar[i].low, bar[i].high, bar[i].close} \subseteq Int
        /\ bar[i].low <= bar[i].close /\ bar[i].close <= bar[i].high
        /\ {bar[e].open, bar[e].low, bar[e].high} \subseteq Int
        /\ bar[e].low <= bar[e].open /\ bar[e].open <= bar[e].high
    BY <2>3, HistoryTypes
  <2>8. /\ x.price \in Int
        /\ bar[i].low <= x.price \/ bar[e].low <= x.price
        /\ x.price <= bar[i].high \/ x.price <= bar[e].high
    <3> HIDE DEF x, i
    <3>1. CASE x.reason = "T1 HIT"
      <4>1. bar[i].high >= plan.t1 /\ x.price = plan.t1
        BY <2>6, <3>1
      <4>2. bar[e].low <= plan.t1
        BY <1>1, <2>7
      <4> QED
        BY <1>1, <2>7, <4>1, <4>2
    <3>2. CASE x.reason = "SL HIT"
      <4>1. bar[i].low <= plan.sl /\ x.price = plan.sl
        BY <2>6, <3>2
      <4>2. plan.sl <= bar[e].high
        BY <1>1, <2>7
      <4> QED
        BY <1>1, <2>7, <4>1, <4>2
    <3>3. CASE x.reason = "CCI_EXIT"
      BY <2>6, <2>7, <3>3
    <3> QED
      BY <2>6, <3>1, <3>2, <3>3
  <2>9. \A j \in e .. i - 1 : j \in Window(e, c) /\ j \notin stops
    <3>1. \A j \in e .. i - 1 : j \in Int /\ j < i
      BY <2>3, <1>1
    <3>2. \A j \in e .. i - 1 : j \in Window(e, c)
      BY <1>1, <1>2, <2>3 DEF Window
    <3> HIDE DEF stops, i
    <3> QED
      BY <2>2, <2>3, <3>1, <3>2
  <2>10. x \in [bar : Bars, reason : Reasons, price : Int]
    BY <2>3, <2>4, <2>6, <2>8 DEF Reasons
  <2>11. QuietUntil(e, i, plan, c)
    BY <1>5, <2>9 DEF QuietUntil
  <2>12. x.bar = i /\ x.reason # "TIMEOUT"
    BY <2>4, <2>6
  <2> HIDE DEF x, i
  <2>13. FirstReason(x, e, plan, c)
    BY <2>3, <2>8, <2>10, <2>11, <2>12 DEF FirstReason
  <2> QED
    BY <2>13 DEF x
<1> QED
  BY <1>6, <1>7

LEMMA ExtremesOf ==
    ASSUME bar \in [Bars -> Shapes], NEW e \in Bars,
           NEW c \in {NoExit} \cup (e .. LastBar)
    PROVE  /\ RunHigh(e, c) \in Int /\ RunLow(e, c) \in Int
           /\ \A i \in Window(e, c) : bar[i].high <= RunHigh(e, c) /\ RunLow(e, c) <= bar[i].low
<1> DEFINE Highs == {bar[i].high : i \in Window(e, c)}
           Lows == {bar[i].low : i \in Window(e, c)}
<1>1. /\ Window(e, c) \subseteq Bars /\ IsFiniteSet(Window(e, c)) /\ e \in Window(e, c)
  BY WindowFinite
<1>2. Highs \in SUBSET Int /\ Lows \in SUBSET Int /\ Highs # {} /\ Lows # {}
  BY <1>1, HistoryTypes
<1>3. IsFiniteSet(Highs) /\ IsFiniteSet(Lows)
  <2>1. [i \in Window(e, c) |-> bar[i].high] \in Surjection(Window(e, c), Highs)
    BY DEF Surjection
  <2>2. [i \in Window(e, c) |-> bar[i].low] \in Surjection(Window(e, c), Lows)
    BY DEF Surjection
  <2> HIDE DEF Highs, Lows
  <2> QED
    BY <1>1, <2>1, <2>2, FS_Surjection
<1>4. RunHigh(e, c) = Max(Highs) /\ RunLow(e, c) = Min(Lows)
  BY DEF RunHigh, RunLow
<1>5. /\ Max(Highs) \in Highs /\ \A y \in Highs : y <= Max(Highs)
      /\ Min(Lows) \in Lows /\ \A y \in Lows : Min(Lows) <= y
  <2> HIDE DEF Highs, Lows
  <2> QED
    BY <1>2, <1>3, Greatest, Least
<1> QED
  BY <1>2, <1>4, <1>5

LEMMA TradeOf ==
    ASSUME bar \in [Bars -> Shapes], NEW d \in Bars, d + 1 \in Bars, NEW plan \in Plans,
           NEW c \in {NoExit} \cup (d + 1 .. LastBar),
           plan.sl < bar[d + 1].open, bar[d + 1].open < plan.t1
    PROVE  /\ Trade(d, plan, c) \in TradeRecord
           /\ Trade(d, plan, c).signal = d /\ Trade(d, plan, c).entry = d + 1
           /\ Trade(d, plan, c).exit.bar \in Bars /\ Trade(d, plan, c).exit.bar >= d + 1
           /\ ClosedFirst(Trade(d, plan, c))
<1> DEFINE e == d + 1
           x == Outcome(e, plan, c)
           t == Trade(d, plan, c)
<1>1. /\ t = [signal |-> d, entry |-> e, price |-> bar[e].open, plan |-> plan,
              cciExit |-> c, exit |-> x, high |-> RunHigh(e, c), low |-> RunLow(e, c)]
  BY DEF Trade
<1>2. FirstReason(x, e, plan, c)
  BY OutcomeOf
<1>3. /\ RunHigh(e, c) \in Int /\ RunLow(e, c) \in Int
      /\ \A i \in Window(e, c) : bar[i].high <= RunHigh(e, c) /\ RunLow(e, c) <= bar[i].low
  BY ExtremesOf
<1>4. /\ Window(e, c) \subseteq Bars /\ e \in Window(e, c)
      /\ x.bar \in Window(e, c) /\ x.bar \in Bars /\ x.price \in Int
      /\ x \in [bar : Bars, reason : Reasons, price : Int]
  BY <1>2, WindowFinite DEF FirstReason
<1>5. /\ d \in Int /\ LastBar \in Int /\ HoldDays \in Int /\ c \in {NoExit} \cup Bars
  BY HistoryAssumption DEF Bars
<1>6. x.bar \in e .. e + HoldDays
  <2>1. /\ HoldEnd(e) \in Int /\ HoldEnd(e) <= e + HoldDays
        /\ WindowEnd(e, c) \in Int /\ WindowEnd(e, c) <= HoldEnd(e)
    BY <1>5, WindowBounds DEF Bars
  <2>2. x.bar \in e .. WindowEnd(e, c)
    BY <1>4 DEF Window
  <2> HIDE DEF x
  <2> QED
    BY <1>5, <2>1, <2>2
<1>7. /\ {bar[e].open, bar[e].low, bar[e].high} \subseteq Int
      /\ {bar[x.bar].low, bar[x.bar].high} \subseteq Int
  BY <1>4, HistoryTypes
<1>8. HoldEnd(e) \in {e + HoldDays, LastBar}
  BY <1>5, WindowBounds
<1>9. RunLow(e, c) <= x.price /\ x.price <= RunHigh(e, c)
  <2>1. /\ RunLow(e, c) <= bar[e].low /\ RunLow(e, c) <= bar[x.bar].low
        /\ bar[e].high <= RunHigh(e, c) /\ bar[x.bar].high <= RunHigh(e, c)
    BY <1>3, <1>4
  <2>2. bar[x.bar].low <= x.price \/ bar[e].low <= x.price
    BY <1>2 DEF FirstReason
  <2>3. x.price <= bar[x.bar].high \/ x.price <= bar[e].high
    BY <1>2 DEF FirstReason
  <2> HIDE DEF x
  <2> QED
    BY <1>3, <1>4, <1>7, <2>1, <2>2, <2>3
<1>10. t \in TradeRecord
  <2> HIDE DEF x, e
  <2> QED
    BY <1>1, <1>3, <1>4, <1>5, <1>7 DEF TradeRecord
<1>11. ClosedFirst(t)
  <2>1. /\ t.entry = e /\ t.exit = x /\ t.plan = plan /\ t.cciExit = c
        /\ t.low = RunLow(e, c) /\ t.high = RunHigh(e, c)
    BY <1>1
  <2>2. x.reason = "TIMEOUT" =>
          /\ x.bar \in {e + HoldDays, LastBar}
          /\ plan.sl < bar[x.bar].low /\ bar[x.bar].high < plan.t1
    BY <1>2, <1>8 DEF FirstReason
  <2>3. QuietUntil(e, x.bar, plan, c)
    BY <1>2 DEF FirstReason
  <2> HIDE DEF x, e, t
  <2> QED
    BY <1>6, <1>9, <2>1, <2>2, <2>3 DEF ClosedFirst
<1> QED
  BY <1>1, <1>4, <1>5, <1>6, <1>10, <1>11 DEF Bars

LEMMA TradesInitInv == TradesInit => TradesInv
BY HistoryAssumption
DEF TradesInit, TradesInv, ExitsBlock, TradesDisjoint, ClosedAtFirstReason

(* A trade is added: its signal is not before the exits that block. *)
LEMMA EnterInv ==
    ASSUME TradesInv, NEW d \in Bars, NEW plan \in Plans,
           NEW c \in {NoExit} \cup (d + 1 .. LastBar),
           Enter(d, plan, c), signalled' = d, UNCHANGED bar
    PROVE  TradesInv'
<1> DEFINE t == Trade(d, plan, c)
           n == Len(trades)
<1>1. /\ ~Blocked(d) /\ LastBar - d >= 2
      /\ plan.sl < bar[d + 1].open /\ bar[d + 1].open < plan.t1
      /\ trades' = Append(trades, t) /\ blockedUntil' = t.exit.bar
  BY DEF Enter, Considered
<1>2. /\ LastBar \in Nat /\ d \in 1 .. LastBar /\ d + 1 \in Bars
      /\ blockedUntil \in 0 .. LastBar
  BY <1>1, HistoryAssumption DEF Bars, TradesInv
<1>3. /\ t \in TradeRecord /\ t.signal = d /\ t.entry = d + 1
      /\ t.exit.bar \in 1 .. LastBar /\ t.exit.bar >= d + 1
      /\ ClosedFirst(t)
  BY <1>1, <1>2, TradeOf DEF TradesInv, Bars
<1> HIDE DEF t
<1>4. /\ trades \in Seq(TradeRecord) /\ n \in Nat /\ DOMAIN trades = 1 .. n
      /\ trades' \in Seq(TradeRecord) /\ DOMAIN trades' = 1 .. n + 1
      /\ trades'[n + 1] = t /\ \A k \in 1 .. n : trades'[k] = trades[k]
  BY <1>1, <1>3 DEF TradesInv
<1>5. \A k \in 1 .. n : /\ trades[k].exit.bar \in 1 .. LastBar
                        /\ trades[k].signal \in 1 .. LastBar
  <2>1. \A k \in 1 .. n : trades[k] \in TradeRecord
    BY <1>4
  <2> QED
    BY <2>1 DEF TradeRecord, Bars
<1>6. ~AllowOverlap => d >= blockedUntil
  BY <1>1, <1>2 DEF Blocked
<1>7. ExitsBlock'
  <2> SUFFICES ASSUME NEW k \in DOMAIN trades'
               PROVE  /\ trades'[k].entry = trades'[k].signal + 1
                      /\ ~AllowOverlap => trades'[k].exit.bar <= blockedUntil'
    BY DEF ExitsBlock
  <2>1. CASE k = n + 1
    BY <1>1, <1>2, <1>3, <1>4, <2>1
  <2>2. CASE k \in 1 .. n
    <3>1. /\ trades[k].entry = trades[k].signal + 1
          /\ ~AllowOverlap => trades[k].exit.bar <= blockedUntil
      BY <1>4, <2>2 DEF TradesInv, ExitsBlock
    <3> QED
      BY <1>1, <1>2, <1>3, <1>4, <1>5, <1>6, <2>2, <3>1
  <2> QED
    BY <1>4, <2>1, <2>2
<1>8. TradesDisjoint'
  <2> SUFFICES ASSUME NEW k \in DOMAIN trades'
               PROVE  /\ trades'[k].entry > trades'[k].signal
                      /\ \A j \in 1 .. k - 1 : ~AllowOverlap =>
                           /\ trades'[k].signal >= trades'[j].exit.bar
                           /\ trades'[k].entry > trades'[j].exit.bar
    BY DEF TradesDisjoint
  <2>1. CASE k = n + 1
    <3>1. ASSUME NEW j \in 1 .. n, ~AllowOverlap
          PROVE  trades[j].exit.bar \in Int /\ trades[j].exit.bar <= d
      <4>1. trades[j].exit.bar <= blockedUntil
        BY <1>4, <3>1 DEF TradesInv, ExitsBlock
      <4> QED
        BY <1>2, <1>5, <1>6, <3>1, <4>1
    <3> QED
      BY <1>2, <1>3, <1>4, <2>1, <3>1
  <2>2. CASE k \in 1 .. n
    <3>1. \A j \in 1 .. k - 1 : j \in 1 .. n
      BY <1>4, <2>2
    <3>2. /\ trades[k].entry > trades[k].signal
          /\ \A j \in 1 .. k - 1 : ~AllowOverlap =>
               /\ trades[k].signal >= trades[j].exit.bar
               /\ trades[k].entry > trades[j].exit.bar
      BY <1>4, <2>2 DEF TradesInv, TradesDisjoint
    <3> QED
      BY <1>4, <2>2, <3>1, <3>2
  <2> QED
    BY <1>4, <2>1, <2>2
<1>9. ClosedAtFirstReason'
  <2> SUFFICES ASSUME NEW k \in DOMAIN trades' PROVE ClosedFirst(trades[k])'
    BY DEF ClosedAtFirstReason
  <2>1. trades'[k] = t \/ \E j \in DOMAIN trades : trades'[k] = trades[j]
    BY <1>4
  <2>2. ClosedFirst(trades'[k])
    BY <1>3, <2>1 DEF TradesInv, ClosedAtFirstReason
  <2> QED
    BY <2>2 DEF ClosedFirst, QuietUntil
<1> QED
  BY <1>1, <1>2, <1>3, <1>4, <1>7, <1>8, <1>9 DEF TradesInv

LEMMA TradesNextInv == TradesInv /\ [TradesNext]_tradeVars => TradesInv'
<1> SUFFICES ASSUME TradesInv, [TradesNext]_tradeVars PROVE TradesInv'
  OBVIOUS
<1>0. LastBar \in Nat
  BY HistoryAssumption
<1>1. ASSUME NEW d \in Bars, NEW plan \in Plans, NEW c \in {NoExit} \cup (d + 1 .. LastBar),
             TakeSignal(d, plan, c)
      PROVE  TradesInv'
  <2>1. signalled' = d /\ UNCHANGED bar
    BY <1>1 DEF TakeSignal
  <2>2. CASE UNCHANGED <<blockedUntil, trades>>
    BY <1>0, <2>1, <2>2 DEF TradesInv, ExitsBlock, TradesDisjoint, ClosedAtFirstReason,
                            ClosedFirst, QuietUntil, Bars
  <2>3. CASE GapDown(d, plan)
    <3>1. ~Blocked(d) /\ LastBar - d >= 2 /\ blockedUntil' = d + 1 /\ UNCHANGED trades
      BY <2>3 DEF GapDown, Considered
    <3>2. /\ blockedUntil \in 0 .. LastBar /\ d \in 1 .. LastBar
          /\ blockedUntil' \in 0 .. LastBar
          /\ ~AllowOverlap => blockedUntil <= blockedUntil'
      BY <1>0, <3>1 DEF TradesInv, Bars, Blocked
    <3>3. \A k \in DOMAIN trades : trades[k].exit.bar \in 1 .. LastBar
      <4>1. \A k \in DOMAIN trades : trades[k] \in TradeRecord
        BY DEF TradesInv
      <4> QED
        BY <4>1 DEF TradeRecord, Bars
    <3>4. ExitsBlock'
      BY <1>0, <3>1, <3>2, <3>3 DEF TradesInv, ExitsBlock
    <3> QED
      BY <2>1, <3>1, <3>2, <3>4 DEF TradesInv, TradesDisjoint, ClosedAtFirstReason,
                                    ClosedFirst, QuietUntil
  <2>4. CASE Enter(d, plan, c)
    BY <2>1, <2>4, EnterInv
  <2> QED
    BY <1>1, <2>2, <2>3, <2>4 DEF TakeSignal, Skip, GapUp
<1>2. CASE UNCHANGED tradeVars
  BY <1>2 DEF tradeVars, TradesInv, ExitsBlock, TradesDisjoint, ClosedAtFirstReason, ClosedFirst,
          QuietUntil
<1> QED
  BY <1>1, <1>2 DEF TradesNext

LEMMA TradesInvariant == TradesSpec => []TradesInv
BY TradesInitInv, TradesNextInv, PTL DEF TradesSpec

(* One position at a time, unless overlaps are allowed: for any history of
   prices, any plans and any holding period. *)
THEOREM OnePosition == TradesSpec => []TradesDisjoint
<1>1. TradesInv => TradesDisjoint
  BY DEF TradesInv
<1> QED
  BY <1>1, TradesInvariant, PTL

(* A trade is closed at the first bar that gave a reason to, and the excursion
   it reports includes the price at which it was closed. *)
THEOREM FirstReasonCloses == TradesSpec => []ClosedAtFirstReason
<1>1. TradesInv => ClosedAtFirstReason
  BY DEF TradesInv
<1> QED
  BY <1>1, TradesInvariant, PTL

(* The state of the simulation stays within its types: a trade is closed at
   a bar of the history, for one of the four reasons. *)
THEOREM TradesTyped == TradesSpec => []TradesTypeOK
<1>1. TradesInv => TradesTypeOK
  <2> SUFFICES ASSUME TradesInv, NEW k \in DOMAIN trades
               PROVE  trades[k].exit.reason \in Reasons /\ trades[k].exit.bar \in Bars
    BY DEF TradesInv, TradesTypeOK
  <2>1. trades[k] \in TradeRecord
    BY DEF TradesInv
  <2> QED
    BY <2>1 DEF TradeRecord
<1> QED
  BY <1>1, TradesInvariant, PTL
-----------------------------------------------------------------------------
(***************************************************************************)
(* The rotation of the portfolio.  A date is looked up in a table that     *)
(* other sessions write, so the renders under way must be witnessed too.   *)
(***************************************************************************)

Witnessed(p, row, seen) ==
    \E m \in seen : /\ m[1] = p /\ m[2] = row.target
                    /\ row.since \in {UtcDay(m[3]), IstDay(m[3])}

TableWitnessed(table, seen) ==
    \A p \in Holdings : table[p] # NoSwap => Witnessed(p, table[p], seen)

RotationInv ==
    /\ DOMAIN mem = Sessions /\ DOMAIN render = Sessions
    /\ TableWitnessed(flags, made)
    /\ \A s \in Sessions : /\ TableWitnessed(mem[s], made)
                           /\ render[s] # NoSwap => TableWitnessed(render[s], made)

LEMMA WitnessedLater ==
    ASSUME NEW table, NEW seen, NEW more, seen \subseteq more, TableWitnessed(table, seen)
    PROVE  TableWitnessed(table, more)
BY DEF TableWitnessed, Witnessed

LEMMA NothingWitnessed == ASSUME NEW seen PROVE TableWitnessed(NoSwaps, seen)
BY DEF TableWitnessed, NoSwaps

(* What a render stamps is dated by a row for the same target, or today, when
   the target stands. *)
LEMMA StampedWitnessed ==
    ASSUME NEW swaps, NEW table, TableWitnessed(table, made), Witness(swaps),
           NEW today \in {UtcDay(half), IstDay(half)}
    PROVE  TableWitnessed(Stamped(swaps, table, today), made')
<1> SUFFICES ASSUME NEW p \in Holdings, Stamped(swaps, table, today)[p] # NoSwap
             PROVE  Witnessed(p, Stamped(swaps, table, today)[p], made')
  BY DEF TableWitnessed
<1> DEFINE row == Stamped(swaps, table, today)[p]
<1>1. /\ swaps[p] # NoSwap /\ row.target = swaps[p]
      /\ row.since = IF Kept(table[p], swaps[p]) THEN table[p].since ELSE today
  BY DEF Stamped
<1>2. made \subseteq made' /\ <<p, swaps[p], half>> \in made'
  BY <1>1 DEF Witness, Swapped
<1>3. CASE Kept(table[p], swaps[p])
  <2>1. table[p] # NoSwap /\ table[p].target = swaps[p]
    BY <1>3 DEF Kept
  <2>2. Witnessed(p, table[p], made)
    BY <2>1 DEF TableWitnessed
  <2> QED
    BY <1>1, <1>2, <1>3, <2>1, <2>2 DEF Witnessed
<1>4. CASE ~Kept(table[p], swaps[p])
  BY <1>1, <1>2, <1>4 DEF Witnessed
<1> QED
  BY <1>3, <1>4

LEMMA RotationInvLater ==
    ASSUME DOMAIN mem' = Sessions, DOMAIN render' = Sessions, TableWitnessed(flags', made'),
           \A s \in Sessions : /\ TableWitnessed(mem'[s], made')
                               /\ render'[s] # NoSwap => TableWitnessed(render'[s], made')
    PROVE  RotationInv'
<1>1. TableWitnessed(flags, made)'
  BY DEF TableWitnessed, Witnessed
<1>2. ASSUME NEW s \in Sessions PROVE TableWitnessed(mem[s], made)'
  <2>1. TableWitnessed(mem'[s], made')
    OBVIOUS
  <2> QED
    BY ONLY <2>1 DEF TableWitnessed, Witnessed
<1>3. ASSUME NEW s \in Sessions, render'[s] # NoSwap PROVE TableWitnessed(render[s], made)'
  <2>1. TableWitnessed(render'[s], made')
    BY <1>3
  <2> QED
    BY ONLY <2>1 DEF TableWitnessed, Witnessed
<1> QED
  BY <1>1, <1>2, <1>3 DEF RotationInv

LEMMA RotationInitInv == RotationInit => RotationInv
BY NothingWitnessed DEF RotationInit, RotationInv

LEMMA RotationNextInv == RotationInv /\ [RotationNext]_rotationVars => RotationInv'
<1> SUFFICES ASSUME RotationInv, [RotationNext]_rotationVars PROVE RotationInv'
  OBVIOUS
<1> USE DEF RotationInv
<1>1. ASSUME NEW s \in Sessions, NEW v \in Views, Render(s, v) PROVE RotationInv'
  <2>1. CASE UNCHANGED <<render, losses, made>>
    <3>1. UNCHANGED <<flags, mem, render, made>>
      BY <1>1, <2>1 DEF Render
    <3> QED
      BY <3>1 DEF TableWitnessed, Witnessed
  <2>2. CASE ~UNCHANGED <<render, losses, made>>
    <3>1. PICK swaps \in Swaps[v] :
            /\ Witness(swaps) /\ UNCHANGED <<flags, mem>>
            /\ \/ render' = [render EXCEPT ![s] = Stamped(swaps, flags, UtcDay(half))]
               \/ render' = [render EXCEPT ![s] = Stamped(swaps, NoSwaps, UtcDay(half))]
      BY <1>1, <2>2 DEF Render
    <3>2. made \subseteq made'
      BY <3>1 DEF Witness
    <3>3. /\ TableWitnessed(Stamped(swaps, flags, UtcDay(half)), made')
          /\ TableWitnessed(Stamped(swaps, NoSwaps, UtcDay(half)), made')
      BY <3>1, StampedWitnessed, NothingWitnessed
    <3>4. /\ TableWitnessed(flags', made')
          /\ \A r \in Sessions : /\ TableWitnessed(mem'[r], made')
                                 /\ render[r] # NoSwap => TableWitnessed(render[r], made')
      BY <3>1, <3>2, WitnessedLater
    <3>5. \A r \in Sessions : render'[r] # NoSwap => TableWitnessed(render'[r], made')
      BY <3>1, <3>3, <3>4
    <3>6. DOMAIN mem' = Sessions /\ DOMAIN render' = Sessions
      BY <3>1
    <3> QED
      BY <3>4, <3>5, <3>6, RotationInvLater
  <2> QED
    BY <2>1, <2>2
<1>2. ASSUME NEW s \in Sessions, NEW v \in Views, RenderAlone(s, v) PROVE RotationInv'
  <2>1. PICK swaps \in Swaps[v] :
          /\ Witness(swaps) /\ UNCHANGED flags
          /\ mem' = [mem EXCEPT ![s] = Stamped(swaps, mem[s], IstDay(half))]
          /\ render' = [render EXCEPT ![s] = NoSwap]
    BY <1>2 DEF RenderAlone, Show
  <2>2. made \subseteq made'
    BY <2>1 DEF Witness
  <2>3. TableWitnessed(Stamped(swaps, mem[s], IstDay(half)), made')
    BY <2>1, StampedWitnessed
  <2>4. /\ TableWitnessed(flags', made')
        /\ \A r \in Sessions : /\ TableWitnessed(mem[r], made')
                               /\ render[r] # NoSwap => TableWitnessed(render[r], made')
    BY <2>1, <2>2, WitnessedLater
  <2>5. \A r \in Sessions : /\ TableWitnessed(mem'[r], made')
                            /\ render'[r] # NoSwap => TableWitnessed(render'[r], made')
    BY <2>1, <2>3, <2>4
  <2>6. DOMAIN mem' = Sessions /\ DOMAIN render' = Sessions
    BY <2>1
  <2>7. TableWitnessed(flags', made')
    BY <2>4
  <2> QED
    BY <2>5, <2>6, <2>7, RotationInvLater
<1>3. ASSUME NEW s \in Sessions, Upsert(s) PROVE RotationInv'
  <2>1. /\ render[s] # NoSwap /\ UNCHANGED made
        /\ mem' = [mem EXCEPT ![s] = render[s]] /\ render' = [render EXCEPT ![s] = NoSwap]
        /\ \/ flags' = flags
           \/ flags' = [p \in Holdings |-> IF render[s][p] = NoSwap THEN flags[p]
                                           ELSE render[s][p]]
    BY <1>3 DEF Upsert, Show
  <2>2. TableWitnessed(flags', made)
    BY <2>1 DEF TableWitnessed
  <2>3. \A r \in Sessions : /\ TableWitnessed(mem'[r], made)
                            /\ render'[r] # NoSwap => TableWitnessed(render'[r], made)
    BY <2>1
  <2>4. DOMAIN mem' = Sessions /\ DOMAIN render' = Sessions
    BY <2>1
  <2> QED
    BY <2>1, <2>2, <2>3, <2>4 DEF TableWitnessed, Witnessed
<1>4. ASSUME NEW s \in Sessions, Reconnect(s) PROVE RotationInv'
  <2>1. /\ mem' = [mem EXCEPT ![s] = NoSwaps] /\ render' = [render EXCEPT ![s] = NoSwap]
        /\ UNCHANGED <<flags, made>>
    BY <1>4 DEF Reconnect
  <2>2. \A r \in Sessions : /\ TableWitnessed(mem'[r], made)
                            /\ render'[r] # NoSwap => TableWitnessed(render'[r], made)
    BY <2>1, NothingWitnessed
  <2>3. DOMAIN mem' = Sessions /\ DOMAIN render' = Sessions
    BY <2>1
  <2> QED
    BY <2>1, <2>2, <2>3 DEF TableWitnessed, Witnessed
<1>5. CASE Pass
  BY <1>5 DEF Pass, TableWitnessed, Witnessed
<1>6. CASE UNCHANGED rotationVars
  BY <1>6 DEF rotationVars, TableWitnessed, Witnessed
<1> QED
  BY <1>1, <1>2, <1>3, <1>4, <1>5, <1>6 DEF RotationNext

(* A date is one on which that very target stood for the symbol, for any
   views and any number of sessions that share the table. *)
THEOREM DatesWitnessed == RotationSpec => []SinceWitnessed
<1>1. RotationInv => SinceWitnessed
  BY DEF RotationInv, SinceWitnessed, TableWitnessed, Witnessed
<1> QED
  BY <1>1, RotationInitInv, RotationNextInv, PTL DEF RotationSpec

(* Fewer offers in the pool leave no more of them above an offer, and the walk
   that reaches an offer has passed those above it. *)
LEMMA WalkedUp ==
    ASSUME NEW v \in Views, NEW pool \in SUBSET Offers,
           NEW x \in pool, NEW y \in Walked(v, pool), v.offer[x] > v.offer[y]
    PROVE  x \in Walked(v, pool)
<1> DEFINE Above(z) == {w \in pool : v.offer[w] > v.offer[z]}
<1>1. v.offer \in [Offers -> Int] /\ IsFiniteSet(Offers) /\ MaxChecks \in Nat
  BY RotationAssumption
<1>2. y \in Offers /\ x \in Offers /\ Cardinality(Above(y)) < MaxChecks
  BY DEF Walked
<1>3. IsFiniteSet(Above(y))
  <2>1. Above(y) \subseteq Offers
    OBVIOUS
  <2> QED
    BY <1>1, <2>1, FS_Subset
<1>4. Above(x) \subseteq Above(y)
  BY <1>1, <1>2
<1>5. Cardinality(Above(x)) <= Cardinality(Above(y))
  BY <1>3, <1>4, FS_Subset
<1>6. Cardinality(Above(x)) \in Nat /\ Cardinality(Above(y)) \in Nat
  <2>1. IsFiniteSet(Above(x))
    BY <1>3, <1>4, FS_Subset
  <2> QED
    BY <1>3, <2>1, FS_CardinalityType
<1>7. Cardinality(Above(x)) < MaxChecks
  <2> HIDE DEF Above
  <2> QED
    BY <1>1, <1>2, <1>5, <1>6
<1> QED
  BY <1>7 DEF Walked

(* The best of the offers a walk leaves standing is one, as no two offers have
   the same score. *)
LEMMA CandidateIs ==
    ASSUME NEW v \in Views, NEW taken
    PROVE  /\ \A x \in Candidates(v, taken) : x \in ((v.eligible \ taken) \ v.falling) \cap Offers
           /\ \A x, y \in Candidates(v, taken) : x = y
           /\ \A y \in Walked(v, v.eligible \ taken) \ v.falling :
                \E x \in Candidates(v, taken) : v.offer[y] <= v.offer[x]
<1> DEFINE standing == Walked(v, v.eligible \ taken) \ v.falling
<1>1. /\ v.offer \in [Offers -> Int] /\ IsFiniteSet(Offers) /\ v.eligible \subseteq Offers
      /\ \A x, y \in Offers : v.offer[x] = v.offer[y] => x = y
  BY RotationAssumption
<1>2. standing \subseteq (v.eligible \ taken) \ v.falling
  BY DEF Walked
<1>3. Candidates(v, taken) = {x \in standing : \A y \in standing : v.offer[y] <= v.offer[x]}
  BY DEF Candidates
<1>4. standing \subseteq Offers
  BY <1>1, <1>2
<1>5. ASSUME NEW y \in standing PROVE \E x \in Candidates(v, taken) : v.offer[y] <= v.offer[x]
  <2> HIDE DEF standing
  <2>1. IsFiniteSet(standing)
    BY <1>1, <1>4, FS_Subset
  <2>2. [x \in standing |-> v.offer[x]] \in [standing -> Int]
    BY <1>1, <1>4
  <2>3. PICK x \in standing : \A z \in standing : v.offer[z] <= v.offer[x]
    <3>1. PICK x \in standing : \A z \in standing :
            [u \in standing |-> v.offer[u]][z] <= [u \in standing |-> v.offer[u]][x]
      BY <1>5, <2>1, <2>2, HighestOf
    <3> QED
      BY <3>1
  <2> QED
    BY <1>3, <1>5, <2>3
<1>6. ASSUME NEW x \in Candidates(v, taken), NEW y \in Candidates(v, taken) PROVE x = y
  <2> HIDE DEF standing
  <2>1. x \in Offers /\ y \in Offers /\ v.offer[x] <= v.offer[y] /\ v.offer[y] <= v.offer[x]
    BY <1>3, <1>4
  <2>2. v.offer[x] \in Int /\ v.offer[y] \in Int
    BY <1>1, <2>1
  <2> QED
    BY <1>1, <2>1, <2>2
<1> QED
  BY <1>2, <1>3, <1>4, <1>5, <1>6

LEMMA BestSwapIs ==
    ASSUME NEW v \in Views, NEW p, NEW taken
    PROVE  /\ BestSwap(v, p, taken) # NoSwap =>
                /\ BestSwap(v, p, taken) \in Candidates(v, taken)
                /\ v.score[p] # NoSwap /\ Gain(v, p, BestSwap(v, p, taken)) >= MinSwap
           /\ \A x \in Candidates(v, taken) :
                v.score[p] # NoSwap /\ Gain(v, p, x) >= MinSwap => BestSwap(v, p, taken) = x
<1>1. /\ \A x \in Candidates(v, taken) : x \in Offers
      /\ \A x, y \in Candidates(v, taken) : x = y
  BY CandidateIs
<1>2. CASE \E x \in Candidates(v, taken) : v.score[p] # NoSwap /\ Gain(v, p, x) >= MinSwap
  <2>1. PICK x \in Candidates(v, taken) : v.score[p] # NoSwap /\ Gain(v, p, x) >= MinSwap
    BY <1>2
  <2>2. BestSwap(v, p, taken) = x
    BY <1>1, <1>2, <2>1 DEF BestSwap
  <2> QED
    BY <1>1, <2>1, <2>2
<1>3. CASE ~\E x \in Candidates(v, taken) : v.score[p] # NoSwap /\ Gain(v, p, x) >= MinSwap
  <2>1. BestSwap(v, p, taken) = NoSwap
    BY <1>3 DEF BestSwap
  <2> QED
    BY <1>3, <2>1
<1> QED
  BY <1>2, <1>3

(* One handing out of the offers, in the turns it was made in. *)
GivenInTurn(v, turn, swaps) ==
    /\ turn \in Turns(v) /\ swaps \in [Holdings -> Offers \cup {NoSwap}]
    /\ \A p \in Holdings : p \notin Weak(v) => swaps[p] = NoSwap
    /\ \A p \in Weak(v) : swaps[p] = BestSwap(v, p, {swaps[q] : q \in Earlier(v, turn, p)})

LEMMA SwapsAreGiven ==
    ASSUME NEW v \in Views, NEW swaps \in Swaps[v]
    PROVE  \E turn : GivenInTurn(v, turn, swaps)
<1>1. PICK round \in Rounds(v) : swaps = round.swaps
  BY DEF Swaps
<1> DEFINE taken(p) == {round.swaps[q] : q \in Earlier(v, round.turn, p)}
<1>2. /\ round.turn \in Turns(v) /\ round.swaps \in [Holdings -> Offers \cup {NoSwap}]
      /\ \A p \in Holdings : round.swaps[p] = IF p \in Weak(v) THEN BestSwap(v, p, taken(p))
                                              ELSE NoSwap
  BY DEF Rounds
<1>3. \A p \in Weak(v) : p \in Holdings
  BY DEF Weak
<1>4. GivenInTurn(v, round.turn, round.swaps)
  BY <1>2, <1>3 DEF GivenInTurn
<1> QED
  BY <1>1, <1>4

LEMMA TurnIs ==
    ASSUME NEW v \in Views, NEW turn \in Turns(v)
    PROVE  /\ \A p \in Weak(v) : turn[p] \in Int
           /\ \A p, q \in Weak(v) : p # q => turn[p] < turn[q] \/ turn[q] < turn[p]
           /\ \A p, q \in Weak(v) : Before(v, p, q) => turn[p] < turn[q]
<1>1. /\ turn \in [Weak(v) -> 1..Cardinality(Weak(v))]
      /\ \A p, q \in Weak(v) : turn[p] = turn[q] => p = q
  BY DEF Turns, Injection, IsInjective
<1>2. \A p \in Weak(v) : turn[p] \in Int
  BY <1>1
<1>3. \A p, q \in Weak(v) : Before(v, p, q) => turn[p] < turn[q]
  BY DEF Turns
<1> QED
  BY <1>1, <1>2, <1>3

(* If a holding finds no candidate, none after it does: the first after it to
   get an offer would have had the same pool. *)
LEMMA NoneAfter ==
    ASSUME NEW v \in Views, NEW turn, NEW swaps, GivenInTurn(v, turn, swaps),
           NEW p \in Weak(v), Candidates(v, {swaps[r] : r \in Earlier(v, turn, p)}) = {}
    PROVE  \A q \in Weak(v) : turn[p] < turn[q] => swaps[q] = NoSwap
<1> DEFINE taken(z) == {swaps[r] : r \in Earlier(v, turn, z)}
           Served == {q \in Weak(v) : turn[p] < turn[q] /\ swaps[q] # NoSwap}
           early == [q \in Served |-> -turn[q]]
<1>1. /\ \A q \in Weak(v) : turn[q] \in Int
      /\ \A q, r \in Weak(v) : q # r => turn[q] < turn[r] \/ turn[r] < turn[q]
  BY TurnIs DEF GivenInTurn
<1>2. SUFFICES ASSUME Served # {} PROVE FALSE
  OBVIOUS
<1>3. IsFiniteSet(Served)
  <2>1. Served \subseteq Holdings
    BY DEF Weak
  <2> QED
    BY <2>1, RotationAssumption, FS_Subset
<1>4. early \in [Served -> Int]
  BY <1>1
<1>5. PICK q \in Served : \A r \in Served : early[r] <= early[q]
  <2> HIDE DEF Served, early
  <2> QED
    BY <1>2, <1>3, <1>4, HighestOf
<1>6. \A r \in Served : early[r] = -turn[r] /\ turn[r] \in Int
  BY <1>1
<1>7. \A r \in Served : turn[q] <= turn[r]
  <2> HIDE DEF Served, early
  <2> QED
    BY <1>5, <1>6
<1>8. q \in Weak(v) /\ turn[p] < turn[q] /\ swaps[q] # NoSwap
  OBVIOUS
<1>9. swaps[p] = NoSwap
  BY BestSwapIs DEF GivenInTurn
<1>10. taken(q) \subseteq taken(p) \cup {NoSwap} /\ taken(p) \subseteq taken(q)
  <2>1. ASSUME NEW r \in Earlier(v, turn, q), swaps[r] # NoSwap PROVE r \in Earlier(v, turn, p)
    <3>1. r \in Weak(v) /\ turn[r] < turn[q]
      BY DEF Earlier
    <3>2. r \notin Served
      BY <1>1, <1>7, <1>8, <3>1
    <3>3. ~(turn[p] < turn[r]) /\ r # p
      BY <1>9, <2>1, <3>1, <3>2
    <3> QED
      BY <1>1, <3>1, <3>3 DEF Earlier
  <2>2. Earlier(v, turn, p) \subseteq Earlier(v, turn, q)
    BY <1>1, <1>8 DEF Earlier
  <2> QED
    BY <2>1, <2>2
<1>11. v.eligible \ taken(q) = v.eligible \ taken(p)
  <2>1. NoSwap \notin v.eligible
    BY RotationAssumption
  <2> HIDE DEF taken
  <2> QED
    BY <1>10, <2>1
<1>12. Candidates(v, taken(q)) = Candidates(v, taken(p))
  <2> HIDE DEF taken
  <2> QED
    BY <1>11 DEF Candidates
<1>13. Candidates(v, taken(q)) = {}
  BY <1>12
<1>14. swaps[q] = BestSwap(v, q, taken(q))
  BY <1>8 DEF GivenInTurn
<1> HIDE DEF taken
<1> QED
  BY <1>8, <1>13, <1>14, BestSwapIs

(* What a holding gets was there for those before it, or something better
   was. *)
LEMMA OfferedBefore ==
    ASSUME NEW v \in Views, NEW turn, NEW swaps, GivenInTurn(v, turn, swaps),
           NEW p \in Weak(v), NEW q \in Weak(v), turn[p] < turn[q], swaps[q] # NoSwap
    PROVE  \E x \in Candidates(v, {swaps[r] : r \in Earlier(v, turn, p)}) :
                v.offer[swaps[q]] <= v.offer[x]
<1> DEFINE taken(z) == {swaps[r] : r \in Earlier(v, turn, z)}
           y == swaps[q]
           pool == v.eligible \ taken(p)
<1>1. PICK x \in Candidates(v, taken(p)) : TRUE
  BY NoneAfter
<1>2. y \in Candidates(v, taken(q))
  <2>1. y = BestSwap(v, q, taken(q)) /\ y # NoSwap
    BY DEF GivenInTurn
  <2> HIDE DEF taken
  <2> QED
    BY <2>1, BestSwapIs
<1>3. y \in ((v.eligible \ taken(q)) \ v.falling) \cap Offers
  <2> HIDE DEF taken
  <2> QED
    BY <1>2, CandidateIs
<1>4. taken(p) \subseteq taken(q)
  BY TurnIs DEF Earlier, GivenInTurn
<1>5. y \in pool \ v.falling
  BY <1>3, <1>4
<1>6. x \in Walked(v, pool) \ v.falling
  <2> HIDE DEF taken
  <2> QED
    BY DEF Candidates
<1>7. /\ v.offer \in [Offers -> Int] /\ v.eligible \subseteq Offers
  BY RotationAssumption
<1>8. x \in pool /\ pool \in SUBSET Offers
  BY <1>6, <1>7 DEF Walked
<1>9. v.offer[x] \in Int /\ v.offer[y] \in Int
  BY <1>3, <1>7, <1>8
<1>10. CASE v.offer[y] <= v.offer[x]
  BY <1>10
<1>11. CASE ~(v.offer[y] <= v.offer[x])
  <2>1. v.offer[y] > v.offer[x]
    BY <1>9, <1>11
  <2>2. y \in Walked(v, pool)
    <3> HIDE DEF pool, y
    <3> QED
      BY <1>5, <1>6, <1>8, <2>1, WalkedUp
  <2>3. y \in Walked(v, pool) \ v.falling
    BY <1>5, <2>2
  <2>4. \E z \in Candidates(v, taken(p)) : v.offer[y] <= v.offer[z]
    <3> HIDE DEF taken, y
    <3> QED
      BY <2>3, CandidateIs
  <2> QED
    BY <2>4
<1> QED
  BY <1>10, <1>11

LEMMA OutranksGoesBefore ==
    ASSUME NEW v \in Views, NEW p \in Weak(v), NEW q \in Weak(v), v.score[q] # NoSwap,
           Outranks(v, p, q)
    PROVE  Before(v, p, q)
BY DEF Outranks, Before, Urgency, SortScore, Weak

(* No holding gets an offer that falls, that another gets too, or that one
   which outranks it could have used better. *)
LEMMA NoneEnvied ==
    ASSUME NEW v \in Views, NEW swaps \in Swaps[v], NEW q \in Swapped(swaps)
    PROVE  /\ swaps[q] \in v.eligible \ v.falling
           /\ \A p \in Weak(v) \ {q} :
                /\ swaps[p] # swaps[q]
                /\ Outranks(v, p, q) => IF swaps[p] = NoSwap THEN ~(Gain(v, p, swaps[q]) >= MinSwap)
                                        ELSE ~(v.offer[swaps[p]] < v.offer[swaps[q]])
<1>1. PICK turn : GivenInTurn(v, turn, swaps)
  BY SwapsAreGiven
<1> DEFINE taken(z) == {swaps[r] : r \in Earlier(v, turn, z)}
<1>2. ASSUME NEW z \in Weak(v), swaps[z] # NoSwap
      PROVE  /\ swaps[z] \in Candidates(v, taken(z)) /\ v.score[z] # NoSwap
             /\ swaps[z] \in ((v.eligible \ taken(z)) \ v.falling) \cap Offers
  <2>1. swaps[z] = BestSwap(v, z, taken(z))
    BY <1>1 DEF GivenInTurn
  <2> HIDE DEF taken
  <2>2. swaps[z] \in Candidates(v, taken(z)) /\ v.score[z] # NoSwap
    BY <1>2, <2>1, BestSwapIs
  <2> QED
    BY <2>2, CandidateIs
<1>3. q \in Weak(v) /\ swaps[q] # NoSwap
  BY <1>1 DEF Swapped, GivenInTurn
<1>4. ASSUME NEW p \in Weak(v) \ {q} PROVE swaps[p] # swaps[q]
  <2>1. turn[p] < turn[q] \/ turn[q] < turn[p]
    BY <1>1, <1>3, TurnIs DEF GivenInTurn
  <2>2. swaps[p] \in taken(q) \/ swaps[q] \in taken(p)
    BY <1>3, <2>1 DEF Earlier
  <2> QED
    BY <1>2, <1>3, <2>2
<1>5. ASSUME NEW p \in Weak(v) \ {q}, Outranks(v, p, q)
      PROVE  IF swaps[p] = NoSwap THEN ~(Gain(v, p, swaps[q]) >= MinSwap)
             ELSE ~(v.offer[swaps[p]] < v.offer[swaps[q]])
  <2>1. turn[p] < turn[q]
    <3>1. Before(v, p, q)
      BY <1>2, <1>3, <1>5, OutranksGoesBefore
    <3> QED
      BY <1>1, <1>3, <3>1, TurnIs DEF GivenInTurn
  <2>2. PICK x \in Candidates(v, taken(p)) : v.offer[swaps[q]] <= v.offer[x]
    BY <1>1, <1>3, <2>1, OfferedBefore
  <2>3. v.offer \in [Offers -> Int] /\ v.score \in [Holdings -> Int \cup {NoSwap}] /\ MinSwap \in Int
    BY RotationAssumption
  <2>4. x \in Offers /\ swaps[q] \in Offers
    <3>1. x \in Offers
      <4> HIDE DEF taken
      <4> QED
        BY <2>2, CandidateIs
    <3> QED
      BY <1>2, <1>3, <3>1
  <2>5. v.offer[x] \in Int /\ v.offer[swaps[q]] \in Int
    BY <2>3, <2>4
  <2>6. swaps[p] = BestSwap(v, p, taken(p))
    BY <1>1 DEF GivenInTurn
  <2>7. CASE swaps[p] = NoSwap
    <3>1. v.score[p] # NoSwap
      BY <1>5 DEF Outranks
    <3>2. v.score[p] \in Int
      BY <2>3, <3>1 DEF Weak
    <3>3. ~(Gain(v, p, x) >= MinSwap)
      <4>1. x # NoSwap
        BY <2>4, RotationAssumption
      <4> HIDE DEF taken
      <4> QED
        BY <2>2, <2>6, <2>7, <3>1, <4>1, BestSwapIs
    <3> QED
      BY <2>2, <2>3, <2>5, <2>7, <3>2, <3>3 DEF Gain
  <2>8. CASE swaps[p] # NoSwap
    <3>1. swaps[p] \in Candidates(v, taken(p)) /\ swaps[p] \in Offers
      BY <1>2, <2>8
    <3>2. v.offer[x] <= v.offer[swaps[p]]
      <4> HIDE DEF taken
      <4> QED
        BY <2>2, <3>1 DEF Candidates
    <3>3. v.offer[swaps[p]] \in Int
      BY <2>3, <3>1
    <3> QED
      BY <2>2, <2>5, <2>8, <3>2, <3>3
  <2> QED
    BY <2>7, <2>8
<1> QED
  BY <1>2, <1>3, <1>4, <1>5

(* However many weak holdings reach for however many offers, and whatever the
   order of equals, each is served before those it outranks. *)
THEOREM SwapsAreStable == RotationSpec => []SwapsStable
<1>1. ASSUME NEW s \in Sessions, NEW v \in Saving(s)
      PROVE  /\ v \in Views /\ Targets(s) \in Swaps[v]
  BY DEF Saving
<1>2. SwapsStable
  BY <1>1, NoneEnvied DEF SwapsStable
<1> QED
  BY <1>2, PTL

(***************************************************************************)
(* The targets under way are those of one of the views, so that what holds *)
(* of all the swaps that a view may give holds of what is saved.           *)
(***************************************************************************)

Dated == [target : Offers, since : Int]

Tables == [Holdings -> Dated \cup {NoSwap}]

RotationTypes ==
    /\ half \in Nat /\ losses \in Nat /\ made \subseteq Holdings \X Offers \X Nat
    /\ flags \in Tables /\ mem \in [Sessions -> Tables]
    /\ render \in [Sessions -> Tables \cup {NoSwap}]

Rendered == \A s \in Sessions : render[s] # NoSwap => Saving(s) # {}

RenderInv == RotationTypes /\ Rendered

LEMMA SwapsTypes ==
    ASSUME NEW v \in Views, NEW swaps \in Swaps[v]
    PROVE  swaps \in [Holdings -> Offers \cup {NoSwap}]
BY SwapsAreGiven DEF GivenInTurn

LEMMA NoSwapsTables == NoSwaps \in Tables
BY DEF NoSwaps, Tables

LEMMA StampedTypes ==
    ASSUME NEW swaps \in [Holdings -> Offers \cup {NoSwap}], NEW rows \in Tables,
           NEW today \in Int
    PROVE  /\ Stamped(swaps, rows, today) \in Tables
           /\ \A p \in Holdings :
                swaps[p] = IF Stamped(swaps, rows, today)[p] = NoSwap THEN NoSwap
                           ELSE Stamped(swaps, rows, today)[p].target
<1> DEFINE stamp == Stamped(swaps, rows, today)
<1>1. ASSUME NEW p \in Holdings, swaps[p] # NoSwap
      PROVE  stamp[p] \in Dated /\ stamp[p].target = swaps[p]
  <2>1. rows[p] # NoSwap => rows[p].since \in Int
    BY DEF Tables, Dated
  <2>2. (IF Kept(rows[p], swaps[p]) THEN rows[p].since ELSE today) \in Int
    BY <2>1 DEF Kept
  <2> QED
    BY <1>1, <2>2 DEF Stamped, Dated
<1>2. \A p \in Holdings : swaps[p] = NoSwap => stamp[p] = NoSwap
  BY DEF Stamped
<1>3. NoSwap \notin Dated
  BY RotationAssumption DEF Dated
<1>4. stamp = [p \in Holdings |-> stamp[p]]
  BY DEF Stamped
<1>5. stamp \in Tables
  <2> HIDE DEF stamp
  <2> QED
    BY <1>1, <1>2, <1>4 DEF Tables
<1> QED
  BY <1>1, <1>2, <1>3, <1>5

LEMMA WitnessTypes ==
    ASSUME NEW swaps \in [Holdings -> Offers \cup {NoSwap}], RotationTypes, Witness(swaps)
    PROVE  made' \subseteq Holdings \X Offers \X Nat
BY DEF Witness, Swapped, RotationTypes

LEMMA DaysAreNumbers == ASSUME NEW n \in Nat PROVE UtcDay(n) \in Int /\ IstDay(n) \in Int
BY DEF UtcDay, IstDay

(* Where the renders are as they were, or over, they still come from a view. *)
LEMMA RenderedStill ==
    ASSUME Rendered, NEW s \in Sessions, render'[s] \in {render[s], NoSwap}, render'[s] # NoSwap
    PROVE  Saving(s)' # {}
BY DEF Rendered, Saving, Targets

LEMMA RenderInitInv == RotationInit => RenderInv
BY NoSwapsTables DEF RotationInit, RenderInv, RotationTypes, Rendered

LEMMA RenderNextInv == RenderInv /\ [RotationNext]_rotationVars => RenderInv'
<1> SUFFICES ASSUME RenderInv, [RotationNext]_rotationVars PROVE RenderInv'
  OBVIOUS
<1> USE DEF RenderInv, RotationTypes
<1>1. ASSUME NEW s \in Sessions, NEW v \in Views, Render(s, v) PROVE RenderInv'
  <2>1. CASE UNCHANGED <<render, losses, made>>
    <3>1. UNCHANGED rotationVars
      BY <1>1, <2>1 DEF Render, rotationVars
    <3> QED
      BY <3>1, RenderedStill DEF rotationVars, Rendered
  <2>2. CASE ~UNCHANGED <<render, losses, made>>
    <3>1. PICK swaps \in Swaps[v], rows \in {flags, NoSwaps} :
            /\ Witness(swaps) /\ UNCHANGED <<half, flags, mem>>
            /\ render' = [render EXCEPT ![s] = Stamped(swaps, rows, UtcDay(half))]
            /\ losses' \in {losses, losses + 1}
      BY <1>1, <2>2 DEF Render, Loses
    <3> DEFINE stamp == Stamped(swaps, rows, UtcDay(half))
    <3>2. swaps \in [Holdings -> Offers \cup {NoSwap}]
      BY SwapsTypes
    <3>3. /\ stamp \in Tables
          /\ \A p \in Holdings : swaps[p] = IF stamp[p] = NoSwap THEN NoSwap ELSE stamp[p].target
      <4> DEFINE today == UtcDay(half)
      <4>1. rows \in Tables
        BY NoSwapsTables
      <4>2. today \in Int
        BY DaysAreNumbers
      <4> HIDE DEF today
      <4>3. /\ Stamped(swaps, rows, today) \in Tables
            /\ \A p \in Holdings :
                 swaps[p] = IF Stamped(swaps, rows, today)[p] = NoSwap THEN NoSwap
                            ELSE Stamped(swaps, rows, today)[p].target
        BY <3>2, <4>1, <4>2, StampedTypes
      <4> QED
        BY <4>3 DEF today
    <3> HIDE DEF stamp
    <3>4. render' = [render EXCEPT ![s] = stamp]
      BY <3>1 DEF stamp
    <3>5. Targets(s)' = swaps
      BY <3>2, <3>3, <3>4 DEF Targets
    <3>6. ASSUME NEW r \in Sessions, render'[r] # NoSwap PROVE Saving(r)' # {}
      <4>1. CASE r = s
        BY <3>5, <3>6, <4>1 DEF Saving
      <4>2. CASE r # s
        BY <3>4, <3>6, <4>2, RenderedStill
      <4> QED
        BY <4>1, <4>2
    <3>7. made' \subseteq Holdings \X Offers \X Nat
      BY <3>1, <3>2, WitnessTypes
    <3>8. render' \in [Sessions -> Tables \cup {NoSwap}]
      BY <3>3, <3>4
    <3>9. RotationTypes'
      BY <3>1, <3>7, <3>8
    <3> QED
      BY <3>6, <3>9 DEF Rendered
  <2> QED
    BY <2>1, <2>2
<1>2. ASSUME NEW s \in Sessions, NEW v \in Views, RenderAlone(s, v) PROVE RenderInv'
  <2>1. PICK swaps \in Swaps[v] :
          /\ Witness(swaps) /\ UNCHANGED <<half, flags>> /\ losses' = losses + 1
          /\ mem' = [mem EXCEPT ![s] = Stamped(swaps, mem[s], IstDay(half))]
          /\ render' = [render EXCEPT ![s] = NoSwap]
    BY <1>2 DEF RenderAlone, Loses, Show
  <2>2. swaps \in [Holdings -> Offers \cup {NoSwap}]
    BY SwapsTypes
  <2>3. Stamped(swaps, mem[s], IstDay(half)) \in Tables
    BY <2>2, DaysAreNumbers, StampedTypes
  <2>4. made' \subseteq Holdings \X Offers \X Nat
    BY <2>1, <2>2, WitnessTypes
  <2>5. RotationTypes'
    BY <2>1, <2>3, <2>4
  <2>6. \A r \in Sessions : render'[r] \in {render[r], NoSwap}
    BY <2>1
  <2> QED
    BY <2>5, <2>6, RenderedStill DEF Rendered
<1>3. ASSUME NEW s \in Sessions, Upsert(s) PROVE RenderInv'
  <2>1. /\ render[s] # NoSwap /\ UNCHANGED <<half, made>> /\ losses' \in {losses, losses + 1}
        /\ mem' = [mem EXCEPT ![s] = render[s]] /\ render' = [render EXCEPT ![s] = NoSwap]
        /\ \/ flags' = flags
           \/ flags' = [p \in Holdings |-> IF render[s][p] = NoSwap THEN flags[p]
                                           ELSE render[s][p]]
    BY <1>3 DEF Upsert, Loses, Show
  <2>2. render[s] \in Tables
    BY <2>1
  <2>3. flags' \in Tables
    BY <2>1, <2>2 DEF Tables
  <2>4. RotationTypes'
    BY <2>1, <2>2, <2>3
  <2>5. \A r \in Sessions : render'[r] \in {render[r], NoSwap}
    BY <2>1
  <2> QED
    BY <2>4, <2>5, RenderedStill DEF Rendered
<1>4. ASSUME NEW s \in Sessions, Reconnect(s) PROVE RenderInv'
  <2>1. /\ mem' = [mem EXCEPT ![s] = NoSwaps] /\ render' = [render EXCEPT ![s] = NoSwap]
        /\ UNCHANGED <<half, flags, losses, made>>
    BY <1>4 DEF Reconnect
  <2>2. RotationTypes'
    BY <2>1, NoSwapsTables
  <2>3. \A r \in Sessions : render'[r] \in {render[r], NoSwap}
    BY <2>1
  <2> QED
    BY <2>2, <2>3, RenderedStill DEF Rendered
<1>5. ASSUME Pass \/ UNCHANGED rotationVars PROVE RenderInv'
  <2>1. /\ UNCHANGED <<flags, mem, render, losses, made>> /\ half' \in {half, half + 1}
    BY <1>5 DEF Pass, rotationVars
  <2>2. RotationTypes'
    BY <2>1
  <2> QED
    BY <2>1, <2>2, RenderedStill DEF Rendered
<1> QED
  BY <1>1, <1>2, <1>3, <1>4, <1>5 DEF RotationNext

(* Every render under way saves the swaps of one of the views it may have
   seen, in tables of dated calls. *)
THEOREM RendersAreOfViews == RotationSpec => [](RotationTypes /\ Rendered)
<1> QED
  BY RenderInitInv, RenderNextInv, PTL DEF RotationSpec, RenderInv

(***************************************************************************)
(* The turns and the swaps exist, whatever the view: a handing out that    *)
(* has reached some of the weak holdings, in order, can reach one more.    *)
(***************************************************************************)

Reached(v, U, turn, swaps) ==
    /\ turn \in [U -> 1..Cardinality(U)] /\ swaps \in [Holdings -> Offers \cup {NoSwap}]
    /\ \A p, q \in U : /\ turn[p] = turn[q] => p = q
                       /\ Before(v, p, q) => turn[p] < turn[q]
    /\ \A p \in U, q \in Weak(v) \ U : ~Before(v, q, p)
    /\ \A p \in Holdings \ U : swaps[p] = NoSwap
    /\ \A p \in U : swaps[p] = BestSwap(v, p, {swaps[q] : q \in {r \in U : turn[r] < turn[p]}})

LEMMA FirstOf ==
    ASSUME NEW v \in Views, NEW S \in SUBSET Weak(v), S # {}
    PROVE  \E p \in S : \A q \in S : ~Before(v, q, p)
<1>1. IsFiniteSet(S)
  <2>1. S \subseteq Holdings
    BY DEF Weak
  <2> QED
    BY <2>1, RotationAssumption, FS_Subset
<1>2. \A p \in S : Urgency(v, p) \in Int /\ SortScore(v, p) \in Int
  BY RotationAssumption DEF Urgency, SortScore, Weak
<1>3. PICK u \in S : \A q \in S : Urgency(v, u) <= Urgency(v, q)
  <2> DEFINE f == [p \in S |-> -Urgency(v, p)]
  <2>1. f \in [S -> Int]
    BY <1>2
  <2>2. PICK u \in S : \A q \in S : f[q] <= f[u]
    <3> HIDE DEF f
    <3> QED
      BY <1>1, <2>1, HighestOf
  <2> QED
    BY <1>2, <2>2
<1> DEFINE T == {p \in S : Urgency(v, p) = Urgency(v, u)}
<1>4. PICK p \in T : \A q \in T : SortScore(v, p) <= SortScore(v, q)
  <2> DEFINE f == [p \in T |-> -SortScore(v, p)]
  <2>1. f \in [T -> Int]
    BY <1>2
  <2>2. IsFiniteSet(T) /\ T # {}
    BY <1>1, <1>3, FS_Subset
  <2>3. PICK p \in T : \A q \in T : f[q] <= f[p]
    <3> HIDE DEF f, T
    <3> QED
      BY <2>1, <2>2, HighestOf
  <2> QED
    BY <1>2, <2>3
<1>5. ASSUME NEW q \in S, Before(v, q, p) PROVE FALSE
  <2>1. /\ Urgency(v, p) = Urgency(v, u) /\ Urgency(v, u) <= Urgency(v, q)
        /\ Urgency(v, p) \in Int /\ Urgency(v, q) \in Int
        /\ SortScore(v, p) \in Int /\ SortScore(v, q) \in Int
    BY <1>2, <1>3, <1>4
  <2>2. Urgency(v, q) = Urgency(v, p) => SortScore(v, p) <= SortScore(v, q)
    BY <1>4, <2>1
  <2> QED
    BY <1>5, <2>1, <2>2 DEF Before
<1> QED
  BY <1>4, <1>5

LEMMA OneMore ==
    ASSUME NEW v \in Views, NEW U \in SUBSET Weak(v), U # Weak(v), NEW turn, NEW swaps,
           Reached(v, U, turn, swaps)
    PROVE  \E p \in Weak(v) \ U : \E turn2, swaps2 : Reached(v, U \cup {p}, turn2, swaps2)
<1>1. PICK p \in Weak(v) \ U : \A q \in Weak(v) \ U : ~Before(v, q, p)
  BY FirstOf
<1> DEFINE n == Cardinality(U)
           V == U \cup {p}
           turn2 == [r \in V |-> IF r = p THEN n + 1 ELSE turn[r]]
           taken == {swaps[q] : q \in U}
           swaps2 == [swaps EXCEPT ![p] = BestSwap(v, p, taken)]
<1>2. n \in Nat /\ Cardinality(V) = n + 1
  <2>1. IsFiniteSet(U)
    <3>1. U \subseteq Holdings
      BY DEF Weak
    <3> QED
      BY <3>1, RotationAssumption, FS_Subset
  <2> QED
    BY <1>1, <2>1, FS_CardinalityType, FS_AddElement
<1>3. p \in Holdings /\ U \subseteq Holdings
  BY DEF Weak
<1>4. /\ turn \in [U -> 1..n] /\ swaps \in [Holdings -> Offers \cup {NoSwap}]
      /\ \A q, r \in U : (turn[q] = turn[r] => q = r) /\ (Before(v, q, r) => turn[q] < turn[r])
      /\ \A r \in U, q \in Weak(v) \ U : ~Before(v, q, r)
      /\ \A r \in Holdings \ U : swaps[r] = NoSwap
      /\ \A r \in U : swaps[r] = BestSwap(v, r, {swaps[q] : q \in {w \in U : turn[w] < turn[r]}})
  BY DEF Reached
<1>5. /\ turn2[p] = n + 1
      /\ \A r \in U : turn2[r] = turn[r] /\ turn2[r] \in 1..n /\ turn2[r] < n + 1
  <2> HIDE DEF n
  <2> QED
    BY <1>1, <1>2, <1>4
<1>6. turn2 \in [V -> 1..Cardinality(V)]
  <2>1. \A r \in V : turn2[r] \in 1..(n + 1)
    <3> HIDE DEF n
    <3> QED
      BY <1>2, <1>5
  <2> HIDE DEF n
  <2> QED
    BY <1>2, <2>1
<1>7. BestSwap(v, p, taken) \in Offers \cup {NoSwap}
  <2> DEFINE best == BestSwap(v, p, taken)
  <2> HIDE DEF taken
  <2>1. best # NoSwap => best \in Candidates(v, taken)
    BY BestSwapIs
  <2>2. ASSUME best \in Candidates(v, taken) PROVE best \in Offers
    BY <2>2, CandidateIs
  <2> QED
    BY <2>1, <2>2
<1>8. /\ swaps2 \in [Holdings -> Offers \cup {NoSwap}] /\ swaps2[p] = BestSwap(v, p, taken)
      /\ \A r \in Holdings \ {p} : swaps2[r] = swaps[r]
  <2> HIDE DEF taken
  <2> QED
    BY <1>3, <1>4, <1>7
<1>9. \A q, r \in V : turn2[q] = turn2[r] => q = r
  <2> HIDE DEF n, turn2
  <2> QED
    BY <1>2, <1>4, <1>5
<1>10. \A q, r \in V : Before(v, q, r) => turn2[q] < turn2[r]
  <2> HIDE DEF n, turn2
  <2> QED
    BY <1>1, <1>4, <1>5
<1>11. \A r \in V, q \in Weak(v) \ V : ~Before(v, q, r)
  BY <1>1, <1>4
<1>12. \A r \in Holdings \ V : swaps2[r] = NoSwap
  BY <1>3, <1>4, <1>8
<1>13. ASSUME NEW r \in V
       PROVE  swaps2[r] = BestSwap(v, r, {swaps2[q] : q \in {w \in V : turn2[w] < turn2[r]}})
  <2>1. CASE r = p
    <3>1. {w \in V : turn2[w] < turn2[r]} = U
      <4> HIDE DEF n, turn2
      <4> QED
        BY <1>1, <1>2, <1>5, <2>1
    <3>2. {swaps2[q] : q \in U} = taken
      BY <1>1, <1>3, <1>8
    <3> HIDE DEF n, turn2, swaps2, taken, V
    <3> QED
      BY <1>8, <2>1, <3>1, <3>2
  <2>2. CASE r \in U
    <3>1. {w \in V : turn2[w] < turn2[r]} = {w \in U : turn[w] < turn[r]}
      <4> HIDE DEF n, turn2
      <4> QED
        BY <1>2, <1>5, <2>2
    <3> DEFINE before == {w \in U : turn[w] < turn[r]}
    <3>2. {swaps2[q] : q \in before} = {swaps[q] : q \in before}
      BY <1>1, <1>3, <1>8
    <3>3. swaps2[r] = swaps[r]
      BY <1>1, <1>3, <1>8, <2>2
    <3>4. swaps[r] = BestSwap(v, r, {swaps[q] : q \in before})
      BY <1>4, <2>2
    <3>5. {w \in V : turn2[w] < turn2[r]} = before
      BY <3>1
    <3> HIDE DEF n, turn2, swaps2, V, before
    <3> QED
      BY <3>2, <3>3, <3>4, <3>5
  <2> QED
    BY <2>1, <2>2
<1>14. Reached(v, V, turn2, swaps2)
  <2> HIDE DEF n, turn2, swaps2, V
  <2> QED
    BY <1>6, <1>8, <1>9, <1>10, <1>11, <1>12, <1>13 DEF Reached
<1> QED
  BY <1>14

LEMMA SwapsExist == ASSUME NEW v \in Views PROVE Swaps[v] # {}
<1> DEFINE G == {U \in SUBSET Weak(v) : \E turn, swaps : Reached(v, U, turn, swaps)}
<1>1. IsFiniteSet(Weak(v))
  <2>1. Weak(v) \subseteq Holdings
    BY DEF Weak
  <2> QED
    BY <2>1, RotationAssumption, FS_Subset
<1>2. IsFiniteSet(G)
  <2>1. IsFiniteSet(SUBSET Weak(v))
    BY <1>1, FS_SUBSET
  <2>2. G \subseteq SUBSET Weak(v)
    OBVIOUS
  <2> QED
    BY <2>1, <2>2, FS_Subset
<1>3. {} \in G
  <2>1. [x \in {} |-> x] \in [{} -> 1..Cardinality({})]
    OBVIOUS
  <2>2. NoSwaps \in [Holdings -> Offers \cup {NoSwap}] /\ \A p \in Holdings : NoSwaps[p] = NoSwap
    BY DEF NoSwaps
  <2>3. Reached(v, {}, [x \in {} |-> x], NoSwaps)
    BY <2>1, <2>2 DEF Reached
  <2> QED
    BY <2>3
<1>4. \A U \in G : IsFiniteSet(U) /\ Cardinality(U) \in Int
  <2>1. \A U \in G : IsFiniteSet(U)
    BY <1>1, FS_Subset
  <2> QED
    BY <2>1, FS_CardinalityType
<1>5. PICK U \in G : \A W \in G : Cardinality(W) <= Cardinality(U)
  <2> DEFINE f == [W \in G |-> Cardinality(W)]
  <2>1. f \in [G -> Int]
    BY <1>4
  <2>2. PICK U \in G : \A W \in G : f[W] <= f[U]
    <3> HIDE DEF f, G
    <3> QED
      BY <1>2, <1>3, <2>1, HighestOf
  <2> QED
    BY <2>2
<1>6. PICK turn, swaps : Reached(v, U, turn, swaps)
  BY <1>5
<1>7. U = Weak(v)
  <2> SUFFICES ASSUME U # Weak(v) PROVE FALSE
    OBVIOUS
  <2>1. PICK p \in Weak(v) \ U : \E turn2, swaps2 : Reached(v, U \cup {p}, turn2, swaps2)
    BY <1>5, <1>6, OneMore
  <2>2. U \cup {p} \in G
    BY <1>5, <2>1
  <2>3. Cardinality(U \cup {p}) = Cardinality(U) + 1
    BY <1>4, <2>1, FS_AddElement
  <2> QED
    BY <1>4, <1>5, <2>2, <2>3
<1> DEFINE round == [turn |-> turn, swaps |-> swaps]
<1>8. round \in Rounds(v)
  <2>1. /\ turn \in [Weak(v) -> 1..Cardinality(Weak(v))]
        /\ swaps \in [Holdings -> Offers \cup {NoSwap}]
        /\ \A p, q \in Weak(v) : /\ turn[p] = turn[q] => p = q
                                 /\ Before(v, p, q) => turn[p] < turn[q]
        /\ \A p \in Holdings : p \notin Weak(v) => swaps[p] = NoSwap
        /\ \A p \in Weak(v) :
             swaps[p] = BestSwap(v, p, {swaps[q] : q \in {r \in Weak(v) : turn[r] < turn[p]}})
    BY <1>6, <1>7 DEF Reached
  <2>2. turn \in Turns(v)
    BY <2>1 DEF Turns, Injection, IsInjective
  <2>3. \A p \in Holdings :
          swaps[p] = IF p \in Weak(v) THEN BestSwap(v, p, {swaps[q] : q \in Earlier(v, turn, p)})
                     ELSE NoSwap
    BY <2>1 DEF Earlier
  <2> QED
    BY <2>1, <2>2, <2>3 DEF Rounds
<1> QED
  BY <1>8 DEF Swaps

(* Whatever a render sees, there is a way to hand out the offers in turn. *)
THEOREM SwapsAreMade == \A v \in Views : Swaps[v] # {}
BY SwapsExist
-----------------------------------------------------------------------------
(***************************************************************************)
(* The option chains.  The age of an answer adds up from the age of the    *)
(* request that read it and the age of the entry it was taken from.        *)
(***************************************************************************)

Calls == [pc : {"idle", "token", "ready", "sent", "read"}, key : Contracts \cup {NoChain},
          attempt : Nat, paid : BOOLEAN, at : Ticks, read : Ticks]

(* A request is on its way no longer than its timeout. *)
InTime(w, now) ==
    /\ w.pc \in {"sent", "read"} => w.at <= now /\ now - w.at <= Patience
    /\ w.pc = "read" => w.at <= w.read /\ w.read <= now

Entries == [read : Ticks, stored : Ticks]

AgedEntry(x) == x # NoChain => x \in Entries /\ x.stored - x.read <= Patience

AgeInv ==
    /\ clock \in Ticks
    /\ call \in [Callers -> Calls] /\ \A t \in Callers : InTime(call[t], clock)
    /\ DOMAIN chains = Contracts /\ \A k \in Contracts : AgedEntry(chains[k])
    /\ DOMAIN answer = Callers /\ ChainAgeBound

LEMMA ChainNumbers ==
    /\ Share \in Nat /\ Share >= 1 /\ Rate \in Nat /\ Rate >= 1
    /\ BucketSize \in Nat /\ ChainTtl \in Nat /\ ChainTtl >= 1
    /\ Patience \in Nat /\ LastTick \in Nat /\ Retries \in Nat
    /\ \A n \in Ticks : n \in Nat
    /\ 0 \in Ticks
BY ChainAssumption DEF Ticks

LEMMA NoCallType == NoCall \in Calls /\ NoCall.pc = "idle"
BY ChainNumbers DEF NoCall, Calls

(* The records a call is changed to. *)
Readied(r) == [r EXCEPT !.pc = "ready"]
SentAt(r, n) == [r EXCEPT !.pc = "sent", !.at = n]
ReadAt(r, n) == [r EXCEPT !.pc = "read", !.read = n]
Again(r, m) == [r EXCEPT !.pc = "ready", !.attempt = m, !.paid = FALSE]
Retried(r, m) == [r EXCEPT !.pc = "token", !.attempt = m, !.paid = TRUE]

LEMMA CallRecords ==
    ASSUME NEW r \in Calls, NEW n \in Ticks
    PROVE  /\ Readied(r) \in Calls /\ Readied(r).pc = "ready"
           /\ SentAt(r, n) \in Calls /\ SentAt(r, n).pc = "sent" /\ SentAt(r, n).at = n
           /\ ReadAt(r, n) \in Calls /\ ReadAt(r, n).pc = "read"
           /\ ReadAt(r, n).read = n /\ ReadAt(r, n).at = r.at
<1>1. Readied(r) \in Calls /\ Readied(r).pc = "ready"
  BY DEF Readied, Calls
<1>2. SentAt(r, n) \in Calls /\ SentAt(r, n).pc = "sent" /\ SentAt(r, n).at = n
  BY DEF SentAt, Calls
<1>3. ReadAt(r, n) \in Calls /\ ReadAt(r, n).pc = "read" /\ ReadAt(r, n).read = n
      /\ ReadAt(r, n).at = r.at
  BY DEF ReadAt, Calls
<1> QED
  BY <1>1, <1>2, <1>3

LEMMA RepeatRecords ==
    ASSUME NEW r \in Calls, NEW m \in Nat
    PROVE  /\ Again(r, m) \in Calls /\ Again(r, m).pc = "ready" /\ ~Again(r, m).paid
           /\ Retried(r, m) \in Calls /\ Retried(r, m).pc = "token"
<1>1. Again(r, m) \in Calls /\ Again(r, m).pc = "ready" /\ ~Again(r, m).paid
  BY DEF Again, Calls
<1>2. Retried(r, m) \in Calls /\ Retried(r, m).pc = "token"
  BY DEF Retried, Calls
<1> QED
  BY <1>1, <1>2

LEMMA MissedCall ==
    ASSUME NEW k \in Contracts
    PROVE  LET w == [NoCall EXCEPT !.pc = "token", !.key = k, !.attempt = 1, !.paid = TRUE]
           IN  w \in Calls /\ w.pc = "token"
BY NoCallType DEF Calls

(* A thread that has a token and has not used it yet. *)
Holds(w) == w.pc = "ready" /\ w.paid

ThreadStep(t) ==
    \/ \E k \in Contracts : Hit(t, k) \/ Miss(t, k)
    \/ TakeToken(t) \/ WaitForToken(t) \/ Send(t) \/ Read(t)
    \/ Receive(t) \/ RateLimited(t) \/ Unauthorised(t) \/ RequestFails(t)

(* What a step does to the call of its thread: it stays in time, and only
   TakeToken makes it a holder of a token. *)
CallChange(t, w) ==
    /\ w \in Calls /\ InTime(w, clock)
    /\ call' = [call EXCEPT ![t] = w]
    /\ Holds(w) => Holds(call[t]) \/ TakeToken(t)
    /\ Send(t) => ~Holds(w)

LEMMA CallSteps ==
    ASSUME AgeInv, NEW t \in Callers, ThreadStep(t)
    PROVE  \E w \in Calls : CallChange(t, w)
<1> DEFINE r == call[t]
<1>0. r \in Calls /\ clock \in Ticks /\ InTime(r, clock) /\ r.attempt \in Nat
      /\ call \in [Callers -> Calls]
  BY DEF AgeInv, Calls
<1>p. Patience \in Nat /\ clock \in Nat
  BY <1>0, ChainNumbers
<1>n. r.attempt + 1 \in Nat
  BY <1>0
<1>1. CASE UNCHANGED call /\ ~Send(t)
  <2>1. call' = [call EXCEPT ![t] = r]
    BY <1>0, <1>1
  <2> QED
    BY <1>0, <1>1, <2>1 DEF CallChange
<1>2. ASSUME NEW k \in Contracts, Miss(t, k), ~UNCHANGED call PROVE \E w \in Calls : CallChange(t, w)
  <2> DEFINE w == [NoCall EXCEPT !.pc = "token", !.key = k, !.attempt = 1, !.paid = TRUE]
  <2>1. call' = [call EXCEPT ![t] = w] /\ ~Send(t)
    BY <1>2 DEF Miss, Send, At
  <2>2. w \in Calls /\ w.pc = "token"
    BY MissedCall
  <2> HIDE DEF w
  <2> QED
    BY <2>1, <2>2 DEF CallChange, InTime, Holds
<1>3. CASE TakeToken(t)
  <2> DEFINE w == Readied(r)
  <2>1. w \in Calls /\ w.pc = "ready"
    BY <1>0, CallRecords
  <2>2. ~Send(t) /\ (call' = [call EXCEPT ![t] = NoCall] \/ call' = [call EXCEPT ![t] = w])
    BY <1>3 DEF TakeToken, Send, At, Readied
  <2> HIDE DEF w
  <2> QED
    BY <1>3, <2>1, <2>2, NoCallType DEF CallChange, InTime
<1>4. CASE Send(t)
  <2> DEFINE w == SentAt(r, clock)
  <2>1. w \in Calls /\ w.pc = "sent" /\ w.at = clock
    BY <1>0, CallRecords
  <2>2. call' = [call EXCEPT ![t] = w]
    BY <1>4 DEF Send, SentAt
  <2> HIDE DEF w
  <2>3. InTime(w, clock) /\ ~Holds(w)
    BY <1>p, <2>1 DEF InTime, Holds
  <2> QED
    BY <2>1, <2>2, <2>3 DEF CallChange
<1>5. CASE Read(t)
  <2> DEFINE w == ReadAt(r, clock)
  <2>1. w \in Calls /\ w.pc = "read" /\ w.read = clock /\ w.at = r.at
    BY <1>0, CallRecords
  <2>2. call' = [call EXCEPT ![t] = w] /\ ~Send(t) /\ r.pc = "sent"
    BY <1>5 DEF Read, Send, At, ReadAt
  <2> HIDE DEF w
  <2>3. InTime(w, clock) /\ ~Holds(w)
    BY <1>0, <1>p, <2>1, <2>2 DEF InTime, Holds
  <2> QED
    BY <2>1, <2>2, <2>3 DEF CallChange
<1>6. CASE Receive(t) \/ Unauthorised(t)
  <2>1. call' = [call EXCEPT ![t] = NoCall] /\ ~Send(t)
    BY <1>6 DEF Receive, Unauthorised, Send, At
  <2> QED
    BY <2>1, NoCallType DEF CallChange, InTime, Holds
<1>7. CASE RateLimited(t)
  <2> DEFINE w == Again(r, r.attempt + 1)
  <2>1. w \in Calls /\ w.pc = "ready" /\ ~w.paid
    BY <1>0, <1>n, RepeatRecords
  <2>2. ~Send(t) /\ (call' = [call EXCEPT ![t] = NoCall] \/ call' = [call EXCEPT ![t] = w])
    BY <1>7 DEF RateLimited, Send, At, Again
  <2> HIDE DEF w
  <2> QED
    BY <2>1, <2>2, NoCallType DEF CallChange, InTime, Holds
<1>8. CASE RequestFails(t)
  <2> DEFINE w == Retried(r, r.attempt + 1)
  <2>1. w \in Calls /\ w.pc = "token"
    BY <1>0, <1>n, RepeatRecords
  <2>2. ~Send(t) /\ call' = [call EXCEPT ![t] = w]
    BY <1>8 DEF RequestFails, Send, At, Retried
  <2> HIDE DEF w
  <2> QED
    BY <2>1, <2>2 DEF CallChange, InTime, Holds
<1>9. (\E k \in Contracts : Hit(t, k)) \/ WaitForToken(t) => UNCHANGED call /\ ~Send(t)
  BY DEF Hit, WaitForToken, Send, At
<1>10. \A k \in Contracts : Miss(t, k) => ~Send(t)
  BY DEF Miss, Send, At
<1> QED
  BY <1>1, <1>2, <1>3, <1>4, <1>5, <1>6, <1>7, <1>8, <1>9, <1>10 DEF ThreadStep

LEMMA AgeInitInv == ChainInit => AgeInv
<1> SUFFICES ASSUME ChainInit PROVE AgeInv
  OBVIOUS
<1>1. clock \in Ticks /\ call \in [Callers -> Calls] /\ \A t \in Callers : InTime(call[t], clock)
  BY ChainNumbers, NoCallType DEF ChainInit, InTime
<1>2. DOMAIN chains = Contracts /\ \A k \in Contracts : AgedEntry(chains[k])
  BY DEF ChainInit, AgedEntry
<1>3. DOMAIN answer = Callers /\ ChainAgeBound
  BY DEF ChainInit, ChainAgeBound
<1> QED
  BY <1>1, <1>2, <1>3 DEF AgeInv

(* What the sweep of the cache keeps is what was there. *)
LEMMA SweptEntries ==
    ASSUME NEW cache, NEW x \in Swept(cache)
    PROVE  DOMAIN x = Contracts /\ \A k \in Contracts : x[k] = NoChain \/ x[k] = cache[k]
<1>1. PICK kept : x = [k \in Contracts |-> IF k \in kept THEN Young(cache)[k] ELSE NoChain]
  BY Zenon DEF Swept
<1> QED
  BY <1>1 DEF Young

(* An answer given now, of a chain read at most so long ago. *)
LEMMA AnswerBound ==
    ASSUME ChainAgeBound, NEW t \in Callers, DOMAIN answer = Callers,
           NEW x, answer' = [answer EXCEPT ![t] = x], x.at - x.read < ChainTtl + Patience
    PROVE  DOMAIN answer' = Callers /\ ChainAgeBound'
BY DEF ChainAgeBound

LEMMA AgeNextInv == AgeInv /\ [ChainNext]_chainVars => AgeInv'
<1> SUFFICES ASSUME AgeInv, [ChainNext]_chainVars PROVE AgeInv'
  OBVIOUS
<1>0. clock \in Ticks /\ call \in [Callers -> Calls] /\ DOMAIN chains = Contracts
      /\ DOMAIN answer = Callers /\ ChainAgeBound
      /\ \A t \in Callers : InTime(call[t], clock)
      /\ \A k \in Contracts : AgedEntry(chains[k])
  BY DEF AgeInv
<1>n. Patience \in Nat /\ ChainTtl \in Nat /\ ChainTtl >= 1 /\ clock \in Nat
  BY <1>0, ChainNumbers
<1>1. ASSUME NEW t \in Callers, ThreadStep(t) PROVE AgeInv'
  <2>1. clock' = clock
    BY <1>1 DEF ThreadStep, Hit, Miss, TakeToken, WaitForToken, Send, Read, Receive, RateLimited,
                Unauthorised, RequestFails
  <2>2. PICK w \in Calls : CallChange(t, w)
    BY <1>1, CallSteps
  <2>3. call' \in [Callers -> Calls] /\ \A u \in Callers : InTime(call'[u], clock)
    BY <1>0, <2>2 DEF CallChange
  <2>4. CASE UNCHANGED <<chains, answer>>
    BY <1>0, <2>1, <2>3, <2>4 DEF AgeInv, ChainAgeBound
  <2>5. ASSUME NEW k \in Contracts, Hit(t, k) PROVE AgeInv'
    <3> DEFINE x == [read |-> chains[k].read, at |-> clock]
    <3>1. chains[k].read \in Nat /\ chains[k].stored \in Nat
          /\ chains[k].stored - chains[k].read <= Patience /\ clock - chains[k].stored < ChainTtl
      BY <1>0, <2>5, ChainNumbers DEF Hit, Fresh, AgedEntry, Entries
    <3>2. x.at - x.read < ChainTtl + Patience
      BY <1>n, <3>1
    <3>3. answer' = [answer EXCEPT ![t] = x] /\ UNCHANGED chains
      BY <2>5 DEF Hit
    <3> HIDE DEF x
    <3>4. DOMAIN answer' = Callers /\ ChainAgeBound'
      BY <1>0, <3>2, <3>3, AnswerBound
    <3> QED
      BY <1>0, <2>1, <2>3, <3>3, <3>4 DEF AgeInv
  <2>6. ASSUME NEW k \in Contracts, Miss(t, k) PROVE AgeInv'
    <3>1. chains' = [chains EXCEPT ![k] = NoChain] /\ UNCHANGED answer
      BY <2>6 DEF Miss
    <3>2. DOMAIN chains' = Contracts /\ \A j \in Contracts : AgedEntry(chains'[j])
      BY <1>0, <3>1 DEF AgedEntry
    <3> QED
      BY <1>0, <2>1, <2>3, <3>1, <3>2 DEF AgeInv, ChainAgeBound
  <2>7. CASE Receive(t)
    <3> DEFINE e == [read |-> call[t].read, stored |-> clock]
               x == [read |-> call[t].read, at |-> clock]
               cache == [chains EXCEPT ![call[t].key] = e]
    <3>1. call[t].at \in Nat /\ call[t].read \in Nat /\ call[t].read \in Ticks
      BY <1>0, ChainNumbers DEF Calls
    <3>2. call[t].at <= call[t].read /\ clock - call[t].at <= Patience
      BY <1>0, <2>7 DEF InTime, Receive, At
    <3>3. e \in Entries /\ e.stored - e.read <= Patience
      BY <1>0, <1>n, <3>1, <3>2 DEF Entries
    <3>4. x.at - x.read < ChainTtl + Patience
      BY <1>n, <3>1, <3>2
    <3>5. answer' = [answer EXCEPT ![t] = x] /\ chains' \in Swept(cache)
      BY <2>7 DEF Receive
    <3> HIDE DEF e, x
    <3>6. \A k \in Contracts : AgedEntry(cache[k])
      BY <1>0, <3>3 DEF AgedEntry
    <3> HIDE DEF cache
    <3>7. DOMAIN chains' = Contracts /\ \A k \in Contracts : AgedEntry(chains'[k])
      <4>1. DOMAIN chains' = Contracts
            /\ \A k \in Contracts : chains'[k] = NoChain \/ chains'[k] = cache[k]
        BY <3>5, SweptEntries
      <4>2. AgedEntry(NoChain)
        BY DEF AgedEntry
      <4> QED
        BY <3>6, <4>1, <4>2
    <3>8. DOMAIN answer' = Callers /\ ChainAgeBound'
      BY <1>0, <3>4, <3>5, AnswerBound
    <3> QED
      BY <2>1, <1>0, <2>3, <3>7, <3>8 DEF AgeInv
  <2> QED
    BY <1>1, <2>4, <2>5, <2>6, <2>7
    DEF ThreadStep, TakeToken, WaitForToken, Send, Read, RateLimited, Unauthorised, RequestFails
<1>2. CASE Later
  <2>1. clock' = clock + 1 /\ clock' \in Ticks /\ UNCHANGED <<call, chains, answer>>
    BY <1>0, <1>2, ChainNumbers DEF Later, Ticks
  <2>2. ASSUME NEW t \in Callers PROVE InTime(call[t], clock + 1)
    <3>1. call[t].at \in Nat /\ call[t].read \in Nat
      BY <1>0, ChainNumbers DEF Calls
    <3>2. call[t].pc \in {"sent", "read"} => clock - call[t].at < Patience
      BY <1>2 DEF Later, At
    <3> QED
      BY <1>0, <1>n, <3>1, <3>2 DEF InTime
  <2> QED
    BY <1>0, <2>1, <2>2 DEF AgeInv, ChainAgeBound
<1>3. CASE UNCHANGED chainVars
  BY <1>0, <1>3 DEF chainVars, AgeInv, ChainAgeBound
<1> QED
  BY <1>1, <1>2, <1>3 DEF ChainNext, ThreadStep

LEMMA ChainAges == ChainSpec => []AgeInv
BY AgeInitInv, AgeNextInv, PTL DEF ChainSpec

(* No answer is older than the cache's age and one request's time, for any
   number of threads, contracts and entries. *)
THEOREM AnswersYoung == ChainSpec => []ChainAgeBound
<1>1. AgeInv => ChainAgeBound
  BY DEF AgeInv
<1> QED
  BY <1>1, ChainAges, PTL

(***************************************************************************)
(* The bucket.  What has left since a moment, what may still leave on a    *)
(* token taken, and what the bucket holds now are together no more than    *)
(* it held at most and gained since.                                       *)
(***************************************************************************)

Full == BucketSize * Share

Allowed == (BucketSize + Cardinality(Callers)) * Share

Holders == {t \in Callers : Holds(call[t])}

SentBefore(a) == IF a = 0 THEN 0 ELSE sent[a - 1]

Outstanding(a) == sent[clock] - SentBefore(a) + Cardinality(Holders)

Funded(a) == Outstanding(a) * Share + Refill <= Allowed + Rate * (clock - a)

BudgetInv ==
    /\ AgeInv
    /\ sent \in [Ticks -> Nat] /\ tokens \in 0 .. Full /\ refilled \in 0 .. clock
    /\ \A n \in clock .. LastTick : sent[n] = sent[clock]
    /\ \A a \in 0 .. clock : Funded(a)
    /\ RateBudget

LEMMA Products ==
    ASSUME NEW x \in Int, NEW y \in Int, NEW z \in Nat
    PROVE  /\ x * z \in Int
           /\ (x + 1) * z = x * z + z
           /\ x <= y => x * z <= y * z
OBVIOUS

LEMMA BucketNumbers ==
    /\ Share \in Nat /\ Share >= 1 /\ Rate \in Nat /\ LastTick \in Nat
    /\ Cardinality(Callers) \in Nat
    /\ Full \in Nat /\ Allowed \in Nat /\ Full + Cardinality(Callers) * Share = Allowed
<1>1. Cardinality(Callers) \in Nat
  BY ChainAssumption, FS_CardinalityType
<1> QED
  BY <1>1, ChainNumbers DEF Full, Allowed

(* What the bucket holds now: no more than it can, and than it was left
   with and gained since. *)
LEMMA RefillIs ==
    ASSUME clock \in Nat, tokens \in 0 .. Full, refilled \in 0 .. clock
    PROVE  LET gained == tokens + (clock - refilled) * Rate
           IN  /\ gained \in Nat /\ gained >= tokens
               /\ Refill = IF Full <= gained THEN Full ELSE gained
               /\ Refill \in 0 .. Full
<1> DEFINE gained == tokens + (clock - refilled) * Rate
<1>1. (clock - refilled) * Rate \in Nat
  BY ChainNumbers
<1>2. gained \in Nat /\ gained >= tokens
  BY <1>1, BucketNumbers
<1>3. Refill = Min({Full, gained})
  BY DEF Refill, Full
<1> HIDE DEF gained
<1>4. Refill = IF Full <= gained THEN Full ELSE gained
  BY <1>2, <1>3, LeastOfTwo, BucketNumbers
<1>5. Refill \in 0 .. Full
  BY <1>2, <1>4, BucketNumbers
<1> QED
  BY <1>2, <1>4, <1>5 DEF gained

LEMMA RefillUnchanged ==
    ASSUME UNCHANGED <<clock, tokens, refilled>>
    PROVE  Refill' = Refill
BY DEF Refill

(* Right after a refill the bucket holds what was put down. *)
LEMMA RefillPutDown ==
    ASSUME clock \in Nat, clock' = clock, refilled' = clock, tokens' \in 0 .. Full
    PROVE  Refill' = tokens'
<1>1. (clock' - refilled') * Rate = 0
  BY ChainNumbers
<1>2. tokens' \in Nat /\ tokens' <= Full
  BY BucketNumbers
<1>3. Refill' = Min({Full, tokens' + (clock' - refilled') * Rate})
  BY DEF Refill, Full
<1>4. Refill' = Min({Full, tokens'})
  BY <1>1, <1>2, <1>3
<1> QED
  BY <1>2, <1>4, LeastOfTwo, BucketNumbers

LEMMA RefillLater ==
    ASSUME clock \in Nat, tokens \in 0 .. Full, refilled \in 0 .. clock,
           clock' = clock + 1, UNCHANGED <<tokens, refilled>>
    PROVE  Refill' \in 0 .. Full /\ Refill' <= Refill + Rate
<1> DEFINE gained == tokens + (clock - refilled) * Rate
           more == tokens + (clock + 1 - refilled) * Rate
<1>1. gained \in Nat /\ Refill = (IF Full <= gained THEN Full ELSE gained) /\ Refill \in 0 .. Full
  BY RefillIs
<1>2. more = gained + Rate
  <2>1. (clock - refilled) \in Int /\ clock + 1 - refilled = (clock - refilled) + 1
    OBVIOUS
  <2>2. (clock + 1 - refilled) * Rate = (clock - refilled) * Rate + Rate
    BY <2>1, ChainNumbers, Products
  <2>3. (clock - refilled) * Rate \in Int
    BY <2>1, ChainNumbers, Products
  <2> QED
    BY <2>2, <2>3, ChainNumbers
<1>3. Refill' = Min({Full, more})
  BY DEF Refill, Full
<1> HIDE DEF gained, more
<1>4. Refill' = IF Full <= more THEN Full ELSE more
  BY <1>1, <1>2, <1>3, LeastOfTwo, BucketNumbers
<1> QED
  BY <1>1, <1>2, <1>4, BucketNumbers

(* The holders of a token are some of the threads. *)
LEMMA HolderCount ==
    /\ IsFiniteSet(Holders) /\ Cardinality(Holders) \in 0 .. Cardinality(Callers)
    /\ \A x : x \subseteq Holders =>
          IsFiniteSet(x) /\ Cardinality(x) \in Nat /\ Cardinality(x) <= Cardinality(Holders)
<1>1. Holders \subseteq Callers /\ IsFiniteSet(Callers)
  BY ChainAssumption DEF Holders
<1>2. IsFiniteSet(Holders) /\ Cardinality(Holders) <= Cardinality(Callers)
  BY <1>1, FS_Subset
<1>3. Cardinality(Holders) \in Nat /\ Cardinality(Callers) \in Nat
  BY <1>1, <1>2, FS_CardinalityType
<1>4. ASSUME NEW x, x \subseteq Holders
      PROVE  IsFiniteSet(x) /\ Cardinality(x) \in Nat /\ Cardinality(x) <= Cardinality(Holders)
  BY <1>2, <1>4, FS_Subset, FS_CardinalityType
<1> QED
  BY <1>2, <1>3, <1>4

(* A step of a thread adds it to the holders only when it takes a token. *)
LEMMA HolderSteps ==
    ASSUME NEW t \in Callers, call \in [Callers -> Calls], NEW w, CallChange(t, w)
    PROVE  /\ Cardinality(Holders') \in Nat
           /\ Cardinality(Holders') <= Cardinality(Holders) + 1
           /\ ~TakeToken(t) => Cardinality(Holders') <= Cardinality(Holders)
           /\ Send(t) /\ Holds(call[t]) => Cardinality(Holders') = Cardinality(Holders) - 1
<1>1. \A u \in Callers : u # t => call'[u] = call[u]
  BY DEF CallChange
<1>2. call'[t] = w
  BY DEF CallChange
<1>3. Holders' = IF Holds(w) THEN Holders \cup {t} ELSE Holders \ {t}
  BY <1>1, <1>2 DEF Holders, Holds
<1>4. Holds(w) /\ ~TakeToken(t) => Holders' = Holders
  BY <1>3 DEF Holders, CallChange
<1>5. Send(t) => Holders' = Holders \ {t}
  BY <1>3 DEF CallChange
<1>6. Cardinality(Holders \cup {t}) \in Nat
      /\ Cardinality(Holders \cup {t}) <= Cardinality(Holders) + 1
  <2>1. Cardinality(Holders \cup {t}) =
          IF t \in Holders THEN Cardinality(Holders) ELSE Cardinality(Holders) + 1
    BY HolderCount, FS_AddElement
  <2> QED
    BY <2>1, HolderCount, BucketNumbers
<1>7. Cardinality(Holders \ {t}) \in Nat /\ Cardinality(Holders \ {t}) <= Cardinality(Holders)
  BY HolderCount
<1>8. t \in Holders => Cardinality(Holders \ {t}) = Cardinality(Holders) - 1
  BY HolderCount, FS_RemoveElement
<1>9. Cardinality(Holders) \in Nat
  BY HolderCount, BucketNumbers
<1>10. Holds(call[t]) => t \in Holders
  BY DEF Holders
<1> DEFINE now == Holders'
<1> HIDE DEF now
<1>11. CASE Holds(w)
  <2>1. now = Holders \cup {t} /\ (~TakeToken(t) => now = Holders) /\ ~Send(t)
    BY <1>3, <1>4, <1>11 DEF CallChange, now
  <2> QED
    BY <1>6, <1>9, <2>1 DEF now
<1>12. CASE ~Holds(w)
  <2>1. now = Holders \ {t}
    BY <1>3, <1>12 DEF now
  <2> QED
    BY <1>7, <1>8, <1>9, <1>10, <2>1 DEF now
<1> QED
  BY <1>11, <1>12

(* What a step of a thread does to the accounts: a request leaves on a token
   held, a token is taken from what the bucket holds, or neither. *)
LEMMA FundedStep ==
    ASSUME BudgetInv, clock' = clock, sent' \in [Ticks -> Nat],
           \A n \in Ticks : n < clock => sent'[n] = sent[n],
           \A n \in clock .. LastTick : sent'[n] = sent'[clock],
           Cardinality(Holders') \in Nat, tokens' \in 0 .. Full, refilled' \in 0 .. clock,
           Refill' \in 0 .. Full, AgeInv',
           \/ /\ sent'[clock] + Cardinality(Holders') <= sent[clock] + Cardinality(Holders)
              /\ Refill' <= Refill
           \/ /\ sent'[clock] + Cardinality(Holders') <= sent[clock] + Cardinality(Holders) + 1
              /\ Refill' <= Refill - Share
    PROVE  BudgetInv'
<1>0. /\ clock \in Ticks /\ clock \in Nat /\ sent[clock] \in Nat /\ sent'[clock] \in Nat
      /\ Cardinality(Holders) \in Nat /\ sent \in [Ticks -> Nat]
      /\ tokens \in 0 .. Full /\ refilled \in 0 .. clock
      /\ \A a \in 0 .. clock : Funded(a)
      /\ RateBudget
  BY ChainNumbers, HolderCount, BucketNumbers DEF BudgetInv, AgeInv
<1>r. Refill \in Int /\ Refill' \in Int /\ Refill' >= 0
  <2>1. Refill \in 0 .. Full
    BY <1>0, RefillIs
  <2> QED
    BY <2>1, BucketNumbers
<1>1. ASSUME NEW a \in 0 .. clock
      PROVE  SentBefore(a) \in Nat /\ SentBefore(a)' = SentBefore(a)
  <2>1. CASE a = 0
    BY <2>1 DEF SentBefore
  <2>2. CASE a # 0
    <3>1. a - 1 \in Ticks /\ a - 1 < clock
      BY <1>0, <2>2, BucketNumbers DEF Ticks
    <3>2. sent[a - 1] \in Nat /\ sent'[a - 1] = sent[a - 1]
      BY <1>0, <3>1
    <3> QED
      BY <2>2, <3>2 DEF SentBefore
  <2> QED
    BY <2>1, <2>2
<1>2. ASSUME NEW a \in 0 .. clock PROVE Funded(a)'
  <2> DEFINE o == Outstanding(a)
             p == Outstanding(a)'
             most == Allowed + Rate * (clock - a)
  <2>1. o = sent[clock] - SentBefore(a) + Cardinality(Holders) /\ o \in Int
    BY <1>0, <1>1 DEF Outstanding
  <2>2. p = sent'[clock] - SentBefore(a) + Cardinality(Holders') /\ p \in Int
    BY <1>0, <1>1 DEF Outstanding
  <2>3. o * Share + Refill <= most
    BY <1>0 DEF Funded
  <2>4. Allowed' + Rate * (clock' - a) = most
    BY DEF Allowed
  <2>5. most \in Int
    BY <1>0, BucketNumbers, Products
  <2> HIDE DEF o, p, most
  <2>6. o * Share \in Int /\ p * Share \in Int /\ (o + 1) * Share = o * Share + Share
        /\ (p <= o => p * Share <= o * Share) /\ (p <= o + 1 => p * Share <= (o + 1) * Share)
    BY <2>1, <2>2, BucketNumbers, Products
  <2>7. p * Share + Refill' <= most
    <3>1. CASE p <= o /\ Refill' <= Refill
      BY <1>r, <2>3, <2>5, <2>6, <3>1
    <3>2. CASE p <= o + 1 /\ Refill' <= Refill - Share
      BY <1>r, <2>3, <2>5, <2>6, <3>2, BucketNumbers
    <3>3. (p <= o /\ Refill' <= Refill) \/ (p <= o + 1 /\ Refill' <= Refill - Share)
      BY <1>0, <1>1, <2>1, <2>2
    <3> QED
      BY <3>1, <3>2, <3>3
  <2> QED
    BY <2>4, <2>7 DEF Funded, p
<1>3. RateBudget'
  <2> SUFFICES ASSUME NEW a \in Ticks, NEW b \in a .. LastTick
               PROVE  (sent'[b] - SentBefore(a)') * Share <= Allowed + Rate * (b - a)
    BY DEF RateBudget, SentBefore, Allowed
  <2>0. a \in Nat /\ b \in Nat /\ b \in Ticks /\ a <= b
    BY BucketNumbers DEF Ticks
  <2>1. CASE b < clock
    <3>1. a \in 0 .. clock /\ sent'[b] = sent[b]
      BY <1>0, <2>0, <2>1
    <3>2. (sent[b] - SentBefore(a)) * Share <= Allowed + Rate * (b - a)
      BY <1>0 DEF RateBudget, SentBefore, Allowed
    <3> QED
      BY <1>1, <3>1, <3>2
  <2>2. CASE b >= clock /\ a <= clock
    <3>1. a \in 0 .. clock /\ sent'[b] = sent'[clock]
      BY <1>0, <2>0, <2>2
    <3>2. Outstanding(a)' * Share + Refill' <= Allowed + Rate * (clock - a)
      BY <1>2, <3>1 DEF Funded, Allowed
    <3> DEFINE o == Outstanding(a)'
               n == sent'[clock] - SentBefore(a)'
    <3>3. o \in Int /\ n \in Int /\ n <= o
      BY <1>0, <1>1, <3>1 DEF Outstanding
    <3>4. Rate * (clock - a) \in Int /\ Rate * (b - a) \in Int
          /\ Rate * (clock - a) <= Rate * (b - a)
      <4>1. clock - a \in Int /\ b - a \in Int /\ clock - a <= b - a
        BY <1>0, <2>0, <2>2
      <4>2. /\ (clock - a) * Rate \in Int /\ (b - a) * Rate \in Int
            /\ (clock - a) * Rate <= (b - a) * Rate
        BY <4>1, BucketNumbers, Products
      <4> QED
        BY <4>1, <4>2, BucketNumbers
    <3> HIDE DEF o, n
    <3>5. n * Share \in Int /\ o * Share \in Int /\ n * Share <= o * Share
      BY <3>3, BucketNumbers, Products
    <3>6. n * Share <= Allowed + Rate * (b - a)
      BY <1>r, <3>2, <3>4, <3>5, BucketNumbers DEF o
    <3> QED
      BY <3>1, <3>6 DEF n
  <2>3. CASE a > clock
    <3>1. a - 1 \in clock .. LastTick /\ b \in clock .. LastTick /\ a # 0
      BY <1>0, <2>0, <2>3, BucketNumbers DEF Ticks
    <3>2. sent'[b] - SentBefore(a)' = 0
      BY <1>0, <3>1 DEF SentBefore
    <3>3. Rate * (b - a) \in Nat
      BY <2>0, BucketNumbers
    <3> QED
      BY <3>2, <3>3, BucketNumbers
  <2> QED
    BY <1>0, <2>0, <2>1, <2>2, <2>3
<1> QED
  BY <1>2, <1>3 DEF BudgetInv, Full

LEMMA BudgetInitInv == ChainInit => BudgetInv
<1> SUFFICES ASSUME ChainInit PROVE BudgetInv
  OBVIOUS
<1>1. AgeInv
  BY AgeInitInv
<1>2. clock = 0 /\ tokens = Full /\ refilled = 0 /\ sent = [n \in Ticks |-> 0]
  BY DEF ChainInit, Full
<1>3. tokens \in 0 .. Full /\ refilled \in 0 .. clock /\ sent \in [Ticks -> Nat]
  BY <1>2, BucketNumbers
<1>4. \A n \in clock .. LastTick : sent[n] = sent[clock]
  BY <1>2, BucketNumbers DEF Ticks
<1>5. Holders = {}
  BY DEF ChainInit, NoCall, Holders, Holds
<1>6. ASSUME NEW a \in 0 .. clock PROVE Funded(a)
  <2>1. a = 0
    BY <1>2
  <2>2. Outstanding(a) = 0
    BY <1>2, <1>5, <2>1, FS_EmptySet, BucketNumbers DEF Outstanding, SentBefore, Ticks
  <2>3. Refill \in 0 .. Full
    BY <1>2, <1>3, RefillIs
  <2>4. Cardinality(Callers) * Share \in Nat
    BY BucketNumbers
  <2> QED
    BY <1>2, <2>1, <2>2, <2>3, <2>4, BucketNumbers DEF Funded
<1>7. RateBudget
  <2> SUFFICES ASSUME NEW a \in Ticks, NEW b \in a .. LastTick
               PROVE  (sent[b] - SentBefore(a)) * Share <= Allowed + Rate * (b - a)
    BY DEF RateBudget, SentBefore, Allowed
  <2>1. a \in Nat /\ b \in Nat /\ b \in Ticks /\ a <= b /\ (a # 0 => a - 1 \in Ticks)
    BY BucketNumbers DEF Ticks
  <2>2. sent[b] - SentBefore(a) = 0
    BY <1>2, <2>1 DEF SentBefore
  <2>3. Rate * (b - a) \in Nat
    BY <2>1, BucketNumbers
  <2> QED
    BY <2>2, <2>3, BucketNumbers
<1> QED
  BY <1>1, <1>3, <1>4, <1>6, <1>7 DEF BudgetInv

LEMMA BudgetNextInv == BudgetInv /\ [ChainNext]_chainVars => BudgetInv'
<1> SUFFICES ASSUME BudgetInv, [ChainNext]_chainVars PROVE BudgetInv'
  OBVIOUS
<1>0. /\ clock \in Ticks /\ clock \in Nat /\ call \in [Callers -> Calls]
      /\ sent \in [Ticks -> Nat] /\ sent[clock] \in Nat
      /\ tokens \in 0 .. Full /\ refilled \in 0 .. clock
      /\ \A n \in clock .. LastTick : sent[n] = sent[clock]
      /\ AgeInv
  BY ChainNumbers DEF BudgetInv, AgeInv
<1>a. AgeInv'
  BY <1>0, AgeNextInv
<1>r. Refill \in 0 .. Full /\ Refill \in Int
  BY <1>0, RefillIs, BucketNumbers
<1>c. Cardinality(Holders) \in Nat
  BY HolderCount, BucketNumbers
<1>1. ASSUME NEW t \in Callers, ThreadStep(t) PROVE BudgetInv'
  <2>1. clock' = clock
    BY <1>1 DEF ThreadStep, Hit, Miss, TakeToken, WaitForToken, Send, Read, Receive, RateLimited,
                Unauthorised, RequestFails
  <2>2. PICK w \in Calls : CallChange(t, w)
    BY <1>0, <1>1, CallSteps
  <2>3. /\ Cardinality(Holders') \in Nat
        /\ Cardinality(Holders') <= Cardinality(Holders) + 1
        /\ ~TakeToken(t) => Cardinality(Holders') <= Cardinality(Holders)
        /\ Send(t) /\ Holds(call[t]) => Cardinality(Holders') = Cardinality(Holders) - 1
    BY <1>0, <2>2, HolderSteps
  <2>4. CASE UNCHANGED <<tokens, refilled, sent>> /\ ~TakeToken(t)
    <3>1. Refill' = Refill
      BY <2>1, <2>4, RefillUnchanged
    <3> QED
      BY <1>0, <1>a, <1>r, <1>c, <2>1, <2>3, <2>4, <3>1, FundedStep
  <2>5. CASE TakeToken(t)
    <3>1. tokens' = Refill - Share /\ Refill >= Share /\ refilled' = clock /\ UNCHANGED sent
      BY <2>5 DEF TakeToken
    <3>2. tokens' \in 0 .. Full /\ refilled' \in 0 .. clock
      BY <1>0, <1>r, <3>1, BucketNumbers
    <3>3. Refill' = tokens'
      BY <1>0, <2>1, <3>1, <3>2, RefillPutDown
    <3> QED
      BY <1>0, <1>a, <1>r, <1>c, <2>1, <2>3, <3>1, <3>2, <3>3, FundedStep
  <2>6. CASE WaitForToken(t)
    <3>1. tokens' = Refill /\ refilled' = clock /\ UNCHANGED sent /\ ~TakeToken(t)
      BY <1>r, <2>6, BucketNumbers DEF WaitForToken, TakeToken
    <3>2. tokens' \in 0 .. Full /\ refilled' \in 0 .. clock
      BY <1>0, <1>r, <3>1
    <3>3. Refill' = tokens'
      BY <1>0, <2>1, <3>1, <3>2, RefillPutDown
    <3> QED
      BY <1>0, <1>a, <1>r, <1>c, <2>1, <2>3, <3>1, <3>2, <3>3, FundedStep
  <2>7. CASE Send(t)
    <3>1. UNCHANGED <<tokens, refilled>> /\ At(t, "ready") /\ ~TakeToken(t)
          /\ sent' = [n \in Ticks |-> IF n >= clock /\ call[t].paid THEN sent[n] + 1 ELSE sent[n]]
      BY <2>7 DEF Send, TakeToken, At
    <3>2. Refill' = Refill
      BY <2>1, <3>1, RefillUnchanged
    <3>3. sent' \in [Ticks -> Nat] /\ \A n \in Ticks : n < clock => sent'[n] = sent[n]
      BY <1>0, <3>1, ChainNumbers
    <3>4. \A n \in clock .. LastTick : sent'[n] = sent'[clock]
      <4>1. \A n \in clock .. LastTick : n \in Ticks /\ n >= clock
        BY <1>0, BucketNumbers DEF Ticks
      <4> QED
        BY <1>0, <3>1, <4>1
    <3>5. sent'[clock] + Cardinality(Holders') <= sent[clock] + Cardinality(Holders)
      <4>1. CASE call[t].paid
        <5>1. sent'[clock] = sent[clock] + 1 /\ Holds(call[t])
          BY <1>0, <3>1, <4>1 DEF Holds, At
        <5> QED
          BY <1>0, <1>c, <2>3, <2>7, <5>1
      <4>2. CASE ~call[t].paid
        <5>1. sent'[clock] = sent[clock]
          BY <1>0, <3>1, <4>2
        <5> QED
          BY <1>0, <1>c, <2>3, <3>1, <5>1
      <4> QED
        BY <4>1, <4>2
    <3> QED
      BY <1>0, <1>a, <1>r, <1>c, <2>1, <2>3, <3>1, <3>2, <3>3, <3>4, <3>5, FundedStep
  <2>8. \/ UNCHANGED <<tokens, refilled, sent>> /\ ~TakeToken(t)
        \/ TakeToken(t) \/ WaitForToken(t) \/ Send(t)
    BY <1>1 DEF ThreadStep, Hit, Miss, Read, Receive, RateLimited, Unauthorised, RequestFails
  <2> QED
    BY <2>4, <2>5, <2>6, <2>7, <2>8
<1>2. CASE Later
  <2>1. clock' = clock + 1 /\ clock < LastTick /\ UNCHANGED <<tokens, refilled, sent, call>>
    BY <1>2 DEF Later
  <2>2. Holders' = Holders
    BY <2>1 DEF Holders, Holds
  <2>3. Refill' \in 0 .. Full /\ Refill' <= Refill + Rate
    BY <1>0, <2>1, RefillLater
  <2>4. clock + 1 \in Ticks /\ sent[clock + 1] = sent[clock]
    BY <1>0, <2>1, BucketNumbers DEF Ticks
  <2>5. ASSUME NEW a \in 0 .. clock' PROVE Funded(a)'
    <3> DEFINE o == Outstanding(a)'
               before == SentBefore(a)
    <3>1. o = sent[clock] - before + Cardinality(Holders) /\ before' = before
      BY <2>1, <2>2, <2>4 DEF Outstanding, SentBefore
    <3>2. Funded(a)' <=> o * Share + Refill' <= Allowed + Rate * (clock + 1 - a)
      <4>1. Funded(a)' <=> o * Share + Refill' <= Allowed' + Rate * (clock' - a)
        BY DEF Funded
      <4>2. Allowed' = Allowed
        BY DEF Allowed
      <4> HIDE DEF o
      <4> QED
        BY <2>1, <4>1, <4>2, <1>0, <1>r, <2>3, BucketNumbers
    <3>3. CASE a <= clock
      <4>1. a \in 0 .. clock
        BY <1>0, <2>1, <3>3
      <4>2. o * Share + Refill <= Allowed + Rate * (clock - a)
        BY <3>1, <4>1 DEF BudgetInv, Funded, Outstanding
      <4>3. before \in Nat
        BY <1>0, <4>1, BucketNumbers DEF SentBefore, Ticks
      <4>4. o * Share \in Int
        BY <1>0, <1>c, <3>1, <4>3, BucketNumbers, Products
      <4>5. Rate * (clock + 1 - a) = Rate * (clock - a) + Rate /\ Rate * (clock - a) \in Int
        <5> DEFINE x == clock - a
        <5>1. x \in Int /\ clock + 1 - a = x + 1
          BY <1>0, <4>1
        <5> HIDE DEF x
        <5>2. x * Rate \in Int /\ (x + 1) * Rate = x * Rate + Rate
          BY <5>1, BucketNumbers, Products
        <5>3. Rate * x = x * Rate /\ Rate * (x + 1) = (x + 1) * Rate
          BY <5>1, BucketNumbers
        <5> QED
          BY <5>1, <5>2, <5>3 DEF x
      <4> HIDE DEF o
      <4> QED
        BY <1>r, <2>3, <3>2, <4>2, <4>4, <4>5, BucketNumbers
    <3>4. CASE a = clock + 1
      <4>1. before = sent[clock]
        BY <1>0, <3>4 DEF SentBefore
      <4>2. o = Cardinality(Holders)
        BY <1>0, <1>c, <3>1, <4>1
      <4>3. /\ Cardinality(Holders) * Share \in Int /\ Cardinality(Callers) * Share \in Int
            /\ Cardinality(Holders) * Share <= Cardinality(Callers) * Share
        BY <1>c, HolderCount, BucketNumbers, Products
      <4>4. Rate * (clock + 1 - a) = 0
        BY <1>0, <3>4, BucketNumbers
      <4> HIDE DEF o
      <4> QED
        BY <2>3, <3>2, <4>2, <4>3, <4>4, BucketNumbers
    <3> QED
      BY <1>0, <2>1, <2>5, <3>3, <3>4
  <2>6. \A n \in clock' .. LastTick : sent'[n] = sent'[clock']
    BY <1>0, <2>1, <2>4, BucketNumbers
  <2>7. RateBudget'
    BY <2>1 DEF BudgetInv, RateBudget
  <2>8. refilled' \in 0 .. clock'
    BY <1>0, <2>1
  <2> QED
    BY <1>0, <1>a, <2>1, <2>5, <2>6, <2>7, <2>8 DEF BudgetInv, Full
<1>3. CASE UNCHANGED chainVars
  <2>1. Refill' = Refill /\ UNCHANGED <<clock, tokens, refilled, sent, call>>
    BY <1>3, RefillUnchanged DEF chainVars
  <2>2. Holders' = Holders
    BY <2>1 DEF Holders, Holds
  <2> QED
    BY <1>0, <1>a, <1>r, <1>c, <2>1, <2>2, FundedStep
<1> QED
  BY <1>1, <1>2, <1>3 DEF ChainNext, ThreadStep

(* The endpoint's budget over every stretch of time, for any number of
   threads, any rate and any bucket. *)
THEOREM RequestsWithinBudget == ChainSpec => []RateBudget
<1>1. BudgetInv => RateBudget
  BY DEF BudgetInv
<1> QED
  BY <1>1, BudgetInitInv, BudgetNextInv, PTL DEF ChainSpec

(***************************************************************************)
(* The rest of the chain's state: no request leaves for an attempt past    *)
(* the last, for which only a token is still taken; the cache holds no     *)
(* more entries than it may.                                               *)
(***************************************************************************)

Attempts(w) ==
    w.attempt \in 0 .. Retries + 1 /\ (w.pc \in {"ready", "sent", "read"} => w.attempt <= Retries)

Entered(cache) == {k \in Contracts : cache[k] # NoChain}

ChainRest ==
    /\ \A t \in Callers : Attempts(call[t])
    /\ \A t \in Callers : answer[t] # NoChain => answer[t] \in [read : Ticks, at : Ticks]
    /\ Cardinality(Entered(chains)) <= CacheSize

LEMMA NoAttempt == Attempts(NoCall)
BY ChainNumbers DEF Attempts, NoCall

LEMMA FirstAttempt ==
    ASSUME NEW k \in Contracts
    PROVE  Attempts([NoCall EXCEPT !.pc = "token", !.key = k, !.attempt = 1, !.paid = TRUE])
BY ChainNumbers DEF Attempts, NoCall

LEMMA NextAttempt ==
    ASSUME NEW r \in Calls, NEW n \in Ticks, NEW m \in Nat
    PROVE  /\ r.attempt <= Retries =>
                Attempts(Readied(r)) /\ Attempts(SentAt(r, n)) /\ Attempts(ReadAt(r, n))
           /\ m <= Retries => Attempts(Again(r, m))
           /\ m <= Retries + 1 => Attempts(Retried(r, m))
<1>1. Retries \in Nat /\ r.attempt \in Nat
  BY ChainNumbers DEF Calls
<1>2. Readied(r).attempt = r.attempt
  BY DEF Readied, Calls
<1>3. SentAt(r, n).attempt = r.attempt
  BY DEF SentAt, Calls
<1>4. ReadAt(r, n).attempt = r.attempt
  BY DEF ReadAt, Calls
<1>5. Again(r, m).attempt = m
  BY DEF Again, Calls
<1>6. Retried(r, m).attempt = m /\ Retried(r, m).pc = "token"
  BY DEF Retried, Calls
<1> QED
  BY <1>1, <1>2, <1>3, <1>4, <1>5, <1>6 DEF Attempts

(* What a step of a thread does to its attempts. *)
LEMMA AttemptSteps ==
    ASSUME AgeInv, NEW t \in Callers, Attempts(call[t]), ThreadStep(t)
    PROVE  \E w \in Calls : call' = [call EXCEPT ![t] = w] /\ Attempts(w)
<1> DEFINE r == call[t]
<1>0. r \in Calls /\ clock \in Ticks /\ r.attempt \in Nat /\ r.attempt <= Retries + 1
      /\ call \in [Callers -> Calls] /\ Retries \in Nat
      /\ (r.pc \in {"ready", "sent", "read"} => r.attempt <= Retries)
  BY ChainNumbers DEF AgeInv, Calls, Attempts
<1>n. r.attempt + 1 \in Nat
  BY <1>0
<1>1. CASE UNCHANGED call
  <2>1. call' = [call EXCEPT ![t] = r]
    BY <1>0, <1>1
  <2> QED
    BY <1>0, <2>1
<1>2. CASE call' = [call EXCEPT ![t] = NoCall]
  BY <1>2, NoAttempt, NoCallType
<1>3. ASSUME NEW k \in Contracts, Miss(t, k), ~UNCHANGED call
      PROVE  \E w \in Calls : call' = [call EXCEPT ![t] = w] /\ Attempts(w)
  <2> DEFINE w == [NoCall EXCEPT !.pc = "token", !.key = k, !.attempt = 1, !.paid = TRUE]
  <2>1. call' = [call EXCEPT ![t] = w]
    BY <1>3 DEF Miss
  <2>2. w \in Calls /\ Attempts(w)
    BY MissedCall, FirstAttempt
  <2> QED
    BY <2>1, <2>2
<1>4. CASE TakeToken(t)
  <2> DEFINE w == IF r.attempt > Retries THEN NoCall ELSE Readied(r)
  <2>1. ~(r.attempt > Retries) => r.attempt <= Retries
    BY <1>0
  <2>2. w \in Calls /\ Attempts(w)
    BY <1>0, <2>1, CallRecords, NextAttempt, NoAttempt, NoCallType
  <2>3. call' = [call EXCEPT ![t] = w]
    BY <1>4 DEF TakeToken, Readied
  <2> QED
    BY <2>2, <2>3
<1>5. CASE Send(t)
  <2>1. SentAt(r, clock) \in Calls /\ Attempts(SentAt(r, clock))
    BY <1>0, <1>5, CallRecords, NextAttempt DEF Send, At
  <2>2. call' = [call EXCEPT ![t] = SentAt(r, clock)]
    BY <1>5 DEF Send, SentAt
  <2> QED
    BY <2>1, <2>2
<1>6. CASE Read(t)
  <2>1. ReadAt(r, clock) \in Calls /\ Attempts(ReadAt(r, clock))
    BY <1>0, <1>6, CallRecords, NextAttempt DEF Read, At
  <2>2. call' = [call EXCEPT ![t] = ReadAt(r, clock)]
    BY <1>6 DEF Read, ReadAt
  <2> QED
    BY <2>1, <2>2
<1>7. ASSUME RateLimited(t), r.attempt # Retries
      PROVE  \E w \in Calls : call' = [call EXCEPT ![t] = w] /\ Attempts(w)
  <2> DEFINE m == r.attempt + 1
  <2>1. m \in Nat /\ m <= Retries
    BY <1>0, <1>7 DEF RateLimited, At
  <2>2. Again(r, m) \in Calls /\ Attempts(Again(r, m))
    BY <1>0, <2>1, RepeatRecords, NextAttempt
  <2>3. call' = [call EXCEPT ![t] = Again(r, m)]
    BY <1>7 DEF RateLimited, Again
  <2> QED
    BY <2>2, <2>3
<1>8. CASE RequestFails(t)
  <2> DEFINE m == r.attempt + 1
  <2>1. m \in Nat /\ m <= Retries + 1
    BY <1>0, <1>8 DEF RequestFails, At
  <2>2. Retried(r, m) \in Calls /\ Attempts(Retried(r, m))
    BY <1>0, <2>1, RepeatRecords, NextAttempt
  <2>3. call' = [call EXCEPT ![t] = Retried(r, m)]
    BY <1>8 DEF RequestFails, Retried
  <2> QED
    BY <2>2, <2>3
<1>9. Receive(t) \/ Unauthorised(t) => call' = [call EXCEPT ![t] = NoCall]
  BY DEF Receive, Unauthorised
<1>10. RateLimited(t) /\ r.attempt = Retries => call' = [call EXCEPT ![t] = NoCall]
  BY DEF RateLimited
<1>11. (\E k \in Contracts : Hit(t, k)) \/ WaitForToken(t) => UNCHANGED call
  BY DEF Hit, WaitForToken
<1> HIDE DEF r
<1> QED
  BY <1>1, <1>2, <1>3, <1>4, <1>5, <1>6, <1>7, <1>8, <1>9, <1>10, <1>11 DEF ThreadStep

(* The sweep keeps no more entries than the cache may hold. *)
LEMMA SweptSize ==
    ASSUME NEW cache, NEW x \in Swept(cache)
    PROVE  Cardinality(Entered(x)) <= CacheSize
<1> DEFINE young == Young(cache)
           there == {k \in Contracts : young[k] # NoChain}
<1>1. PICK kept \in SUBSET there :
        /\ Cardinality(kept) = Min({CacheSize, Cardinality(there)})
        /\ x = [k \in Contracts |-> IF k \in kept THEN young[k] ELSE NoChain]
  BY Zenon DEF Swept
<1>2. \A k \in Contracts : k \in kept => young[k] # NoChain
  BY <1>1
<1>3. \A k \in Contracts : x[k] # NoChain <=> k \in kept
  <2> HIDE DEF young
  <2> QED
    BY <1>1, <1>2
<1>4. kept \subseteq Contracts
  BY <1>1
<1>5. Entered(x) = kept
  BY <1>3, <1>4 DEF Entered
<1>6. IsFiniteSet(there)
  BY ChainAssumption, FS_Subset
<1>7. CacheSize \in Int /\ Cardinality(there) \in Int
  BY <1>6, ChainAssumption, FS_CardinalityType
<1>8. Min({CacheSize, Cardinality(there)}) <= CacheSize
  <2> HIDE DEF there
  <2> QED
    BY <1>7, LeastOfTwo
<1> QED
  BY <1>1, <1>5, <1>8

LEMMA ChainRestInit == ChainInit => ChainRest
<1> SUFFICES ASSUME ChainInit PROVE ChainRest
  OBVIOUS
<1>1. Entered(chains) = {}
  BY DEF ChainInit, Entered
<1>2. Cardinality(Entered(chains)) <= CacheSize
  BY <1>1, FS_EmptySet, ChainAssumption
<1> QED
  BY <1>2, NoAttempt DEF ChainInit, ChainRest

LEMMA ChainRestNext == AgeInv /\ ChainRest /\ [ChainNext]_chainVars => ChainRest'
<1> SUFFICES ASSUME AgeInv, ChainRest, [ChainNext]_chainVars PROVE ChainRest'
  OBVIOUS
<1>0. /\ call \in [Callers -> Calls] /\ \A t \in Callers : Attempts(call[t])
      /\ DOMAIN answer = Callers /\ DOMAIN chains = Contracts /\ clock \in Ticks
      /\ \A t \in Callers : answer[t] # NoChain => answer[t] \in [read : Ticks, at : Ticks]
      /\ Cardinality(Entered(chains)) <= CacheSize
      /\ \A k \in Contracts : chains[k] # NoChain => chains[k] \in Entries
  BY DEF AgeInv, ChainRest, AgedEntry
<1>1. ASSUME NEW t \in Callers, ThreadStep(t) PROVE ChainRest'
  <2>1. PICK w \in Calls : call' = [call EXCEPT ![t] = w] /\ Attempts(w)
    BY <1>0, <1>1, AttemptSteps
  <2>2. \A u \in Callers : Attempts(call'[u])
    BY <1>0, <2>1
  <2>3. CASE UNCHANGED <<chains, answer>>
    BY <1>0, <2>2, <2>3 DEF ChainRest, Entered
  <2>4. ASSUME NEW x \in [read : Ticks, at : Ticks], answer' = [answer EXCEPT ![t] = x]
        PROVE  \A u \in Callers : answer'[u] # NoChain => answer'[u] \in [read : Ticks, at : Ticks]
    BY <1>0, <2>4
  <2>5. ASSUME NEW k \in Contracts, Hit(t, k) PROVE ChainRest'
    <3>1. chains[k] \in Entries /\ UNCHANGED chains
          /\ answer' = [answer EXCEPT ![t] = [read |-> chains[k].read, at |-> clock]]
      BY <1>0, <2>5 DEF Hit, Fresh
    <3>2. [read |-> chains[k].read, at |-> clock] \in [read : Ticks, at : Ticks]
      BY <1>0, <3>1 DEF Entries
    <3> QED
      BY <1>0, <2>2, <2>4, <3>1, <3>2 DEF ChainRest, Entered
  <2>6. ASSUME NEW k \in Contracts, Miss(t, k) PROVE ChainRest'
    <3>1. chains' = [chains EXCEPT ![k] = NoChain] /\ UNCHANGED answer
      BY <2>6 DEF Miss
    <3>2. Entered(chains') \subseteq Entered(chains)
      BY <1>0, <3>1 DEF Entered
    <3>3. IsFiniteSet(Entered(chains))
      BY ChainAssumption, FS_Subset DEF Entered
    <3>4. Cardinality(Entered(chains')) <= Cardinality(Entered(chains))
          /\ IsFiniteSet(Entered(chains'))
      BY <3>2, <3>3, FS_Subset
    <3>5. Cardinality(Entered(chains')) <= CacheSize
      BY <1>0, <3>3, <3>4, FS_CardinalityType, ChainAssumption
    <3> QED
      BY <1>0, <2>2, <3>1, <3>5 DEF ChainRest, Entered
  <2>7. CASE Receive(t)
    <3>1. answer' = [answer EXCEPT ![t] = [read |-> call[t].read, at |-> clock]]
          /\ chains' \in Swept([chains EXCEPT ![call[t].key] =
                                  [read |-> call[t].read, stored |-> clock]])
      BY <2>7 DEF Receive
    <3>2. [read |-> call[t].read, at |-> clock] \in [read : Ticks, at : Ticks]
      BY <1>0 DEF Calls
    <3>3. Cardinality(Entered(chains')) <= CacheSize
      BY <3>1, SweptSize
    <3>4. Cardinality(Entered(chains))' <= CacheSize
      BY <3>3 DEF Entered
    <3> QED
      BY <2>2, <2>4, <3>1, <3>2, <3>4 DEF ChainRest
  <2> QED
    BY <1>1, <2>3, <2>5, <2>6, <2>7
    DEF ThreadStep, TakeToken, WaitForToken, Send, Read, RateLimited, Unauthorised, RequestFails
<1>2. CASE Later \/ UNCHANGED chainVars
  <2>1. UNCHANGED <<chains, call, answer>>
    BY <1>2 DEF Later, chainVars
  <2> QED
    BY <1>0, <2>1 DEF ChainRest, Entered
<1> QED
  BY <1>1, <1>2 DEF ChainNext, ThreadStep

(* The state of the endpoint stays within its types, for any number of
   threads, contracts, entries and attempts: the cache holds no more entries
   than it may, the bucket no more tokens than it has room for, and no
   thread makes more attempts than it is allowed. *)
THEOREM ChainTyped == ChainSpec => []ChainTypeOK
<1>1. BudgetInv /\ ChainRest => ChainTypeOK
  <2> SUFFICES ASSUME BudgetInv, ChainRest PROVE ChainTypeOK
    OBVIOUS
  <2>1. /\ clock \in Ticks /\ tokens \in 0 .. BucketSize * Share /\ refilled \in 0 .. clock
        /\ call \in [Callers -> Calls]
    BY DEF BudgetInv, AgeInv, Full
  <2>2. \A k \in Contracts : chains[k] # NoChain => chains[k] \in [read : Ticks, stored : Ticks]
    BY DEF BudgetInv, AgeInv, AgedEntry, Entries
  <2>3. ASSUME NEW t \in Callers
        PROVE  call[t] \in [pc : {"idle", "token", "ready", "sent", "read"},
                            key : Contracts \cup {NoChain}, attempt : 0 .. Retries + 1,
                            paid : BOOLEAN, at : Ticks, read : Ticks]
    <3>1. call[t] \in Calls /\ call[t].attempt \in 0 .. Retries + 1
      BY <2>1 DEF ChainRest, Attempts
    <3> QED
      BY <3>1 DEF Calls
  <2> QED
    BY <2>1, <2>2, <2>3 DEF ChainRest, Entered, ChainTypeOK
<1>2. BudgetInv => AgeInv
  BY DEF BudgetInv
<1> QED
  BY <1>1, <1>2, BudgetInitInv, BudgetNextInv, ChainRestInit, ChainRestNext, PTL DEF ChainSpec
-----------------------------------------------------------------------------
(***************************************************************************)
(* The backtest run.  What has come in is in the delta, in the table, or   *)
(* in a save that failed, and these are apart while the run is on; the     *)
(* page's own save at the end never runs after one that counted.           *)
(***************************************************************************)

RunInv ==
    /\ run \in Nat /\ collected \subseteq Symbols /\ collected \cap pending = {}
    /\ delta \subseteq collected /\ lost \subseteq collected /\ resent \subseteq collected
    /\ resent \cap (delta \cup lost) = {}
    /\ stage \in {"scoring", "checkpoint"} => delta \cap lost = {}
    /\ stage = "fetching" => collected = {}
    /\ stage = "returned" /\ collected # {} => progress # 0
    /\ stage # "idle" \/ collected # {} => run \in 1 .. LastRun
    /\ saved \in [(1 .. LastRun) \X Symbols -> Nat]
    /\ \A r \in 1 .. LastRun, s \in Symbols :
         r > run \/ (r = run /\ s \notin collected) => saved[<<r, s>>] = 0
    /\ SavedOnce

LEMMA RunInitInv == RunInit => RunInv
<1> SUFFICES ASSUME RunInit PROVE RunInv
  OBVIOUS
<1>1. \A r \in 1 .. LastRun, s \in Symbols : saved[<<r, s>>] = 0
  BY DEF RunInit
<1>2. saved \in [(1 .. LastRun) \X Symbols -> Nat]
  BY DEF RunInit
<1>3. SavedOnce
  BY DEF RunInit, SavedOnce
<1> QED
  BY <1>1, <1>2, <1>3 DEF RunInit, RunInv

LEMMA OneOrNone ==
    ASSUME NEW s, NEW part
    PROVE  Cardinality({s} \cap part) = IF s \in part THEN 1 ELSE 0
<1>1. CASE s \in part
  <2>1. {s} \cap part = {s}
    BY <1>1
  <2> QED
    BY <1>1, <2>1, FS_Singleton
<1>2. CASE s \notin part
  <2>1. {s} \cap part = {}
    BY <1>2
  <2> QED
    BY <1>2, <2>1, FS_EmptySet
<1> QED
  BY <1>1, <1>2

(* What a save does to the rows of a run. *)
LEMMA SavedRows ==
    ASSUME saved \in [(1 .. LastRun) \X Symbols -> Nat], NEW d, NEW part, NEW twice,
           Save(d, part, twice)
    PROVE  /\ saved' \in [(1 .. LastRun) \X Symbols -> Nat]
           /\ \A r \in 1 .. LastRun, s \in Symbols :
                saved'[<<r, s>>] = IF r # run THEN saved[<<r, s>>]
                               ELSE saved[<<r, s>>] + (IF s \in part THEN 1 ELSE 0)
                                                + (IF s \in twice THEN 1 ELSE 0)
<1> DEFINE more(x) == IF x[1] # run THEN saved[x]
                      ELSE saved[x] + Cardinality({x[2]} \cap part) + Cardinality({x[2]} \cap twice)
<1>1. saved' = [x \in (1 .. LastRun) \X Symbols |-> more(x)]
  BY DEF Save
<1>2. \A x \in (1 .. LastRun) \X Symbols : saved[x] \in Nat
  OBVIOUS
<1>3. \A s : /\ Cardinality({s} \cap part) = (IF s \in part THEN 1 ELSE 0)
             /\ Cardinality({s} \cap twice) = (IF s \in twice THEN 1 ELSE 0)
  BY OneOrNone
<1>4. \A x \in (1 .. LastRun) \X Symbols : more(x) \in Nat
  BY <1>2, <1>3
<1>5. ASSUME NEW r \in 1 .. LastRun, NEW s \in Symbols
      PROVE  saved'[<<r, s>>] = IF r # run THEN saved[<<r, s>>]
                            ELSE saved[<<r, s>>] + (IF s \in part THEN 1 ELSE 0)
                                             + (IF s \in twice THEN 1 ELSE 0)
  <2>1. <<r, s>> \in (1 .. LastRun) \X Symbols
    OBVIOUS
  <2>2. saved'[<<r, s>>] = more(<<r, s>>)
    BY <1>1, <2>1
  <2> QED
    BY <1>3, <2>2
<1> HIDE DEF more
<1>6. saved' \in [(1 .. LastRun) \X Symbols -> Nat]
  BY <1>1, <1>4
<1> QED
  BY <1>5, <1>6

LEMMA FireInv ==
    ASSUME RunInv, NEW next \in {"scoring", "returned"}, NEW part \in SUBSET delta,
           NEW twice \in SUBSET part, stage \in {"scoring", "checkpoint"},
           next = "returned" => pending = {}, Fire(next, part, twice)
    PROVE  RunInv'
<1>1. /\ stage' = next /\ delta' = {} /\ lost' = lost \cup (delta \ part)
      /\ resent' = resent \cup twice /\ progress' = Cardinality(Symbols \ pending)
      /\ UNCHANGED <<run, pending, failed, collected>>
  BY DEF Fire, Save
<1>2. /\ saved' \in [(1 .. LastRun) \X Symbols -> Nat]
      /\ \A r \in 1 .. LastRun, s \in Symbols :
           saved'[<<r, s>>] = IF r # run THEN saved[<<r, s>>]
                          ELSE saved[<<r, s>>] + (IF s \in part THEN 1 ELSE 0)
                                           + (IF s \in twice THEN 1 ELSE 0)
  BY SavedRows DEF RunInv, Fire
<1>3. run \in 1 .. LastRun /\ delta \cap lost = {} /\ delta \subseteq collected
  BY DEF RunInv
<1>4. SavedOnce'
  <2>1. ASSUME NEW s \in collected
        PROVE  saved'[<<run, s>>] = IF s \in resent' THEN 2 ELSE IF s \in delta' \cup lost' THEN 0 ELSE 1
    <3>1. s \in Symbols
      BY DEF RunInv
    <3>2. saved[<<run, s>>] = IF s \in resent THEN 2 ELSE IF s \in delta \cup lost THEN 0 ELSE 1
      BY DEF RunInv, SavedOnce
    <3>3. saved'[<<run, s>>] = saved[<<run, s>>] + (IF s \in part THEN 1 ELSE 0)
                                         + (IF s \in twice THEN 1 ELSE 0)
      BY <1>2, <1>3, <3>1
    <3>4. s \in delta => s \notin resent /\ s \notin lost
      BY <1>3 DEF RunInv
    <3> QED
      BY <1>1, <3>2, <3>3, <3>4
  <2> QED
    BY <1>1, <2>1 DEF SavedOnce
<1>5. \A r \in 1 .. LastRun, s \in Symbols :
        r > run' \/ (r = run' /\ s \notin collected') => saved'[<<r, s>>] = 0
  <2> SUFFICES ASSUME NEW r \in 1 .. LastRun, NEW s \in Symbols,
                      r > run \/ (r = run /\ s \notin collected)
               PROVE  saved'[<<r, s>>] = 0
    BY <1>1
  <2>1. saved[<<r, s>>] = 0
    BY DEF RunInv
  <2>2. r = run => s \notin part /\ s \notin twice
    BY <1>3
  <2> QED
    BY <1>2, <2>1, <2>2
<1>6. stage' = "returned" /\ collected' # {} => progress' # 0
  <2>1. IsFiniteSet(Symbols) /\ collected \subseteq Symbols
    BY RunAssumption DEF RunInv
  <2>2. collected # {} => Cardinality(Symbols) # 0
    BY <2>1, FS_EmptySet
  <2>3. next = "returned" => Symbols \ pending = Symbols
    OBVIOUS
  <2> QED
    BY <1>1, <2>2, <2>3
<1>7. lost' \subseteq collected' /\ resent' \subseteq collected'
      /\ resent' \cap (delta' \cup lost') = {}
  BY <1>1, <1>3 DEF RunInv
<1> QED
  BY <1>1, <1>2, <1>3, <1>4, <1>5, <1>6, <1>7 DEF RunInv

LEMMA RunNextInv == RunInv /\ [RunNext]_runVars => RunInv'
<1> SUFFICES ASSUME RunInv, [RunNext]_runVars PROVE RunInv'
  OBVIOUS
<1>0. \A s \in collected :
        saved[<<run, s>>] = IF s \in resent THEN 2 ELSE IF s \in delta \cup lost THEN 0 ELSE 1
  BY DEF RunInv, SavedOnce
<1>1. CASE Start
  <2>1. /\ run' = run + 1 /\ stage' = "fetching" /\ UNCHANGED saved /\ run < LastRun
        /\ collected' = {} /\ delta' = {} /\ lost' = {} /\ resent' = {}
    BY <1>1 DEF Start
  <2>2. run \in Nat /\ run' \in 1 .. LastRun
    BY <2>1, RunAssumption DEF RunInv
  <2>3. \A r \in 1 .. LastRun, s \in Symbols : r >= run' => r > run
    BY <2>1, <2>2
  <2>4. \A r \in 1 .. LastRun, s \in Symbols : r >= run' => saved'[<<r, s>>] = 0
    BY <2>1, <2>3 DEF RunInv
  <2>5. SavedOnce'
    BY <2>1 DEF SavedOnce
  <2>6. \A r \in 1 .. LastRun : r > run' \/ r = run' => r >= run'
    BY <2>2
  <2>7. saved' \in [(1 .. LastRun) \X Symbols -> Nat]
    BY <2>1 DEF RunInv
  <2> QED
    BY <2>1, <2>2, <2>4, <2>5, <2>6, <2>7 DEF RunInv
<1>2. CASE Fetched
  BY <1>2 DEF Fetched, RunInv, SavedOnce
<1>3. CASE FetchFails
  BY <1>3 DEF FetchFails, Fault, RunInv, SavedOnce
<1>4. CASE Finish
  <2>1. ~(progress = 0 /\ collected # {})
    BY <1>4 DEF Finish, RunInv
  <2>2. UNCHANGED <<run, pending, collected, delta, progress, saved, lost, resent>>
        /\ stage' = "idle"
    BY <1>4, <2>1 DEF Finish
  <2> QED
    BY <2>2 DEF RunInv, SavedOnce
<1>5. CASE Interrupt \/ Kill
  <2>1. UNCHANGED <<run, pending, collected, delta, saved, resent>> /\ stage' = "idle"
        /\ lost' = lost \cup delta
    BY <1>5 DEF Interrupt, Kill
  <2> QED
    BY <1>0, <2>1 DEF RunInv, SavedOnce
<1>6. ASSUME NEW s \in Symbols, NEW result \in {"trades", "none", "raised"}, Complete(s, result)
      PROVE  RunInv'
  <2>1. /\ UNCHANGED <<run, saved, lost, resent>> /\ stage' \in {"checkpoint", "scoring"}
        /\ stage = "scoring" /\ s \in pending /\ pending' = pending \ {s}
        /\ \/ collected' = collected \cup {s} /\ delta' = delta \cup {s}
           \/ UNCHANGED <<collected, delta>>
    BY <1>6 DEF Complete
  <2>2. s \notin collected /\ run \in 1 .. LastRun
    BY <2>1 DEF RunInv
  <2>3. saved[<<run, s>>] = 0
    BY <2>2 DEF RunInv
  <2>4. SavedOnce'
    BY <1>0, <2>1, <2>2, <2>3 DEF RunInv, SavedOnce
  <2> QED
    BY <2>1, <2>2, <2>4 DEF RunInv
<1>7. ASSUME NEW part \in SUBSET delta, NEW twice \in SUBSET part, Checkpoint(part, twice)
      PROVE  RunInv'
  BY <1>7, FireInv DEF Checkpoint
<1>8. ASSUME NEW part \in SUBSET delta, NEW twice \in SUBSET part, FinalCheckpoint(part, twice)
      PROVE  RunInv'
  BY <1>8, FireInv DEF FinalCheckpoint
<1>9. CASE UNCHANGED runVars
  BY <1>9 DEF runVars, RunInv, SavedOnce
<1> QED
  BY <1>1, <1>2, <1>3, <1>4, <1>5, <1>6, <1>7, <1>8, <1>9 DEF RunNext

(* A trade is saved once, for any symbols and any distance between the
   checkpoints, however the run ends. *)
THEOREM TradesSavedOnce == RunSpec => []SavedOnce
<1>1. RunInv => SavedOnce
  BY DEF RunInv
<1> QED
  BY <1>1, RunInitInv, RunNextInv, PTL DEF RunSpec

\* The rest of the state: the counters within their bounds, what the session shows of a run.
RunRest ==
    /\ run <= LastRun /\ stage \in {"idle", "fetching", "scoring", "checkpoint", "returned"}
    /\ pending \subseteq Symbols /\ failed \subseteq Symbols
    /\ since \in 0 .. Every /\ (stage \in {"fetching", "scoring"} => since < Every)
    /\ shown \in [run : 0 .. LastRun, trades : SUBSET Symbols]
    /\ progress \in 0 .. Cardinality(Symbols) /\ faults \in 0 .. MaxFaults

LEMMA RunNumbers ==
    /\ Every \in Nat /\ Every > 0 /\ LastRun \in Nat /\ MaxFaults \in Nat
    /\ \A done \in SUBSET Symbols : Cardinality(done) \in 0 .. Cardinality(Symbols)
<1>1. IsFiniteSet(Symbols)
  BY RunAssumption
<1>2. ASSUME NEW done \in SUBSET Symbols PROVE Cardinality(done) \in 0 .. Cardinality(Symbols)
  <2>1. IsFiniteSet(done) /\ Cardinality(done) <= Cardinality(Symbols)
    BY <1>1, FS_Subset
  <2>2. Cardinality(done) \in Nat /\ Cardinality(Symbols) \in Nat
    BY <1>1, <2>1, FS_CardinalityType
  <2> QED
    BY <2>1, <2>2
<1> QED
  BY <1>2, RunAssumption

LEMMA RunRestInit == RunInit => RunRest
<1>1. Cardinality({}) \in 0 .. Cardinality(Symbols)
  BY RunNumbers
<1>2. 0 \in 0 .. Cardinality(Symbols)
  BY <1>1, FS_EmptySet
<1> QED
  BY <1>2, RunNumbers DEF RunInit, RunRest, NothingShown

LEMMA RunRestNext == RunInv /\ RunRest /\ [RunNext]_runVars => RunRest'
<1> SUFFICES ASSUME RunInv, RunRest, [RunNext]_runVars PROVE RunRest'
  OBVIOUS
<1>0. /\ Every \in Nat /\ Every > 0 /\ LastRun \in Nat /\ MaxFaults \in Nat
      /\ run \in Nat /\ run \in 0 .. LastRun /\ collected \subseteq Symbols
  BY RunNumbers DEF RunInv, RunRest
<1>1. CASE Start
  BY <1>0, <1>1 DEF Start, RunRest
<1>2. CASE Fetched
  BY <1>2 DEF Fetched, RunRest
<1>3. CASE FetchFails
  <2>1. /\ stage' = "idle" /\ faults' = faults + 1 /\ faults < MaxFaults
        /\ UNCHANGED <<run, pending, failed, since, progress>>
        /\ shown' = [shown EXCEPT !.run = IF shown.trades = {} THEN shown.run ELSE run]
    BY <1>3 DEF FetchFails, Fault
  <2>2. shown' \in [run : 0 .. LastRun, trades : SUBSET Symbols]
    BY <1>0, <2>1 DEF RunRest
  <2> QED
    BY <1>0, <2>1, <2>2 DEF RunRest
<1>4. CASE Finish
  BY <1>0, <1>4 DEF Finish, RunRest
<1>5. CASE Interrupt
  BY <1>0, <1>5 DEF Interrupt, RunRest
<1>6. CASE Kill
  <2>1. Cardinality({}) \in 0 .. Cardinality(Symbols) /\ Cardinality({}) = 0
    BY RunNumbers, FS_EmptySet
  <2> QED
    BY <1>0, <1>6, <2>1 DEF Kill, Fault, NothingShown, RunRest
<1>7. ASSUME NEW s \in Symbols, NEW result \in {"trades", "none", "raised"}, Complete(s, result)
      PROVE  RunRest'
  BY <1>0, <1>7 DEF Complete, RunRest
<1>8. ASSUME NEW part \in SUBSET delta, NEW twice \in SUBSET part,
             Checkpoint(part, twice) \/ FinalCheckpoint(part, twice)
      PROVE  RunRest'
  <2>1. /\ stage' \in {"scoring", "returned"} /\ since' = 0
        /\ shown' = [run |-> run, trades |-> collected]
        /\ progress' = Cardinality(Symbols \ pending) /\ UNCHANGED <<run, pending, failed>>
    BY <1>8 DEF Checkpoint, FinalCheckpoint, Fire
  <2>2. faults' = faults \/ (faults < MaxFaults /\ faults' = faults + 1)
    BY <1>8 DEF Checkpoint, FinalCheckpoint, Stored, Fault
  <2>3. Symbols \ pending \in SUBSET Symbols
    OBVIOUS
  <2>4. progress' \in 0 .. Cardinality(Symbols)
    BY <2>1, <2>3, RunNumbers
  <2> QED
    BY <1>0, <2>1, <2>2, <2>4 DEF RunRest
<1>9. CASE UNCHANGED runVars
  BY <1>9 DEF runVars, RunRest
<1> QED
  BY <1>1, <1>2, <1>3, <1>4, <1>5, <1>6, <1>7, <1>8, <1>9 DEF RunNext

(* The state of a run stays within its types: a batch is handed over before
   it is longer than the distance between two checkpoints, and the progress
   shown is never more than there are symbols. *)
THEOREM RunTyped == RunSpec => []RunTypeOK
<1>1. RunInv /\ RunRest => RunTypeOK
  <2> SUFFICES ASSUME RunInv, RunRest PROVE RunTypeOK
    OBVIOUS
  <2>1. run \in 0 .. LastRun /\ collected \subseteq Symbols
    BY RunNumbers DEF RunInv, RunRest
  <2>2. lost \subseteq Symbols /\ resent \subseteq Symbols
    BY <2>1 DEF RunInv
  <2> QED
    BY <2>1, <2>2 DEF RunInv, RunRest, RunTypeOK
<1> QED
  BY <1>1, RunInitInv, RunNextInv, RunRestInit, RunRestNext, PTL DEF RunSpec
-----------------------------------------------------------------------------
(***************************************************************************)
(* The price history.  Of the histories a scan works on, and of a memory   *)
(* loaded today, every bar before today is there and final; of the others  *)
(* every bar before the last.                                              *)
(***************************************************************************)

\* The bars before day n are final, or their fetch has failed.
FinalBefore(h, n) == \A d \in Days : d < n => h.bars[d] = "final" \/ d \in h.gaps

\* What a history may be on day n, and what it is when it has been synchronised on it.
Sound(h, n) ==
    /\ h \in History /\ FinalBefore(h, LastOf(h))
    /\ \A d \in Days : d > n => h.bars[d] = "none"

CaughtUp(h, n) == Sound(h, n) /\ FinalBefore(h, n)

AllSound(data, n) ==
    DOMAIN data = Tickers /\ \A s \in Tickers : data[s] # NoHistory => Sound(data[s], n)

AllCaughtUp(data, n) ==
    DOMAIN data = Tickers /\ \A s \in Tickers : data[s] # NoHistory => CaughtUp(data[s], n)

MemorySound(m, n) ==
    /\ m.loaded \in Nat /\ m.loaded <= n
    /\ AllSound(m.data, n)
    /\ m.loaded = n => AllCaughtUp(m.data, n)

ScanSound(x, n) ==
    /\ x = [pc |-> x.pc, source |-> x.source, data |-> x.data, fallback |-> x.fallback]
    /\ x.pc \in {"idle", "fallback", "patch"} /\ x.source \in Sources
    /\ AllSound(x.data, n)
    /\ x.pc # "idle" => AllCaughtUp(x.data, n)

HistoryInv ==
    /\ day \in Days /\ phase \in {"pre", "open", "closed"}
    /\ DOMAIN disk = Sources /\ \A b \in Sources : AllSound(disk[b], day)
    /\ DOMAIN memory = Sources /\ \A b \in Sources : MemorySound(memory[b], day)
    /\ ScanSound(scan, day)
    /\ \A task \in queue : task.source \in Sources /\ AllSound(task.data, day)

LEMMA HistoryInvLater ==
    ASSUME day' \in Days, phase' \in {"pre", "open", "closed"},
           DOMAIN disk' = Sources, \A b \in Sources : AllSound(disk'[b], day'),
           DOMAIN memory' = Sources, \A b \in Sources : MemorySound(memory'[b], day'),
           ScanSound(scan', day'),
           \A task \in queue' : task.source \in Sources /\ AllSound(task.data, day')
    PROVE  HistoryInv'
BY DEF HistoryInv, AllSound, AllCaughtUp, MemorySound, ScanSound, CaughtUp, Sound, FinalBefore,
       LastOf

LEMMA Calendar ==
    /\ LastDay \in Nat /\ LastDay >= 1 /\ 1 \in Days
    /\ \A d \in Days : d \in Nat /\ d >= 1 /\ d <= LastDay
    /\ \A d \in Nat : d >= 1 /\ d <= LastDay => d \in Days
BY StoreAssumption DEF Days

(* The last bar of a history. *)
LEMMA LastBarIs ==
    ASSUME NEW h \in History
    PROVE  /\ LastOf(h) \in Nat
           /\ \A d \in Days : h.bars[d] # "none" => d <= LastOf(h)
           /\ LastOf(h) # 0 => LastOf(h) \in Days /\ h.bars[LastOf(h)] # "none"
<1> DEFINE S == {0} \cup {d \in Days : h.bars[d] # "none"}
<1>1. S \in SUBSET Int /\ S # {} /\ S \subseteq 0 .. LastDay
  BY Calendar
<1>2. IsFiniteSet(S)
  <2>1. 0 \in Int /\ LastDay \in Int
    BY Calendar
  <2>2. IsFiniteSet(0 .. LastDay)
    BY <2>1, FS_Interval
  <2> HIDE DEF S
  <2> QED
    BY <1>1, <2>2, FS_Subset
<1>3. Max(S) \in S /\ \A y \in S : y <= Max(S)
  BY <1>1, <1>2, Greatest
<1>4. LastOf(h) = Max(S)
  BY DEF LastOf
<1>5. \A d \in Days : h.bars[d] # "none" => d \in S
  OBVIOUS
<1>6. \A x \in S : x = 0 \/ (x \in Days /\ h.bars[x] # "none")
  OBVIOUS
<1> HIDE DEF S
<1>7. \A x \in S : x \in Nat
  BY <1>6, Calendar
<1> DEFINE top == Max(S)
<1>8. top \in S /\ (\A y \in S : y <= top) /\ LastOf(h) = top
  BY <1>3, <1>4
<1> HIDE DEF top
<1> QED
  BY <1>5, <1>6, <1>7, <1>8

LEMMA CaughtUpWhen ==
    ASSUME NEW h \in History, NEW n \in Days, FinalBefore(h, n),
           \A d \in Days : d > n => h.bars[d] = "none"
    PROVE  CaughtUp(h, n)
<1>1. LastOf(h) <= n
  <2>1. LastOf(h) \in Nat /\ n \in Nat
        /\ (LastOf(h) # 0 => LastOf(h) \in Days /\ h.bars[LastOf(h)] # "none")
    BY LastBarIs, Calendar
  <2> QED
    BY <2>1
<1>2. FinalBefore(h, LastOf(h))
  <2>1. LastOf(h) \in Nat /\ n \in Nat
    BY LastBarIs, Calendar
  <2> QED
    BY <1>1, <2>1, Calendar DEF FinalBefore
<1> QED
  BY <1>2 DEF CaughtUp, Sound

(* The bars of a provider. *)
LEMMA ProvidedBars ==
    ASSUME day \in Days, phase \in {"pre", "open", "closed"}, NEW from \in Nat
    PROVE  /\ Provided(from) \in [Days -> Qualities]
           /\ \A d \in Days : d < from \/ d > day => Provided(from)[d] = "none"
           /\ \A d \in Days : d >= from /\ d < day => Provided(from)[d] = "final"
BY Calendar DEF Provided, Qualities

LEMMA TailStartIs ==
    ASSUME day \in Days, NEW h \in History
    PROVE  /\ TailStart(h) \in Nat /\ TailStart(h) >= 1
           /\ TailStart(h) > day => LastOf(h) >= day
           /\ TailStart(h) <= day => TailStart(h) <= 1 \/ TailStart(h) <= LastOf(h)
<1>1. day \in Nat /\ day >= 1 /\ LastOf(h) \in Nat
  BY Calendar, LastBarIs
<1>2. Max({1, LastOf(h)}) = IF 1 >= LastOf(h) THEN 1 ELSE LastOf(h)
  BY <1>1, GreatestOfTwo
<1> QED
  BY <1>1, <1>2 DEF TailStart

(* A history that comes back from the store has been synchronised. *)
LEMMA FetchedCaughtUp ==
    ASSUME HistoryInv, NEW b \in Sources, NEW s \in Tickers, NEW answered \in BOOLEAN,
           Fetch(b, s, answered) # NoHistory
    PROVE  CaughtUp(Fetch(b, s, answered), day)
<1> DEFINE h == disk[b][s]
<1>0. day \in Days /\ phase \in {"pre", "open", "closed"} /\ day \in Nat
  BY Calendar DEF HistoryInv
<1>1. CASE Stale(b, s)
  <2> DEFINE x == [bars |-> Provided(1), gaps |-> {}]
  <2>1. Fetch(b, s, answered) = x
    BY <1>1 DEF Fetch
  <2>2. x \in History /\ x.bars = Provided(1)
    BY <1>0, ProvidedBars DEF History
  <2> HIDE DEF x
  <2>3. FinalBefore(x, day) /\ \A d \in Days : d > day => x.bars[d] = "none"
    BY <1>0, <2>2, ProvidedBars, Calendar DEF FinalBefore
  <2> QED
    BY <1>0, <2>1, <2>2, <2>3, CaughtUpWhen
<1>2. CASE ~Stale(b, s)
  <2>1. Sound(h, day)
    BY <1>2 DEF Stale, HistoryInv, AllSound
  <2>2. h \in History /\ FinalBefore(h, LastOf(h)) /\ LastOf(h) \in Nat
        /\ \A d \in Days : d > day => h.bars[d] = "none"
    BY <2>1, LastBarIs DEF Sound
  <2> DEFINE from == TailStart(h)
  <2>3. /\ from \in Nat /\ from >= 1
        /\ from > day => LastOf(h) >= day
        /\ from <= day => from <= 1 \/ from <= LastOf(h)
    BY <1>0, <2>2, TailStartIs
  <2>4. CASE from > day
    <3>1. Fetch(b, s, answered) = h
      BY <1>2, <2>4 DEF Fetch
    <3>2. FinalBefore(h, day)
      BY <1>0, <2>2, <2>3, <2>4, Calendar DEF FinalBefore
    <3> QED
      BY <2>1, <3>1, <3>2 DEF CaughtUp
  <2>5. \A d \in Days : d < from /\ from <= day => h.bars[d] = "final" \/ d \in h.gaps
    BY <1>0, <2>2, <2>3, Calendar DEF FinalBefore
  <2>6. CASE from <= day /\ answered
    <3> DEFINE rows == Provided(from)
               x == Refetched(h)
    <3>1. Fetch(b, s, answered) = x
      BY <1>0, <1>2, <2>3, <2>6 DEF Fetch
    <3>2. /\ rows \in [Days -> Qualities]
          /\ \A d \in Days : d < from \/ d > day => rows[d] = "none"
          /\ \A d \in Days : d >= from /\ d < day => rows[d] = "final"
      BY <1>0, <2>3, ProvidedBars
    <3> DEFINE bars == [d \in Days |-> IF rows[d] # "none" THEN rows[d] ELSE h.bars[d]]
    <3>3. x = [h EXCEPT !.bars = bars]
      BY DEF Refetched
    <3> HIDE DEF x, rows, from
    <3>4. bars \in [Days -> Qualities] /\ \A d \in Days : bars[d] = IF rows[d] # "none" THEN rows[d] ELSE h.bars[d]
      BY <2>2, <3>2 DEF History
    <3> HIDE DEF bars
    <3>5. x \in History /\ x.bars = bars /\ x.gaps = h.gaps
      BY <2>2, <3>3, <3>4 DEF History
    <3>6. FinalBefore(x, day)
      <4> SUFFICES ASSUME NEW d \in Days, d < day PROVE bars[d] = "final" \/ d \in h.gaps
        BY <3>5 DEF FinalBefore
      <4>1. CASE d >= from
        BY <3>2, <3>4, <4>1
      <4>2. CASE d < from
        BY <2>5, <2>6, <3>2, <3>4, <4>2
      <4> QED
        BY <2>3, <4>1, <4>2, Calendar
    <3>7. \A d \in Days : d > day => x.bars[d] = "none"
      BY <2>2, <3>2, <3>4, <3>5
    <3> QED
      BY <1>0, <3>1, <3>5, <3>6, <3>7, CaughtUpWhen
  <2>7. CASE from <= day /\ ~answered
    <3> DEFINE gaps == h.gaps \cup from .. day
               x == [h EXCEPT !.gaps = gaps]
    <3>1. Fetch(b, s, answered) = x
      BY <1>0, <1>2, <2>3, <2>7 DEF Fetch
    <3>2. gaps \subseteq Days
      BY <1>0, <2>2, <2>3, Calendar DEF History
    <3>3. x \in History /\ x.bars = h.bars /\ x.gaps = gaps
      <4> HIDE DEF gaps
      <4> QED
        BY <2>2, <3>2 DEF History
    <3> HIDE DEF x
    <3>4. FinalBefore(x, day)
      BY <1>0, <2>3, <2>5, <2>7, <3>3, Calendar DEF FinalBefore
    <3> QED
      BY <1>0, <2>2, <3>1, <3>3, <3>4, CaughtUpWhen
  <2> QED
    BY <1>0, <2>3, <2>4, <2>6, <2>7
<1> QED
  BY <1>1, <1>2

LEMMA SoundParts ==
    ASSUME NEW n
    PROVE  /\ \A x, y : AllSound(x, n) /\ AllSound(y, n) => AllSound(Over(x, y), n)
           /\ \A x, y : AllCaughtUp(x, n) /\ AllCaughtUp(y, n) => AllCaughtUp(Over(x, y), n)
           /\ \A x, wanted : AllSound(x, n) => AllSound(Of(x, wanted), n)
           /\ \A x, wanted : AllCaughtUp(x, n) => AllCaughtUp(Of(x, wanted), n)
           /\ \A x : AllCaughtUp(x, n) => AllSound(x, n)
           /\ AllCaughtUp([s \in Tickers |-> NoHistory], n)
<1>1. \A x, y : AllSound(x, n) /\ AllSound(y, n) => AllSound(Over(x, y), n)
  BY DEF AllSound, Over
<1>2. \A x, y : AllCaughtUp(x, n) /\ AllCaughtUp(y, n) => AllCaughtUp(Over(x, y), n)
  BY DEF AllCaughtUp, Over
<1>3. \A x, wanted : AllSound(x, n) => AllSound(Of(x, wanted), n)
  BY DEF AllSound, Of
<1>4. \A x, wanted : AllCaughtUp(x, n) => AllCaughtUp(Of(x, wanted), n)
  BY DEF AllCaughtUp, Of
<1>5. \A x : AllCaughtUp(x, n) => AllSound(x, n)
  BY DEF AllCaughtUp, AllSound, CaughtUp
<1>6. AllCaughtUp([s \in Tickers |-> NoHistory], n)
  BY DEF AllCaughtUp
<1> QED
  BY <1>1, <1>2, <1>3, <1>4, <1>5, <1>6

LEMMA GotCaughtUp ==
    ASSUME HistoryInv, NEW b \in Sources, NEW fetch, NEW answered
    PROVE  AllCaughtUp([s \in Tickers |-> IF s \in fetch THEN Fetch(b, s, s \in answered)
                                         ELSE NoHistory], day)
<1>1. ASSUME NEW s \in Tickers, Fetch(b, s, s \in answered) # NoHistory
      PROVE  CaughtUp(Fetch(b, s, s \in answered), day)
  <2> DEFINE a == s \in answered
  <2>1. a \in BOOLEAN /\ Fetch(b, s, a) # NoHistory
    BY <1>1
  <2> HIDE DEF a
  <2>2. CaughtUp(Fetch(b, s, a), day)
    BY <2>1, FetchedCaughtUp
  <2> QED
    BY <2>2 DEF a
<1> DEFINE got(s) == Fetch(b, s, s \in answered)
<1>2. \A s \in Tickers : got(s) # NoHistory => CaughtUp(got(s), day)
  BY <1>1
<1> HIDE DEF got
<1>3. AllCaughtUp([s \in Tickers |-> IF s \in fetch THEN got(s) ELSE NoHistory], day)
  BY <1>2 DEF AllCaughtUp
<1> QED
  BY <1>3 DEF got

(* What a scan gets from get_live_history_cached, and what it leaves. *)
LEMMA LoadedCaughtUp ==
    ASSUME HistoryInv, NEW b \in Sources, NEW wanted \in SUBSET Tickers,
           NEW answered \in SUBSET Tickers
    PROVE  AllCaughtUp(Loaded(b, wanted, answered), day)
<1> DEFINE fetch == ToFetch(b, wanted)
           got == [s \in Tickers |-> IF s \in fetch THEN Fetch(b, s, s \in answered) ELSE NoHistory]
           kept == IF memory[b].loaded # day THEN [s \in Tickers |-> NoHistory] ELSE memory[b].data
<1>2. AllCaughtUp(got, day)
  BY GotCaughtUp
<1>3. AllCaughtUp(kept, day)
  BY SoundParts DEF HistoryInv, MemorySound
<1>4. Loaded(b, wanted, answered) = Over(got, kept)
  BY DEF Loaded
<1> HIDE DEF got, kept
<1>5. AllCaughtUp(Over(got, kept), day)
  BY <1>2, <1>3, SoundParts
<1> QED
  BY <1>4, <1>5

LEMMA GetLiveSound ==
    ASSUME HistoryInv, NEW b \in Sources, NEW wanted \in SUBSET Tickers,
           NEW answered \in SUBSET Tickers, GetLive(b, wanted, answered)
    PROVE  /\ DOMAIN disk' = Sources /\ \A c \in Sources : AllSound(disk'[c], day)
           /\ DOMAIN memory' = Sources /\ \A c \in Sources : MemorySound(memory'[c], day)
<1> DEFINE data == Loaded(b, wanted, answered)
           fetch == ToFetch(b, wanted)
           got == [s \in Tickers |-> IF s \in fetch THEN Fetch(b, s, s \in answered) ELSE NoHistory]
           m == [loaded |-> day, data |-> data]
<1>0. /\ DOMAIN disk = Sources /\ \A c \in Sources : AllSound(disk[c], day)
      /\ DOMAIN memory = Sources /\ \A c \in Sources : MemorySound(memory[c], day)
      /\ day \in Nat
  BY Calendar DEF HistoryInv
<1>1. disk' = [disk EXCEPT ![b] = Over(got, disk[b])]
  BY DEF GetLive, GetHistory
<1>2. memory' = [memory EXCEPT ![b] = m]
  BY DEF GetLive
<1>3. AllSound(got, day)
  <2>2. AllCaughtUp(got, day)
    BY GotCaughtUp
  <2> HIDE DEF got
  <2> QED
    BY <2>2, SoundParts
<1>4. MemorySound(m, day)
  <2>1. AllCaughtUp(data, day)
    BY LoadedCaughtUp
  <2>2. m.loaded = day /\ m.data = data
    OBVIOUS
  <2> HIDE DEF data, m
  <2> QED
    BY <1>0, <2>1, <2>2, SoundParts DEF MemorySound
<1> HIDE DEF got, m
<1>5. AllSound(Over(got, disk[b]), day)
  BY <1>0, <1>3, SoundParts
<1> QED
  BY <1>0, <1>1, <1>2, <1>4, <1>5

(* A quote over a synchronised history: the bar it overwrites or adds is
   today's, or the last session's and final. *)
LEMMA PatchedCaughtUp ==
    ASSUME day \in Days, phase \in {"pre", "open", "closed"}, NEW b \in Sources,
           NEW h, CaughtUp(h, day)
    PROVE  CaughtUp(Patched(h, b), day)
<1> DEFINE q == QuoteDay(b)
           bars == [h.bars EXCEPT ![q] = QuoteQuality(b)]
           x == [h EXCEPT !.bars[q] = QuoteQuality(b)]
<1>0. /\ h \in History /\ FinalBefore(h, day) /\ day \in Nat
      /\ \A d \in Days : d > day => h.bars[d] = "none"
  BY Calendar DEF CaughtUp, Sound
<1>1. q \in {day - 1, day} /\ q \in Nat /\ (q < day => QuoteQuality(b) = "final")
      /\ QuoteQuality(b) \in Qualities
  BY <1>0, Calendar DEF QuoteDay, QuoteQuality, Qualities
<1>2. CASE q = 0
  BY <1>2 DEF Patched
<1>3. CASE q # 0
  <2>1. Patched(h, b) = x
    BY <1>3 DEF Patched
  <2>2. q \in Days
    BY <1>0, <1>1, <1>3, Calendar
  <2>3. x = [h EXCEPT !.bars = bars]
    OBVIOUS
  <2>4. bars \in [Days -> Qualities]
        /\ \A d \in Days : bars[d] = IF d = q THEN QuoteQuality(b) ELSE h.bars[d]
    BY <1>0, <1>1, <2>2 DEF History
  <2> HIDE DEF x, bars, q
  <2>5. x \in History /\ x.bars = bars /\ x.gaps = h.gaps
    BY <1>0, <2>3, <2>4 DEF History
  <2>6. FinalBefore(x, day)
    BY <1>0, <1>1, <2>4, <2>5 DEF FinalBefore
  <2>7. \A d \in Days : d > day => x.bars[d] = "none"
    BY <1>0, <1>1, <2>4, <2>5, Calendar
  <2> QED
    BY <2>1, <2>5, <2>6, <2>7, CaughtUpWhen
<1> QED
  BY <1>2, <1>3

LEMMA ScanRecord ==
    ASSUME NEW x, NEW pc, NEW data, NEW fallback, NEW y,
           x = [pc |-> x.pc, source |-> x.source, data |-> x.data, fallback |-> x.fallback],
           y = [x EXCEPT !.pc = pc, !.data = data, !.fallback = fallback]
    PROVE  /\ y.pc = pc /\ y.source = x.source /\ y.data = data
           /\ y = [pc |-> y.pc, source |-> y.source, data |-> y.data, fallback |-> y.fallback]
OBVIOUS

LEMMA HistoryInitInv == HistoryInit => HistoryInv
<1> SUFFICES ASSUME HistoryInit PROVE HistoryInv
  OBVIOUS
<1> DEFINE nothing == [s \in Tickers |-> NoHistory]
<1>1. /\ day = 1 /\ phase = "pre" /\ queue = {} /\ scan = NoScan
      /\ disk = [b \in Sources |-> nothing]
      /\ memory = [b \in Sources |-> [loaded |-> 0, data |-> nothing]]
  BY DEF HistoryInit
<1>2. AllSound(nothing, day)
  BY DEF AllSound
<1>3. ScanSound(scan, day)
  BY <1>1, <1>2 DEF NoScan, ScanSound, Sources
<1> HIDE DEF nothing
<1>4. \A b \in Sources : MemorySound(memory[b], day)
  BY <1>1, <1>2 DEF MemorySound
<1> QED
  BY <1>1, <1>2, <1>3, <1>4, Calendar DEF HistoryInv

LEMMA PatchInv ==
    ASSUME HistoryInv, NEW stale \in SUBSET Tickers, NEW quoted \in SUBSET stale,
           PatchAndUpdate(stale, quoted)
    PROVE  HistoryInv'
<1> DEFINE data == [s \in Tickers |-> IF s \in quoted THEN Patched(scan.data[s], scan.source)
                                     ELSE scan.data[s]]
           primary == stale \ scan.fallback
           other == stale \cap scan.fallback
           updated == (IF primary # {} THEN {scan.source} ELSE {})
                        \cup (IF other # {} THEN {"yfinance"} ELSE {})
           first == Flushed(scan.source, data, primary)
           second == Flushed("yfinance", data, other)
<1>0. /\ day \in Days /\ phase \in {"pre", "open", "closed"}
      /\ DOMAIN memory = Sources /\ \A b \in Sources : MemorySound(memory[b], day)
      /\ \A task \in queue : task.source \in Sources /\ AllSound(task.data, day)
      /\ scan.source \in Sources /\ AllCaughtUp(scan.data, day)
      /\ stale \subseteq Held(scan.data) /\ day \in Nat
  BY Calendar DEF PatchAndUpdate, HistoryInv, ScanSound
<1>1. /\ memory' = [b \in Sources |-> IF b \in updated THEN Merged(b, data) ELSE memory[b]]
      /\ queue' = Submitted(Submitted(queue, first), second)
      /\ scan' = NoScan /\ UNCHANGED <<day, phase, disk>>
  BY DEF PatchAndUpdate
<1>2. AllCaughtUp(data, day)
  <2>1. ASSUME NEW s \in Tickers PROVE data[s] # NoHistory => CaughtUp(data[s], day)
    <3>1. scan.data[s] # NoHistory => CaughtUp(scan.data[s], day)
      BY <1>0 DEF AllCaughtUp
    <3>2. s \in quoted => scan.data[s] # NoHistory
      BY <1>0 DEF Held
    <3>3. s \in quoted => CaughtUp(Patched(scan.data[s], scan.source), day)
      BY <1>0, <3>1, <3>2, PatchedCaughtUp
    <3> QED
      BY <3>1, <3>3
  <2> QED
    BY <2>1 DEF AllCaughtUp
<1>3. \A task \in first \cup second : task.source \in Sources /\ AllSound(task.data, day)
  <2> HIDE DEF data
  <2>1. AllSound(data, day)
    BY <1>2, SoundParts
  <2>2. AllSound(Of(data, primary), day) /\ AllSound(Of(data, other), day)
    BY <2>1, SoundParts
  <2> HIDE DEF primary, other
  <2> QED
    BY <1>0, <2>2 DEF Flushed, Sources
<1> HIDE DEF data, updated, first, second
<1>4. \A task \in queue' : task.source \in Sources /\ AllSound(task.data, day)
  BY <1>0, <1>1, <1>3 DEF Submitted
<1>5. ASSUME NEW b \in Sources PROVE MemorySound(memory'[b], day)
  <2>1. CASE b \in updated
    <3> DEFINE all == IF memory[b].loaded # day THEN data ELSE Over(data, memory[b].data)
               m == [loaded |-> day, data |-> all]
    <3>1. memory'[b] = m
      BY <1>1, <2>1 DEF Merged
    <3>2. AllCaughtUp(all, day)
      <4>1. CASE memory[b].loaded # day
        BY <1>2, <4>1
      <4>2. CASE memory[b].loaded = day
        <5>1. AllCaughtUp(Over(data, memory[b].data), day)
          BY <1>0, <1>2, <4>2, SoundParts DEF MemorySound
        <5> QED
          BY <4>2, <5>1
      <4> QED
        BY <4>1, <4>2
    <3>3. m.loaded = day /\ m.data = all
      OBVIOUS
    <3> HIDE DEF all, m
    <3> QED
      BY <1>0, <3>1, <3>2, <3>3, SoundParts DEF MemorySound
  <2>2. CASE b \notin updated
    BY <1>0, <1>1, <2>2
  <2> QED
    BY <2>1, <2>2
<1>6. ScanSound(NoScan, day)
  <2>1. AllSound([s \in Tickers |-> NoHistory], day)
    BY DEF AllSound
  <2> QED
    BY <2>1 DEF NoScan, ScanSound, Sources
<1>7. DOMAIN disk' = Sources /\ \A b \in Sources : AllSound(disk'[b], day)
  BY <1>1 DEF HistoryInv
<1> QED
  BY <1>0, <1>1, <1>4, <1>5, <1>6, <1>7, HistoryInvLater

LEMMA HistoryNextInv == HistoryInv /\ [HistoryNext]_historyVars => HistoryInv'
<1> SUFFICES ASSUME HistoryInv, [HistoryNext]_historyVars PROVE HistoryInv'
  OBVIOUS
<1>0. /\ day \in Days /\ day \in Nat /\ phase \in {"pre", "open", "closed"}
      /\ DOMAIN disk = Sources /\ \A b \in Sources : AllSound(disk[b], day)
      /\ DOMAIN memory = Sources /\ \A b \in Sources : MemorySound(memory[b], day)
      /\ ScanSound(scan, day)
      /\ \A task \in queue : task.source \in Sources /\ AllSound(task.data, day)
  BY Calendar DEF HistoryInv
<1>1. ASSUME NEW answered \in SUBSET Tickers, NEW b \in Feeds, LoadPrimary(b, answered)
      PROVE  HistoryInv'
  <2> DEFINE data == Loaded(b, Tickers, answered)
             x == [pc |-> IF b = "upstox" /\ Tickers \ Held(data) # {} THEN "fallback" ELSE "patch",
                   source |-> b, data |-> data, fallback |-> {}]
  <2>1. b \in Sources
    BY StoreAssumption DEF Sources
  <2>2. GetLive(b, Tickers, answered) /\ scan' = x /\ UNCHANGED <<day, phase, queue>>
    BY <1>1 DEF LoadPrimary
  <2>3. /\ DOMAIN disk' = Sources /\ \A c \in Sources : AllSound(disk'[c], day)
        /\ DOMAIN memory' = Sources /\ \A c \in Sources : MemorySound(memory'[c], day)
    BY <2>1, <2>2, GetLiveSound
  <2>4. AllCaughtUp(data, day)
    BY <2>1, LoadedCaughtUp
  <2> HIDE DEF data
  <2>5. AllSound(data, day)
    BY <2>4, SoundParts
  <2>6. ScanSound(x, day)
    BY <2>1, <2>4, <2>5 DEF ScanSound
  <2> HIDE DEF x
  <2> QED
    BY <1>0, <2>2, <2>3, <2>6, HistoryInvLater
<1>2. ASSUME NEW answered \in SUBSET Tickers, LoadFallback(answered) PROVE HistoryInv'
  <2> DEFINE missing == Tickers \ Held(scan.data)
             data == Of(Loaded("yfinance", missing, answered), missing)
             all == Over(scan.data, data)
             held == Held(data)
             x == [scan EXCEPT !.pc = "patch", !.data = all, !.fallback = held]
  <2>1. "yfinance" \in Sources /\ missing \in SUBSET Tickers
    BY DEF Sources
  <2>2. GetLive("yfinance", missing, answered) /\ scan.pc = "fallback"
        /\ UNCHANGED <<day, phase, queue>>
    BY <1>2 DEF LoadFallback
  <2>3. scan' = x
    BY <1>2 DEF LoadFallback
  <2>4. /\ DOMAIN disk' = Sources /\ \A c \in Sources : AllSound(disk'[c], day)
        /\ DOMAIN memory' = Sources /\ \A c \in Sources : MemorySound(memory'[c], day)
    BY <2>1, <2>2, GetLiveSound
  <2>5. AllCaughtUp(Loaded("yfinance", missing, answered), day)
    BY <2>1, LoadedCaughtUp
  <2>6. AllCaughtUp(data, day)
    BY <2>5, SoundParts
  <2>7. AllCaughtUp(scan.data, day)
    BY <1>0, <2>2 DEF ScanSound
  <2> HIDE DEF data
  <2>8. AllCaughtUp(all, day)
    BY <2>6, <2>7, SoundParts
  <2> HIDE DEF all, held
  <2>9. AllSound(all, day)
    BY <2>8, SoundParts
  <2>10. ScanSound(x, day)
    <3>1. scan = [pc |-> scan.pc, source |-> scan.source, data |-> scan.data,
                  fallback |-> scan.fallback] /\ scan.source \in Sources
      BY <1>0 DEF ScanSound
    <3>2. x.pc = "patch" /\ x.source = scan.source /\ x.data = all
          /\ x = [pc |-> x.pc, source |-> x.source, data |-> x.data, fallback |-> x.fallback]
      <4> DEFINE y == x
      <4>1. y = [scan EXCEPT !.pc = "patch", !.data = all, !.fallback = held]
        OBVIOUS
      <4> HIDE DEF y
      <4>2. y.pc = "patch" /\ y.source = scan.source /\ y.data = all
            /\ y = [pc |-> y.pc, source |-> y.source, data |-> y.data, fallback |-> y.fallback]
        BY <3>1, <4>1, ScanRecord
      <4> QED
        BY <4>1, <4>2
    <3> HIDE DEF x
    <3> QED
      BY <2>8, <2>9, <3>1, <3>2 DEF ScanSound
  <2> HIDE DEF x
  <2> QED
    BY <1>0, <2>2, <2>3, <2>4, <2>10, HistoryInvLater
<1>3. ASSUME NEW stale \in SUBSET Tickers, NEW quoted \in SUBSET stale,
             PatchAndUpdate(stale, quoted)
      PROVE  HistoryInv'
  BY <1>3, PatchInv
<1>4. ASSUME NEW task \in queue, Flush(task) PROVE HistoryInv'
  <2>1. /\ disk' = [disk EXCEPT ![task.source] = Over(task.data, disk[task.source])]
        /\ queue' \subseteq queue /\ UNCHANGED <<day, phase, memory, scan>>
    BY <1>4 DEF Flush
  <2>2. task.source \in Sources
    BY <1>0
  <2>3. AllSound(Over(task.data, disk[task.source]), day)
    BY <1>0, <2>2, SoundParts
  <2>4. DOMAIN disk' = Sources /\ \A b \in Sources : AllSound(disk'[b], day)
    BY <1>0, <2>1, <2>2, <2>3
  <2> QED
    BY <1>0, <2>1, <2>4, HistoryInvLater
<1>5. ASSUME NEW wiped \in BOOLEAN, Restart(wiped) PROVE HistoryInv'
  <2> DEFINE nothing == [s \in Tickers |-> NoHistory]
             m == [loaded |-> 0, data |-> nothing]
  <2>1. /\ memory' = [b \in Sources |-> m]
        /\ queue' = {} /\ scan' = NoScan /\ UNCHANGED <<day, phase>>
        /\ disk' = IF wiped THEN [b \in Sources |-> nothing] ELSE disk
    BY <1>5 DEF Restart
  <2>2. AllSound(nothing, day)
    BY DEF AllSound
  <2>3. ScanSound(NoScan, day)
    BY <2>2 DEF NoScan, ScanSound, Sources
  <2>4. m.loaded = 0 /\ m.data = nothing
    OBVIOUS
  <2> HIDE DEF nothing, m
  <2>5. MemorySound(m, day)
    BY <1>0, <2>2, <2>4, Calendar DEF MemorySound
  <2>6. DOMAIN disk' = Sources /\ \A b \in Sources : AllSound(disk'[b], day)
    BY <1>0, <2>1, <2>2
  <2> QED
    BY <1>0, <2>1, <2>3, <2>5, <2>6, HistoryInvLater
<1>6. CASE NextPhase
  <2>1. phase' \in {"pre", "open", "closed"} /\ UNCHANGED <<day, disk, memory, queue, scan>>
    BY <1>6 DEF NextPhase
  <2> QED
    BY <1>0, <2>1, HistoryInvLater
<1>7. CASE NextDay
  <2>1. day' = day + 1 /\ day < LastDay /\ phase' = "pre" /\ scan.pc = "idle"
        /\ UNCHANGED <<disk, memory, queue, scan>>
    BY <1>7 DEF NextDay
  <2>2. day + 1 \in Days
    BY <1>0, <2>1, Calendar
  <2>3. \A h : Sound(h, day) => Sound(h, day + 1)
    BY <1>0, Calendar DEF Sound
  <2>4. \A data : AllSound(data, day) => AllSound(data, day + 1)
    BY <2>3 DEF AllSound
  <2>5. \A b \in Sources : MemorySound(memory[b], day + 1)
    BY <1>0, <2>4 DEF MemorySound
  <2>6. ScanSound(scan, day + 1)
    BY <1>0, <2>1, <2>4 DEF ScanSound
  <2> QED
    BY <1>0, <2>1, <2>2, <2>4, <2>5, <2>6, HistoryInvLater
<1>8. CASE UNCHANGED historyVars
  <2>1. UNCHANGED <<day, phase, disk, memory, queue, scan>>
    BY <1>8 DEF historyVars
  <2> QED
    BY <1>0, <2>1, HistoryInvLater
<1> QED
  BY <1>1, <1>2, <1>3, <1>4, <1>5, <1>6, <1>7, <1>8 DEF HistoryNext

(* No bar taken while the market was open stays behind a later one, for any
   symbols, days and capacity of the queue, whatever fails. *)
THEOREM ClosesFinal == HistorySpec => []InnerBarsFinal
<1>1. HistoryInv => InnerBarsFinal
  <2> SUFFICES ASSUME HistoryInv, NEW h \in Frames \ {NoHistory} PROVE Sound(h, day)
    BY DEF InnerBarsFinal, Sound, FinalBefore
  <2>1. \A b \in Sources : AllSound(disk[b], day) /\ AllSound(memory[b].data, day)
    BY DEF HistoryInv, MemorySound
  <2>2. AllSound(scan.data, day) /\ \A task \in queue : AllSound(task.data, day)
    BY DEF HistoryInv, ScanSound
  <2>3. \/ \E b \in Sources, s \in Tickers : h \in {disk[b][s], memory[b].data[s], scan.data[s]}
        \/ \E task \in queue, s \in Tickers : h = task.data[s]
    BY DEF Frames
  <2> QED
    BY <2>1, <2>2, <2>3 DEF AllSound
<1> QED
  BY <1>1, HistoryInitInv, HistoryNextInv, PTL DEF HistorySpec

(***************************************************************************)
(* The rest of the store's state: what the types say beyond what is sound. *)
(***************************************************************************)

Shaped(data) == data = [s \in Tickers |-> data[s]]

MemoryShaped(m) == m = [loaded |-> m.loaded, data |-> m.data] /\ Shaped(m.data)

TaskShaped(task) == task = [source |-> task.source, data |-> task.data] /\ Shaped(task.data)

FilesShaped ==
    /\ disk = [b \in Sources |-> disk[b]] /\ \A b \in Sources : Shaped(disk[b])
    /\ fullAt \in [Sources -> [Tickers -> 0 .. LastDay]]

MemoriesShaped ==
    memory = [b \in Sources |-> memory[b]] /\ \A b \in Sources : MemoryShaped(memory[b])

ScanShaped == Shaped(scan.data) /\ scan.fallback \subseteq Tickers

QueueShaped ==
    /\ \A task \in queue : TaskShaped(task)
    /\ IsFiniteSet(queue) /\ Cardinality(queue) <= Capacity

HistoryRest ==
    /\ FilesShaped /\ MemoriesShaped /\ ScanShaped /\ QueueShaped
    /\ mishaps \in 0 .. MaxMishaps

LEMMA ShapedData ==
    /\ Shaped([s \in Tickers |-> NoHistory])
    /\ \A new, old : Shaped(Over(new, old))
    /\ \A data, wanted : Shaped(Of(data, wanted))
BY DEF Shaped, Over, Of

(* An entry of a table by source is changed. *)
LEMMA TableUpdated ==
    ASSUME NEW f, f = [c \in Sources |-> f[c]], NEW b \in Sources, NEW x, NEW g,
           g = [f EXCEPT ![b] = x]
    PROVE  g = [c \in Sources |-> g[c]] /\ \A c \in Sources : g[c] = IF c = b THEN x ELSE f[c]
OBVIOUS

LEMMA GetLiveShaped ==
    ASSUME HistoryInv, HistoryRest, NEW b \in Sources, NEW wanted, NEW answered,
           GetLive(b, wanted, answered)
    PROVE  FilesShaped' /\ MemoriesShaped' /\ mishaps' \in 0 .. MaxMishaps
<1> DEFINE fetch == ToFetch(b, wanted)
           got == [s \in Tickers |-> IF s \in fetch THEN Fetch(b, s, s \in answered) ELSE NoHistory]
           filled == Over(got, disk[b])
           dates == [s \in Tickers |->
                      IF s \in fetch \cap answered /\ Stale(b, s) THEN day ELSE fullAt[b][s]]
           m == [loaded |-> day, data |-> Loaded(b, wanted, answered)]
<1>0. /\ day \in Days /\ day \in 0 .. LastDay
      /\ disk = [c \in Sources |-> disk[c]] /\ \A c \in Sources : Shaped(disk[c])
      /\ fullAt \in [Sources -> [Tickers -> 0 .. LastDay]]
      /\ memory = [c \in Sources |-> memory[c]] /\ \A c \in Sources : MemoryShaped(memory[c])
      /\ mishaps \in 0 .. MaxMishaps
  BY Calendar DEF HistoryInv, HistoryRest, FilesShaped, MemoriesShaped
<1>1. GetHistory(b, fetch, answered) /\ memory' = [memory EXCEPT ![b] = m]
  BY DEF GetLive
<1>2. disk' = [disk EXCEPT ![b] = filled]
  BY <1>1 DEF GetHistory
<1>3. fullAt' = [fullAt EXCEPT ![b] = dates]
  BY <1>1 DEF GetHistory
<1>4. mishaps' = mishaps \/ (mishaps < MaxMishaps /\ mishaps' = mishaps + 1)
  BY DEF GetLive, Answered, Mishap
<1>5. mishaps' \in 0 .. MaxMishaps
  BY <1>0, <1>4, StoreAssumption
<1>6. Shaped(filled)
  BY ShapedData
<1>7. Shaped(Loaded(b, wanted, answered))
  BY ShapedData DEF Loaded
<1>8. MemoryShaped(m)
  BY <1>7 DEF MemoryShaped
<1>9. dates \in [Tickers -> 0 .. LastDay]
  <2> HIDE DEF fetch
  <2> QED
    BY <1>0
<1> HIDE DEF fetch, filled, dates, m
<1>10. FilesShaped'
  <2>1. disk' = [c \in Sources |-> disk'[c]]
        /\ \A c \in Sources : disk'[c] = IF c = b THEN filled ELSE disk[c]
    BY <1>0, <1>2, TableUpdated
  <2>2. fullAt' \in [Sources -> [Tickers -> 0 .. LastDay]]
    BY <1>0, <1>3, <1>9
  <2>3. \A c \in Sources : Shaped(disk'[c])
    BY <1>0, <1>6, <2>1
  <2> QED
    BY <2>1, <2>2, <2>3 DEF FilesShaped, Shaped
<1>11. MemoriesShaped'
  <2>1. memory' = [c \in Sources |-> memory'[c]]
        /\ \A c \in Sources : memory'[c] = IF c = b THEN m ELSE memory[c]
    BY <1>0, <1>1, TableUpdated
  <2>2. \A c \in Sources : MemoryShaped(memory'[c])
    BY <1>0, <1>8, <2>1
  <2> QED
    BY <2>1, <2>2 DEF MemoriesShaped, MemoryShaped, Shaped
<1> QED
  BY <1>5, <1>10, <1>11

(* The queue takes a task only while it has room. *)
LEMMA SubmittedShaped ==
    ASSUME NEW tasks, NEW more, IsFiniteSet(tasks), IsFiniteSet(more),
           Cardinality(tasks) <= Capacity,
           \A task \in tasks \cup more : TaskShaped(task)
    PROVE  /\ \A task \in Submitted(tasks, more) : TaskShaped(task)
           /\ IsFiniteSet(Submitted(tasks, more)) /\ Cardinality(Submitted(tasks, more)) <= Capacity
<1>1. /\ Cardinality(tasks) \in Nat /\ Cardinality(more) \in Nat /\ Capacity \in Nat
      /\ IsFiniteSet(tasks \cap more) /\ Cardinality(tasks \cap more) \in Nat
  BY FS_CardinalityType, FS_Intersection, StoreAssumption
<1>2. /\ IsFiniteSet(tasks \cup more)
      /\ Cardinality(tasks \cup more)
           = Cardinality(tasks) + Cardinality(more) - Cardinality(tasks \cap more)
  BY FS_Union
<1> QED
  BY <1>1, <1>2 DEF Submitted

LEMMA FlushedShaped ==
    ASSUME NEW b, NEW data, NEW dirty
    PROVE  IsFiniteSet(Flushed(b, data, dirty)) /\ \A task \in Flushed(b, data, dirty) : TaskShaped(task)
<1>1. Shaped(Of(data, dirty))
  BY ShapedData
<1>2. IsFiniteSet({}) /\ IsFiniteSet({[source |-> b, data |-> Of(data, dirty)]})
  BY FS_EmptySet, FS_Singleton
<1> QED
  BY <1>1, <1>2 DEF Flushed, TaskShaped

LEMMA PatchShaped ==
    ASSUME HistoryRest, NEW stale \in SUBSET Tickers, NEW quoted \in SUBSET stale,
           PatchAndUpdate(stale, quoted)
    PROVE  HistoryRest'
<1> DEFINE data == [s \in Tickers |-> IF s \in quoted THEN Patched(scan.data[s], scan.source)
                                     ELSE scan.data[s]]
           primary == stale \ scan.fallback
           other == stale \cap scan.fallback
           updated == (IF primary # {} THEN {scan.source} ELSE {})
                        \cup (IF other # {} THEN {"yfinance"} ELSE {})
           first == Flushed(scan.source, data, primary)
           second == Flushed("yfinance", data, other)
<1>1. /\ memory' = [b \in Sources |-> IF b \in updated THEN Merged(b, data) ELSE memory[b]]
      /\ queue' = Submitted(Submitted(queue, first), second)
      /\ scan' = NoScan /\ UNCHANGED <<disk, fullAt, mishaps>>
  BY DEF PatchAndUpdate
<1>2. Shaped(data)
  BY DEF Shaped
<1> HIDE DEF data
<1>3. \A b \in Sources : MemoryShaped(Merged(b, data))
  BY <1>2, ShapedData DEF Merged, MemoryShaped
<1>4. /\ IsFiniteSet(first) /\ \A task \in first : TaskShaped(task)
      /\ IsFiniteSet(second) /\ \A task \in second : TaskShaped(task)
  BY FlushedShaped
<1> HIDE DEF updated, first, second
<1>5. MemoriesShaped'
  <2>1. \A b \in Sources : MemoryShaped(memory[b])
    BY DEF HistoryRest, MemoriesShaped
  <2>2. \A b \in Sources : MemoryShaped(memory'[b])
    BY <1>1, <1>3, <2>1
  <2>3. memory' = [b \in Sources |-> memory'[b]]
    BY <1>1
  <2> QED
    BY <2>2, <2>3 DEF MemoriesShaped, MemoryShaped, Shaped
<1>6. QueueShaped'
  <2> DEFINE once == Submitted(queue, first)
  <2>1. /\ \A task \in once : TaskShaped(task)
        /\ IsFiniteSet(once) /\ Cardinality(once) <= Capacity
    BY <1>4, SubmittedShaped DEF HistoryRest, QueueShaped
  <2> HIDE DEF once
  <2>2. /\ \A task \in queue' : TaskShaped(task)
        /\ IsFiniteSet(queue') /\ Cardinality(queue') <= Capacity
    <3>1. queue' = Submitted(once, second)
      BY <1>1 DEF once
    <3> QED
      BY <1>4, <2>1, <3>1, SubmittedShaped
  <2> QED
    BY <2>2 DEF QueueShaped, TaskShaped, Shaped
<1>7. ScanShaped'
  BY <1>1, ShapedData DEF ScanShaped, NoScan, Shaped
<1> QED
  BY <1>1, <1>5, <1>6, <1>7 DEF HistoryRest, FilesShaped, Shaped

LEMMA HistoryRestInit == HistoryInit => HistoryRest
<1> SUFFICES ASSUME HistoryInit PROVE HistoryRest
  OBVIOUS
<1>1. FilesShaped
  <2>1. 0 \in 0 .. LastDay
    BY Calendar
  <2> QED
    BY <2>1, ShapedData DEF HistoryInit, FilesShaped
<1>2. MemoriesShaped
  BY ShapedData DEF HistoryInit, MemoriesShaped, MemoryShaped
<1>3. ScanShaped
  BY ShapedData DEF HistoryInit, ScanShaped, NoScan
<1>4. QueueShaped
  BY FS_EmptySet, StoreAssumption DEF HistoryInit, QueueShaped
<1> QED
  BY <1>1, <1>2, <1>3, <1>4, StoreAssumption DEF HistoryInit, HistoryRest

LEMMA HistoryRestNext == HistoryInv /\ HistoryRest /\ [HistoryNext]_historyVars => HistoryRest'
<1> SUFFICES ASSUME HistoryInv, HistoryRest, [HistoryNext]_historyVars PROVE HistoryRest'
  OBVIOUS
<1>0. FilesShaped /\ MemoriesShaped /\ ScanShaped /\ QueueShaped /\ mishaps \in 0 .. MaxMishaps
  BY DEF HistoryRest
<1>s. /\ UNCHANGED <<disk, fullAt>> => FilesShaped'
      /\ UNCHANGED memory => MemoriesShaped'
      /\ UNCHANGED scan => ScanShaped'
      /\ UNCHANGED queue => QueueShaped'
      /\ scan' = NoScan => ScanShaped'
  <2>1. UNCHANGED <<disk, fullAt>> => FilesShaped'
    BY <1>0 DEF FilesShaped, Shaped
  <2>2. UNCHANGED memory => MemoriesShaped'
    BY <1>0 DEF MemoriesShaped, MemoryShaped, Shaped
  <2>3. UNCHANGED scan => ScanShaped'
    BY <1>0 DEF ScanShaped, Shaped
  <2>4. UNCHANGED queue => QueueShaped'
    BY <1>0 DEF QueueShaped, TaskShaped, Shaped
  <2>5. scan' = NoScan => ScanShaped'
    BY ShapedData DEF ScanShaped, NoScan, Shaped
  <2> QED
    BY <2>1, <2>2, <2>3, <2>4, <2>5
<1>1. ASSUME NEW answered \in SUBSET Tickers, NEW b \in Feeds, LoadPrimary(b, answered)
      PROVE  HistoryRest'
  <2>1. b \in Sources
    BY StoreAssumption DEF Sources
  <2>2. GetLive(b, Tickers, answered) /\ UNCHANGED queue
        /\ scan'.data = Loaded(b, Tickers, answered) /\ scan'.fallback = {}
    BY <1>1 DEF LoadPrimary
  <2>3. FilesShaped' /\ MemoriesShaped' /\ mishaps' \in 0 .. MaxMishaps
    BY <2>1, <2>2, GetLiveShaped
  <2>4. Shaped(scan'.data)
    BY <2>2, ShapedData DEF Loaded
  <2> QED
    BY <1>s, <2>2, <2>3, <2>4 DEF HistoryRest, ScanShaped, Shaped
<1>2. ASSUME NEW answered \in SUBSET Tickers, LoadFallback(answered) PROVE HistoryRest'
  <2> DEFINE missing == Tickers \ Held(scan.data)
             data == Of(Loaded("yfinance", missing, answered), missing)
             all == Over(scan.data, data)
             held == Held(data)
             x == [scan EXCEPT !.pc = "patch", !.data = all, !.fallback = held]
  <2>1. "yfinance" \in Sources
    BY DEF Sources
  <2>2. GetLive("yfinance", missing, answered) /\ UNCHANGED queue
    BY <1>2 DEF LoadFallback
  <2>3. scan' = x
    BY <1>2 DEF LoadFallback
  <2>4. FilesShaped' /\ MemoriesShaped' /\ mishaps' \in 0 .. MaxMishaps
    BY <2>1, <2>2, GetLiveShaped
  <2>5. Shaped(all) /\ held \subseteq Tickers
    BY ShapedData DEF Held
  <2> HIDE DEF all, held
  <2>6. x.data = all /\ x.fallback = held
    <3>1. scan = [pc |-> scan.pc, source |-> scan.source, data |-> scan.data,
                  fallback |-> scan.fallback]
      BY DEF HistoryInv, ScanSound
    <3> QED
      BY <3>1
  <2> HIDE DEF x
  <2> QED
    BY <1>s, <2>2, <2>3, <2>4, <2>5, <2>6 DEF HistoryRest, ScanShaped, Shaped
<1>3. ASSUME NEW stale \in SUBSET Tickers, NEW quoted \in SUBSET stale,
             PatchAndUpdate(stale, quoted)
      PROVE  HistoryRest'
  BY <1>3, PatchShaped
<1>4. ASSUME NEW task \in queue, Flush(task) PROVE HistoryRest'
  <2> DEFINE filled == Over(task.data, disk[task.source])
  <2>1. /\ disk' = [disk EXCEPT ![task.source] = filled]
        /\ queue' = queue \ {task} /\ UNCHANGED <<fullAt, memory, scan, mishaps>>
    BY <1>4 DEF Flush
  <2>2. task.source \in Sources /\ Shaped(filled)
    BY ShapedData DEF HistoryInv
  <2> HIDE DEF filled
  <2>3. disk' = [c \in Sources |-> disk'[c]]
        /\ \A c \in Sources : disk'[c] = IF c = task.source THEN filled ELSE disk[c]
    BY <1>0, <2>1, <2>2, TableUpdated DEF FilesShaped
  <2>4. \A c \in Sources : Shaped(disk'[c])
    BY <1>0, <2>2, <2>3 DEF FilesShaped
  <2>5. FilesShaped'
    BY <1>0, <2>1, <2>3, <2>4 DEF FilesShaped, Shaped
  <2>6. IsFiniteSet(queue') /\ Cardinality(queue') <= Cardinality(queue)
        /\ Cardinality(queue') \in Nat /\ Cardinality(queue) \in Nat
    <3>1. queue' \in SUBSET queue /\ IsFiniteSet(queue)
      BY <1>0, <2>1 DEF QueueShaped
    <3> QED
      BY <3>1, FS_Subset, FS_CardinalityType
  <2>7. Cardinality(queue') <= Capacity
    BY <1>0, <2>6, StoreAssumption DEF QueueShaped
  <2>8. QueueShaped'
    BY <1>0, <2>1, <2>6, <2>7 DEF QueueShaped, TaskShaped, Shaped
  <2> QED
    BY <1>0, <1>s, <2>1, <2>5, <2>8 DEF HistoryRest
<1>5. ASSUME NEW wiped \in BOOLEAN, Restart(wiped) PROVE HistoryRest'
  <2> DEFINE nothing == [s \in Tickers |-> NoHistory]
             m == [loaded |-> 0, data |-> nothing]
  <2>1. /\ memory' = [b \in Sources |-> m]
        /\ queue' = {} /\ scan' = NoScan /\ mishaps < MaxMishaps /\ mishaps' = mishaps + 1
        /\ disk' = IF wiped THEN [b \in Sources |-> nothing] ELSE disk
        /\ fullAt' = IF wiped THEN [b \in Sources |-> [s \in Tickers |-> 0]] ELSE fullAt
    BY <1>5 DEF Restart, Mishap
  <2>2. Shaped(nothing) /\ MemoryShaped(m)
    BY ShapedData DEF MemoryShaped
  <2>3. mishaps' \in 0 .. MaxMishaps
    BY <1>0, <2>1, StoreAssumption
  <2> HIDE DEF nothing, m
  <2>4. MemoriesShaped'
    BY <2>1, <2>2 DEF MemoriesShaped, MemoryShaped, Shaped
  <2>5. disk' = [b \in Sources |-> disk'[b]] /\ \A b \in Sources : Shaped(disk'[b])
    BY <1>0, <2>1, <2>2 DEF FilesShaped
  <2>6. fullAt' \in [Sources -> [Tickers -> 0 .. LastDay]]
    BY <1>0, <2>1, Calendar DEF FilesShaped
  <2>7. FilesShaped'
    BY <2>5, <2>6 DEF FilesShaped, Shaped
  <2>8. QueueShaped'
    BY <2>1, FS_EmptySet, StoreAssumption DEF QueueShaped
  <2> QED
    BY <1>s, <2>1, <2>3, <2>4, <2>7, <2>8 DEF HistoryRest
<1>6. CASE NextPhase \/ NextDay \/ UNCHANGED historyVars
  <2>1. UNCHANGED <<disk, fullAt, memory, queue, scan, mishaps>>
    BY <1>6 DEF NextPhase, NextDay, historyVars
  <2> QED
    BY <1>0, <1>s, <2>1 DEF HistoryRest
<1> QED
  BY <1>1, <1>2, <1>3, <1>4, <1>5, <1>6 DEF HistoryNext

(* The state of the store stays within its types, for any symbols, days,
   capacity and failures: the queue never holds more tasks than it accepts. *)
THEOREM HistoryTyped == HistorySpec => []HistoryTypeOK
<1>1. HistoryInv /\ HistoryRest => HistoryTypeOK
  <2> SUFFICES ASSUME HistoryInv, HistoryRest PROVE HistoryTypeOK
    OBVIOUS
  <2> DEFINE All == [Tickers -> History \cup {NoHistory}]
  <2>0. day \in Days /\ phase \in {"pre", "open", "closed"} /\ day \in Nat /\ day <= LastDay
    BY Calendar DEF HistoryInv
  <2>1. \A data : Shaped(data) /\ AllSound(data, day) => data \in All
    <3> SUFFICES ASSUME NEW data, Shaped(data), AllSound(data, day) PROVE data \in All
      OBVIOUS
    <3>1. \A s \in Tickers : data[s] \in History \cup {NoHistory}
      BY DEF AllSound, Sound
    <3> QED
      BY <3>1 DEF Shaped
  <2> HIDE DEF All
  <2>2. disk \in [Sources -> All]
    <3>1. \A b \in Sources : disk[b] \in All
      BY <2>1 DEF HistoryInv, HistoryRest, FilesShaped
    <3> QED
      BY <3>1 DEF HistoryRest, FilesShaped
  <2>3. memory \in [Sources -> [loaded : 0 .. LastDay, data : All]]
    <3>1. ASSUME NEW b \in Sources PROVE memory[b] \in [loaded : 0 .. LastDay, data : All]
      <4>1. memory[b] = [loaded |-> memory[b].loaded, data |-> memory[b].data]
            /\ Shaped(memory[b].data) /\ MemorySound(memory[b], day)
        BY DEF HistoryInv, HistoryRest, MemoriesShaped, MemoryShaped
      <4>2. memory[b].loaded \in 0 .. LastDay /\ memory[b].data \in All
        BY <2>0, <2>1, <4>1, Calendar DEF MemorySound
      <4> QED
        BY <4>1, <4>2
    <3> QED
      BY <3>1 DEF HistoryRest, MemoriesShaped
  <2>4. ASSUME NEW task \in queue PROVE task \in [source : Sources, data : All]
    <3>1. task = [source |-> task.source, data |-> task.data] /\ Shaped(task.data)
          /\ task.source \in Sources /\ AllSound(task.data, day)
      BY DEF HistoryInv, HistoryRest, QueueShaped, TaskShaped
    <3> QED
      BY <2>1, <3>1
  <2>5. scan \in [pc : {"idle", "fallback", "patch"}, source : Sources, data : All,
                  fallback : SUBSET Tickers]
    <3>1. /\ scan = [pc |-> scan.pc, source |-> scan.source, data |-> scan.data,
                     fallback |-> scan.fallback]
          /\ scan.pc \in {"idle", "fallback", "patch"} /\ scan.source \in Sources
          /\ AllSound(scan.data, day) /\ Shaped(scan.data) /\ scan.fallback \subseteq Tickers
      BY DEF HistoryInv, HistoryRest, ScanSound, ScanShaped
    <3> QED
      BY <2>1, <3>1
  <2>6. fullAt \in [Sources -> [Tickers -> 0 .. LastDay]] /\ Cardinality(queue) <= Capacity
        /\ mishaps \in 0 .. MaxMishaps
    BY DEF HistoryRest, FilesShaped, QueueShaped
  <2> QED
    BY <2>0, <2>2, <2>3, <2>4, <2>5, <2>6 DEF HistoryTypeOK, All
<1> QED
  BY <1>1, HistoryInitInv, HistoryNextInv, HistoryRestInit, HistoryRestNext, PTL DEF HistorySpec
-----------------------------------------------------------------------------
(***************************************************************************)
(* The market-hours gate: a written flag settles, for any processes,       *)
(* threads, lifetimes, toggles and failures.                               *)
(***************************************************************************)

LEMMA ConstantTypes ==
    /\ \A t \in Threads : Home[t] \in Procs
    /\ Empty \in [value : BOOLEAN, age : 0 .. GateTtl]
    /\ Settling \in Nat /\ 0 \in 0 .. GateTtl
BY GateAssumption DEF Empty, Settling

Cached == [value : BOOLEAN, age : 0 .. GateTtl]
ThreadStates == [pc : {"idle", "ask", "fill", "store"}, asker : {"loop", "page"},
                 got : BOOLEAN, late : BOOLEAN]

LEMMA OlderType ==
    ASSUME NEW c \in Cached
    PROVE  Older(c) \in Cached
BY GateAssumption DEF Cached, Older

LEMMA IdleType == Idle \in ThreadStates
BY DEF Idle, ThreadStates

LEMMA GotType ==
    ASSUME GateTypeOK, NEW t \in Threads, NEW value \in BOOLEAN
    PROVE  Got(t, value) \in ThreadStates
<1>1. thread[t] \in ThreadStates
  BY DEF GateTypeOK, ThreadStates
<1>2. [thread[t] EXCEPT !.pc = "store", !.got = value] \in ThreadStates
  BY <1>1 DEF ThreadStates
<1> QED
  BY <1>2, IdleType DEF Got

LEMMA ThreadTypes ==
    ASSUME GateTypeOK, NEW t \in Threads,
           (\E asker \in {"loop", "page"} : Ask(t, asker)) \/ RowHit(t) \/ Query(t)
             \/ FillRow(t) \/ QueryFails(t) \/ StoreGate(t)
    PROVE  GateTypeOK'
<1>0. /\ Home[t] \in Procs /\ thread[t] \in ThreadStates /\ thread \in [Threads -> ThreadStates]
      /\ rowCache[Home[t]] \in Cached
  BY ConstantTypes DEF GateTypeOK, ThreadStates, Cached
<1>1. ASSUME NEW asker \in {"loop", "page"}, Ask(t, asker) PROVE GateTypeOK'
  <2>1. [Idle EXCEPT !.pc = "ask", !.asker = asker] \in ThreadStates
    BY IdleType DEF ThreadStates
  <2>2. thread' \in [Threads -> ThreadStates]
    BY <1>0, <1>1, <2>1 DEF Ask
  <2> QED
    BY <1>1, <2>2 DEF Ask, GateTypeOK, ThreadStates
<1>2. CASE RowHit(t)
  <2>1. rowCache[Home[t]].value \in BOOLEAN
    BY <1>0 DEF Cached
  <2>2. thread' \in [Threads -> ThreadStates]
    BY <1>0, <1>2, <2>1, GotType DEF RowHit
  <2> QED
    BY <1>2, <2>2 DEF RowHit, GateTypeOK, ThreadStates
<1>3. CASE Query(t)
  <2>1. flag \in BOOLEAN
    BY DEF GateTypeOK
  <2>2. [thread[t] EXCEPT !.pc = "fill", !.got = flag] \in ThreadStates
    BY <1>0, <2>1 DEF ThreadStates
  <2>3. thread' = [thread EXCEPT ![t] = [thread[t] EXCEPT !.pc = "fill", !.got = flag]]
    BY <1>0, <1>3 DEF Query
  <2>4. thread' \in [Threads -> ThreadStates]
    BY <1>0, <2>2, <2>3
  <2>5. lockedBy' \in [Procs -> Threads \cup {Nobody}]
    BY <1>0, <1>3 DEF Query, GateTypeOK
  <2> QED
    BY <1>3, <2>4, <2>5 DEF Query, GateTypeOK, ThreadStates
<1>4. CASE FillRow(t) \/ QueryFails(t)
  <2>1. thread[t].got \in BOOLEAN /\ TRUE \in BOOLEAN
    BY <1>0 DEF ThreadStates
  <2>7. Got(t, thread[t].got) \in ThreadStates /\ Got(t, TRUE) \in ThreadStates
    BY <2>1, GotType
  <2>2. thread' \in [Threads -> ThreadStates]
    BY <1>0, <1>4, <2>7 DEF FillRow, QueryFails
  <2>3. lockedBy' \in [Procs -> Threads \cup {Nobody}]
    BY <1>0, <1>4 DEF FillRow, QueryFails, GateTypeOK
  <2>4. [value |-> thread[t].got, age |-> 0] \in Cached
    BY <2>1, ConstantTypes DEF Cached
  <2>5. rowCache' \in [Procs -> Cached]
    BY <1>0, <1>4, <2>4 DEF FillRow, QueryFails, GateTypeOK, Cached
  <2>6. settled' \in 0 .. Settling /\ failures' \in 0 .. MaxFailures
    <3>1. CASE FillRow(t)
      BY <3>1 DEF FillRow, GateTypeOK
    <3>2. CASE QueryFails(t)
      BY <3>2, ConstantTypes, GateAssumption DEF QueryFails, GateTypeOK
    <3> QED
      BY <1>4, <3>1, <3>2
  <2> QED
    BY <1>4, <2>2, <2>3, <2>5, <2>6 DEF FillRow, QueryFails, GateTypeOK, ThreadStates, Cached
<1>5. CASE StoreGate(t)
  <2>1. thread[t].got \in BOOLEAN
    BY <1>0 DEF ThreadStates
  <2>2. [value |-> thread[t].got, age |-> 0] \in Cached
    BY <2>1, ConstantTypes DEF Cached
  <2>3. gateCache' \in [Procs -> Cached]
    BY <1>0, <1>5, <2>2 DEF StoreGate, GateTypeOK, Cached
  <2>4. thread' \in [Threads -> ThreadStates]
    BY <1>0, <1>5, IdleType DEF StoreGate
  <2> QED
    BY <1>5, <2>3, <2>4 DEF StoreGate, GateTypeOK, ThreadStates, Cached
<1> QED
  BY <1>1, <1>2, <1>3, <1>4, <1>5

(* Every variable keeps its type: ages are cut off at the lifetime of the gate's cache, and
   the lock of the row's cache names the thread that fills it. *)
THEOREM GateTypes == GateSpec => []GateTypeOK
<1>1. GateInit => GateTypeOK
  BY ConstantTypes, GateAssumption, IdleType DEF GateInit, GateTypeOK, ThreadStates
<1>2. GateTypeOK /\ [GateNext]_gateVars => GateTypeOK'
  <2> SUFFICES ASSUME GateTypeOK, [GateNext]_gateVars PROVE GateTypeOK'
    OBVIOUS
  <2>1. CASE WriteFlag \/ EditOutside
    <3>1. flag' \in BOOLEAN
      BY <2>1 DEF WriteFlag, EditOutside, GateTypeOK
    <3>2. settled' \in 0 .. Settling /\ toggles' \in 0 .. MaxToggles
      BY <2>1, ConstantTypes, GateAssumption DEF WriteFlag, EditOutside, GateTypeOK
    <3> QED
      BY <2>1, <3>1, <3>2 DEF WriteFlag, EditOutside, GateTypeOK
  <2>2. CASE ForgetRow \/ ForgetGate
    <3>1. rowCache' \in [Procs -> Cached] /\ gateCache' \in [Procs -> Cached]
      BY <2>2, ConstantTypes DEF ForgetRow, ForgetGate, GateTypeOK, Cached
    <3> QED
      BY <2>2, <3>1 DEF ForgetRow, ForgetGate, GateTypeOK, Cached
  <2>3. CASE Tick
    <3>1. rowCache' \in [Procs -> Cached] /\ gateCache' \in [Procs -> Cached]
      BY <2>3, OlderType DEF Tick, GateTypeOK, Cached
    <3>2. ASSUME NEW t \in Threads
          PROVE  [thread[t] EXCEPT !.late = thread[t].pc # "idle"] \in ThreadStates
      BY DEF GateTypeOK, ThreadStates
    <3>3. thread' \in [Threads -> ThreadStates]
      BY <2>3, <3>2 DEF Tick
    <3>4. settled' \in 0 .. Settling
      BY <2>3, ConstantTypes DEF Tick, GateTypeOK
    <3> QED
      BY <2>3, <3>1, <3>3, <3>4 DEF Tick, GateTypeOK, Cached, ThreadStates
  <2>4. CASE UNCHANGED gateVars
    BY <2>4 DEF gateVars, GateTypeOK
  <2> QED
    BY <2>1, <2>2, <2>3, <2>4, ThreadTypes DEF GateNext
<1> QED
  BY <1>1, <1>2, PTL DEF GateSpec

-----------------------------------------------------------------------------
(* How long ago a value that is not the flag's can have been read: a thread has held it for no
   more than its one tick, a cache for its age besides, and what a loop stores in the gate's
   cache may come out of the row's. *)
LateBy(t) == IF thread[t].late THEN 1 ELSE 0

SettleInv ==
    /\ \A t \in Threads : thread[t].pc = "fill" /\ thread[t].got # flag => settled <= LateBy(t)
    /\ \A t \in Threads :
          thread[t].pc = "store" /\ thread[t].got # flag => settled <= StateTtl + LateBy(t)
    /\ \A p \in Procs :
          RowFresh(rowCache[p]) /\ rowCache[p].value # flag => settled <= rowCache[p].age + 1
    /\ \A p \in Procs : GateFresh(gateCache[p]) /\ gateCache[p].value # flag
                             => settled <= StateTtl + 1 + gateCache[p].age

LEMMA Numbers ==
    ASSUME GateTypeOK
    PROVE  /\ settled \in Nat /\ StateTtl \in Nat \ {0} /\ GateTtl \in Nat /\ StateTtl < GateTtl
           /\ \A t \in Threads : LateBy(t) \in {0, 1}
           /\ \A p \in Procs : rowCache[p].age \in Nat /\ gateCache[p].age \in Nat
<1>1. settled \in Nat
  BY ConstantTypes DEF GateTypeOK
<1>2. \A t \in Threads : LateBy(t) \in {0, 1}
  BY DEF LateBy
<1>3. \A p \in Procs : rowCache[p].age \in 0 .. GateTtl /\ gateCache[p].age \in 0 .. GateTtl
  BY DEF GateTypeOK
<1> QED
  BY <1>1, <1>2, <1>3, GateAssumption

\* A step of one thread that leaves the caches, the flag and the time alone.
LEMMA ThreadSettles ==
    ASSUME GateTypeOK, SettleInv, NEW t \in Threads, NEW r,
           thread' = [thread EXCEPT ![t] = r],
           UNCHANGED <<flag, rowCache, gateCache, settled>>,
           r.pc = "fill" => r.got = flag,
           r.pc = "store" /\ r.got # flag => settled <= StateTtl
    PROVE  SettleInv'
<1>1. thread'[t] = r /\ \A u \in Threads : u # t => thread'[u] = thread[u]
  BY DEF GateTypeOK
<1>2. ASSUME NEW u \in Threads, thread'[u].pc = "fill", thread'[u].got # flag'
      PROVE  settled' <= LateBy(u)'
  BY <1>1, <1>2 DEF SettleInv, LateBy
<1>3. ASSUME NEW u \in Threads, thread'[u].pc = "store", thread'[u].got # flag'
      PROVE  settled' <= StateTtl + LateBy(u)'
  <2>1. CASE u = t
    BY <1>1, <1>3, <2>1, Numbers DEF LateBy
  <2>2. CASE u # t
    BY <1>1, <1>3, <2>2 DEF SettleInv, LateBy
  <2> QED
    BY <2>1, <2>2
<1> QED
  BY <1>2, <1>3 DEF SettleInv, RowFresh, GateFresh

\* Time starts over: whatever is held, nothing has been ignored yet.
LEMMA RestartSettles ==
    ASSUME GateTypeOK, GateTypeOK', settled' = 0
    PROVE  SettleInv'
<1>1. /\ \A t \in Threads : LateBy(t)' \in {0, 1}
      /\ \A p \in Procs : rowCache'[p].age \in Nat /\ gateCache'[p].age \in Nat
      /\ StateTtl \in Nat
  <2>1. \A t \in Threads : LateBy(t)' \in {0, 1}
    BY DEF LateBy
  <2>2. \A p \in Procs : rowCache'[p].age \in 0 .. GateTtl /\ gateCache'[p].age \in 0 .. GateTtl
    BY DEF GateTypeOK
  <2> QED
    BY <2>1, <2>2, GateAssumption
<1> QED
  BY <1>1 DEF SettleInv

LEMMA FillSettles ==
    ASSUME GateTypeOK, SettleInv, NEW t \in Threads, FillRow(t)
    PROVE  SettleInv'
<1>1. Home[t] \in Procs /\ UNCHANGED <<flag, gateCache, settled>>
  BY ConstantTypes DEF FillRow
<1>2. thread[t].got # flag => settled <= LateBy(t)
  BY DEF FillRow, SettleInv
<1>3. thread'[t] = Got(t, thread[t].got) /\ \A u \in Threads : u # t => thread'[u] = thread[u]
  BY DEF FillRow, GateTypeOK
<1>4. Got(t, thread[t].got).pc # "fill"
      /\ (Got(t, thread[t].got).pc = "store" => Got(t, thread[t].got).got = thread[t].got)
  <2>1. [thread[t] EXCEPT !.pc = "store", !.got = thread[t].got].pc = "store"
        /\ [thread[t] EXCEPT !.pc = "store", !.got = thread[t].got].got = thread[t].got
    BY DEF GateTypeOK
  <2> QED
    BY <2>1 DEF Got, Idle
<1>5. ASSUME NEW u \in Threads, thread'[u].pc = "fill", thread'[u].got # flag'
      PROVE  settled' <= LateBy(u)'
  BY <1>1, <1>3, <1>4, <1>5 DEF SettleInv, LateBy
<1>6. ASSUME NEW u \in Threads, thread'[u].pc = "store", thread'[u].got # flag'
      PROVE  settled' <= StateTtl + LateBy(u)'
  <2>1. CASE u = t
    BY <1>1, <1>2, <1>3, <1>4, <1>6, <2>1, Numbers DEF LateBy
  <2>2. CASE u # t
    BY <1>1, <1>3, <1>6, <2>2 DEF SettleInv, LateBy
  <2> QED
    BY <2>1, <2>2
<1>7. ASSUME NEW p \in Procs, RowFresh(rowCache'[p]), rowCache'[p].value # flag'
      PROVE  settled' <= rowCache'[p].age + 1
  <2>1. CASE p = Home[t]
    <3>1. rowCache'[p] = [value |-> thread[t].got, age |-> 0]
      BY <1>1, <2>1 DEF FillRow, GateTypeOK
    <3> QED
      BY <1>1, <1>2, <1>7, <3>1, Numbers
  <2>2. CASE p # Home[t]
    <3>1. rowCache'[p] = rowCache[p]
      BY <1>1, <2>2 DEF FillRow, GateTypeOK
    <3> QED
      BY <1>1, <1>7, <3>1 DEF SettleInv
  <2> QED
    BY <2>1, <2>2
<1> QED
  BY <1>1, <1>5, <1>6, <1>7 DEF SettleInv, RowFresh, GateFresh

LEMMA StoreSettles ==
    ASSUME GateTypeOK, SettleInv, NEW t \in Threads, StoreGate(t)
    PROVE  SettleInv'
<1>1. Home[t] \in Procs /\ UNCHANGED <<flag, rowCache, settled>>
  BY ConstantTypes DEF StoreGate
<1>2. thread[t].got # flag => settled <= StateTtl + LateBy(t)
  BY DEF StoreGate, SettleInv
<1>3. thread'[t] = Idle /\ \A u \in Threads : u # t => thread'[u] = thread[u]
  BY DEF StoreGate, GateTypeOK
<1>4. ASSUME NEW u \in Threads
      PROVE  /\ thread'[u].pc = "fill" /\ thread'[u].got # flag' => settled' <= LateBy(u)'
             /\ thread'[u].pc = "store" /\ thread'[u].got # flag'
                  => settled' <= StateTtl + LateBy(u)'
  BY <1>1, <1>3 DEF SettleInv, LateBy, Idle
<1>5. ASSUME NEW p \in Procs, GateFresh(gateCache'[p]), gateCache'[p].value # flag'
      PROVE  settled' <= StateTtl + 1 + gateCache'[p].age
  <2>1. CASE p = Home[t]
    <3>1. gateCache'[p] = [value |-> thread[t].got, age |-> 0]
      BY <1>1, <2>1 DEF StoreGate, GateTypeOK
    <3> QED
      BY <1>1, <1>2, <1>5, <3>1, Numbers
  <2>2. CASE p # Home[t]
    <3>1. gateCache'[p] = gateCache[p]
      BY <1>1, <2>2 DEF StoreGate, GateTypeOK
    <3> QED
      BY <1>1, <1>5, <3>1 DEF SettleInv
  <2> QED
    BY <2>1, <2>2
<1> QED
  BY <1>1, <1>4, <1>5 DEF SettleInv, RowFresh, GateFresh

LEMMA ForgetSettles ==
    ASSUME GateTypeOK, SettleInv, ForgetRow \/ ForgetGate
    PROVE  SettleInv'
<1>1. UNCHANGED <<flag, settled, thread>>
  BY DEF ForgetRow, ForgetGate
<1>2. \A p \in Procs : rowCache'[p] \in {rowCache[p], Empty} /\ gateCache'[p] \in {gateCache[p], Empty}
  BY DEF ForgetRow, ForgetGate, GateTypeOK
<1>3. ~RowFresh(Empty) /\ ~GateFresh(Empty)
  BY GateAssumption DEF RowFresh, GateFresh, Empty
<1>4. \A p \in Procs : RowFresh(rowCache'[p]) /\ rowCache'[p].value # flag
                           => settled <= rowCache'[p].age + 1
  BY <1>2, <1>3 DEF SettleInv
<1>5. \A p \in Procs : GateFresh(gateCache'[p]) /\ gateCache'[p].value # flag
                           => settled <= StateTtl + 1 + gateCache'[p].age
  BY <1>2, <1>3 DEF SettleInv
<1> QED
  BY <1>1, <1>4, <1>5 DEF SettleInv, LateBy, RowFresh, GateFresh

LEMMA TickSettles ==
    ASSUME GateTypeOK, SettleInv, Tick
    PROVE  SettleInv'
<1>1. UNCHANGED flag /\ settled' \in {settled, settled + 1}
  BY DEF Tick
<1>2. ASSUME NEW t \in Threads
      PROVE  /\ thread'[t].pc = thread[t].pc /\ thread'[t].got = thread[t].got
             /\ thread'[t].late = (thread[t].pc # "idle") /\ ~thread[t].late
  BY DEF Tick, GateTypeOK
<1>3. ASSUME NEW c \in Cached, Older(c).age < GateTtl
      PROVE  Older(c).value = c.value /\ Older(c).age = c.age + 1 /\ c.age < GateTtl
  BY <1>3, GateAssumption DEF Older, Cached
<1>4. ASSUME NEW t \in Threads
      PROVE  /\ thread'[t].pc = "fill" /\ thread'[t].got # flag' => settled' <= LateBy(t)'
             /\ thread'[t].pc = "store" /\ thread'[t].got # flag'
                  => settled' <= StateTtl + LateBy(t)'
  <2>1. LateBy(t) = 0 /\ (thread[t].pc # "idle" => LateBy(t)' = 1)
    BY <1>2 DEF LateBy
  <2> QED
    BY <1>1, <1>2, <2>1, Numbers DEF SettleInv
<1>5. ASSUME NEW p \in Procs, RowFresh(rowCache'[p]), rowCache'[p].value # flag'
      PROVE  settled' <= rowCache'[p].age + 1
  <2>1. rowCache'[p] = Older(rowCache[p]) /\ rowCache[p] \in Cached
    BY DEF Tick, GateTypeOK, Cached
  <2>2. Older(rowCache[p]) \in Cached
    BY <2>1, OlderType
  <2>3. Older(rowCache[p]).age < StateTtl /\ Older(rowCache[p]).age \in Nat
    BY <1>5, <2>1, <2>2, GateAssumption DEF RowFresh, Cached
  <2>4. rowCache'[p].value = rowCache[p].value /\ rowCache'[p].age = rowCache[p].age + 1
    BY <1>3, <2>1, <2>3, GateAssumption
  <2>5. RowFresh(rowCache[p])
    BY <2>1, <2>3, <2>4, Numbers DEF RowFresh
  <2> QED
    BY <1>1, <1>5, <2>4, <2>5, Numbers DEF SettleInv
<1>6. ASSUME NEW p \in Procs, GateFresh(gateCache'[p]), gateCache'[p].value # flag'
      PROVE  settled' <= StateTtl + 1 + gateCache'[p].age
  <2>1. gateCache'[p] = Older(gateCache[p]) /\ gateCache[p] \in Cached
    BY DEF Tick, GateTypeOK, Cached
  <2>2. gateCache'[p].value = gateCache[p].value /\ gateCache'[p].age = gateCache[p].age + 1
        /\ GateFresh(gateCache[p])
    BY <1>3, <1>6, <2>1 DEF GateFresh
  <2> QED
    BY <1>1, <1>6, <2>2, Numbers DEF SettleInv
<1> QED
  BY <1>4, <1>5, <1>6 DEF SettleInv, RowFresh, GateFresh

(* A written flag takes effect in every process at the latest when the lifetimes of both
   caches are over, though the second is filled from the first, and outside its lock. *)
THEOREM FlagSettles == GateSpec => []GateSettles
<1>1. GateInit => SettleInv
  BY GateAssumption, ConstantTypes
  DEF GateInit, SettleInv, Idle, Empty, RowFresh, GateFresh
<1>2. GateTypeOK /\ GateTypeOK' /\ SettleInv /\ [GateNext]_gateVars => SettleInv'
  <2> SUFFICES ASSUME GateTypeOK, GateTypeOK', SettleInv, [GateNext]_gateVars PROVE SettleInv'
    OBVIOUS
  <2>1. ASSUME NEW t \in Threads, NEW asker \in {"loop", "page"}, Ask(t, asker) PROVE SettleInv'
    <3>1. thread' = [thread EXCEPT ![t] = [Idle EXCEPT !.pc = "ask", !.asker = asker]]
          /\ UNCHANGED <<flag, rowCache, gateCache, settled>>
      BY <2>1 DEF Ask
    <3>2. [Idle EXCEPT !.pc = "ask", !.asker = asker].pc = "ask"
      BY DEF Idle
    <3> QED
      BY <3>1, <3>2, ThreadSettles
  <2>2. ASSUME NEW t \in Threads, RowHit(t) PROVE SettleInv'
    <3>1. Home[t] \in Procs /\ thread' = [thread EXCEPT ![t] = Got(t, rowCache[Home[t]].value)]
          /\ UNCHANGED <<flag, rowCache, gateCache, settled>> /\ RowFresh(rowCache[Home[t]])
      BY <2>2, ConstantTypes DEF RowHit
    <3>2. rowCache[Home[t]].value # flag => settled <= StateTtl
      BY <3>1, Numbers DEF SettleInv, RowFresh
    <3>3. Got(t, rowCache[Home[t]].value).pc # "fill"
          /\ (Got(t, rowCache[Home[t]].value).pc = "store"
                => Got(t, rowCache[Home[t]].value).got = rowCache[Home[t]].value)
      <4> DEFINE stored == [thread[t] EXCEPT !.pc = "store", !.got = rowCache[Home[t]].value]
      <4>1. stored.pc = "store" /\ stored.got = rowCache[Home[t]].value
        BY DEF GateTypeOK
      <4> QED
        BY <4>1 DEF Got, Idle
    <3> QED
      BY <3>1, <3>2, <3>3, ThreadSettles
  <2>3. ASSUME NEW t \in Threads, Query(t) PROVE SettleInv'
    <3> DEFINE queried == [thread[t] EXCEPT !.pc = "fill", !.got = flag]
    <3>1. thread' = [thread EXCEPT ![t] = queried] /\ UNCHANGED <<flag, rowCache, gateCache, settled>>
      BY <2>3 DEF Query
    <3>2. queried.pc = "fill" /\ queried.got = flag
      BY DEF GateTypeOK
    <3> QED
      BY <3>1, <3>2, ThreadSettles
  <2>4. ASSUME NEW t \in Threads, QueryFails(t) PROVE SettleInv'
    BY <2>4, RestartSettles DEF QueryFails
  <2>5. CASE WriteFlag \/ EditOutside
    BY <2>5, RestartSettles DEF WriteFlag, EditOutside
  <2>6. CASE UNCHANGED gateVars
    BY <2>6 DEF gateVars, SettleInv, LateBy, RowFresh, GateFresh
  <2> QED
    BY <2>1, <2>2, <2>3, <2>4, <2>5, <2>6, FillSettles, StoreSettles, ForgetSettles, TickSettles
    DEF GateNext
<1>3. GateTypeOK /\ SettleInv => GateSettles
  <2> SUFFICES ASSUME GateTypeOK, SettleInv, settled = Settling, NEW p \in Procs, GateFresh(gateCache[p])
               PROVE  gateCache[p].value = flag
    BY DEF GateSettles
  <2> QED
    BY Numbers DEF SettleInv, GateFresh, Settling
<1> QED
  BY <1>1, <1>2, <1>3, GateTypes, PTL DEF GateSpec
=============================================================================
