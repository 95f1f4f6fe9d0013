--------------------------- MODULE DorePlanEngine ---------------------------
(***************************************************************************)
(* One call of compute_dore_trade_plan: from a scanner row and an option   *)
(* chain to a trade plan or a rejection                                    *)
(* (src/utils/dore_options_engine.py).                                     *)
(*                                                                         *)
(* The stages are the function's own, in its order.  What a stage reads of *)
(* the market is chosen where it reads it.  Prices are integers; a move in *)
(* the trade's direction is positive whatever the direction, so that a     *)
(* call and a put are one case.  Percentages of spot are per mille, of the *)
(* premium per cent, and a capture ratio is counted in 2000ths, in which   *)
(* the tiers' scales 0.55 : 1 : 1.35 are 11 : 20 : 27.                     *)
(***************************************************************************)
EXTENDS Integers, FiniteSets

CONSTANTS
    Spot,       \* the underlying's price
    Interval,   \* distance of two strikes
    Moves,      \* expected moves, the larger of the ATR's and the IV's
    Captures,   \* Balanced capture ratios, per cent
    Boards,     \* the strikes with a quote, and those passing every check
    Blocks,     \* order blocks: distance of the near line, depth, broken
    Targets,    \* distances from spot of a target, NoPrice among them
    Quotes,     \* quotes of the recommended strike
    Scores,     \* what final_score may return
    NoPrice,    \* no level
    NoBlock     \* no order block

ASSUME EngineAssumption ==
    /\ Spot \in Nat \ {0} /\ Interval \in Nat \ {0}
    /\ Moves \subseteq Nat \ {0} /\ Captures \subseteq 15 .. 95
    /\ \A b \in Boards : b.liquid \subseteq b.quoted /\ b.quoted \subseteq Int
    /\ Targets \subseteq Int \cup {NoPrice}
    /\ Quotes \subseteq Nat \ {0}
    /\ NoPrice \notin Int

VARIABLES
    stage,      \* where the call is
    dir,        \* 1 for a call option, -1 for a put
    readable,   \* the structural read of the bars succeeded
    bucket,     \* days to expiry: 0-2, 3-5, 6-10, more
    board,      \* the chain's strikes
    ladder,     \* tier to its strike and the offset its odds are taken at
    block,      \* the order block of the direction
    anchored,   \* Conservative was moved to the block
    geometry,   \* structural entry, target and reward over risk, or none
    plan        \* the plan returned, or none

engineVars == <<stage, dir, readable, bucket, board, ladder, block, anchored,
                geometry, plan>>
-----------------------------------------------------------------------------
Tiers == {"Conservative", "Balanced", "Aggressive"}
Buckets == 1 .. 4
NoLadder == [t \in Tiers |-> [strike |-> 0, offset |-> 0]]

(* The settings' tables by expiry bucket. *)
MaxOffset(b) == (Spot * <<20, 30, 45, 60>>[b]) \div 1000
LongOffset == (Spot * 50) \div 1000
StopPct(b) == <<22, 28, 32, 35>>[b]
Target1Pct(b) == <<18, 28, 40, 50>>[b]
Target2Pct(b) == <<32, 50, 75, 100>>[b]

TierScale(t) == CASE t = "Conservative" -> 11
                  [] t = "Balanced" -> 20
                  [] OTHER -> 27

Abs(x) == IF x < 0 THEN -x ELSE x
Least(x, y) == IF x <= y THEN x ELSE y
Greatest(x, y) == IF x >= y THEN x ELSE y

(* _round_to_strike, halves to the even strike as Python's round. *)
Rounded(x) ==
    LET q == x \div Interval
        r == x % Interval
    IN  Interval * (IF 2 * r < Interval \/ (2 * r = Interval /\ q % 2 = 0)
                    THEN q ELSE q + 1)

(* How far a strike is from spot in the direction of the trade. *)
Out(strike) == dir * (strike - Spot)

(* _nearest_priced_strike: 20 steps either way, the higher strike first. *)
InWalk(x, quoted) == {s \in quoted : Abs(s - Rounded(x)) <= 20 * Interval}
NearestPriced(x, quoted) ==
    CHOOSE s \in InWalk(x, quoted) :
        \A u \in InWalk(x, quoted) :
            LET ds == Abs(s - Rounded(x))
                du == Abs(u - Rounded(x))
            IN  ds < du \/ (ds = du /\ s >= u)
-----------------------------------------------------------------------------
EngineInit ==
    /\ stage = "gates" /\ bucket \in Buckets
    /\ dir = 1 /\ readable = FALSE
    /\ board = [quoted |-> {}, liquid |-> {}]
    /\ ladder = NoLadder /\ block = NoBlock /\ anchored = FALSE
    /\ geometry = NoPrice /\ plan = NoPrice

Goto(s) == stage' = s

Reject ==
    /\ Goto("rejected")
    /\ UNCHANGED <<dir, readable, bucket, board, ladder, block, anchored,
                   geometry, plan>>

(* hard_reject, then a history too short for the averages. *)
Gates ==
    /\ stage = "gates"
    /\ \E usable, trending \in BOOLEAN :
         IF usable /\ trending
         THEN /\ Goto("direction")
              /\ UNCHANGED <<dir, readable, bucket, board, ladder, block,
                             anchored, geometry, plan>>
         ELSE Reject

(* The structural read decides if it has an opinion of enough evidence; else
   the averages of the future, if it has any, else those of the spot. *)
Sign(reading) == IF reading = "up" THEN 1 ELSE -1
ChooseDirection ==
    /\ stage = "direction"
    /\ \E smc \in {"failed", "silent", "up", "down"},
          future \in {"none", "up", "down"}, spot \in {"up", "down"} :
         /\ dir' = CASE smc \in {"up", "down"} -> Sign(smc)
                     [] smc \notin {"up", "down"} /\ future # "none" -> Sign(future)
                     [] OTHER -> Sign(spot)
         /\ readable' = (smc # "failed")
    /\ Goto("crush")
    /\ UNCHANGED <<bucket, board, ladder, block, anchored, geometry, plan>>

(* Extreme implied volatility rejects; an unknown one does not. *)
CrushGate ==
    /\ stage = "crush"
    /\ \/ Reject
       \/ /\ Goto("strikes")
          /\ UNCHANGED <<dir, readable, bucket, board, ladder, block, anchored,
                         geometry, plan>>

(* A tier as far out as its share of the move, not beyond the ceiling. *)
Capture(t, c) == Greatest(300, Least(1900, c * TierScale(t)))
Offset(t, move, c, ceiling) == Least((move * Capture(t, c)) \div 2000, ceiling)
Priced(offset) == [strike |-> Rounded(Spot + dir * offset), offset |-> offset]

(* A tier that fell on its predecessor goes one strike further, unless that
   is past the ceiling. *)
Bumped(tier, before, ceiling) ==
    LET next == before.strike + dir * Interval
    IN  IF Out(tier.strike) <= Out(before.strike) /\ Out(next) <= ceiling
        THEN [strike |-> next, offset |-> Abs(next - Spot)]
        ELSE tier

Spread(move, c, ceiling) ==
    LET raw == [t \in Tiers |-> Priced(Offset(t, move, c, ceiling))]
        bal == Bumped(raw["Balanced"], raw["Conservative"], ceiling)
    IN  [raw EXCEPT !["Balanced"] = bal,
                    !["Aggressive"] = Bumped(raw["Aggressive"], bal, ceiling)]

(* select_strikes; sure: more than ten days left and confidence of 70. *)
SelectStrikes ==
    /\ stage = "strikes"
    /\ \E move \in Moves, c \in Captures, sure \in {FALSE, bucket = 4} :
         ladder' = Spread(move, c, IF sure THEN Least(LongOffset, MaxOffset(bucket))
                                           ELSE MaxOffset(bucket))
    /\ board' \in Boards
    /\ Goto(IF readable THEN "anchor" ELSE "candidates")
    /\ UNCHANGED <<dir, readable, bucket, block, anchored, geometry, plan>>

Level(distance) == Spot + dir * distance
Entry == Level(block.near)

(* Fault: an order block anchors the ladder however far it is. *)
AnchorAnywhere(strike) == TRUE

(* Conservative moves to the priced strike nearest to the block, the other
   tiers to as many times that offset as their scales say, offset signed. *)
CanAnchor(strike) == Abs(strike - Spot) <= MaxOffset(bucket)
Rescaled(t, strike) ==
    LET at == NearestPriced(Spot + ((strike - Spot) * TierScale(t)) \div 11,
                            board.quoted)
    IN  [strike |-> at, offset |-> Abs(at - Spot)]
Anchored(strike) ==
    [t \in Tiers |-> IF t = "Conservative"
                     THEN [ladder[t] EXCEPT !.strike = strike]
                     ELSE Rescaled(t, strike)]

Anchor ==
    /\ stage = "anchor"
    /\ \E b \in Blocks \cup {NoBlock} :
         LET walk == InWalk(Level(b.near), board.quoted)
             strike == NearestPriced(Level(b.near), board.quoted)
             fits == b # NoBlock /\ ~b.broken /\ walk # {} /\ CanAnchor(strike)
         IN  /\ block' = b
             /\ anchored' = fits
             /\ ladder' = IF fits THEN Anchored(strike) ELSE ladder
             /\ Goto(IF b = NoBlock THEN "candidates" ELSE "target")
    /\ UNCHANGED <<dir, readable, bucket, board, geometry, plan>>

(* _discover_structural_target: the nearest liquidity beyond the entry, else
   the gap's edge, else the scanner's target, the last two if beyond it. *)
Beyond(level) == level # NoPrice /\ dir * (level - Entry) > 0
LevelOf(distance) == IF distance = NoPrice THEN NoPrice ELSE Level(distance)
FirstBeyond(liquidity, gap, technical) ==
    CASE Beyond(liquidity) -> liquidity
      [] ~Beyond(liquidity) /\ Beyond(gap) -> gap
      [] ~Beyond(liquidity) /\ ~Beyond(gap) /\ Beyond(technical) -> technical
      [] OTHER -> NoPrice

(* Invalidation, entry and target in order, with something at risk. *)
Geometry(target) ==
    IF target = NoPrice \/ block.depth = 0 THEN NoPrice
    ELSE [target |-> target,
          reward |-> (100 * Abs(target - Entry)) \div block.depth]

StructuralTarget ==
    /\ stage = "target"
    /\ \E liquidity, gap, technical \in Targets :
         geometry' = Geometry(FirstBeyond(LevelOf(liquidity), LevelOf(gap),
                                          LevelOf(technical)))
    /\ Goto("structure")
    /\ UNCHANGED <<dir, readable, bucket, board, ladder, block, anchored, plan>>

(* The read raises: its results are forgotten, the anchor it made is not. *)
StructuralReadFails ==
    /\ stage = "target"
    /\ block' = NoBlock /\ geometry' = NoPrice
    /\ Goto("candidates")
    /\ UNCHANGED <<dir, readable, bucket, board, ladder, anchored, plan>>

(* A broken block rejects; so does a reward below 1.3 times the risk. *)
StructureGate ==
    /\ stage = "structure"
    /\ IF block.broken \/ (geometry # NoPrice /\ geometry.reward < 130)
       THEN Reject
       ELSE /\ Goto("candidates")
            /\ UNCHANGED <<dir, readable, bucket, board, ladder, block,
                           anchored, geometry, plan>>

Primary == IF anchored THEN "Conservative" ELSE "Balanced"

(* Only the tier that is recommended must pass premium and open interest. *)
Liquid(t) == ladder[t].strike \in board.liquid
Candidates ==
    /\ stage = "candidates"
    /\ IF Liquid(Primary)
       THEN /\ Goto("exits")
            /\ UNCHANGED <<dir, readable, bucket, board, ladder, block,
                           anchored, geometry, plan>>
       ELSE Reject

(* A deep in-the-money option moves less in per cent: its exits are scaled. *)
ExitScales == IF Out(ladder[Primary].strike) < 0 THEN {50, 75, 100} ELSE {100}
Exit(premium, pct, scale) == (premium * (10000 + pct * scale)) \div 10000

Intrinsic(underlying) ==
    Greatest(0, dir * (underlying - ladder[Primary].strike))
Gain == Intrinsic(geometry.target) - Intrinsic(Spot)

(* Fault: the ceiling binds when the target adds nothing to the premium. *)
CappedAtAny(exit, premium) ==
    IF geometry # NoPrice THEN Least(exit, premium + Gain) ELSE exit

(* _structural_premium_ceiling: the premium at the structural target. *)
Capped(exit, premium) ==
    IF geometry # NoPrice /\ Gain > 0 THEN Least(exit, premium + Gain) ELSE exit

(* An index whose put-call ratio contradicts the direction is kept below its
   floor for tracking, 50. *)
Demoted(score, index, conflict) ==
    IF index /\ conflict THEN Least(score, 49) ELSE score

Built(premium, scale, score) ==
    [strike   |-> ladder[Primary].strike, odds |-> ladder[Primary].offset,
     premium  |-> premium,
     stop     |-> Exit(premium, -StopPct(bucket), scale),
     target1  |-> Capped(Exit(premium, Target1Pct(bucket), scale), premium),
     target2  |-> Capped(Exit(premium, Target2Pct(bucket), scale), premium),
     score    |-> score]

(* The plan quotes the block its anchor came from: without one it raises. *)
Build ==
    /\ stage = "exits"
    /\ IF anchored /\ block = NoBlock
       THEN Goto("raised") /\ UNCHANGED plan
       ELSE /\ Goto("plan")
            /\ \E premium \in Quotes, scale \in ExitScales, score \in Scores,
                  index, conflict \in BOOLEAN :
                 plan' = Built(premium, scale, Demoted(score, index, conflict))
    /\ UNCHANGED <<dir, readable, bucket, board, ladder, block, anchored, geometry>>

EngineNext ==
    \/ Gates \/ ChooseDirection \/ CrushGate \/ SelectStrikes
    \/ Anchor \/ StructuralTarget \/ StructuralReadFails \/ StructureGate
    \/ Candidates \/ Build

EngineSpec == EngineInit /\ [][EngineNext]_engineVars
-----------------------------------------------------------------------------
Planned == stage = "plan"

(* The recommended strike has passed the liquidity checks itself and is no
   farther from spot than the ceiling of its expiry and the half interval of
   rounding, whether the volatility, the bump of a colliding tier or an order
   block, which also changes which tier is recommended, put it there. *)
RecommendedWithinReach ==
    Planned => /\ plan.strike \in board.liquid
               /\ Abs(plan.strike - Spot) <= MaxOffset(bucket) + Interval \div 2

(* A plan's stop is below its premium and its premium below its targets in
   order, for any scale of the exits and any ceiling put on the targets. *)
ExitsOrdered ==
    Planned => /\ plan.stop < plan.premium
               /\ plan.premium < plan.target1
               /\ plan.target1 <= plan.target2
=============================================================================
