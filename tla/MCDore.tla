------------------------------- MODULE MCDore -------------------------------
(* Four parts of DORE that meet through their tables only: the plans of Stage 2,
   the cycle of Stage 1, the computation of one plan, and the history behind its
   IV rank.  In every behaviour one of them runs and the others stay as they
   began. *)
EXTENDS MCDorePlans, DoreStageOne, DorePlanEngine, IvHistory

CONSTANTS acc, tcs, nifty

VARIABLE part

\* A part that does not run begins in one state only.
MCInit ==
    /\ part \in {"plans", "cycle", "engine", "iv"}
    /\ Init /\ StageOneInit /\ IvInit
    /\ EngineInit
    /\ part # "engine" => bucket = CHOOSE n \in Buckets : TRUE

MCNext ==
    /\ UNCHANGED part
    /\ \/ part = "plans" /\ Next /\ UNCHANGED <<stageOneVars, engineVars, ivVars>>
       \/ part = "cycle" /\ StageOneNext /\ UNCHANGED <<vars, engineVars, ivVars>>
       \/ part = "engine" /\ EngineNext /\ UNCHANGED <<vars, stageOneVars, ivVars>>
       \/ part = "iv" /\ IvNext /\ UNCHANGED <<vars, stageOneVars, engineVars>>

MCSpec == MCInit /\ [][MCNext]_<<part, vars, stageOneVars, engineVars, ivVars>>
-----------------------------------------------------------------------------
MCStrikes == {1000 * k : k \in 16 .. 24}
MCBoards == {[quoted |-> MCStrikes, liquid |-> MCStrikes],
             [quoted |-> {18000, 20000, 22000}, liquid |-> {18000, 20000, 22000}],
             [quoted |-> MCStrikes, liquid |-> {20000, 21000}],
             [quoted |-> {}, liquid |-> {}]}
MCBlocks == {[near |-> x, depth |-> d, broken |-> y] :
               x \in {-1900, -900, -300, 600, 1100}, d \in {0, 500, 1500}, y \in BOOLEAN}
MCTargets == {NoPrice, -500, 800, 2300}
=============================================================================
