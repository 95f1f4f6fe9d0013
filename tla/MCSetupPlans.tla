---------------------------- MODULE MCSetupPlans ----------------------------
(* Instances of SetupPlans for TLC: the worker runs the LS stage, the page's
   Run Scan the FP stage.  The levels of one source change between two mints
   of a day, so that a plan minted over another would be seen. *)
EXTENDS SetupPlans, TLC

CONSTANTS worker, page

MCProducers == {worker, page}
MCWorker == {worker}
MCSources == {"LS", "FP"}
MCStages == [p \in Producers |->
                IF p = worker THEN <<"LS">> ELSE <<"FP">>]
MCMinting == {"LS", "FP"}
MCMaxAge == [s \in Sources |-> IF s = "FP" THEN 0 ELSE 1]
MCLevels == [s \in Sources |-> IF s = "LS" THEN {1, 2} ELSE {1}]
=============================================================================
