--------------------------- MODULE MCExecutionMode ---------------------------
(* Instances of ExecutionMode for TLC.  "app" is the web app's process, in
   which backtests run and, without a standalone worker, the loops too;
   "worker" is scan_worker.py.  The limits keep the order of the code's:
   renewal 30 s < stale 300 s < cache 540 s < paused sleep 600 s. *)
EXTENDS ExecutionMode, TLC

CONSTANTS app, worker, b1, b2, l1

MCBacktests == {b1, b2}
MCOneLoop == {l1}
MCApp == {app}
MCBoth == {app, worker}

(* Everything in the web app; or the loops in a process of their own. *)
MCHomeApp == [x \in Backtests \cup Loops |-> app]
MCHomeSplit == [x \in Backtests \cup Loops |-> IF x \in Backtests THEN app ELSE worker]

MCSymmetry == Permutations(Backtests) \cup Permutations(Loops)
=============================================================================
