--------------------------- MODULE MCSchedulerLock ---------------------------
(* Instances of SchedulerLock for TLC: three owner ids, so that a claim can
   pass to a second owner and from it to a third. *)
EXTENDS SchedulerLock

CONSTANTS w1, w2, app

MCOwners == {w1, w2, app}
MCStandalone == {w1, w2}

(* Two processes, one of each kind, for the liveness properties. *)
MCPair == {w1, app}
MCOne == {w1}
=============================================================================
