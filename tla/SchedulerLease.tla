--------------------------- MODULE SchedulerLease ---------------------------
(***************************************************************************)
(* What the scheduler-ownership columns of the system_state row promise,   *)
(* whatever the processes that use them do: one lease, held by at most one *)
(* owner id, that an owner keeps until it gives it up itself or lets it    *)
(* expire.  SchedulerLock is shown to implement this module.               *)
(***************************************************************************)
CONSTANTS
    Owners,     \* owner ids, one for each incarnation of a process
    NoOwner     \* the SQL NULL of scheduler_owner

VARIABLES
    holder,     \* the owner id the lease belongs to, or NoOwner
    expired     \* TRUE when the holder has been silent for too long

vars == <<holder, expired>>

Init == holder = NoOwner /\ expired = FALSE

(* A free lease, or one whose holder let it expire, goes to whoever asks. *)
Claim(p) ==
    /\ \/ holder \in {NoOwner, p}
       \/ expired
    /\ holder' = p
    /\ expired' = FALSE

(* The holder, and nobody else, extends its own lease, however old it is. *)
Renew(p) ==
    /\ holder = p
    /\ expired' = FALSE
    /\ UNCHANGED holder

(* The holder, and nobody else, hands the lease back. *)
Release(p) ==
    /\ holder = p
    /\ holder' = NoOwner
    /\ expired' = FALSE

Expire ==
    /\ holder # NoOwner
    /\ expired' = TRUE
    /\ UNCHANGED holder

Next ==
    \/ Expire
    \/ \E p \in Owners : Claim(p) \/ Renew(p) \/ Release(p)

Spec == Init /\ [][Next]_vars
=============================================================================
