----------------------------- MODULE SnapshotStore -----------------------------
(***************************************************************************)
(* How a symbol-keyed section is saved and read: _save_state() and         *)
(* _load_state_payload() of utils/scan_state.py, behind the version-keyed  *)
(* caches load_snapshot_payload_cached() (scheduler threads) and           *)
(* get_snapshot() of utils/snapshot_cache.py (Streamlit).                  *)
(*                                                                         *)
(* A save is three transactions: upsert the rows, prune the others, upsert *)
(* the section's row of state_meta, whose updated_at is the version that   *)
(* readers poll.  A read is three more: the version, and on a miss the     *)
(* version again and the rows.                                             *)
(*                                                                         *)
(* The contents of the table are abstracted to a revision number, which    *)
(* grows with every transaction that changes a row.                        *)
(***************************************************************************)
EXTENDS Integers

CONSTANTS
    Writers,    \* producers of the section: a scheduler loop, a manual scan
    Readers,    \* threads that share one process's cache
    Nothing,    \* Python None
    NoMeta,     \* state_meta has no row for the section
    MaxSaves,   \* bound: saves started
    MaxFaults,  \* bound: failed statements and producers killed in a save
    Failures    \* whether producers also record failed cycles

(* A version is a timestamp, compared only for equality; `of` tells this
   specification, not the program, which revision it was written over. *)
Versions == [at : Nat, of : Nat]
Payloads == [version : Versions, table : Nat]
Statuses == {"completed", "failed"}

ASSUME StoreAssumption ==
    /\ MaxSaves \in Nat /\ MaxFaults \in Nat /\ Failures \in BOOLEAN
    /\ Nothing \notin Payloads
    /\ NoMeta \notin [version : Versions, status : Statuses]

VARIABLES
    clock,   \* number of committed transactions, the source of timestamps
    table,   \* revision of the state table, 0 while it is empty
    newest,  \* the largest updated_at among its rows
    meta,    \* the section's row of state_meta
    writer,  \* per producer: where _save_state() stands
    reader,  \* per thread: where the cached read stands, and what it holds
    cache,   \* version -> payload
    saves,
    faults

vars == <<clock, table, newest, meta, writer, reader, cache, saves, faults>>
store == <<clock, table, newest, meta>>

Zero == [at |-> 0, of |-> 0]

TypeOK ==
    /\ clock \in Nat /\ table \in Nat /\ newest \in Versions
    /\ meta \in [version : Versions, status : Statuses] \cup {NoMeta}
    /\ writer \in [Writers -> [pc : {"idle", "upserting", "pruning", "publishing", "failing"},
                               prune : BOOLEAN]]
    /\ reader \in [Readers -> [pc : {"idle", "loading", "reading", "storing", "returned"},
                               key : Versions,
                               version : Versions,
                               payload : Payloads \cup {Nothing}]]
    /\ DOMAIN cache \subseteq Versions
    /\ \A v \in DOMAIN cache : cache[v] \in Payloads \cup {Nothing}
    /\ saves \in Nat /\ faults \in Nat

Init ==
    /\ clock = 0 /\ table = 0 /\ newest = Zero /\ meta = NoMeta
    /\ writer = [w \in Writers |-> [pc |-> "idle", prune |-> FALSE]]
    /\ reader = [r \in Readers |-> [pc |-> "idle", key |-> Zero, version |-> Zero,
                                    payload |-> Nothing]]
    /\ cache = [v \in {} |-> Nothing]
    /\ saves = 0 /\ faults = 0

-----------------------------------------------------------------------------
(* _save_state().  A completed cycle with records starts with the upsert, one
   without records goes straight to the version, and so does a failed cycle. *)
Goto(w, pc) == writer' = [writer EXCEPT ![w].pc = pc]

Save(w) ==
    /\ writer[w].pc = "idle"
    /\ saves < MaxSaves
    /\ saves' = saves + 1
    /\ \E prune \in BOOLEAN, pc \in {"upserting", "publishing", "failing"} :
          /\ pc = "failing" => Failures
          /\ writer' = [writer EXCEPT ![w] = [pc |-> pc, prune |-> prune]]
    /\ UNCHANGED <<store, reader, cache, faults>>

(* A transaction that changes rows of the table. *)
ChangeTable ==
    /\ clock' = clock + 1
    /\ table' = clock + 1

(* Fault: a save that does not prune does not bump the version. *)
UpsertOnly(w) ==
    /\ writer[w].pc = "upserting"
    /\ ChangeTable
    /\ newest' = [at |-> clock + 1, of |-> clock + 1]
    /\ Goto(w, IF writer[w].prune THEN "pruning" ELSE "idle")
    /\ UNCHANGED <<meta, reader, cache, saves, faults>>

Upsert(w) ==
    /\ writer[w].pc = "upserting"
    /\ ChangeTable
    /\ newest' = [at |-> clock + 1, of |-> clock + 1]
    /\ Goto(w, IF writer[w].prune THEN "pruning" ELSE "publishing")
    /\ UNCHANGED <<meta, reader, cache, saves, faults>>

(* The DELETE may find nothing to delete. *)
Prune(w) ==
    /\ writer[w].pc = "pruning"
    /\ \/ ChangeTable
       \/ UNCHANGED <<clock, table>>
    /\ Goto(w, "publishing")
    /\ UNCHANGED <<newest, meta, reader, cache, saves, faults>>

(* Fault: the final status is never written. *)
SetMetaRunning(status) ==
    /\ clock' = clock + 1
    /\ meta' = [version |-> [at |-> clock + 1, of |-> table], status |-> "running"]
    /\ UNCHANGED <<table, newest>>

SetMeta(status) ==
    /\ clock' = clock + 1
    /\ meta' = [version |-> [at |-> clock + 1, of |-> table], status |-> status]
    /\ UNCHANGED <<table, newest>>

Publish(w) ==
    /\ writer[w].pc = "publishing"
    /\ SetMeta("completed")
    /\ Goto(w, "idle")
    /\ UNCHANGED <<reader, cache, saves, faults>>

PublishFailure(w) ==
    /\ writer[w].pc = "failing"
    /\ SetMeta("failed")
    /\ Goto(w, "idle")
    /\ UNCHANGED <<reader, cache, saves, faults>>

Fault == faults < MaxFaults /\ faults' = faults + 1

(* A failed prune is skipped; any other failed statement ends the save, and
   what was committed before it stays. *)
StatementFails(w) ==
    /\ writer[w].pc # "idle"
    /\ Fault
    /\ Goto(w, IF writer[w].pc = "pruning" THEN "publishing" ELSE "idle")
    /\ UNCHANGED <<store, reader, cache, saves>>

(* The producer's process is killed. *)
Die(w) ==
    /\ writer[w].pc # "idle"
    /\ Fault
    /\ Goto(w, "idle")
    /\ UNCHANGED <<store, reader, cache, saves>>

-----------------------------------------------------------------------------
(* _load_state_meta(): without a row in state_meta the version is derived from
   the newest row of the table. *)
CurrentMeta ==
    IF meta = NoMeta THEN [version |-> newest, status |-> "completed"] ELSE meta

HasSnapshot ==
    /\ meta # NoMeta \/ table # 0
    /\ CurrentMeta.status = "completed"

Answer(r, p) == reader' = [reader EXCEPT ![r].pc = "returned", ![r].payload = p]

(* The cached read: poll the version; serve a version seen before. *)
PollNothing(r) ==
    /\ reader[r].pc = "idle"
    /\ ~HasSnapshot
    /\ Answer(r, Nothing)
    /\ UNCHANGED <<store, writer, cache, saves, faults>>

PollHit(r) ==
    /\ reader[r].pc = "idle"
    /\ HasSnapshot
    /\ CurrentMeta.version \in DOMAIN cache
    /\ reader' = [reader EXCEPT ![r].pc = "returned", ![r].key = CurrentMeta.version,
                                ![r].payload = cache[CurrentMeta.version]]
    /\ UNCHANGED <<store, writer, cache, saves, faults>>

PollMiss(r) ==
    /\ reader[r].pc = "idle"
    /\ HasSnapshot
    /\ CurrentMeta.version \notin DOMAIN cache
    /\ reader' = [reader EXCEPT ![r].pc = "loading", ![r].key = CurrentMeta.version]
    /\ UNCHANGED <<store, writer, cache, saves, faults>>

Holding(r, p) == reader' = [reader EXCEPT ![r].pc = "storing", ![r].payload = p]

(* _load_state_payload(): the version and status once more, then the rows. *)
LoadMeta(r) ==
    /\ reader[r].pc = "loading"
    /\ IF HasSnapshot
       THEN reader' = [reader EXCEPT ![r].pc = "reading", ![r].version = CurrentMeta.version]
       ELSE Holding(r, Nothing)
    /\ UNCHANGED <<store, writer, cache, saves, faults>>

ReadRows(r) ==
    /\ reader[r].pc = "reading"
    /\ Holding(r, [version |-> reader[r].version, table |-> table])
    /\ UNCHANGED <<store, writer, cache, saves, faults>>

(* A read that fails answers None, and a None is cached like a payload. *)
ReadFails(r) ==
    /\ Fault
    /\ \/ reader[r].pc = "idle" /\ Answer(r, Nothing)
       \/ reader[r].pc \in {"loading", "reading"} /\ Holding(r, Nothing)
    /\ UNCHANGED <<store, writer, cache, saves>>

(* Fault: the payload is stored under the version that is current by now. *)
StoreUnderLatest(r) ==
    /\ reader[r].pc = "storing"
    /\ cache' = [v \in DOMAIN cache \cup {CurrentMeta.version} |->
                    IF v = CurrentMeta.version THEN reader[r].payload ELSE cache[v]]
    /\ Answer(r, reader[r].payload)
    /\ UNCHANGED <<store, writer, saves, faults>>

Store(r) ==
    /\ reader[r].pc = "storing"
    /\ cache' = [v \in DOMAIN cache \cup {reader[r].key} |->
                    IF v = reader[r].key THEN reader[r].payload ELSE cache[v]]
    /\ Answer(r, reader[r].payload)
    /\ UNCHANGED <<store, writer, saves, faults>>

Return(r) ==
    /\ reader[r].pc = "returned"
    /\ reader' = [reader EXCEPT ![r] = [pc |-> "idle", key |-> Zero, version |-> Zero,
                                        payload |-> Nothing]]
    /\ UNCHANGED <<store, writer, cache, saves, faults>>

(* The caches are small and shared by all sections: an entry may go at any time. *)
Evict(v) ==
    /\ cache' = [u \in DOMAIN cache \ {v} |-> cache[u]]
    /\ UNCHANGED <<store, writer, reader, saves, faults>>

WriterStep(w) ==
    \/ Save(w) \/ Upsert(w) \/ Prune(w) \/ Publish(w) \/ PublishFailure(w)
    \/ StatementFails(w) \/ Die(w)

ReaderStep(r) ==
    \/ PollNothing(r) \/ PollHit(r) \/ PollMiss(r) \/ LoadMeta(r) \/ ReadRows(r)
    \/ ReadFails(r) \/ Store(r) \/ Return(r)

Next ==
    \/ \E w \in Writers : WriterStep(w)
    \/ \E r \in Readers : ReaderStep(r)
    \/ \E v \in DOMAIN cache : Evict(v)

Spec == Init /\ [][Next]_vars

-----------------------------------------------------------------------------
(* Reads are regular: whatever saves run meanwhile, and from the cache or not,
   a payload is at least as new as the table was when the version it is keyed
   by, and the version it says it has, were written. *)
RegularRead ==
    \A r \in Readers :
        (reader[r].pc = "returned" /\ reader[r].payload # Nothing) =>
            /\ reader[r].payload.table >= reader[r].key.of
            /\ reader[r].payload.table >= reader[r].payload.version.of

Idle == \A w \in Writers : writer[w].pc = "idle"

(* What the cache holds for the current version is the table. *)
CacheCurrent ==
    \A v \in DOMAIN cache :
        (v = CurrentMeta.version /\ cache[v] # Nothing) => cache[v].table = table

(* While no save is under way and none was cut short, a cached payload of the
   current version is what a fresh read would find. *)
QuietCoherence == (faults = 0 /\ Idle) => CacheCurrent
=============================================================================
