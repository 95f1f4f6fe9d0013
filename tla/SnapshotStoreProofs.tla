-------------------------- MODULE SnapshotStoreProofs --------------------------
(***************************************************************************)
(* Theorems about SnapshotStore for any number of producers and readers    *)
(* and any bounds.                                                         *)
(***************************************************************************)
EXTENDS SnapshotStore, TLAPS

(* Every version is written over a revision that is not newer than the table. *)
VersionsOld ==
    /\ table <= clock
    /\ newest.of <= table
    /\ meta # NoMeta => meta.version.of <= table

(* A payload is as new as the version it is kept under and the version it
   carries, and as old as the table allows. *)
GoodPayload(v, p) ==
    p # Nothing => /\ v.of <= p.table
                   /\ p.version.of <= p.table
                   /\ p.table <= table

ReadersGood ==
    \A r \in Readers :
        /\ reader[r].key.of <= table
        /\ reader[r].version.of <= table
        /\ reader[r].pc \in {"storing", "returned"} =>
              GoodPayload(reader[r].key, reader[r].payload)

CacheGood == \A v \in DOMAIN cache : GoodPayload(v, cache[v])

(* Without faults, a table that no save is about to publish is published. *)
Published ==
    (faults = 0 /\ \A w \in Writers : writer[w].pc \notin {"pruning", "publishing"})
        => IF meta = NoMeta THEN table = 0 ELSE meta.version.of = table

IInv == TypeOK /\ VersionsOld /\ ReadersGood /\ CacheGood /\ Published

(* CurrentMeta is a row of state_meta, and its version is not newer than the
   table. *)
LEMMA CurrentMetaGood ==
    ASSUME TypeOK, VersionsOld
    PROVE  /\ CurrentMeta \in [version : Versions, status : Statuses]
           /\ CurrentMeta.version.of <= table
BY DEF CurrentMeta, TypeOK, VersionsOld, Statuses, Versions

LEMMA InitIInv == Init => IInv
BY StoreAssumption
   DEF Init, IInv, TypeOK, VersionsOld, ReadersGood, CacheGood, Published, GoodPayload,
       Zero, Versions

(* The steps of a producer leave the readers alone, and the table only grows. *)
LEMMA WriterKeepsReaders ==
    ASSUME TypeOK, TypeOK', ReadersGood, CacheGood,
           UNCHANGED <<reader, cache>>, table <= table'
    PROVE  ReadersGood' /\ CacheGood'
<1>1. ReadersGood'
  <2> SUFFICES ASSUME NEW r \in Readers
               PROVE  /\ reader[r].key.of <= table'
                      /\ reader[r].version.of <= table'
                      /\ reader[r].pc \in {"storing", "returned"} =>
                            GoodPayload(reader[r].key, reader[r].payload)'
    BY DEF ReadersGood
  <2>1. reader[r].payload = Nothing \/ reader[r].payload \in Payloads
    BY DEF TypeOK
  <2>2. reader[r].key.of \in Nat /\ reader[r].version.of \in Nat /\ table \in Nat /\ table' \in Nat
    BY DEF TypeOK, Versions
  <2> QED
    BY <2>1, <2>2 DEF ReadersGood, GoodPayload, Payloads, Versions
<1>2. CacheGood'
  BY DEF TypeOK, CacheGood, GoodPayload, Payloads, Versions
<1> QED
  BY <1>1, <1>2

LEMMA WriterStepIInv ==
    ASSUME IInv, NEW w \in Writers, WriterStep(w)
    PROVE  IInv'
<1> USE StoreAssumption
<1>1. CASE Save(w)
  <2>1. TypeOK'
    BY <1>1 DEF IInv, TypeOK, Save, store
  <2>2. VersionsOld' /\ table <= table' /\ UNCHANGED <<reader, cache>>
    BY <1>1 DEF IInv, TypeOK, VersionsOld, Save, store
  <2>3. \A u \in Writers : writer[u].pc \in {"pruning", "publishing"}
                              => writer'[u].pc \in {"pruning", "publishing"}
    BY <1>1 DEF IInv, TypeOK, Save
  <2>4. Published'
    BY <1>1, <2>3 DEF IInv, Published, Save, store
  <2> QED
    BY <2>1, <2>2, <2>4, WriterKeepsReaders DEF IInv
<1>2. CASE Upsert(w)
  <2>1. TypeOK'
    BY <1>2 DEF IInv, TypeOK, Upsert, ChangeTable, Goto, Versions
  <2>2. VersionsOld' /\ table <= table' /\ UNCHANGED <<reader, cache>>
    BY <1>2 DEF IInv, TypeOK, VersionsOld, Upsert, ChangeTable, Versions, Statuses
  <2>3. writer'[w].pc \in {"pruning", "publishing"}
    BY <1>2 DEF IInv, TypeOK, Upsert, Goto
  <2> QED
    BY <2>1, <2>2, <2>3, WriterKeepsReaders DEF IInv, Published
<1>3. CASE Prune(w)
  <2>1. TypeOK'
    BY <1>3 DEF IInv, TypeOK, Prune, ChangeTable, Goto
  <2>2. VersionsOld' /\ table <= table' /\ UNCHANGED <<reader, cache>>
    BY <1>3 DEF IInv, TypeOK, VersionsOld, Prune, ChangeTable, Versions, Statuses
  <2>3. writer'[w].pc \in {"pruning", "publishing"}
    BY <1>3 DEF IInv, TypeOK, Prune, Goto
  <2> QED
    BY <2>1, <2>2, <2>3, WriterKeepsReaders DEF IInv, Published
<1>4. ASSUME NEW status \in Statuses, SetMeta(status), Goto(w, "idle"),
             UNCHANGED <<reader, cache, saves, faults>>
      PROVE  IInv'
  <2>1. TypeOK'
    BY <1>4 DEF IInv, TypeOK, SetMeta, Goto, Versions
  <2>2. VersionsOld' /\ table <= table' /\ UNCHANGED <<reader, cache>>
    BY <1>4 DEF IInv, TypeOK, VersionsOld, SetMeta, Versions
  <2>3. meta' # NoMeta /\ meta'.version.of = table'
    BY <1>4 DEF IInv, TypeOK, SetMeta, Versions
  <2> QED
    BY <2>1, <2>2, <2>3, WriterKeepsReaders DEF IInv, Published
<1>5. CASE Publish(w)
  BY <1>4, <1>5 DEF Publish, Statuses
<1>6. CASE PublishFailure(w)
  BY <1>4, <1>6 DEF PublishFailure, Statuses
<1>7. ASSUME Fault, NEW pc \in {"idle", "publishing"}, Goto(w, pc),
             UNCHANGED <<store, reader, cache, saves>>
      PROVE  IInv'
  <2>1. TypeOK' /\ faults' # 0
    BY <1>7 DEF IInv, TypeOK, Fault, Goto, store
  <2>2. VersionsOld' /\ table <= table'
    BY <1>7 DEF IInv, TypeOK, VersionsOld, store
  <2> QED
    BY <1>7, <2>1, <2>2, WriterKeepsReaders DEF IInv, Published
<1>8. CASE StatementFails(w)
  BY <1>7, <1>8 DEF StatementFails
<1>9. CASE Die(w)
  BY <1>7, <1>9 DEF Die
<1> QED
  BY <1>1, <1>2, <1>3, <1>5, <1>6, <1>8, <1>9 DEF WriterStep

ReaderRecords ==
    [pc : {"idle", "loading", "reading", "storing", "returned"},
     key : Versions, version : Versions, payload : Payloads \cup {Nothing}]

(* A reader's step changes its own record, the cache and the faults. *)
LEMMA ReaderMoves ==
    ASSUME IInv, NEW r \in Readers, NEW rec \in ReaderRecords,
           reader' = [reader EXCEPT ![r] = rec],
           rec.key.of <= table, rec.version.of <= table,
           rec.pc \in {"storing", "returned"} => GoodPayload(rec.key, rec.payload),
           UNCHANGED <<store, writer, saves>>,
           faults' \in Nat, faults' = 0 => faults = 0,
           DOMAIN cache' \subseteq Versions,
           \A v \in DOMAIN cache' : /\ cache'[v] \in Payloads \cup {Nothing}
                                    /\ GoodPayload(v, cache'[v])
    PROVE  IInv'
<1>1. TypeOK'
  BY DEF IInv, TypeOK, store, ReaderRecords
<1>2. VersionsOld' /\ Published'
  BY DEF IInv, VersionsOld, Published, store
<1>3. ReadersGood'
  BY DEF IInv, TypeOK, ReadersGood, GoodPayload, store
<1>4. CacheGood'
  BY DEF CacheGood, GoodPayload, store
<1> QED
  BY <1>1, <1>2, <1>3, <1>4 DEF IInv

LEMMA ReaderStepIInv ==
    ASSUME IInv, NEW r \in Readers, ReaderStep(r)
    PROVE  IInv'
<1>1. reader[r] \in ReaderRecords
  BY DEF IInv, TypeOK, ReaderRecords
<1>2. /\ DOMAIN cache \subseteq Versions
      /\ \A v \in DOMAIN cache : /\ cache[v] \in Payloads \cup {Nothing}
                                 /\ GoodPayload(v, cache[v])
      /\ faults \in Nat /\ table \in Nat
  BY DEF IInv, TypeOK, CacheGood
<1>3. /\ reader[r].key.of <= table
      /\ reader[r].version.of <= table
      /\ reader[r].pc \in {"storing", "returned"} =>
            GoodPayload(reader[r].key, reader[r].payload)
  BY DEF IInv, ReadersGood
<1>4. CurrentMeta.version \in Versions /\ CurrentMeta.version.of <= table
  BY CurrentMetaGood DEF IInv
<1>5. ASSUME NEW pc \in {"storing", "returned"},
             reader' = [reader EXCEPT ![r].pc = pc, ![r].payload = Nothing],
             UNCHANGED <<store, writer, cache, saves>>,
             faults' \in Nat, faults' = 0 => faults = 0
      PROVE  IInv'
  <2> DEFINE rec == [reader[r] EXCEPT !.pc = pc, !.payload = Nothing]
  <2>1. rec \in ReaderRecords /\ rec.key = reader[r].key /\ rec.version = reader[r].version
        /\ rec.payload = Nothing
    BY <1>1 DEF ReaderRecords
  <2>2. reader' = [reader EXCEPT ![r] = rec]
    BY <1>5 DEF IInv, TypeOK
  <2>3. GoodPayload(rec.key, rec.payload)
    BY <2>1 DEF GoodPayload
  <2> HIDE DEF rec
  <2> QED
    BY <1>2, <1>3, <1>5, <2>1, <2>2, <2>3, ReaderMoves
<1>6. CASE PollNothing(r)
  BY <1>2, <1>5, <1>6 DEF PollNothing, Answer
<1>7. CASE PollHit(r)
  <2> DEFINE rec == [reader[r] EXCEPT !.pc = "returned", !.key = CurrentMeta.version,
                                      !.payload = cache[CurrentMeta.version]]
  <2>1. rec \in ReaderRecords /\ rec.key = CurrentMeta.version
        /\ rec.version = reader[r].version /\ rec.payload = cache[CurrentMeta.version]
    BY <1>1, <1>2, <1>4, <1>7 DEF ReaderRecords, PollHit
  <2>2. reader' = [reader EXCEPT ![r] = rec]
    BY <1>7 DEF PollHit, IInv, TypeOK
  <2>3. GoodPayload(rec.key, rec.payload)
    BY <1>2, <1>7, <2>1 DEF PollHit
  <2> HIDE DEF rec
  <2> QED
    BY <1>2, <1>3, <1>4, <1>7, <2>1, <2>2, <2>3, ReaderMoves DEF PollHit
<1>8. CASE PollMiss(r)
  <2> DEFINE rec == [reader[r] EXCEPT !.pc = "loading", !.key = CurrentMeta.version]
  <2>1. rec \in ReaderRecords /\ rec.key = CurrentMeta.version
        /\ rec.version = reader[r].version /\ rec.pc = "loading"
    BY <1>1, <1>4 DEF ReaderRecords
  <2>2. reader' = [reader EXCEPT ![r] = rec]
    BY <1>8 DEF PollMiss, IInv, TypeOK
  <2> HIDE DEF rec
  <2> QED
    BY <1>2, <1>3, <1>4, <1>8, <2>1, <2>2, ReaderMoves DEF PollMiss
<1>9. CASE LoadMeta(r)
  <2>1. CASE HasSnapshot
    <3> DEFINE rec == [reader[r] EXCEPT !.pc = "reading", !.version = CurrentMeta.version]
    <3>1. rec \in ReaderRecords /\ rec.key = reader[r].key
          /\ rec.version = CurrentMeta.version /\ rec.pc = "reading"
      BY <1>1, <1>4 DEF ReaderRecords
    <3>2. reader' = [reader EXCEPT ![r] = rec]
      BY <1>9, <2>1 DEF LoadMeta, IInv, TypeOK
    <3> HIDE DEF rec
    <3> QED
      BY <1>2, <1>3, <1>4, <1>9, <3>1, <3>2, ReaderMoves DEF LoadMeta
  <2>2. CASE ~HasSnapshot
    BY <1>2, <1>5, <1>9, <2>2 DEF LoadMeta, Holding
  <2> QED
    BY <2>1, <2>2
<1>10. CASE ReadRows(r)
  <2> DEFINE p == [version |-> reader[r].version, table |-> table]
  <2> DEFINE rec == [reader[r] EXCEPT !.pc = "storing", !.payload = p]
  <2>1. rec \in ReaderRecords /\ rec.key = reader[r].key
        /\ rec.version = reader[r].version /\ rec.payload = p
    BY <1>1, <1>2 DEF ReaderRecords, Payloads
  <2>2. reader' = [reader EXCEPT ![r] = rec]
    BY <1>10 DEF ReadRows, Holding, IInv, TypeOK
  <2>3. GoodPayload(rec.key, rec.payload)
    BY <1>2, <1>3, <2>1 DEF GoodPayload
  <2> HIDE DEF rec, p
  <2> QED
    BY <1>2, <1>3, <1>10, <2>1, <2>2, <2>3, ReaderMoves DEF ReadRows
<1>11. CASE ReadFails(r)
  BY <1>2, <1>5, <1>11 DEF ReadFails, Fault, Answer, Holding
<1>12. CASE Store(r)
  <2> DEFINE rec == [reader[r] EXCEPT !.pc = "returned", !.payload = reader[r].payload]
  <2>1. rec \in ReaderRecords /\ rec.key = reader[r].key
        /\ rec.version = reader[r].version /\ rec.payload = reader[r].payload
    BY <1>1 DEF ReaderRecords
  <2>2. reader' = [reader EXCEPT ![r] = rec]
    BY <1>12 DEF Store, Answer, IInv, TypeOK
  <2>3. GoodPayload(reader[r].key, reader[r].payload)
    BY <1>3, <1>12 DEF Store
  <2>4. /\ DOMAIN cache' \subseteq Versions
        /\ \A v \in DOMAIN cache' : /\ cache'[v] \in Payloads \cup {Nothing}
                                    /\ GoodPayload(v, cache'[v])
    BY <1>1, <1>2, <1>12, <2>3 DEF Store, ReaderRecords
  <2> HIDE DEF rec
  <2> QED
    BY <1>2, <1>3, <1>12, <2>1, <2>2, <2>3, <2>4, ReaderMoves DEF Store
<1>13. CASE Return(r)
  <2> DEFINE rec == [pc |-> "idle", key |-> Zero, version |-> Zero, payload |-> Nothing]
  <2>1. rec \in ReaderRecords /\ rec.key.of <= table /\ rec.version.of <= table
    BY <1>2 DEF ReaderRecords, Zero, Versions
  <2> HIDE DEF rec
  <2>2. reader' = [reader EXCEPT ![r] = rec] /\ rec.pc = "idle"
    BY <1>13 DEF Return, rec
  <2> QED
    BY <1>2, <1>13, <2>1, <2>2, ReaderMoves DEF Return
<1> QED
  BY <1>6, <1>7, <1>8, <1>9, <1>10, <1>11, <1>12, <1>13 DEF ReaderStep

LEMMA Invariance == Spec => []IInv
<1>1. ASSUME IInv, NEW v \in DOMAIN cache, Evict(v)
      PROVE  IInv'
  BY <1>1 DEF Evict, IInv, TypeOK, VersionsOld, ReadersGood, CacheGood, Published,
              GoodPayload, store
<1>2. IInv /\ UNCHANGED vars => IInv'
  BY DEF vars, IInv, TypeOK, VersionsOld, ReadersGood, CacheGood, Published, GoodPayload
<1>3. IInv /\ [Next]_vars => IInv'
  BY <1>1, <1>2, WriterStepIInv, ReaderStepIInv DEF Next
<1> QED
  BY InitIInv, <1>3, PTL DEF Spec

(* The store and its readers keep their types. *)
THEOREM TypeCorrect == Spec => []TypeOK
<1>1. IInv => TypeOK
  BY DEF IInv
<1> QED
  BY <1>1, Invariance, PTL

(* A payload that a reader returns, cached or not, is at least as new as the
   table was when the version that was polled for it was written, however
   many saves of however many producers are half done: a version is written
   after the rows it stands for, and is read before them. *)
THEOREM Regularity == Spec => []RegularRead
<1>1. IInv => RegularRead
  BY DEF IInv, TypeOK, ReadersGood, GoodPayload, RegularRead, Versions, Payloads
<1> QED
  BY <1>1, Invariance, PTL

(* Between saves, and as long as no save was cut short, the payload cached for
   the current version is the table itself. *)
THEOREM Coherence == Spec => []QuietCoherence
<1>1. IInv => QuietCoherence
  <2> SUFFICES ASSUME IInv, faults = 0, Idle, NEW v \in DOMAIN cache,
                      v = CurrentMeta.version, cache[v] # Nothing
               PROVE  cache[v].table = table
    BY DEF QuietCoherence, CacheCurrent
  <2>1. cache[v] \in Payloads /\ table \in Nat /\ v \in Versions
    BY DEF IInv, TypeOK
  <2>2. v.of <= cache[v].table /\ cache[v].table <= table
    BY DEF IInv, CacheGood, GoodPayload
  <2>3. IF meta = NoMeta THEN table = 0 ELSE meta.version.of = table
    BY DEF IInv, Published, Idle
  <2>4. CASE meta = NoMeta
    BY <2>1, <2>2, <2>3, <2>4 DEF Payloads
  <2>5. CASE meta # NoMeta
    BY <2>1, <2>2, <2>3, <2>5 DEF Payloads, CurrentMeta
  <2> QED
    BY <2>4, <2>5
<1> QED
  BY <1>1, Invariance, PTL
=============================================================================
