--------------------------- MODULE LiveScannerProofs ---------------------------
(***************************************************************************)
(* Theorems about LiveScanner for any universe, batch size, F&O prefix and *)
(* manual scans, with every failure of the model and any number of         *)
(* restarts allowed.                                                       *)
(***************************************************************************)
EXTENDS LiveScanner, TLAPS

LEMMA Sizes == N \in Nat \ {0} /\ BatchSize \in Nat \ {0}
BY ScannerAssumption

(* The batch of a symbol comes no later than that of a symbol after it. *)
LEMMA BatchOrder ==
    ASSUME NEW s \in Universe, NEW t \in Universe, s <= t
    PROVE  /\ (s - 1) \div BatchSize \in 0..((t - 1) \div BatchSize)
           /\ s \in Chunk((s - 1) \div BatchSize)
<1>1. s - 1 \in Nat /\ t - 1 \in Nat /\ s - 1 <= t - 1
  BY Sizes DEF Universe
<1>2. /\ (s - 1) \div BatchSize \in Nat
      /\ (t - 1) \div BatchSize \in Nat
      /\ (s - 1) \div BatchSize <= (t - 1) \div BatchSize
  BY <1>1, Sizes
<1> QED
  BY <1>2 DEF Chunk

LEMMA BatchNumbers == LastBatch \in Nat /\ \A i : Chunk(i) \subseteq Universe
<1>1. N - 1 \in Nat
  BY Sizes
<1>2. LastBatch \in Nat
  BY <1>1, Sizes DEF LastBatch
<1> QED
  BY <1>2 DEF Chunk

-----------------------------------------------------------------------------
(* Every action of the loop, the manual scan and the environment keeps every
   variable in its type. *)
THEOREM TypeCorrect == Spec => []TypeOK
<1> DEFINE PCs == {"boundary", "head", "override", "reseed", "clear", "save", "prune", "stage"}
<1>a. FoCounts # {} /\ MaxRestarts \in Nat /\ SameProcess \in BOOLEAN
      /\ \A list \in ManualLists : list \subseteq Symbols
  BY ScannerAssumption
<1>b. 0 \in 0..LastBatch
  BY BatchNumbers
<1>c. ASSUME NEW fo \in FoCounts
      PROVE  [pc |-> "boundary", batch |-> 0, fo |-> fo]
                \in [pc : PCs, batch : 0..LastBatch, fo : FoCounts]
  BY <1>b
<1>1. Init => TypeOK
  <2> SUFFICES ASSUME Init PROVE TypeOK
    OBVIOUS
  <2>1. loop \in [pc : PCs, batch : 0..LastBatch, fo : FoCounts]
    BY <1>c DEF Init
  <2>2. restarts \in 0..MaxRestarts
    BY <1>a DEF Init
  <2> QED
    BY <2>1, <2>2 DEF Init, TypeOK, Origins
<1>2. TypeOK /\ [Next]_vars => TypeOK'
  <2> SUFFICES ASSUME TypeOK, [Next]_vars PROVE TypeOK'
    OBVIOUS
  <2> USE DEF TypeOK, Origins, others
  <2>g. ASSUME NEW pc \in PCs, Goto(pc)
        PROVE  loop' \in [pc : PCs, batch : 0..LastBatch, fo : FoCounts]
    BY <2>g DEF Goto
  <2>w. ASSUME NEW S, NEW o \in Origins, Write(S, o) \/ DeleteAllBut(S)
        PROVE  rows' \in [Symbols -> Origins]
    BY <2>w DEF Write, DeleteAllBut
  <2>1. CASE BeginCycle
    BY <2>1, <1>b DEF BeginCycle
  <2>2. CASE Pause \/ SeeOverride \/ MissOverride \/ UpsertNothing \/ PruneFails
    BY <2>2, <2>g DEF Pause, SeeOverride, MissOverride, UpsertNothing, PruneFails
  <2>3. ASSUME NEW got \in SUBSET Chunk(loop.batch), Fetch(got) PROVE TypeOK'
    BY <2>3, <2>g, BatchNumbers DEF Fetch, Symbols
  <2>4. CASE Reseed
    BY <2>4, <2>g DEF Reseed, Present
  <2>5. CASE ClearOverride
    BY <2>5, <2>g DEF ClearOverride
  <2>6. CASE Upsert
    <3>1. Goto("prune") \/ Goto("stage")
      BY <2>6 DEF Upsert
    <3> QED
      BY <2>6, <3>1, <2>g, <2>w DEF Upsert
  <2>7. CASE Prune
    BY <2>7, <2>g, <2>w DEF Prune
  <2>8. CASE StageOne \/ SkipStageOne
    <3>1. NextBatch
      BY <2>8 DEF StageOne, SkipStageOne
    <3>2. loop' \in [pc : PCs, batch : 0..LastBatch, fo : FoCounts]
      <4>1. CASE loop.batch = LastBatch
        BY <3>1, <4>1, <1>b DEF NextBatch
      <4>2. CASE loop.batch # LastBatch
        <5>1. loop.batch + 1 \in 0..LastBatch
          BY <4>2, BatchNumbers
        <5> QED
          BY <3>1, <4>2, <5>1 DEF NextBatch
      <4> QED
        BY <4>1, <4>2
    <3> QED
      BY <3>1, <3>2 DEF NextBatch
  <2>9. CASE ManualScan
    BY <2>9, <1>a DEF ManualScan
  <2>10. CASE ManualUpsert
    BY <2>10, <2>w DEF ManualUpsert, Manually
  <2>11. CASE ManualPrune
    BY <2>11, <2>w DEF ManualPrune, Manually
  <2>12. CASE SetManualOverride
    <3>1. override' \in BOOLEAN
      BY <2>12, Zenon DEF SetManualOverride
    <3> QED
      BY <2>12, <3>1 DEF SetManualOverride, Idle
  <2>15. CASE ManualDies
    BY <2>15 DEF ManualDies, Idle
  <2>16. CASE OverrideExpires
    <3>1. override' \in BOOLEAN
      BY <2>16, Zenon DEF OverrideExpires
    <3> QED
      BY <2>16, <3>1 DEF OverrideExpires
  <2>13. CASE Restart
    BY <2>13, <1>a, <1>b DEF Restart, Idle
  <2>14. CASE UNCHANGED vars
    BY <2>14 DEF vars
  <2> QED
    BY <2>1, <2>2, <2>3, <2>4, <2>5, <2>6, <2>7, <2>8, <2>9, <2>10, <2>11, <2>12, <2>13, <2>14,
       <2>15, <2>16
    DEF Next, LoopStep, ManualStep
<1> QED
  BY <1>1, <1>2, PTL DEF Spec

-----------------------------------------------------------------------------
(* The keys of the batch at hand are keys of `merged` and of this batch only,
   and, outside the gap between two cycles, every row this cycle has written
   has its key in `merged`: so the prune of the last batch spares it, and an
   upsert cannot replace it by anything but a record of its own batch. *)
KeysInv ==
    /\ fetched \subseteq merged
    /\ fetched \subseteq Chunk(loop.batch)
    /\ loop.pc \in {"boundary", "head"} => fetched = {}
    /\ loop.pc # "boundary" => \A s \in Symbols : rows[s] = "cycle" => s \in merged

LEMMA Keys == Spec => [](TypeOK /\ KeysInv)
<1>1. Init => KeysInv
  BY DEF Init, KeysInv
<1>2. TypeOK /\ KeysInv /\ [Next]_vars => KeysInv'
  <2> SUFFICES ASSUME TypeOK, KeysInv, [Next]_vars PROVE KeysInv'
    OBVIOUS
  <2> USE DEF TypeOK, Origins, KeysInv, others, Goto
  <2>1. CASE BeginCycle
    BY <2>1 DEF BeginCycle
  <2>2. CASE Pause
    BY <2>2 DEF Pause
  <2>3. ASSUME NEW got \in SUBSET Chunk(loop.batch), Fetch(got) PROVE KeysInv'
    BY <2>3 DEF Fetch
  <2>4. CASE SeeOverride \/ MissOverride \/ UpsertNothing \/ PruneFails
    BY <2>4 DEF SeeOverride, MissOverride, UpsertNothing, PruneFails
  <2>5. CASE Reseed \/ ClearOverride
    BY <2>5 DEF Reseed, ClearOverride
  <2>6. CASE Upsert
    BY <2>6 DEF Upsert, Write
  <2>7. CASE Prune
    BY <2>7 DEF Prune, DeleteAllBut
  <2>8. CASE StageOne \/ SkipStageOne
    <3>1. NextBatch /\ loop.pc = "stage"
      BY <2>8 DEF StageOne, SkipStageOne
    <3> QED
      BY <3>1 DEF NextBatch
  <2>9. CASE ManualScan \/ SetManualOverride \/ ManualDies \/ OverrideExpires
    BY <2>9 DEF ManualScan, SetManualOverride, ManualDies, OverrideExpires
  <2>10. CASE ManualUpsert
    BY <2>10 DEF ManualUpsert, Write
  <2>11. CASE ManualPrune
    BY <2>11 DEF ManualPrune, DeleteAllBut
  <2>12. CASE Restart
    <3>1. loop'.pc = "boundary" /\ fetched' = {}
      BY <2>12 DEF Restart
    <3> QED
      BY <3>1
  <2>13. CASE UNCHANGED vars
    BY <2>13 DEF vars
  <2> QED
    BY <2>1, <2>2, <2>3, <2>4, <2>5, <2>6, <2>7, <2>8, <2>9, <2>10, <2>11, <2>12, <2>13
    DEF Next, LoopStep, ManualStep
<1> QED
  BY <1>1, <1>2, TypeCorrect, PTL DEF Spec

(* How a step that moves the loop treats the rows, which is what the next two
   theorems are about. *)
LEMMA LoopRows ==
    ASSUME TypeOK, KeysInv, [Next]_vars, loop' # loop, NEW s \in Symbols
    PROVE  \/ rows'[s] = rows[s]
           \/ loop.pc = "boundary" /\ rows[s] = "cycle"
           \/ rows'[s] = "cycle" /\ s \in Chunk(loop.batch)
           \/ loop.pc = "prune" /\ rows'[s] = "none" /\ s \notin merged
<1> USE DEF TypeOK, Origins, KeysInv, others
<1>1. CASE BeginCycle
  BY <1>1 DEF BeginCycle
<1>2. CASE Upsert
  BY <1>2 DEF Upsert, Write
<1>3. CASE Prune
  BY <1>3 DEF Prune, DeleteAllBut
<1>4. ASSUME NEW got, Fetch(got) PROVE UNCHANGED rows
  BY <1>4 DEF Fetch
<1>5. CASE Pause \/ SeeOverride \/ MissOverride \/ Reseed \/ ClearOverride \/ UpsertNothing
           \/ PruneFails \/ StageOne \/ SkipStageOne \/ Restart
  BY <1>5 DEF Pause, SeeOverride, MissOverride, Reseed, ClearOverride, UpsertNothing, PruneFails,
     StageOne, SkipStageOne, NextBatch, Restart
<1>6. ManualStep \/ OverrideExpires \/ UNCHANGED vars => UNCHANGED loop
  BY DEF ManualStep, ManualScan, ManualUpsert, ManualPrune, SetManualOverride, ManualDies,
     OverrideExpires, vars
<1> QED
  BY <1>1, <1>2, <1>3, <1>4, <1>5, <1>6 DEF Next, LoopStep

(* No failed batch, reseed, restart or manual scan makes the loop delete or
   age a row it has saved in the running cycle: the collapse of the table to
   its last batch cannot come back. *)
THEOREM CycleRows == Spec => CycleRowsKept
<1>1. ASSUME TypeOK, KeysInv, [Next]_vars, NEW s \in Symbols,
             rows[s] = "cycle", loop.pc # "boundary", loop' # loop
      PROVE  rows'[s] = "cycle"
  BY <1>1, LoopRows DEF KeysInv
<1>2. TypeOK /\ KeysInv /\ [Next]_vars =>
        [\A s \in Symbols :
          (rows[s] = "cycle" /\ loop.pc # "boundary" /\ loop' # loop) => rows'[s] = "cycle"]_vars
  BY <1>1
<1> QED
  BY <1>2, Keys, PTL DEF Spec, CycleRowsKept

(* The loop writes over a manual scan's row only with a record of the batch
   it has just computed, never with one it carried along. *)
THEOREM FreshOverManual == Spec => OnlyFreshOverManual
<1>1. ASSUME TypeOK, KeysInv, [Next]_vars, NEW s \in Symbols,
             rows[s] = "manual", loop' # loop
      PROVE  \/ rows'[s] \in {"manual", "none"}
             \/ rows'[s] = "cycle" /\ s \in Chunk(loop.batch)
  BY <1>1, LoopRows
<1>2. TypeOK /\ KeysInv /\ [Next]_vars =>
        [\A s \in Symbols :
          (rows[s] = "manual" /\ loop' # loop) =>
              \/ rows'[s] \in {"manual", "none"}
              \/ rows'[s] = "cycle" /\ s \in Chunk(loop.batch)]_vars
  BY <1>1
<1> QED
  BY <1>2, Keys, PTL DEF Spec, OnlyFreshOverManual

(* For any prefix and any batch size, Stage 1 finds every F&O-eligible
   symbol's batch behind it. *)
THEOREM PrefixComplete == Spec => StageOneReady
<1>1. ASSUME TypeOK, StageOne, NEW s \in 1..loop.fo
      PROVE  \E i \in 0..loop.batch : s \in Chunk(i)
  <2>1. loop.fo \in 0..N /\ loop.batch = TriggerBatch(loop.fo)
    BY <1>1, ScannerAssumption DEF TypeOK, StageOne
  <2>2. loop.fo \in Universe /\ s \in Universe /\ s <= loop.fo /\ loop.fo # 0
    BY <1>1, <2>1, Sizes DEF Universe
  <2>3. loop.batch = (loop.fo - 1) \div BatchSize
    BY <2>1, <2>2 DEF TriggerBatch
  <2> QED
    BY <2>2, <2>3, BatchOrder
<1>2. TypeOK =>
        [StageOne => \A s \in 1..loop.fo : \E i \in 0..loop.batch : s \in Chunk(i)]_vars
  BY <1>1
<1> QED
  BY <1>2, TypeCorrect, PTL DEF StageOneReady
=============================================================================
