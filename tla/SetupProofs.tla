----------------------------- MODULE SetupProofs ------------------------------
(***************************************************************************)
(* What holds of the setup plans for any producers, stages, sources, ages  *)
(* and levels: a plan that ended has its outcome, its levels are frozen    *)
(* after its first day, and one bar takes it as far as it goes.            *)
(***************************************************************************)
EXTENDS SetupPlans, TLAPS

Statuses == Open \cup Terminal

LEMMA StepType ==
    ASSUME NEW status \in Statuses, NEW bar \in Bars, NEW aged \in BOOLEAN
    PROVE  Step(status, bar, aged) \in Statuses
BY DEF Step, Statuses, Open, Terminal, Bars

LEMMA AdvanceType ==
    ASSUME NEW status \in Statuses, NEW bar \in Bars, NEW aged \in BOOLEAN
    PROVE  Advance(status, bar, aged) \in Statuses
<1> DEFINE one == Step(status, bar, aged)
           two == Step(one, bar, aged)
           three == Step(two, bar, aged)
<1>1. one \in Statuses
  BY StepType
<1> HIDE DEF one
<1>2. two \in Statuses
  BY <1>1, StepType
<1> HIDE DEF two
<1>3. three \in Statuses
  BY <1>2, StepType
<1> HIDE DEF three
<1>4. Step(three, bar, aged) \in Statuses
  BY <1>3, StepType
<1> QED
  BY <1>4 DEF Advance, one, two, three

LEMMA AdvanceIs ==
    ASSUME NEW status \in Open, NEW bar \in Bars, NEW aged \in BOOLEAN
    PROVE  Advance(status, bar, aged) = Outcome(status, bar, aged)
<1> DEFINE one == Step(status, bar, aged)
           two == Step(one, bar, aged)
           three == Step(two, bar, aged)
<1>1. bar.stop \in BOOLEAN /\ bar.reach \in 0 .. 3
  BY DEF Bars
<1>2. \A ended \in Terminal : Step(ended, bar, aged) = ended
  BY DEF Step, Terminal
<1>3. Advance(status, bar, aged) = Step(three, bar, aged)
  BY DEF Advance
<1>4. CASE one \in Terminal
  <2>1. two = one /\ three = one /\ Step(three, bar, aged) = one
    BY <1>2, <1>4
  <2> HIDE DEF two, three
  <2> QED
    BY <1>1, <1>3, <1>4, <2>1 DEF Step, Outcome, Open, Terminal
<1>5. CASE one = status
  <2>1. two = one /\ three = one /\ Step(three, bar, aged) = one
    BY <1>5
  <2> HIDE DEF two, three
  <2> QED
    BY <1>1, <1>3, <1>5, <2>1 DEF Step, Outcome, Open, Terminal
<1>6. CASE one \notin Terminal /\ one # status
  <2>1. ~bar.stop /\ \/ status = "WAITING" /\ bar.reach >= 1 /\ one = "ACTIVE"
                     \/ status = "ACTIVE" /\ bar.reach >= 2 /\ one = "T1_HIT"
    BY <1>1, <1>6 DEF Step, Open, Terminal
  <2>2. CASE status = "ACTIVE"
    <3>1. two = IF bar.reach >= 3 \/ aged THEN "CLOSED" ELSE "T1_HIT"
      BY <2>1, <2>2 DEF Step
    <3> HIDE DEF two
    <3>2. three = two /\ Step(three, bar, aged) = two
      BY <1>1, <2>1, <3>1 DEF Step
    <3> QED
      BY <1>1, <1>3, <2>1, <2>2, <3>1, <3>2 DEF Outcome
  <2>3. CASE status = "WAITING"
    <3>1. two = IF bar.reach >= 2 THEN "T1_HIT" ELSE IF aged THEN "CLOSED" ELSE "ACTIVE"
      BY <2>1, <2>3 DEF Step
    <3> HIDE DEF two
    <3>2. three = IF bar.reach >= 2
                  THEN IF bar.reach >= 3 \/ aged THEN "CLOSED" ELSE "T1_HIT"
                  ELSE two
      BY <1>1, <2>1, <3>1 DEF Step
    <3> HIDE DEF three
    <3>3. Step(three, bar, aged) = three
      BY <1>1, <2>1, <3>1, <3>2 DEF Step
    <3> QED
      BY <1>1, <1>3, <2>1, <2>3, <3>1, <3>2, <3>3 DEF Outcome
  <2> QED
    BY <2>1, <2>2, <2>3
<1> QED
  BY <1>4, <1>5, <1>6

(* What a producer or the page is about to write of plan id: a plan whose day has
   come, an end after its outcome, and the levels of an earlier day as they are. *)
RowSound(day, t, done, id, row) ==
    /\ id \in Ids /\ row \in Plan /\ id[2] <= day
    /\ ~IsOpen(row) => id \in done
    /\ id[2] < day => t[id] # NoPlan /\ row.levels = t[id].levels

WritesSound(day, t, done, writes) ==
    \/ writes = {}
    \/ \E w \in Writes : writes = {w} /\ RowSound(day, t, done, w.id, w.row)

(* No plan is of a day to come. *)
Dated(t) == \A id \in Ids : t[id] # NoPlan => id[2] <= today

SetupInv ==
    /\ TypeOK /\ EndedHasOutcome /\ Dated(table)
    /\ DOMAIN pending = Producers /\ DOMAIN at = Producers
    /\ \A p \in Producers : ~Deciding(p) =>
         \E writes : /\ pending[p] = <<writes>>
                     /\ WritesSound(today, table, settled, writes)
    /\ closing # <<>> =>
         /\ closing = <<closing[1], closing[2]>>
         /\ RowSound(today, table, settled, closing[1], closing[2])

LEMMA OpenPlan ==
    ASSUME TypeOK, NEW id \in Ids, IsOpen(table[id])
    PROVE  table[id] \in Plan /\ table[id] # NoPlan
BY DEF TypeOK, IsOpen

LEMMA AgedType == \A id \in Ids : Aged(id) \in BOOLEAN
BY DEF Aged

LEMMA AdvancedRow ==
    ASSUME TypeOK, NEW id \in Ids, IsOpen(table[id]), NEW row \in Advances(id)
    PROVE  row \in Plan /\ row # NoPlan /\ row.levels = table[id].levels
<1>1. id # <<>>
  BY DEF Ids
<1>2. table[id] \in Plan
  BY OpenPlan
<1>3. PICK bar \in Bars : row = [table[id] EXCEPT !.status = Advance(@, bar, Aged(id))]
  BY <1>1 DEF Advances
<1> DEFINE next == Advance(table[id].status, bar, Aged(id))
<1>4. next \in Statuses
  BY <1>2, AdvanceType, AgedType DEF Plan, Statuses
<1>5. row = [table[id] EXCEPT !.status = next]
  BY <1>3
<1> HIDE DEF next
<1> QED
  BY <1>2, <1>4, <1>5, NoPlanAssumption DEF Plan, Statuses

(* A row that a stage makes of a plan, with what has been recorded by then. *)
LEMMA PlanWritesSound ==
    ASSUME SetupInv, NEW id, id = <<>> \/ (id \in Ids /\ IsOpen(table[id])), NEW row,
           id # <<>> => row \in Plan /\ row.levels = table[id].levels,
           NEW done, id # <<>> /\ ~IsOpen(row) => id \in done,
           NEW writes \in PlanWrites(id, row)
    PROVE  WritesSound(today, table, done, writes)
<1>1. CASE writes = {}
  BY <1>1 DEF WritesSound
<1>2. CASE writes # {}
  <2>1. id # <<>> /\ id \in Ids /\ IsOpen(table[id]) /\ writes = {Write(id, row)}
    BY <1>2 DEF PlanWrites
  <2>2. Write(id, row) \in Writes /\ Write(id, row).id = id /\ Write(id, row).row = row
    BY <2>1 DEF Write, Writes
  <2>3. RowSound(today, table, done, id, row)
    BY <2>1 DEF RowSound, IsOpen, SetupInv, Dated
  <2> QED
    BY <2>1, <2>2, <2>3 DEF WritesSound
<1> QED
  BY <1>1, <1>2

LEMMA MintWritesSound ==
    ASSUME SetupInv, NEW source \in Sources, NEW done, NEW writes \in MintWrites(source)
    PROVE  WritesSound(today, table, done, writes)
<1>1. CASE writes = {}
  BY <1>1 DEF WritesSound
<1>2. CASE writes # {}
  <2>1. PICK levels \in Levels[source] : writes = {Write(<<source, today>>, Minted(levels))}
    BY <1>2 DEF MintWrites
  <2>2. Minted(levels) \in Plan /\ Minted(levels).status = "WAITING"
    BY DEF Minted, Plan, Open, Terminal
  <2> DEFINE id == <<source, today>>
             row == Minted(levels)
  <2>3. id \in Ids /\ ~(id[2] < today) /\ id[2] <= today
    BY DEF SetupInv, TypeOK, Ids, Days
  <2>4. IsOpen(row)
    BY <2>2, NoPlanAssumption DEF IsOpen, Open
  <2>5. writes = {Write(id, row)} /\ row \in Plan
    BY <2>1, <2>2
  <2> HIDE DEF id, row
  <2>6. RowSound(today, table, done, id, row)
    BY <2>3, <2>4, <2>5 DEF RowSound
  <2>7. Write(id, row) \in Writes /\ Write(id, row).id = id /\ Write(id, row).row = row
    BY <2>3, <2>5 DEF Write, Writes
  <2> QED
    BY <2>5, <2>6, <2>7 DEF WritesSound
<1> QED
  BY <1>1, <1>2

LEMMA MoreDone ==
    ASSUME NEW day, NEW t, NEW done, NEW more, done \subseteq more
    PROVE  /\ \A id, row : RowSound(day, t, done, id, row) => RowSound(day, t, more, id, row)
           /\ \A writes : WritesSound(day, t, done, writes) => WritesSound(day, t, more, writes)
BY DEF RowSound, WritesSound

LEMMA FaultType ==
    ASSUME SetupInv, NEW fails, Fault(fails)
    PROVE  faults' \in 0 .. MaxFaults
BY SetupAssumption DEF SetupInv, TypeOK, Fault

LEMMA DecidesInv ==
    ASSUME SetupInv, NEW p \in Producers, NEW id, id = <<>> \/ id \in Ids, NEW row, NEW choices,
           Decides(p, id, row, choices), faults' \in 0 .. MaxFaults,
           \A writes \in choices : WritesSound(today, table, settled', writes)
    PROVE  SetupInv'
<1>1. PICK writes \in choices : pending' = [pending EXCEPT ![p] = <<writes>>]
  BY DEF Decides
<1>2. /\ settled \subseteq settled' /\ settled' \subseteq Ids
      /\ UNCHANGED <<today, table, at, closing>>
  BY DEF Decides, SetupInv, TypeOK
<1>3. WritesSound(today, table, settled', writes)
  OBVIOUS
<1>4. /\ DOMAIN pending' = Producers /\ pending'[p] = <<writes>>
      /\ \A q \in Producers : q # p => pending'[q] = pending[q]
  BY <1>1 DEF SetupInv
<1>5. \A q \in Producers : ~Deciding(q)' =>
         \E w : pending'[q] = <<w>> /\ WritesSound(today, table, settled', w)
  BY <1>2, <1>3, <1>4, MoreDone DEF SetupInv, Deciding
<1>6. \A q \in Producers : pending'[q] \in {<<>>, <<{}>>} \cup {<<{w}>> : w \in Writes}
  <2> DEFINE Shapes == {<<>>, <<{}>>} \cup {<<{w}>> : w \in Writes}
  <2>1. \A q \in Producers : pending[q] \in Shapes
    BY DEF SetupInv, TypeOK
  <2>2. <<writes>> \in Shapes
    BY <1>3 DEF WritesSound
  <2> HIDE DEF Shapes
  <2>3. \A q \in Producers : pending'[q] \in Shapes
    BY <1>4, <2>1, <2>2
  <2> QED
    BY <2>3 DEF Shapes
<1>7. closing' # <<>> =>
         /\ closing' = <<closing'[1], closing'[2]>>
         /\ RowSound(today, table, settled', closing'[1], closing'[2])
  BY <1>2, MoreDone DEF SetupInv
<1>8. TypeOK'
  BY <1>2, <1>6 DEF SetupInv, TypeOK
<1>9. EndedHasOutcome' /\ Dated(table)'
  BY <1>2 DEF SetupInv, EndedHasOutcome, Dated, IsOpen
<1> QED
  BY <1>2, <1>4, <1>5, <1>7, <1>8, <1>9 DEF SetupInv

LEMMA SourceType ==
    ASSUME SetupInv, NEW p \in Producers
    PROVE  Source(p) \in Sources /\ at[p] \in 1 .. Len(Stages[p])
<1>1. at[p] \in 1 .. Len(Stages[p]) /\ Stages[p] \in Seq(Sources)
  BY SetupAssumption DEF SetupInv, TypeOK
<1> QED
  BY <1>1 DEF Source

(* What the loads of a stage find. *)
LEMMA LoadedIds ==
    ASSUME NEW source, NEW fails, NEW id \in Loaded(OpenIds(source), fails) \cup Loaded(Oldest, fails)
    PROVE  id = <<>> \/ (id \in Ids /\ IsOpen(table[id]))
BY DEF Loaded, OpenIds, Oldest

LEMMA StageInv ==
    ASSUME SetupInv, NEW p \in Producers, MainStage(p) \/ SideStage(p)
    PROVE  SetupInv'
<1>1. PICK fails, id, row, choices :
        /\ id = <<>> \/ (id \in Ids /\ IsOpen(table[id]))
        /\ row \in Advances(id) /\ Fault(fails)
        /\ Decides(p, id, row, choices)
        /\ \/ choices \subseteq PlanWrites(id, row) \cup MintWrites(Source(p))
           \/ \E cross : /\ cross = <<>> \/ (cross \in Ids /\ IsOpen(table[cross]))
                         /\ choices \subseteq PlanWrites(id, row) \cup PlanWrites(cross, table[cross])
  <2>1. CASE MainStage(p)
    <3>1. PICK fails \in BOOLEAN :
            /\ Fault(fails) /\ Source(p) = "LS"
            /\ \E id \in Loaded(Oldest, fails) : \E row \in Advances(id) :
                 Decides(p, id, row, PlanWrites(id, row)
                                       \cup IF IsOpen(row) THEN {} ELSE MintWrites("LS"))
      BY <2>1 DEF MainStage
    <3>2. PICK id \in Loaded(Oldest, fails) : \E row \in Advances(id) :
            Decides(p, id, row, PlanWrites(id, row)
                                  \cup IF IsOpen(row) THEN {} ELSE MintWrites("LS"))
      BY <3>1
    <3>3. PICK row \in Advances(id) :
            Decides(p, id, row, PlanWrites(id, row)
                                     \cup IF IsOpen(row) THEN {} ELSE MintWrites("LS"))
      BY <3>2
    <3>4. id = <<>> \/ (id \in Ids /\ IsOpen(table[id]))
      BY LoadedIds
    <3>5. (PlanWrites(id, row) \cup IF IsOpen(row) THEN {} ELSE MintWrites("LS"))
            \subseteq PlanWrites(id, row) \cup MintWrites(Source(p))
      BY <3>1
    <3> QED
      BY <3>1, <3>3, <3>4, <3>5
  <2>2. CASE SideStage(p)
    <3> DEFINE chosen(id, row, cross) ==
                 PlanWrites(id, row)
                   \cup IF IsOpen(row) \/ Source(p) \notin Minting THEN {}
                        ELSE IF cross # <<>> /\ cross[1] # Source(p)
                        THEN PlanWrites(cross, table[cross])
                        ELSE MintWrites(Source(p))
    <3>1. PICK own \in BOOLEAN, crossFails \in BOOLEAN :
            /\ Fault(own \/ crossFails)
            /\ \E id \in Loaded(OpenIds(Source(p)), own), cross \in Loaded(Oldest, crossFails) :
                 \E row \in Advances(id) : Decides(p, id, row, chosen(id, row, cross))
      BY <2>2 DEF SideStage
    <3>2. PICK id \in Loaded(OpenIds(Source(p)), own), cross \in Loaded(Oldest, crossFails) :
            \E row \in Advances(id) : Decides(p, id, row, chosen(id, row, cross))
      BY <3>1
    <3>3. PICK row \in Advances(id) : Decides(p, id, row, chosen(id, row, cross))
      BY <3>2
    <3>4. /\ id = <<>> \/ (id \in Ids /\ IsOpen(table[id]))
          /\ cross = <<>> \/ (cross \in Ids /\ IsOpen(table[cross]))
      BY LoadedIds
    <3> DEFINE choices == chosen(id, row, cross)
    <3>5. \/ choices \subseteq PlanWrites(id, row) \cup MintWrites(Source(p))
          \/ choices \subseteq PlanWrites(id, row) \cup PlanWrites(cross, table[cross])
      OBVIOUS
    <3>6. Decides(p, id, row, choices)
      BY <3>3
    <3> HIDE DEF choices, chosen
    <3> QED
      BY <3>1, <3>3, <3>4, <3>5, <3>6
  <2> QED
    BY <2>1, <2>2
<1>2. id # <<>> => row \in Plan /\ row.levels = table[id].levels
  BY <1>1, AdvancedRow DEF SetupInv
<1>3. id # <<>> /\ ~IsOpen(row) => id \in settled'
  BY <1>1 DEF Decides
<1>4. \A writes \in PlanWrites(id, row) : WritesSound(today, table, settled', writes)
  BY <1>1, <1>2, <1>3, PlanWritesSound
<1>5. \A writes \in MintWrites(Source(p)) : WritesSound(today, table, settled', writes)
  BY SourceType, MintWritesSound
<1>6. ASSUME NEW cross, cross = <<>> \/ (cross \in Ids /\ IsOpen(table[cross])),
             NEW writes \in PlanWrites(cross, table[cross])
      PROVE  WritesSound(today, table, settled', writes)
  <2>1. cross # <<>> => table[cross] \in Plan
    BY <1>6, OpenPlan DEF SetupInv
  <2> QED
    BY <1>6, <2>1, PlanWritesSound
<1>7. \A writes \in choices : WritesSound(today, table, settled', writes)
  BY <1>1, <1>4, <1>5, <1>6
<1>8. faults' \in 0 .. MaxFaults
  BY <1>1, FaultType
<1> QED
  BY <1>1, <1>7, <1>8, DecidesInv

(* The stage that a producer goes on to. *)
LEMMA NextStageTypes ==
    ASSUME SetupInv, NEW p \in Producers, NextStage(p)
    PROVE  /\ DOMAIN pending' = Producers /\ DOMAIN at' = Producers
           /\ pending'[p] = <<>> /\ at'[p] \in 1 .. Len(Stages[p])
           /\ \A q \in Producers : q # p => pending'[q] = pending[q] /\ at'[q] = at[q]
<1>1. Stages[p] \in Seq(Sources) /\ Stages[p] # <<>>
  BY SetupAssumption
<1>2. Len(Stages[p]) \in Nat /\ Len(Stages[p]) >= 1
  BY <1>1
<1> QED
  BY <1>2, SourceType DEF NextStage, SetupInv

LEMMA SameRowsInv ==
    ASSUME SetupInv, NEW p \in Producers,
           DOMAIN pending' = Producers, DOMAIN at' = Producers,
           pending'[p] = <<>>, at'[p] \in 1 .. Len(Stages[p]),
           \A q \in Producers : q # p => pending'[q] = pending[q] /\ at'[q] = at[q],
           UNCHANGED <<today, table, settled, closing>>, faults' \in 0 .. MaxFaults
    PROVE  SetupInv'
<1>1. \A q \in Producers : ~Deciding(q)' => ~Deciding(q) /\ pending'[q] = pending[q]
  BY DEF Deciding
<1>2. TypeOK'
  BY DEF SetupInv, TypeOK
<1>3. EndedHasOutcome' /\ Dated(table)'
  BY DEF SetupInv, EndedHasOutcome, Dated, IsOpen
<1> QED
  BY <1>1, <1>2, <1>3 DEF SetupInv

LEMMA UpsertFailsInv ==
    ASSUME SetupInv, NEW p \in Producers, UpsertFails(p) \/ Crash(p)
    PROVE  SetupInv'
<1>1. faults' \in 0 .. MaxFaults /\ UNCHANGED <<today, table, settled, closing>>
  BY FaultType DEF UpsertFails, Crash
<1>2. CASE UpsertFails(p)
  BY <1>1, <1>2, NextStageTypes, SameRowsInv DEF UpsertFails
<1>3. CASE Crash(p)
  <2>1. 1 \in 1 .. Len(Stages[p])
    <3>1. Stages[p] \in Seq(Sources) /\ Stages[p] # <<>>
      BY SetupAssumption
    <3> QED
      BY <3>1
  <2>2. /\ DOMAIN pending' = Producers /\ DOMAIN at' = Producers
        /\ pending'[p] = <<>> /\ at'[p] = 1
        /\ \A q \in Producers : q # p => pending'[q] = pending[q] /\ at'[q] = at[q]
    BY <1>3 DEF Crash, SetupInv
  <2> QED
    BY <1>1, <2>1, <2>2, SameRowsInv
<1> QED
  BY <1>2, <1>3

(* A row that has been written agrees with every other that is to be. *)
LEMMA WrittenRow ==
    ASSUME SetupInv, NEW id, NEW row, RowSound(today, table, settled, id, row),
           NEW t \in [Ids -> Plan \cup {NoPlan}], t[id] = row,
           \A x \in Ids : x # id => t[x] = table[x]
    PROVE  /\ \A other, r : RowSound(today, table, settled, other, r)
                              => RowSound(today, t, settled, other, r)
           /\ \A writes : WritesSound(today, table, settled, writes)
                              => WritesSound(today, t, settled, writes)
           /\ Dated(t)
           /\ \A x \in Ids : t[x] # NoPlan /\ ~IsOpen(t[x]) => x \in settled
           /\ \A x \in Ids : table[x] # NoPlan /\ x[2] < today =>
                                t[x] # NoPlan /\ t[x].levels = table[x].levels
<1>1. \A other, r : RowSound(today, table, settled, other, r)
                      => RowSound(today, t, settled, other, r)
  BY NoPlanAssumption DEF RowSound
<1>2. \A writes : WritesSound(today, table, settled, writes)
                      => WritesSound(today, t, settled, writes)
  BY <1>1 DEF WritesSound
<1>3. \A x \in Ids : t[x] # NoPlan /\ ~IsOpen(t[x]) => x \in settled
  BY DEF RowSound, SetupInv, EndedHasOutcome
<1>4. \A x \in Ids : table[x] # NoPlan /\ x[2] < today =>
                        t[x] # NoPlan /\ t[x].levels = table[x].levels
  BY NoPlanAssumption DEF RowSound
<1>5. Dated(t)
  BY DEF RowSound, SetupInv, Dated
<1> QED
  BY <1>1, <1>2, <1>3, <1>4, <1>5

(* The table after an upsert. *)
LEMMA Upserted ==
    ASSUME SetupInv, NEW p \in Producers, Upsert(p)
    PROVE  \/ table' = table
           \/ \E id, row : /\ RowSound(today, table, settled, id, row)
                           /\ table' \in [Ids -> Plan \cup {NoPlan}] /\ table'[id] = row
                           /\ \A x \in Ids : x # id => table'[x] = table[x]
<1>1. PICK writes : pending[p] = <<writes>> /\ WritesSound(today, table, settled, writes)
  BY DEF Upsert, SetupInv
<1>2. table' = [id \in Ids |-> IF \E w \in writes : w.id = id
                               THEN (CHOOSE w \in writes : w.id = id).row ELSE table[id]]
  BY <1>1 DEF Upsert
<1>3. table \in [Ids -> Plan \cup {NoPlan}]
  BY DEF SetupInv, TypeOK
<1>4. CASE writes = {}
  BY <1>2, <1>3, <1>4
<1>5. CASE writes # {}
  <2>1. PICK w \in Writes : writes = {w} /\ RowSound(today, table, settled, w.id, w.row)
    BY <1>1, <1>5 DEF WritesSound
  <2>2. \A id \in Ids : table'[id] = IF w.id = id THEN w.row ELSE table[id]
    BY <1>2, <2>1
  <2>3. w.id \in Ids /\ w.row \in Plan
    BY <2>1 DEF RowSound
  <2>4. table' \in [Ids -> Plan \cup {NoPlan}]
    BY <1>2, <1>3, <2>2, <2>3
  <2> QED
    BY <2>1, <2>2, <2>3, <2>4
<1> QED
  BY <1>4, <1>5

LEMMA UpsertInv ==
    ASSUME SetupInv, NEW p \in Producers, Upsert(p)
    PROVE  /\ SetupInv'
           /\ \A x \in Ids : table[x] # NoPlan /\ x[2] < today =>
                                table'[x] # NoPlan /\ table'[x].levels = table[x].levels
<1>1. /\ DOMAIN pending' = Producers /\ DOMAIN at' = Producers
      /\ pending'[p] = <<>> /\ at'[p] \in 1 .. Len(Stages[p])
      /\ \A q \in Producers : q # p => pending'[q] = pending[q] /\ at'[q] = at[q]
      /\ UNCHANGED <<today, settled, closing, faults>>
  BY NextStageTypes DEF Upsert
<1>2. CASE table' = table
  <2>1. faults' \in 0 .. MaxFaults
    BY <1>1 DEF SetupInv, TypeOK
  <2> QED
    BY <1>1, <1>2, <2>1, SameRowsInv
<1>3. CASE table' # table
  <2>1. PICK id, row : /\ RowSound(today, table, settled, id, row)
                       /\ table' \in [Ids -> Plan \cup {NoPlan}] /\ table'[id] = row
                       /\ \A x \in Ids : x # id => table'[x] = table[x]
    BY <1>3, Upserted
  <2>2. /\ \A other, r : RowSound(today, table, settled, other, r)
                            => RowSound(today, table', settled, other, r)
        /\ \A writes : WritesSound(today, table, settled, writes)
                            => WritesSound(today, table', settled, writes)
        /\ Dated(table')
        /\ \A x \in Ids : table'[x] # NoPlan /\ ~IsOpen(table'[x]) => x \in settled
        /\ \A x \in Ids : table[x] # NoPlan /\ x[2] < today =>
                            table'[x] # NoPlan /\ table'[x].levels = table[x].levels
    BY <2>1, WrittenRow
  <2>3. \A q \in Producers : ~Deciding(q)' => ~Deciding(q) /\ pending'[q] = pending[q]
    BY <1>1 DEF Deciding
  <2>4. \A q \in Producers : ~Deciding(q)' =>
          \E writes : /\ pending'[q] = <<writes>>
                      /\ WritesSound(today, table', settled, writes)
    BY <2>2, <2>3 DEF SetupInv
  <2>5. TypeOK'
    BY <1>1, <2>1 DEF SetupInv, TypeOK
  <2>6. EndedHasOutcome' /\ Dated(table)'
    BY <1>1, <2>2 DEF EndedHasOutcome, Dated
  <2> QED
    BY <1>1, <2>2, <2>4, <2>5, <2>6 DEF SetupInv
<1> QED
  BY <1>2, <1>3

LEMMA CloseManuallyInv ==
    ASSUME SetupInv, NEW id \in Ids, CloseManually(id)
    PROVE  SetupInv'
<1> DEFINE row == [table[id] EXCEPT !.status = "CLOSED"]
<1>1. /\ table[id] # NoPlan /\ closing' = <<id, row>> /\ settled' = settled \cup {id}
      /\ UNCHANGED <<today, table, at, pending, faults>>
  BY DEF CloseManually
<1>2. table[id] \in Plan
  BY <1>1 DEF SetupInv, TypeOK
<1>3. row \in Plan /\ row.levels = table[id].levels
  BY <1>2 DEF Plan, Terminal
<1> HIDE DEF row
<1>4. RowSound(today, table, settled', id, row)
  BY <1>1, <1>3 DEF RowSound, SetupInv, Dated
<1>5. settled \subseteq settled'
  BY <1>1
<1>6. \A p \in Producers : ~Deciding(p)' =>
         \E writes : /\ pending'[p] = <<writes>>
                     /\ WritesSound(today, table, settled', writes)
  BY <1>1, <1>5, MoreDone DEF SetupInv, Deciding
<1>7. TypeOK'
  BY <1>1, <1>3 DEF SetupInv, TypeOK
<1>8. EndedHasOutcome' /\ Dated(table)'
  BY <1>1 DEF SetupInv, EndedHasOutcome, Dated
<1> QED
  BY <1>1, <1>4, <1>6, <1>7, <1>8 DEF SetupInv

LEMMA CloseSavesInv ==
    ASSUME SetupInv, CloseSaves
    PROVE  /\ SetupInv'
           /\ \A x \in Ids : table[x] # NoPlan /\ x[2] < today =>
                                table'[x] # NoPlan /\ table'[x].levels = table[x].levels
<1> DEFINE id == closing[1]
           row == closing[2]
<1>1. /\ closing # <<>> /\ closing' = <<>> /\ table' = [table EXCEPT ![id] = row]
      /\ UNCHANGED <<today, settled, at, pending, faults>>
  BY DEF CloseSaves
<1>2. RowSound(today, table, settled, id, row)
  BY <1>1 DEF SetupInv
<1> HIDE DEF id, row
<1>3. /\ table' \in [Ids -> Plan \cup {NoPlan}] /\ table'[id] = row
      /\ \A x \in Ids : x # id => table'[x] = table[x]
  BY <1>1, <1>2 DEF SetupInv, TypeOK, RowSound
<1>4. /\ \A writes : WritesSound(today, table, settled, writes)
                        => WritesSound(today, table', settled, writes)
      /\ Dated(table')
      /\ \A x \in Ids : table'[x] # NoPlan /\ ~IsOpen(table'[x]) => x \in settled
      /\ \A x \in Ids : table[x] # NoPlan /\ x[2] < today =>
                          table'[x] # NoPlan /\ table'[x].levels = table[x].levels
  BY <1>2, <1>3, WrittenRow
<1>5. \A p \in Producers : ~Deciding(p)' =>
         \E writes : /\ pending'[p] = <<writes>>
                     /\ WritesSound(today, table', settled, writes)
  BY <1>1, <1>4 DEF SetupInv, Deciding
<1>6. TypeOK'
  BY <1>1, <1>3 DEF SetupInv, TypeOK
<1>7. EndedHasOutcome' /\ Dated(table)'
  BY <1>1, <1>4 DEF EndedHasOutcome, Dated
<1> QED
  BY <1>1, <1>4, <1>5, <1>6, <1>7 DEF SetupInv

LEMMA CloseFailsInv ==
    ASSUME SetupInv, CloseFails
    PROVE  SetupInv'
<1>1. closing' = <<>> /\ faults' \in 0 .. MaxFaults
      /\ UNCHANGED <<today, table, settled, at, pending>>
  BY FaultType DEF CloseFails
<1> QED
  BY <1>1 DEF SetupInv, TypeOK, EndedHasOutcome, Dated, IsOpen, Deciding

LEMMA NextDayInv ==
    ASSUME SetupInv, NextDay
    PROVE  SetupInv'
<1>1. /\ today' \in Days /\ closing' = <<>> /\ \A p \in Producers : pending'[p] = <<>>
      /\ UNCHANGED <<table, settled, at, pending, faults>>
  BY SetupAssumption DEF NextDay, Deciding, SetupInv, TypeOK, Days
<1>2. \A day \in Days : day <= today => day <= today'
  BY DEF NextDay, SetupInv, TypeOK, Days
<1>3. Dated(table)'
  BY <1>1, <1>2 DEF SetupInv, Dated, Ids
<1> QED
  BY <1>1, <1>3 DEF SetupInv, TypeOK, EndedHasOutcome, IsOpen, Deciding

LEMMA IdleInv ==
    ASSUME SetupInv, UNCHANGED vars
    PROVE  SetupInv'
BY DEF SetupInv, TypeOK, EndedHasOutcome, Dated, IsOpen, Deciding, vars

LEMMA SetupInitInv == Init => SetupInv
<1> SUFFICES ASSUME Init
             PROVE  SetupInv
  OBVIOUS
<1>1. \A p \in Producers : 1 \in 1 .. Len(Stages[p])
  <2> SUFFICES ASSUME NEW p \in Producers
               PROVE  1 \in 1 .. Len(Stages[p])
    OBVIOUS
  <2>1. Stages[p] \in Seq(Sources) /\ Stages[p] # <<>>
    BY SetupAssumption
  <2> QED
    BY <2>1
<1>2. 0 \in Days /\ 0 \in 0 .. MaxFaults
  BY SetupAssumption DEF Days
<1>3. TypeOK
  BY <1>1, <1>2 DEF Init, TypeOK
<1>4. EndedHasOutcome /\ Dated(table)
  BY DEF Init, EndedHasOutcome, Dated
<1> QED
  BY <1>3, <1>4 DEF Init, SetupInv, Deciding

LEMMA SetupNextInv == SetupInv /\ [Next]_vars => SetupInv'
<1> SUFFICES ASSUME SetupInv, [Next]_vars
             PROVE  SetupInv'
  OBVIOUS
<1>1. ASSUME NEW p \in Producers,
             MainStage(p) \/ SideStage(p) \/ Upsert(p) \/ UpsertFails(p) \/ Crash(p)
      PROVE  SetupInv'
  BY <1>1, StageInv, UpsertInv, UpsertFailsInv
<1> QED
  BY <1>1, CloseManuallyInv, CloseSavesInv, CloseFailsInv, NextDayInv, IdleInv DEF Next

LEMMA SetupSound == Spec => []SetupInv
BY SetupInitInv, SetupNextInv, PTL DEF Spec

(* The types, for any producers, stages and sources; with them the shape of
   what a stage has pending. *)
THEOREM SetupTypes == Spec => []TypeOK
BY SetupSound, PTL DEF SetupInv

(* A plan that ended has its outcome, whichever of the producers or the page
   ended it, and whatever fails or dies between the two writes. *)
THEOREM EndedPlans == Spec => []EndedHasOutcome
BY SetupSound, PTL DEF SetupInv

(* A bar takes an open plan as far as it goes in the four hops of a scan. *)
THEOREM BarsTakenWhole == Spec => []BarTakenWhole
<1>1. SetupInv => BarTakenWhole
  <2> SUFFICES ASSUME SetupInv, NEW id \in OpenIds("any"), NEW bar \in Bars
               PROVE  Advance(table[id].status, bar, Aged(id))
                        = Outcome(table[id].status, bar, Aged(id))
    BY DEF BarTakenWhole
  <2>1. id \in Ids /\ table[id].status \in Open
    BY DEF OpenIds, IsOpen
  <2> QED
    BY <2>1, AdvanceIs, AgedType
<1> QED
  BY <1>1, SetupSound, PTL

(* No writer changes the levels of a plan of an earlier day, or loses it. *)
THEOREM FrozenLevels == Spec => LevelsFrozen
<1>1. SetupInv /\ [Next]_vars =>
        [\A id \in Ids : (table[id] # NoPlan /\ id[2] < today) =>
            table'[id] # NoPlan /\ table'[id].levels = table[id].levels]_vars
  <2> SUFFICES ASSUME SetupInv, Next, NEW id \in Ids, table[id] # NoPlan, id[2] < today
               PROVE  table'[id] # NoPlan /\ table'[id].levels = table[id].levels
    OBVIOUS
  <2>1. \/ table' = table \/ CloseSaves \/ \E p \in Producers : Upsert(p)
    BY DEF Next, MainStage, SideStage, Decides, UpsertFails, Crash, CloseManually, CloseFails,
           NextDay
  <2> QED
    BY <2>1, UpsertInv, CloseSavesInv
<1> QED
  BY <1>1, SetupSound, PTL DEF Spec, LevelsFrozen

LEMMA EntryType ==
    ASSUME NEW r \in Plan
    PROVE  /\ EntryOf(r) \in Book!Entry /\ EntryOf(r) # NoPlan
           /\ EntryOf(r).levels = r.levels /\ (EntryOf(r).ended <=> ~IsOpen(r))
<1> DEFINE over == ~IsOpen(r)
<1>1. r # NoPlan /\ r.levels \in UNION {Levels[s] : s \in Sources} /\ over \in BOOLEAN
  BY NoPlanAssumption DEF Plan, IsOpen
<1>2. EntryOf(r) = [levels |-> r.levels, ended |-> over]
  BY <1>1 DEF EntryOf
<1> HIDE DEF over
<1>3. EntryOf(r) \in Book!Entry /\ EntryOf(r).levels = r.levels /\ EntryOf(r).ended = over
  BY <1>1, <1>2 DEF Book!Entry
<1>4. EntryOf(r) # NoPlan
  BY <1>3, NoPlanAssumption DEF Book!Entry
<1> QED
  BY <1>3, <1>4 DEF over

(* A row that is written is a save of its plan in the book. *)
LEMMA RowSaved ==
    ASSUME SetupInv, NEW id, NEW row, RowSound(today, table, settled, id, row),
           table' \in [Ids -> Plan \cup {NoPlan}], table'[id] = row,
           \A x \in Ids : x # id => table'[x] = table[x], UNCHANGED <<today, settled>>
    PROVE  Book!Next
<1> DEFINE held == [x \in Ids |-> EntryOf(table[x])]
           dates == [x \in Ids |-> x[2]]
           entry == EntryOf(row)
<1>1. id \in Ids /\ row \in Plan /\ id[2] <= today
  BY DEF RowSound
<1>2. entry \in Book!Entry /\ entry.levels = row.levels /\ (entry.ended => id \in settled)
  BY <1>1, EntryType DEF RowSound
<1>3. id[2] < today => held[id] # NoPlan /\ entry.levels = held[id].levels
  <2> SUFFICES ASSUME id[2] < today
               PROVE  held[id] # NoPlan /\ entry.levels = held[id].levels
    OBVIOUS
  <2>1. table[id] # NoPlan /\ row.levels = table[id].levels /\ table[id] \in Plan
    BY <1>1 DEF RowSound, SetupInv, TypeOK
  <2>2. held[id] = EntryOf(table[id])
    BY <1>1
  <2> HIDE DEF held, entry
  <2> QED
    BY <1>2, <2>1, <2>2, EntryType
<1>4. held' = [held EXCEPT ![id] = entry]
  <2>1. \A x \in Ids : EntryOf(table'[x]) = IF x = id THEN entry ELSE EntryOf(table[x])
    OBVIOUS
  <2>2. \A x \in Ids : EntryOf(table[x])' = EntryOf(table'[x])
    BY DEF EntryOf, IsOpen
  <2> HIDE DEF entry
  <2> QED
    BY <1>1, <2>1, <2>2
<1>5. dates[id] = id[2]
  BY <1>1
<1>6. Book!Save(id, entry)
  <2> HIDE DEF entry
  <2> QED
    BY <1>1, <1>2, <1>3, <1>4, <1>5 DEF Book!Save
<1> HIDE DEF entry
<1> QED
  BY <1>1, <1>2, <1>6 DEF Book!Next

(* The outcome of a plan of the table that is open. *)
LEMMA PlanSettled ==
    ASSUME SetupInv, NEW id \in Ids, IsOpen(table[id]),
           settled' = settled \cup {id}, UNCHANGED <<today, table>>
    PROVE  Book!Next
<1> DEFINE held == [x \in Ids |-> EntryOf(table[x])]
<1>1. table[id] \in Plan
  BY OpenPlan DEF SetupInv
<1>2. held[id] # NoPlan /\ ~held[id].ended
  BY <1>1, EntryType
<1>3. held' = held
  BY DEF EntryOf, IsOpen
<1>4. Book!Settle(id)
  BY <1>2, <1>3 DEF Book!Settle
<1> QED
  BY <1>4 DEF Book!Next

(* A stage settles the plan it advances, which is open in the table, or none. *)
LEMMA StageBooked ==
    ASSUME SetupInv, NEW p \in Producers, MainStage(p) \/ SideStage(p)
    PROVE  Book!Next \/ UNCHANGED <<today, table, settled>>
<1>1. PICK id, row, choices :
        /\ id = <<>> \/ (id \in Ids /\ IsOpen(table[id]))
        /\ Decides(p, id, row, choices)
  BY LoadedIds DEF MainStage, SideStage
<1>2. CASE id # <<>> /\ ~IsOpen(row)
  BY <1>1, <1>2, PlanSettled DEF Decides
<1>3. CASE ~(id # <<>> /\ ~IsOpen(row))
  BY <1>1, <1>3 DEF Decides
<1> QED
  BY <1>2, <1>3

(* The table and the outcomes implement the book: whatever the producers loaded
   before the page or the other of them wrote, and whatever fails or dies, an
   outcome is given to an open plan and one row is written at a time, of a plan
   whose day has come, with its outcome if it ends and with the levels it has if
   it is of an earlier day. *)
THEOREM PlansAreBooked == Spec => BookSpec
<1>1. Init => Book!Init
  <2> SUFFICES ASSUME Init
               PROVE  Book!Init
    OBVIOUS
  <2>1. ASSUME NEW x \in Ids
        PROVE  /\ EntryOf(table[x]) \in Book!Entry \cup {NoPlan}
               /\ EntryOf(table[x]) # NoPlan => x[2] = 0 /\ ~EntryOf(table[x]).ended
    <3>1. CASE table[x] = NoPlan
      BY <3>1 DEF EntryOf
    <3>2. CASE table[x] # NoPlan
      <4>1. table[x] \in Plan /\ x[2] = 0 /\ IsOpen(table[x])
        BY <3>2 DEF Init
      <4> QED
        BY <4>1, EntryType
    <3> QED
      BY <3>1, <3>2
  <2> QED
    BY <2>1 DEF Init, Book!Init
<1>2. SetupInv /\ [Next]_vars => [Book!Next]_Book!vars
  <2> SUFFICES ASSUME SetupInv, [Next]_vars
               PROVE  Book!Next \/ UNCHANGED Book!vars
    OBVIOUS
  <2>1. ASSUME UNCHANGED <<today, table, settled>>
        PROVE  UNCHANGED Book!vars
    BY <2>1 DEF Book!vars, EntryOf, IsOpen
  <2>2. ASSUME NEW p \in Producers, MainStage(p) \/ SideStage(p)
        PROVE  Book!Next \/ UNCHANGED Book!vars
    BY <2>1, <2>2, StageBooked
  <2>3. ASSUME NEW p \in Producers, Upsert(p)
        PROVE  Book!Next \/ UNCHANGED Book!vars
    <3>1. UNCHANGED <<today, settled>>
      BY <2>3 DEF Upsert
    <3>2. CASE table' = table
      BY <2>1, <3>1, <3>2
    <3>3. CASE table' # table
      BY <2>3, <3>1, <3>3, Upserted, RowSaved
    <3> QED
      BY <3>2, <3>3
  <2>4. ASSUME NEW p \in Producers, UpsertFails(p) \/ Crash(p)
        PROVE  UNCHANGED Book!vars
    BY <2>1, <2>4 DEF UpsertFails, Crash
  <2>5. ASSUME NEW id \in Ids, CloseManually(id)
        PROVE  Book!Next
    <3>1. IsOpen(table[id]) /\ settled' = settled \cup {id} /\ UNCHANGED <<today, table>>
      BY <2>5 DEF CloseManually, IsOpen, Open
    <3> QED
      BY <3>1, PlanSettled
  <2>6. ASSUME CloseSaves
        PROVE  Book!Next
    <3> DEFINE id == closing[1]
               row == closing[2]
    <3>1. /\ table' = [table EXCEPT ![id] = row] /\ UNCHANGED <<today, settled>>
          /\ RowSound(today, table, settled, id, row)
      BY <2>6 DEF CloseSaves, SetupInv
    <3> HIDE DEF id, row
    <3>2. /\ table' \in [Ids -> Plan \cup {NoPlan}] /\ table'[id] = row
          /\ \A x \in Ids : x # id => table'[x] = table[x]
      BY <3>1 DEF SetupInv, TypeOK, RowSound
    <3> QED
      BY <3>1, <3>2, RowSaved
  <2>7. ASSUME CloseFails
        PROVE  UNCHANGED Book!vars
    BY <2>1, <2>7 DEF CloseFails
  <2>8. ASSUME NextDay
        PROVE  Book!Next
    <3>1. today < LastDay /\ today' = today + 1 /\ UNCHANGED <<table, settled>>
      BY <2>8 DEF NextDay
    <3>2. Book!NextDay
      BY <3>1 DEF Book!NextDay, EntryOf, IsOpen
    <3> QED
      BY <3>2 DEF Book!Next
  <2>9. CASE UNCHANGED vars
    BY <2>1, <2>9 DEF vars
  <2> QED
    BY <2>2, <2>3, <2>4, <2>5, <2>6, <2>7, <2>8, <2>9 DEF Next
<1> QED
  BY <1>1, <1>2, SetupSound, PTL DEF Spec, BookSpec, Book!Spec
=============================================================================
