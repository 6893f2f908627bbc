-------------------------- MODULE GenerationProofs --------------------------
(***************************************************************************)
(* Proofs about Generation, for any number of trips, days, slots, workers  *)
(* and faults.  TypeCorrect comes first and is cited by the others.  That  *)
(* no trip is planned twice (NoDoublePlanning) needs the invariant         *)
(* Exclusion: what is planned or taken up by the recovery is registered or *)
(* was probed, and a shell whose request has not answered is still fresh,  *)
(* so that no scan takes it up.  That a delivered day is kept              *)
(* (DeliveredDaysKept) needs, besides, that the day a planner generates    *)
(* stays RUNNING in its hands (DayHeld).  That the registry is exact, that *)
(* its locks block nobody for good, and that a completed trip is full      *)
(* follow from who is at which step of his thread.                         *)
(***************************************************************************)
EXTENDS Generation, TLAPS

-----------------------------------------------------------------------------
(* What the statements of a transaction do to the rows and the marks. *)

\* An UPDATE of the main row (SetMain) leaves well-formed rows.
LEMMA MainRow ==
  ASSUME NEW t \in Trips, NEW g \in GenStates, NEW st \in 1 .. 3,
         RowsOK, resumed' \in [Trips -> BOOLEAN], SetMain(t, g, st)
  PROVE  RowsOK'
  BY DEF RowsOK, SetMain

\* So does fail_trip.
LEMMA FailRow ==
  ASSUME NEW t \in Trips, RowsOK, FailTrip(t)
  PROVE  RowsOK'
  <1>1. "FAILED" \in GenStates /\ 3 \in 1 .. 3
    BY DEF GenStates
  <1>2. resumed' \in [Trips -> BOOLEAN]
    BY DEF RowsOK, FailTrip
  <1> QED
    BY <1>1, <1>2, MainRow DEF FailTrip

\* A write of one day row (SetDay) leaves well-formed day rows.
LEMMA DayRow ==
  ASSUME NEW t \in Trips, NEW d \in Days, NEW st \in DayStates, NEW f \in Fps,
         DaysOK, SetDay(t, d, st, f)
  PROVE  DaysOK'
  BY DEF DaysOK, SetDay

\* So does persist, whether it writes the day or finds it delivered.
LEMMA PersistRow ==
  ASSUME NEW t \in Trips, NEW d \in Days, NEW kind, NEW f \in Fps, NEW overwrite,
         DaysOK, Persist(t, d, kind, f, overwrite)
  PROVE  DaysOK'
  <1>1. Delivered(kind) \in DayStates
    BY DEF Delivered, DayStates
  <1>2. CASE UNCHANGED days
    BY <1>2 DEF days, DaysOK
  <1>3. CASE SetDay(t, d, Delivered(kind), f)
    BY <1>1, <1>3, DayRow
  <1> QED
    BY <1>2, <1>3 DEF Persist

\* Taking and releasing a mark leave sets of marks.
LEMMA MarkSets ==
  ASSUME NEW k \in Locks, MarksOK, TryMark(k) \/ Unmark(k)
  PROVE  MarksOK'
  BY DEF MarksOK, TryMark, Unmark

-----------------------------------------------------------------------------
(* What the pool does to its slots. *)

\* A slot that is given back leaves a well-formed pool.
LEMMA SlotCleared ==
  ASSUME NEW s \in Slots, JobsOK, ClearSlot(s)
  PROVE  JobsOK'
  <1>1. /\ pc' \in [Slots -> PlannerPcs] /\ trip' \in [Slots -> Trips \cup {NoTrip}]
        /\ dno' \in [Slots -> 0 .. NDays + 1] /\ ctx' \in [Slots -> BOOLEAN]
        /\ fp' \in [Slots -> Fps]
    BY GenerationAssumption DEF JobsOK, ClearSlot, PlannerPcs, Fps
  <1>2. pc'[s] = "free" /\ trip'[s] = NoTrip
    BY DEF JobsOK, ClearSlot
  <1>3. \A u \in Slots \ {s} : pc'[u] = pc[u] /\ trip'[u] = trip[u] /\ dno'[u] = dno[u]
    BY DEF JobsOK, ClearSlot
  <1> QED
    BY <1>1, <1>2, <1>3 DEF JobsOK, Live, OnDay

\* So does a slot that a new task takes (submit_planning).
LEMMA SlotTaken ==
  ASSUME NEW t \in Trips, NEW c \in BOOLEAN, NEW f \in Fps, JobsOK, SubmitPlanning(t, c, f)
  PROVE  JobsOK'
  <1>1. PICK s \in FreeSlots :
          /\ pc' = [pc EXCEPT ![s] = "queued"] /\ trip' = [trip EXCEPT ![s] = t]
          /\ ctx' = [ctx EXCEPT ![s] = c] /\ fp' = [fp EXCEPT ![s] = f] /\ dno' = dno
    BY DEF SubmitPlanning
  <1>2. s \in Slots
    BY <1>1 DEF FreeSlots
  <1>3. /\ pc' \in [Slots -> PlannerPcs] /\ trip' \in [Slots -> Trips \cup {NoTrip}]
        /\ dno' \in [Slots -> 0 .. NDays + 1] /\ ctx' \in [Slots -> BOOLEAN]
        /\ fp' \in [Slots -> Fps]
    BY <1>1, <1>2 DEF JobsOK, PlannerPcs
  <1>4. pc'[s] = "queued" /\ trip'[s] = t /\ t # NoTrip
    BY <1>1, <1>2, GenerationAssumption DEF JobsOK
  <1>5. \A u \in Slots \ {s} : pc'[u] = pc[u] /\ trip'[u] = trip[u] /\ dno'[u] = dno[u]
    BY <1>1, <1>2 DEF JobsOK
  <1> QED
    BY <1>2, <1>3, <1>4, <1>5 DEF JobsOK, Live, OnDay

\* A planner that goes on to label l with day n.
LEMMA SlotMoved ==
  ASSUME NEW s \in Slots, NEW l \in PlannerPcs \ {"free"}, NEW n \in 0 .. NDays + 1,
         JobsOK, Live(s), Goto(s, l), dno' = [dno EXCEPT ![s] = n],
         UNCHANGED <<trip, ctx, fp>>,
         l \in {"streamPersist", "generate", "graph", "persist", "persisted", "dayFailed"} => n \in Days,
         l = "loop" => n > 0
  PROVE  JobsOK'
  <1>1. pc' \in [Slots -> PlannerPcs] /\ dno' \in [Slots -> 0 .. NDays + 1]
    BY DEF JobsOK, Goto
  <1>2. pc'[s] = l /\ dno'[s] = n
    BY DEF JobsOK, Goto
  <1>3. \A u \in Slots \ {s} : pc'[u] = pc[u] /\ dno'[u] = dno[u]
    BY DEF JobsOK, Goto
  <1> QED
    BY <1>1, <1>2, <1>3 DEF JobsOK, Live, OnDay

-----------------------------------------------------------------------------
(* Type correctness. *)

\* Every step keeps TypeOK: one step per action, one fact per part it writes.
LEMMA TypeStep == TypeOK /\ [Next]_vars => TypeOK'
<1> SUFFICES ASSUME TypeOK, [Next]_vars PROVE TypeOK'
  OBVIOUS
<1> USE DEF TypeOK
<1>1. ASSUME NEW t \in Trips, CreateShell(t) PROVE TypeOK'
  <2>a. CreateShell(t)
    BY <1>1
  <2>1. WorldOK'
    BY <2>a DEF WorldOK, CreateShell
  <2>2. RowsOK'
    BY <2>a DEF RowsOK, GenStates, CreateShell
  <2>3. DaysOK' /\ MarksOK' /\ JobsOK' /\ RecoveryOK'
    BY <2>a DEF CreateShell, DaysOK, MarksOK, JobsOK, RecoveryOK, days, marks, jobs, Live, OnDay, rec, Recovering
  <2> QED
    BY <2>1, <2>2, <2>3 DEF TypeOK
<1>2. ASSUME NEW t \in Trips, RequestPlanning(t) PROVE TypeOK'
  <2>a. RequestPlanning(t)
    BY <1>2
  <2>1. WorldOK'
    BY <2>a DEF WorldOK, SubmitPlanning, RequestPlanning
  <2>2. JobsOK'
    <3>1. CASE SubmitPlanning(t, FALSE, "orig")
      BY <3>1, SlotTaken DEF Fps
    <3>2. CASE UNCHANGED jobs
      BY <3>2 DEF jobs, JobsOK, Live, OnDay
    <3> QED
      BY <2>a, <3>1, <3>2 DEF RequestPlanning
  <2>3. RowsOK' /\ DaysOK' /\ MarksOK' /\ RecoveryOK'
    BY <2>a DEF RequestPlanning, RowsOK, DaysOK, MarksOK, RecoveryOK, rows, days, marks, rec, Recovering
  <2> QED
    BY <2>1, <2>2, <2>3 DEF TypeOK
<1>3. ASSUME NEW t \in Trips, RejectRequest(t) PROVE TypeOK'
  <2>a. RejectRequest(t)
    BY <1>3
  <2>1. WorldOK'
    BY <2>a DEF WorldOK, RejectRequest
  <2>2. RowsOK'
    BY <2>a, FailRow DEF RejectRequest
  <2>3. DaysOK' /\ MarksOK' /\ JobsOK' /\ RecoveryOK'
    BY <2>a DEF RejectRequest, DaysOK, MarksOK, JobsOK, RecoveryOK, days, marks, jobs, Live, OnDay, rec, Recovering
  <2> QED
    BY <2>1, <2>2, <2>3 DEF TypeOK
<1>4. ASSUME NEW t \in Trips, DeleteTrip(t) PROVE TypeOK'
  <2>a. DeleteTrip(t)
    BY <1>4
  <2>1. RowsOK'
    BY <2>a DEF RowsOK, GenStates, DeleteTrip
  <2>2. WorldOK' /\ DaysOK' /\ MarksOK' /\ JobsOK' /\ RecoveryOK'
    BY <2>a DEF DeleteTrip, WorldOK, DaysOK, MarksOK, JobsOK, RecoveryOK, days, marks, jobs, Live, OnDay, rec, Recovering
  <2> QED
    BY <2>1, <2>2 DEF TypeOK
<1>5. ASSUME NEW t \in Trips, AgeMain(t) PROVE TypeOK'
  <2>a. AgeMain(t)
    BY <1>5
  <2>1. RowsOK'
    BY <2>a DEF RowsOK, AgeMain
  <2>2. WorldOK' /\ DaysOK' /\ MarksOK' /\ JobsOK' /\ RecoveryOK'
    BY <2>a DEF AgeMain, WorldOK, DaysOK, MarksOK, JobsOK, RecoveryOK, days, marks, jobs, Live, OnDay, rec, Recovering
  <2> QED
    BY <2>1, <2>2 DEF TypeOK
<1>6. ASSUME NEW t \in Trips, NEW d \in Days, AgeDay(t, d) PROVE TypeOK'
  <2>a. AgeDay(t, d)
    BY <1>6
  <2>1. DaysOK'
    BY <2>a DEF DaysOK, AgeDay
  <2>2. WorldOK' /\ RowsOK' /\ MarksOK' /\ JobsOK' /\ RecoveryOK'
    BY <2>a DEF AgeDay, WorldOK, RowsOK, MarksOK, JobsOK, RecoveryOK, rows, marks, jobs, Live, OnDay, rec, Recovering
  <2> QED
    BY <2>1, <2>2 DEF TypeOK
<1>7. ASSUME NEW k \in Locks, Expire(k) PROVE TypeOK'
  <2>a. Expire(k)
    BY <1>7
  <2>1. MarksOK'
    BY <2>a DEF MarksOK, Expire
  <2>2. WorldOK' /\ RowsOK' /\ DaysOK' /\ JobsOK' /\ RecoveryOK'
    BY <2>a DEF Expire, WorldOK, RowsOK, DaysOK, JobsOK, RecoveryOK, rows, days, jobs, Live, OnDay, rec, Recovering
  <2> QED
    BY <2>1, <2>2 DEF TypeOK
<1>8. ASSUME NEW s \in Slots, StartTask(s) PROVE TypeOK'
  <2>a. StartTask(s)
    BY <1>8
  <2>1. JobsOK'
    BY <2>a DEF JobsOK, PlannerPcs, Live, OnDay, Goto, StartTask
  <2>2. WorldOK' /\ RowsOK' /\ DaysOK' /\ MarksOK' /\ RecoveryOK'
    BY <2>a DEF StartTask, WorldOK, RowsOK, DaysOK, MarksOK, RecoveryOK, rows, days, marks, rec, Recovering
  <2> QED
    BY <2>1, <2>2 DEF TypeOK
<1>9. ASSUME NEW s \in Slots, ResolveRoute(s) PROVE TypeOK'
  <2>a. ResolveRoute(s)
    BY <1>9
  <2>1. JobsOK'
    BY <2>a DEF JobsOK, PlannerPcs, Live, OnDay, Goto, ResolveRoute
  <2>2. WorldOK' /\ RowsOK' /\ DaysOK' /\ MarksOK' /\ RecoveryOK'
    BY <2>a DEF ResolveRoute, WorldOK, RowsOK, DaysOK, MarksOK, RecoveryOK, rows, days, marks, rec, Recovering
  <2> QED
    BY <2>1, <2>2 DEF TypeOK
<1>10. ASSUME NEW s \in Slots, Research(s) PROVE TypeOK'
  <2>a. Research(s)
    BY <1>10
  <2>1. JobsOK'
    BY <2>a DEF JobsOK, PlannerPcs, Live, OnDay, Goto, Research
  <2>2. WorldOK' /\ RowsOK' /\ DaysOK' /\ MarksOK' /\ RecoveryOK'
    BY <2>a DEF Research, WorldOK, RowsOK, DaysOK, MarksOK, RecoveryOK, rows, days, marks, rec, Recovering
  <2> QED
    BY <2>1, <2>2 DEF TypeOK
<1>11. ASSUME NEW s \in Slots, StreamEnd(s) PROVE TypeOK'
  <2>a. StreamEnd(s)
    BY <1>11
  <2>1. JobsOK'
    BY <2>a DEF JobsOK, PlannerPcs, Live, OnDay, Goto, StreamEnd
  <2>2. WorldOK' /\ RowsOK' /\ DaysOK' /\ MarksOK' /\ RecoveryOK'
    BY <2>a DEF StreamEnd, WorldOK, RowsOK, DaysOK, MarksOK, RecoveryOK, rows, days, marks, rec, Recovering
  <2> QED
    BY <2>1, <2>2 DEF TypeOK
<1>12. ASSUME NEW s \in Slots, RouteBroken(s) PROVE TypeOK'
  <2>a. RouteBroken(s)
    BY <1>12
  <2>t. trip[s] \in Trips
    BY <2>a DEF JobsOK, Live, RouteBroken
  <2>1. WorldOK'
    BY <2>a, GenerationAssumption DEF WorldOK, RouteBroken
  <2>2. RowsOK'
    BY <2>a, <2>t, FailRow DEF rows, RowsOK, RouteBroken
  <2>3. JobsOK'
    BY <2>a, SlotCleared DEF RouteBroken
  <2>4. DaysOK' /\ MarksOK' /\ RecoveryOK'
    BY <2>a DEF RouteBroken, DaysOK, MarksOK, RecoveryOK, days, marks, rec, Recovering
  <2> QED
    BY <2>1, <2>2, <2>3, <2>4 DEF TypeOK
<1>13. ASSUME NEW s \in Slots, Begin(s) PROVE TypeOK'
  <2>a. Begin(s)
    BY <1>13
  <2>t. trip[s] \in Trips
    BY <2>a DEF JobsOK, Live, Begin
  <2>1. RowsOK'
    BY <2>a, <2>t, MainRow DEF RowsOK, rows, GenStates, Begin
  <2>2. JobsOK'
    BY <2>a DEF JobsOK, PlannerPcs, Live, OnDay, Goto, Begin
  <2>3. WorldOK' /\ DaysOK' /\ MarksOK' /\ RecoveryOK'
    BY <2>a DEF Begin, WorldOK, DaysOK, MarksOK, RecoveryOK, days, marks, rec, Recovering
  <2> QED
    BY <2>1, <2>2, <2>3 DEF TypeOK
<1>14. ASSUME NEW s \in Slots, SaveContext(s) PROVE TypeOK'
  <2>a. SaveContext(s)
    BY <1>14
  <2>t. trip[s] \in Trips
    BY <2>a DEF JobsOK, Live, SaveContext
  <2>1. RowsOK'
    BY <2>a, <2>t, MainRow DEF RowsOK, SaveContext
  <2>2. JobsOK'
    BY <2>a, GenerationAssumption DEF JobsOK, Days, PlannerPcs, Live, OnDay, Goto, SaveContext
  <2>3. WorldOK' /\ DaysOK' /\ MarksOK' /\ RecoveryOK'
    BY <2>a DEF SaveContext, WorldOK, DaysOK, MarksOK, RecoveryOK, days, marks, rec, Recovering
  <2> QED
    BY <2>1, <2>2, <2>3 DEF TypeOK
<1>15. ASSUME NEW s \in Slots, StreamDay(s) PROVE TypeOK'
  <2>a. StreamDay(s)
    BY <1>15
  <2>t. trip[s] \in Trips
    BY <2>a DEF JobsOK, Live, StreamDay
  <2>1. DaysOK'
    BY <2>a, <2>t, DayRow DEF JobsOK, DayStates, StreamDay
  <2>2. MarksOK'
    BY <2>a, <2>t, MarkSets DEF Locks, DayLock, Days, StreamDay
  <2>3. JobsOK'
    <3>1. PICK d \in Days : dno' = [dno EXCEPT ![s] = d]
      BY <2>a DEF StreamDay
    <3>2. d \in 0 .. NDays + 1
      BY GenerationAssumption DEF Days
    <3> QED
      BY <2>a, <3>1, <3>2, SlotMoved DEF StreamDay, Live, PlannerPcs
  <2>4. WorldOK' /\ RowsOK' /\ RecoveryOK'
    BY <2>a DEF StreamDay, WorldOK, RowsOK, RecoveryOK, rows, rec, Recovering
  <2> QED
    BY <2>1, <2>2, <2>3, <2>4 DEF TypeOK
<1>16. ASSUME NEW s \in Slots, StreamPersist(s) PROVE TypeOK'
  <2>a. StreamPersist(s)
    BY <1>16
  <2>t. trip[s] \in Trips
    BY <2>a DEF JobsOK, Live, StreamPersist
  <2>1. DaysOK'
    BY <2>a, <2>t, PersistRow DEF JobsOK, OnDay, days, DaysOK, StreamPersist
  <2>2. MarksOK'
    BY <2>a, <2>t, MarkSets DEF JobsOK, OnDay, Locks, DayLock, Days, StreamPersist
  <2>3. JobsOK'
    BY <2>a DEF JobsOK, PlannerPcs, Live, OnDay, Goto, StreamPersist
  <2>4. WorldOK' /\ RowsOK' /\ RecoveryOK'
    BY <2>a DEF StreamPersist, WorldOK, RowsOK, RecoveryOK, rows, rec, Recovering
  <2> QED
    BY <2>1, <2>2, <2>3, <2>4 DEF TypeOK
<1>17. ASSUME NEW s \in Slots, Revalidate(s) PROVE TypeOK'
  <2>a. Revalidate(s)
    BY <1>17
  <2>t. trip[s] \in Trips
    BY <2>a DEF JobsOK, Live, Revalidate
  <2>1. DaysOK'
    BY <2>a, <2>t DEF DaysOK, DayStates, Revalidate
  <2>2. JobsOK'
    BY <2>a, GenerationAssumption DEF JobsOK, Days, PlannerPcs, Live, OnDay, Goto, Revalidate
  <2>3. WorldOK' /\ RowsOK' /\ MarksOK' /\ RecoveryOK'
    BY <2>a DEF Revalidate, WorldOK, RowsOK, MarksOK, RecoveryOK, rows, marks, rec, Recovering
  <2> QED
    BY <2>1, <2>2, <2>3 DEF TypeOK
<1>18. ASSUME NEW s \in Slots, LoopDay(s) PROVE TypeOK'
  <2>a. LoopDay(s)
    BY <1>18
  <2>t. trip[s] \in Trips
    BY <2>a DEF JobsOK, Live, LoopDay
  <2>1. DaysOK'
    BY <2>a, <2>t, DayRow DEF JobsOK, DayStates, DaysOK, days, LoopDay
  <2>2. MarksOK'
    BY <2>a, <2>t, MarkSets DEF MarksOK, marks, Locks, DayLock, Days, LoopDay
  <2>3. JobsOK'
    BY <2>a, GenerationAssumption DEF JobsOK, Days, SkipDay, PlannerPcs, Live, OnDay, Goto, LoopDay
  <2>4. WorldOK' /\ RowsOK' /\ RecoveryOK'
    BY <2>a DEF LoopDay, WorldOK, RowsOK, RecoveryOK, rows, rec, Recovering
  <2> QED
    BY <2>1, <2>2, <2>3, <2>4 DEF TypeOK
<1>19. ASSUME NEW s \in Slots, GraphStart(s) PROVE TypeOK'
  <2>a. GraphStart(s)
    BY <1>19
  <2>t. trip[s] \in Trips
    BY <2>a DEF JobsOK, Live, GraphStart
  <2>1. WorldOK'
    BY <2>a, <2>t DEF WorldOK, GraphStart
  <2>2. JobsOK'
    BY <2>a DEF JobsOK, PlannerPcs, Live, OnDay, Goto, GraphStart
  <2>3. RowsOK' /\ DaysOK' /\ MarksOK' /\ RecoveryOK'
    BY <2>a DEF GraphStart, RowsOK, DaysOK, MarksOK, RecoveryOK, rows, days, marks, rec, Recovering
  <2> QED
    BY <2>1, <2>2, <2>3 DEF TypeOK
<1>20. ASSUME NEW s \in Slots, GraphEnd(s) PROVE TypeOK'
  <2>a. GraphEnd(s)
    BY <1>20
  <2>t. trip[s] \in Trips
    BY <2>a DEF JobsOK, Live, GraphEnd
  <2>1. WorldOK'
    <3>1. CASE UNCHANGED ckpt
      BY <2>a, <3>1 DEF WorldOK, GraphEnd
    <3>2. ASSUME NEW kind \in PlanKinds, ckpt' = [ckpt EXCEPT ![trip[s]][dno[s]] = kind]
          PROVE  WorldOK'
      <4>1. kind \in Plan \cup {"none", "open"}
        BY GenerationAssumption
      <4>2. ckpt' \in [Trips -> [Days -> Plan \cup {"none", "open"}]]
        BY <2>t, <3>2, <4>1 DEF WorldOK
      <4> QED
        BY <2>a, <4>2 DEF WorldOK, GraphEnd
    <3> QED
      BY <2>a, <3>1, <3>2 DEF GraphEnd
  <2>2. JobsOK'
    BY <2>a DEF JobsOK, PlannerPcs, Live, OnDay, Goto, GraphEnd
  <2>3. RowsOK' /\ DaysOK' /\ MarksOK' /\ RecoveryOK'
    BY <2>a DEF GraphEnd, RowsOK, DaysOK, MarksOK, RecoveryOK, rows, days, marks, rec, Recovering
  <2> QED
    BY <2>1, <2>2, <2>3 DEF TypeOK
<1>21. ASSUME NEW s \in Slots, PersistDay(s) PROVE TypeOK'
  <2>a. PersistDay(s)
    BY <1>21
  <2>t. trip[s] \in Trips
    BY <2>a DEF JobsOK, Live, PersistDay
  <2>1. DaysOK'
    BY <2>a, <2>t, PersistRow DEF JobsOK, OnDay, days, DaysOK, PersistDay
  <2>2. JobsOK'
    BY <2>a DEF PersistDay, JobsOK, Live, OnDay, Goto, PlannerPcs
  <2>3. WorldOK' /\ RowsOK' /\ MarksOK' /\ RecoveryOK'
    BY <2>a DEF PersistDay, WorldOK, RowsOK, MarksOK, RecoveryOK, rows, marks, rec, Recovering
  <2> QED
    BY <2>1, <2>2, <2>3 DEF TypeOK
<1>42. ASSUME NEW s \in Slots, KeepDay(s) PROVE TypeOK'
  <2>a. KeepDay(s)
    BY <1>42
  <2>t. trip[s] \in Trips /\ dno[s] \in Days
    BY <2>a DEF JobsOK, Live, OnDay, KeepDay
  <2>1. RowsOK'
    BY <2>a, <2>t, MainRow DEF RowsOK, KeepDay
  <2>2. MarksOK'
    <3>1. DayLock(trip[s], dno[s]) \in Locks
      BY <2>t, GenerationAssumption DEF DayLock, Locks, Days
    <3> QED
      BY <2>a, <3>1, MarkSets DEF KeepDay
  <2>3. JobsOK'
    <3>1. dno[s] + 1 \in 0 .. NDays + 1 /\ dno[s] + 1 > 0
      BY <2>t, GenerationAssumption DEF Days
    <3>2. Goto(s, "loop") /\ dno' = [dno EXCEPT ![s] = dno[s] + 1]
      BY <2>a DEF KeepDay, JobsOK
    <3> QED
      BY <2>a, <3>1, <3>2, SlotMoved DEF KeepDay, Live, PlannerPcs
  <2>4. WorldOK' /\ DaysOK' /\ RecoveryOK'
    BY <2>a DEF KeepDay, WorldOK, DaysOK, RecoveryOK, days, rec, Recovering
  <2> QED
    BY <2>1, <2>2, <2>3, <2>4 DEF TypeOK
<1>22. ASSUME NEW s \in Slots, DayFailed(s) PROVE TypeOK'
  <2>a. DayFailed(s)
    BY <1>22
  <2>t. trip[s] \in Trips
    BY <2>a DEF JobsOK, Live, DayFailed
  <2>1. DaysOK'
    BY <2>a, <2>t, DayRow DEF JobsOK, OnDay, DayStates, days, DaysOK, DayFailed
  <2>2. MarksOK'
    BY <2>a, <2>t, MarkSets DEF JobsOK, OnDay, Locks, DayLock, Days, DayFailed
  <2>3. JobsOK'
    BY <2>a DEF JobsOK, PlannerPcs, Live, OnDay, Goto, DayFailed
  <2>4. WorldOK' /\ RowsOK' /\ RecoveryOK'
    BY <2>a DEF DayFailed, WorldOK, RowsOK, RecoveryOK, rows, rec, Recovering
  <2> QED
    BY <2>1, <2>2, <2>3, <2>4 DEF TypeOK
<1>23. ASSUME NEW s \in Slots, Finish(s) PROVE TypeOK'
  <2>a. Finish(s)
    BY <1>23
  <2>t. trip[s] \in Trips
    BY <2>a DEF JobsOK, Live, Finish
  <2>1. RowsOK'
    <3>1. CASE UNCHANGED rows
      BY <3>1 DEF rows, RowsOK
    <3>2. ASSUME NEW g \in {"COMPLETED", "PARTIAL"}, SetMain(trip[s], g, 2),
                 resumed' = [resumed EXCEPT ![trip[s]] = FALSE]
          PROVE  RowsOK'
      <4>1. g \in GenStates /\ resumed' \in [Trips -> BOOLEAN]
        BY <3>2 DEF GenStates, RowsOK
      <4> QED
        BY <2>t, <3>2, <4>1, MainRow
    <3> QED
      BY <2>a, <3>1, <3>2 DEF Finish
  <2>2. JobsOK'
    BY <2>a DEF JobsOK, PlannerPcs, Live, OnDay, Goto, Finish
  <2>3. WorldOK' /\ DaysOK' /\ MarksOK' /\ RecoveryOK'
    BY <2>a DEF Finish, WorldOK, DaysOK, MarksOK, RecoveryOK, days, marks, rec, Recovering
  <2> QED
    BY <2>1, <2>2, <2>3 DEF TypeOK
<1>24. ASSUME NEW s \in Slots, FinishTail(s) PROVE TypeOK'
  <2>a. FinishTail(s)
    BY <1>24
  <2>1. WorldOK'
    BY <2>a, GenerationAssumption DEF WorldOK, FinishTail
  <2>2. JobsOK'
    BY <2>a DEF JobsOK, PlannerPcs, Live, OnDay, Goto, FinishTail
  <2>3. RowsOK' /\ DaysOK' /\ MarksOK' /\ RecoveryOK'
    BY <2>a DEF FinishTail, RowsOK, DaysOK, MarksOK, RecoveryOK, rows, days, marks, rec, Recovering
  <2> QED
    BY <2>1, <2>2, <2>3 DEF TypeOK
<1>41. ASSUME NEW s \in Slots, DbError(s) PROVE TypeOK'
  <2>a. DbError(s)
    BY <1>41
  <2>1. WorldOK'
    BY <2>a, GenerationAssumption DEF WorldOK, DbError
  <2>2. JobsOK'
    BY <2>a DEF JobsOK, PlannerPcs, Live, OnDay, Goto, DbError
  <2>3. MarksOK'
    BY <2>a DEF DbError, MarksOK, marks, Unmark
  <2>4. RowsOK' /\ DaysOK' /\ RecoveryOK'
    BY <2>a DEF DbError, RowsOK, DaysOK, RecoveryOK, rows, days, rec, Recovering
  <2> QED
    BY <2>1, <2>2, <2>3, <2>4 DEF TypeOK
<1>25. ASSUME NEW s \in Slots, Fail(s) PROVE TypeOK'
  <2>a. Fail(s)
    BY <1>25
  <2>t. trip[s] \in Trips
    BY <2>a DEF JobsOK, Live, Fail
  <2>1. WorldOK'
    BY <2>a, GenerationAssumption DEF WorldOK, Fail
  <2>2. RowsOK'
    BY <2>a, <2>t, FailRow DEF rows, RowsOK, Fail
  <2>3. JobsOK'
    BY <2>a DEF JobsOK, PlannerPcs, Live, OnDay, Goto, Fail
  <2>4. DaysOK' /\ MarksOK' /\ RecoveryOK'
    BY <2>a DEF Fail, DaysOK, MarksOK, RecoveryOK, days, marks, rec, Recovering
  <2> QED
    BY <2>1, <2>2, <2>3, <2>4 DEF TypeOK
<1>26. ASSUME NEW s \in Slots, Exit(s) PROVE TypeOK'
  <2>a. Exit(s)
    BY <1>26
  <2>1. WorldOK'
    BY <2>a DEF WorldOK, Exit
  <2>2. JobsOK'
    BY <2>a, SlotCleared DEF Exit
  <2>3. RowsOK' /\ DaysOK' /\ MarksOK' /\ RecoveryOK'
    BY <2>a DEF Exit, RowsOK, DaysOK, MarksOK, RecoveryOK, rows, days, marks, rec, Recovering
  <2> QED
    BY <2>1, <2>2, <2>3 DEF TypeOK
<1>27. CASE Scan
  <2>a. Scan
    BY <1>27
  <2>1. RecoveryOK'
    <3>1. ASSUME NEW x \in targets' PROVE x \in Trips \X BOOLEAN
      <4>1. \/ \E u \in Trips : x = <<u, FALSE>>
            \/ \E u \in Trips : x = <<u, TRUE>>
        BY <2>a, <3>1, Zenon DEF Scan
      <4>2. \A u \in Trips : <<u, FALSE>> \in Trips \X BOOLEAN /\ <<u, TRUE>> \in Trips \X BOOLEAN
        OBVIOUS
      <4> QED
        BY <4>1, <4>2
    <3> QED
      BY <2>a, <3>1 DEF RecoveryOK, RecoveryPcs, Recovering, Scan
  <2>2. WorldOK' /\ RowsOK' /\ DaysOK' /\ MarksOK' /\ JobsOK'
    BY <2>a DEF Scan, WorldOK, RowsOK, DaysOK, MarksOK, JobsOK, rows, days, marks, jobs, Live, OnDay
  <2> QED
    BY <2>1, <2>2 DEF TypeOK
<1>28. CASE ScanEnd
  <2>a. ScanEnd
    BY <1>28
  <2>1. RecoveryOK'
    BY <2>a DEF RecoveryOK, RecoveryPcs, Recovering, ScanEnd
  <2>2. WorldOK' /\ RowsOK' /\ DaysOK' /\ MarksOK' /\ JobsOK'
    BY <2>a DEF ScanEnd, WorldOK, RowsOK, DaysOK, MarksOK, JobsOK, rows, days, marks, jobs, Live, OnDay
  <2> QED
    BY <2>1, <2>2 DEF TypeOK
<1>29. CASE Probe
  <2>a. Probe
    BY <1>29
  <2>1. RecoveryOK'
    BY <2>a, GenerationAssumption DEF RecoveryOK, RecoveryPcs, Recovering, Probe
  <2>2. WorldOK' /\ RowsOK' /\ DaysOK' /\ MarksOK' /\ JobsOK'
    BY <2>a DEF Probe, WorldOK, RowsOK, DaysOK, MarksOK, JobsOK, rows, days, marks, jobs, Live, OnDay
  <2> QED
    BY <2>1, <2>2 DEF TypeOK
<1>30. CASE Decide
  <2>a. Decide
    BY <1>30
  <2>t. rtrip \in Trips
    BY <2>a DEF RecoveryOK, Recovering, Decide
  <2>1. RowsOK'
    <3>1. CASE UNCHANGED rows
      BY <3>1 DEF rows, RowsOK
    <3>2. CASE SetMain(rtrip, "COMPLETED", 2) /\ UNCHANGED resumed
      BY <2>t, <3>2, MainRow DEF RowsOK, GenStates
    <3>3. CASE SetMain(rtrip, "GENERATING", 1) /\ resumed' = [resumed EXCEPT ![rtrip] = TRUE]
      BY <2>t, <3>3, MainRow DEF RowsOK, GenStates
    <3> QED
      BY <2>a, <3>1, <3>2, <3>3 DEF Decide
  <2>2. MarksOK'
    BY <2>a, <2>t, MarkSets, GenerationAssumption DEF MarksOK, marks, Locks, ResumeLock, Decide
  <2>3. RecoveryOK'
    BY <2>a DEF RecoveryOK, RecoveryPcs, Recovering, NextTarget, Pending, Decide
  <2>4. WorldOK' /\ DaysOK' /\ JobsOK'
    BY <2>a DEF Decide, WorldOK, DaysOK, JobsOK, days, jobs, Live, OnDay
  <2> QED
    BY <2>1, <2>2, <2>3, <2>4 DEF TypeOK
<1>31. CASE ResumeRoute
  <2>a. ResumeRoute
    BY <1>31
  <2>1. RecoveryOK'
    BY <2>a DEF RecoveryOK, RecoveryPcs, Recovering, ResumeRoute
  <2>2. WorldOK' /\ RowsOK' /\ DaysOK' /\ MarksOK' /\ JobsOK'
    BY <2>a DEF ResumeRoute, WorldOK, RowsOK, DaysOK, MarksOK, JobsOK, rows, days, marks, jobs, Live, OnDay
  <2> QED
    BY <2>1, <2>2 DEF TypeOK
<1>32. CASE ResumeBroken
  <2>a. ResumeBroken
    BY <1>32
  <2>t. rtrip \in Trips
    BY <2>a DEF RecoveryOK, Recovering, ResumeBroken
  <2>1. RowsOK'
    BY <2>a, <2>t, FailRow DEF ResumeBroken
  <2>2. MarksOK'
    BY <2>a, <2>t, MarkSets, GenerationAssumption DEF Locks, ResumeLock, ResumeBroken
  <2>3. RecoveryOK'
    BY <2>a DEF RecoveryOK, RecoveryPcs, Recovering, NextTarget, ResumeBroken
  <2>4. WorldOK' /\ DaysOK' /\ JobsOK'
    BY <2>a DEF ResumeBroken, WorldOK, DaysOK, JobsOK, days, jobs, Live, OnDay
  <2> QED
    BY <2>1, <2>2, <2>3, <2>4 DEF TypeOK
<1>33. ASSUME NEW d \in Days, ResumeGraph(d) PROVE TypeOK'
  <2>a. ResumeGraph(d)
    BY <1>33
  <2>t. rtrip \in Trips
    BY <2>a DEF RecoveryOK, Recovering, ResumeGraph
  <2>1. WorldOK'
    BY <2>a, <2>t, GenerationAssumption DEF WorldOK, ResumeGraph
  <2>2. RowsOK' /\ DaysOK' /\ MarksOK' /\ JobsOK' /\ RecoveryOK'
    BY <2>a DEF ResumeGraph, RowsOK, DaysOK, MarksOK, JobsOK, RecoveryOK, rows, days, marks, jobs, Live, OnDay, rec, Recovering
  <2> QED
    BY <2>1, <2>2 DEF TypeOK
<1>34. ASSUME NEW d \in Days, ResumeRaises(d) PROVE TypeOK'
  <2>a. ResumeRaises(d)
    BY <1>34
  <2>1. RecoveryOK'
    BY <2>a DEF RecoveryOK, RecoveryPcs, Recovering, NextTarget, ResumeRaises
  <2>2. WorldOK' /\ RowsOK' /\ DaysOK' /\ MarksOK' /\ JobsOK'
    BY <2>a DEF ResumeRaises, WorldOK, RowsOK, DaysOK, MarksOK, JobsOK, rows, days, marks, jobs, Live, OnDay
  <2> QED
    BY <2>1, <2>2 DEF TypeOK
<1>35. ASSUME NEW d \in Days, ResumeNothing(d) PROVE TypeOK'
  <2>a. ResumeNothing(d)
    BY <1>35
  <2>1. RecoveryOK'
    BY <2>a DEF RecoveryOK, RecoveryPcs, Recovering, ResumeNothing
  <2>2. WorldOK' /\ RowsOK' /\ DaysOK' /\ MarksOK' /\ JobsOK'
    BY <2>a DEF ResumeNothing, WorldOK, RowsOK, DaysOK, MarksOK, JobsOK, rows, days, marks, jobs, Live, OnDay
  <2> QED
    BY <2>1, <2>2 DEF TypeOK
<1>36. ASSUME NEW d \in Days, ResumePersist(d) PROVE TypeOK'
  <2>a. ResumePersist(d)
    BY <1>36
  <2>t. rtrip \in Trips
    BY <2>a DEF RecoveryOK, Recovering, ResumePersist
  <2>1. DaysOK'
    BY <2>a, <2>t, PersistRow DEF Fps, RebuiltFp, RecoveryOK, days, DaysOK, ResumePersist
  <2>2. RecoveryOK'
    BY <2>a DEF RecoveryOK, RecoveryPcs, Recovering, ResumePersist
  <2>3. WorldOK' /\ RowsOK' /\ MarksOK' /\ JobsOK'
    BY <2>a DEF ResumePersist, WorldOK, RowsOK, MarksOK, JobsOK, rows, marks, jobs, Live, OnDay
  <2> QED
    BY <2>1, <2>2, <2>3 DEF TypeOK
<1>37. CASE ResumeComplete
  <2>a. ResumeComplete
    BY <1>37
  <2>t. rtrip \in Trips
    BY <2>a DEF RecoveryOK, Recovering, ResumeComplete
  <2>1. RowsOK'
    BY <2>a, <2>t, MainRow DEF RowsOK, GenStates, ResumeComplete
  <2>2. MarksOK'
    BY <2>a, <2>t, MarkSets, GenerationAssumption DEF Locks, ResumeLock, ResumeComplete
  <2>3. RecoveryOK'
    BY <2>a DEF RecoveryOK, RecoveryPcs, Recovering, NextTarget, ResumeComplete
  <2>4. WorldOK' /\ DaysOK' /\ JobsOK'
    BY <2>a DEF ResumeComplete, WorldOK, DaysOK, JobsOK, days, jobs, Live, OnDay
  <2> QED
    BY <2>1, <2>2, <2>3, <2>4 DEF TypeOK
<1>38. CASE ResumeSubmit
  <2>a. ResumeSubmit
    BY <1>38
  <2>t. rtrip \in Trips
    BY <2>a DEF RecoveryOK, Recovering, ResumeSubmit
  <2>1. WorldOK'
    BY <2>a, <2>t DEF WorldOK, SubmitPlanning, ResumeSubmit
  <2>2. MarksOK'
    BY <2>a, <2>t, MarkSets, GenerationAssumption DEF MarksOK, marks, Locks, ResumeLock, ResumeSubmit
  <2>3. JobsOK'
    BY <2>a, <2>t, GenerationAssumption DEF JobsOK, SubmitPlanning, FreeSlots, jobs, RebuiltFp, RecoveryOK, PlannerPcs, Live, OnDay, Fps, ResumeSubmit
  <2>4. RecoveryOK'
    BY <2>a DEF RecoveryOK, RecoveryPcs, Recovering, NextTarget, ResumeSubmit
  <2>5. RowsOK' /\ DaysOK'
    BY <2>a DEF ResumeSubmit, RowsOK, DaysOK, rows, days
  <2> QED
    BY <2>1, <2>2, <2>3, <2>4, <2>5 DEF TypeOK
<1>39. CASE Crash
  <2>a. Crash
    BY <1>39
  <2>1. WorldOK'
    BY <2>a, GenerationAssumption DEF WorldOK, Crash
  <2>2. MarksOK'
    BY <2>a DEF MarksOK, Crash
  <2>3. JobsOK'
    <3>1. /\ pc' \in [Slots -> PlannerPcs] /\ trip' \in [Slots -> Trips \cup {NoTrip}]
          /\ dno' \in [Slots -> 0 .. NDays + 1] /\ ctx' \in [Slots -> BOOLEAN]
          /\ fp' \in [Slots -> Fps]
      BY <2>a, GenerationAssumption DEF Crash, PlannerPcs, Fps
    <3>2. \A u \in Slots : pc'[u] = "free" /\ trip'[u] = NoTrip
      BY <2>a DEF Crash
    <3> QED
      BY <3>1, <3>2 DEF JobsOK, Live, OnDay
  <2>4. RecoveryOK'
    BY <2>a DEF RecoveryOK, RecoveryPcs, Recovering, Crash
  <2>5. RowsOK' /\ DaysOK'
    BY <2>a DEF Crash, RowsOK, DaysOK, rows, days
  <2> QED
    BY <2>1, <2>2, <2>3, <2>4, <2>5 DEF TypeOK
<1>40. CASE UNCHANGED vars
  BY <1>40 DEF vars, rows, days, marks, jobs, rec, WorldOK, RowsOK, DaysOK, MarksOK, JobsOK, RecoveryOK, Live, OnDay, Recovering
<1> QED
  BY <1>1, <1>2, <1>3, <1>4, <1>5, <1>6, <1>7, <1>8, <1>9, <1>10, <1>11, <1>12, <1>13, <1>14, <1>15, <1>16, <1>17, <1>18, <1>19, <1>20, <1>21, <1>22, <1>23, <1>24, <1>25, <1>26, <1>27, <1>28, <1>29, <1>30, <1>31, <1>32, <1>33, <1>34, <1>35, <1>36, <1>37, <1>38, <1>39, <1>40, <1>41, <1>42
     DEF Next, RequestStep, PlanStep, RecoverStep

\* The empty system is well-formed.
LEMMA TypeInit == Init => TypeOK
<1> SUFFICES ASSUME Init PROVE TypeOK
  OBVIOUS
<1> USE GenerationAssumption DEF Init
<1>1. WorldOK /\ MarksOK
  BY DEF WorldOK, MarksOK
<1>2. RowsOK /\ DaysOK
  BY DEF RowsOK, DaysOK, GenStates, DayStates, Fps
<1>3. JobsOK
  BY DEF JobsOK, PlannerPcs, Fps, Live, OnDay
<1>4. RecoveryOK
  BY DEF RecoveryOK, RecoveryPcs, Recovering
<1> QED
  BY <1>1, <1>2, <1>3, <1>4 DEF TypeOK

\* Every column, mark and thread holds a value of its kind in every behaviour of the
\* generation: the values the code writes are the ones the readers expect.
THEOREM TypeCorrect == Spec => []TypeOK
  BY TypeInit, TypeStep, PTL DEF Spec

-----------------------------------------------------------------------------
(* Exclusion.  The registry covers every task, no two tasks share a trip, and  *)
(* what the recovery works on is not registered.  For that to survive a        *)
(* request, a trip whose request has not submitted its planner yet must be     *)
(* unknown to the registry and to the recovery, which is so because its row is *)
(* still fresh.                                                                *)

Registered == \A s \in Slots : Live(s) => trip[s] \in active
OneTask ==
  \A s1, s2 \in Slots : Live(s1) /\ Live(s2) /\ trip[s1] = trip[s2] => s1 = s2
Probed == Recovering => rtrip \notin active
Untouched(t) == t \notin active /\ rtrip # t /\ \A b \in BOOLEAN : <<t, b>> \notin targets
ShellUntouched == \A t \in Trips : req[t] \in {"idle", "shell"} => Untouched(t)
ShellFresh ==
  \A t \in Trips : (req[t] = "idle" => gen[t] = "none") /\ (req[t] = "shell" => t \in fresh)
Exclusion == Registered /\ OneTask /\ Probed /\ ShellUntouched /\ ShellFresh

\* The main row of a trip whose request is under way is left as it is.
ShellKept == \A t \in Trips : req[t] \in {"idle", "shell"} =>
               gen'[t] = gen[t] /\ (req[t] = "shell" /\ t \in fresh => t \in fresh')

\* A write of the main row of a trip in hand keeps the rows of the others.
LEMMA MainElsewhere ==
  ASSUME TypeOK, NEW t \in Trips, req[t] \notin {"idle", "shell"}, NEW g, NEW st, SetMain(t, g, st)
  PROVE  ShellKept
  BY DEF SetMain, ShellKept, TypeOK, RowsOK

\* A trip that is registered, or in the recovery's hands, has passed its request.
LEMMA InHand ==
  ASSUME Exclusion, NEW t \in Trips, t \in active \/ rtrip = t
  PROVE  req[t] \notin {"idle", "shell"}
  BY DEF Exclusion, ShellUntouched, Untouched

\* A step that neither starts nor ends a task, nor takes a new target.
LEMMA Quiet ==
  ASSUME TypeOK, TypeOK', Exclusion, UNCHANGED <<req, active, trip>>,
         targets' \subseteq targets, rtrip' \in {rtrip, NoTrip}, ShellKept
  PROVE  Exclusion'
  <1>1. \A s \in Slots : Live(s)' <=> Live(s)
    BY DEF TypeOK, JobsOK
  <1>2. Recovering' => Recovering /\ rtrip' = rtrip
    BY DEF TypeOK, RecoveryOK
  <1>3. Registered' /\ OneTask' /\ Probed'
    BY <1>1, <1>2 DEF Exclusion, Registered, OneTask, Probed
  <1>4. ShellUntouched'
    BY GenerationAssumption DEF Exclusion, ShellUntouched, Untouched
  <1>5. ShellFresh'
    BY DEF Exclusion, ShellFresh, ShellKept
  <1> QED
    BY <1>3, <1>4, <1>5 DEF Exclusion

\* A task ends: its trip leaves the registry, or stays there for good.
LEMMA TaskEnds ==
  ASSUME TypeOK, TypeOK', Exclusion, NEW s \in Slots, Live(s), ClearSlot(s),
         active' \in {active, active \ {trip[s]}}, UNCHANGED <<req, targets, rtrip>>, ShellKept
  PROVE  Exclusion'
  <1>1. ~Live(s)' /\ \A u \in Slots \ {s} : trip'[u] = trip[u] /\ (Live(u)' <=> Live(u))
    BY DEF ClearSlot, TypeOK, JobsOK, Live
  <1>2. Recovering' <=> Recovering
    BY DEF TypeOK, RecoveryOK
  <1>3. Registered' /\ OneTask'
    BY <1>1 DEF Exclusion, Registered, OneTask
  <1>4. Probed' /\ ShellUntouched'
    BY <1>2 DEF Exclusion, Probed, ShellUntouched, Untouched
  <1>5. ShellFresh'
    BY DEF Exclusion, ShellFresh, ShellKept
  <1> QED
    BY <1>3, <1>4, <1>5 DEF Exclusion

\* A task starts, for a trip nobody has.
LEMMA TaskStarts ==
  ASSUME TypeOK, TypeOK', Exclusion, NEW t \in Trips, t \notin active, NEW c, NEW f,
         SubmitPlanning(t, c, f), rtrip' \in {rtrip, NoTrip}, rtrip' # t,
         UNCHANGED <<targets, gen, fresh>>,
         \A u \in Trips : req'[u] \in {"idle", "shell"} => req[u] = req'[u] /\ u # t
  PROVE  Exclusion'
  <1>1. PICK s \in Slots : /\ ~Live(s) /\ Live(s)' /\ trip'[s] = t
                           /\ \A u \in Slots \ {s} : trip'[u] = trip[u] /\ (Live(u)' <=> Live(u))
    <2>1. PICK s \in FreeSlots : pc' = [pc EXCEPT ![s] = "queued"] /\ trip' = [trip EXCEPT ![s] = t]
      BY DEF SubmitPlanning
    <2> QED
      BY <2>1 DEF FreeSlots, TypeOK, JobsOK, Live
  <1>2. active' = active \cup {t}
    BY DEF SubmitPlanning
  <1>3. Recovering' => Recovering /\ rtrip' = rtrip
    BY DEF TypeOK, RecoveryOK
  <1>4. Registered' /\ OneTask'
    BY <1>1, <1>2 DEF Exclusion, Registered, OneTask
  <1>5. Probed'
    BY <1>2, <1>3 DEF Exclusion, Probed
  <1>6. ShellUntouched'
    BY <1>2, GenerationAssumption DEF Exclusion, ShellUntouched, Untouched
  <1>7. ShellFresh'
    BY DEF Exclusion, ShellFresh
  <1> QED
    BY <1>4, <1>5, <1>6, <1>7 DEF Exclusion

\* Every step keeps the exclusion of planners: requests and the recovery add a task
\* or a target only for a trip that nobody has, all other steps leave that alone.
LEMMA ExclusionStep == TypeOK /\ TypeOK' /\ Exclusion /\ [Next]_vars => Exclusion'
<1> SUFFICES ASSUME TypeOK, TypeOK', Exclusion, [Next]_vars PROVE Exclusion'
  OBVIOUS
<1>s. ASSUME NEW s \in Slots, Live(s)
      PROVE  trip[s] \in Trips /\ trip[s] \in active /\ req[trip[s]] \notin {"idle", "shell"}
  BY <1>s, InHand DEF TypeOK, JobsOK, Exclusion, Registered
<1>r. ASSUME Recovering
      PROVE  rtrip \in Trips /\ rtrip \notin active /\ req[rtrip] \notin {"idle", "shell"}
  BY <1>r, InHand DEF TypeOK, RecoveryOK, Exclusion, Probed
<1>1. ASSUME NEW t \in Trips, CreateShell(t) PROVE Exclusion'
  <2>1. Registered' /\ OneTask' /\ Probed' /\ ShellUntouched'
    BY <1>1 DEF CreateShell, jobs, rec, Exclusion, Registered, OneTask, Probed, ShellUntouched,
         Untouched, Live, Recovering, TypeOK, WorldOK
  <2>2. ShellFresh'
    BY <1>1 DEF CreateShell, Exclusion, ShellFresh, TypeOK, WorldOK, RowsOK
  <2> QED
    BY <2>1, <2>2 DEF Exclusion
<1>2. ASSUME NEW t \in Trips, RequestPlanning(t) PROVE Exclusion'
  <2>1. t \notin active /\ rtrip # t
    BY <1>2 DEF RequestPlanning, Exclusion, ShellUntouched, Untouched
  <2>2. CASE SubmitPlanning(t, FALSE, "orig") /\ req' = [req EXCEPT ![t] = "accepted"]
    <3>1. \A u \in Trips : req'[u] \in {"idle", "shell"} => req[u] = req'[u] /\ u # t
      BY <2>2 DEF TypeOK, WorldOK
    <3>2. UNCHANGED <<targets, gen, fresh, rtrip>>
      BY <1>2 DEF RequestPlanning, rec, rows
    <3> QED
      BY <2>1, <2>2, <3>1, <3>2, TaskStarts
  <2>3. CASE req' = [req EXCEPT ![t] = "full"] /\ UNCHANGED <<active, jobs>>
    <3>1. \A u \in Trips : req'[u] \in {"idle", "shell"} => req[u] = req'[u]
      BY <2>3 DEF TypeOK, WorldOK
    <3> QED
      BY <1>2, <2>3, <3>1 DEF RequestPlanning, rows, jobs, rec, Exclusion, Registered, OneTask,
           Probed, ShellUntouched, Untouched, ShellFresh, Live, Recovering
  <2> QED
    BY <1>2, <2>2, <2>3 DEF RequestPlanning
<1>3. ASSUME NEW t \in Trips, RejectRequest(t) PROVE Exclusion'
  <2>1. \A u \in Trips : req'[u] \in {"idle", "shell"} => req[u] = req'[u]
    BY <1>3 DEF RejectRequest, TypeOK, WorldOK
  <2>2. ShellKept
    BY <1>3, MainElsewhere DEF RejectRequest, FailTrip
  <2>3. Registered' /\ OneTask' /\ Probed' /\ ShellUntouched'
    BY <1>3, <2>1 DEF RejectRequest, jobs, rec, Exclusion, Registered, OneTask, Probed,
         ShellUntouched, Untouched, Live, Recovering
  <2>4. ShellFresh'
    BY <2>1, <2>2 DEF Exclusion, ShellFresh, ShellKept
  <2> QED
    BY <2>3, <2>4 DEF Exclusion
<1>4. ASSUME NEW t \in Trips, DeleteTrip(t) \/ AgeMain(t) PROVE Exclusion'
  <2>1. ShellKept
    BY <1>4 DEF DeleteTrip, AgeMain, ShellKept, TypeOK, RowsOK, Exclusion, ShellFresh
  <2> QED
    BY <1>4, <2>1, Quiet DEF DeleteTrip, AgeMain, jobs, rec
<1>5. ASSUME NEW t \in Trips, NEW d \in Days, AgeDay(t, d) PROVE Exclusion'
  BY <1>5, Quiet DEF AgeDay, ShellKept, rows, jobs, rec
<1>6. ASSUME NEW k \in Locks, Expire(k) PROVE Exclusion'
  BY <1>6, Quiet DEF Expire, ShellKept, rows, jobs, rec
<1>7. ASSUME NEW s \in Slots, StartTask(s) PROVE Exclusion'
  BY <1>7, Quiet DEF StartTask, ShellKept, rows, jobs, rec
<1>8. ASSUME NEW s \in Slots, ResolveRoute(s) PROVE Exclusion'
  BY <1>8, Quiet DEF ResolveRoute, ShellKept, rows, jobs, rec
<1>9. ASSUME NEW s \in Slots, Research(s) PROVE Exclusion'
  BY <1>9, Quiet DEF Research, ShellKept, rows, jobs, rec
<1>10. ASSUME NEW s \in Slots, StreamDay(s) PROVE Exclusion'
  BY <1>10, Quiet DEF StreamDay, ShellKept, rows, jobs, rec
<1>11. ASSUME NEW s \in Slots, StreamPersist(s) PROVE Exclusion'
  BY <1>11, Quiet DEF StreamPersist, ShellKept, rows, jobs, rec
<1>12. ASSUME NEW s \in Slots, StreamEnd(s) PROVE Exclusion'
  BY <1>12, Quiet DEF StreamEnd, ShellKept, rows, jobs, rec
<1>13. ASSUME NEW s \in Slots, Revalidate(s) PROVE Exclusion'
  BY <1>13, Quiet DEF Revalidate, ShellKept, rows, jobs, rec
<1>14. ASSUME NEW s \in Slots, LoopDay(s) PROVE Exclusion'
  BY <1>14, Quiet DEF LoopDay, ShellKept, rows, jobs, rec
<1>15. ASSUME NEW s \in Slots, GraphStart(s) PROVE Exclusion'
  BY <1>15, Quiet DEF GraphStart, ShellKept, rows, jobs, rec
<1>16. ASSUME NEW s \in Slots, GraphEnd(s) PROVE Exclusion'
  BY <1>16, Quiet DEF GraphEnd, ShellKept, rows, jobs, rec
<1>17. ASSUME NEW s \in Slots, PersistDay(s) PROVE Exclusion'
  BY <1>17, Quiet DEF PersistDay, ShellKept, rows, jobs, rec
<1>52. ASSUME NEW s \in Slots, KeepDay(s) PROVE Exclusion'
  <2>1. UNCHANGED rows \/ \E g, st : SetMain(trip[s], g, st)
    BY <1>52 DEF KeepDay, rows
  <2>2. trip[s] \in Trips /\ req[trip[s]] \notin {"idle", "shell"}
    BY <1>52, <1>s DEF KeepDay, Live
  <2>3. ShellKept
    BY <2>1, <2>2, MainElsewhere DEF ShellKept, rows
  <2> QED
    BY <1>52, <2>3, Quiet DEF KeepDay, jobs, rec
<1>18. ASSUME NEW s \in Slots, DayFailed(s) PROVE Exclusion'
  BY <1>18, Quiet DEF DayFailed, ShellKept, rows, jobs, rec
<1>19. ASSUME NEW s \in Slots, FinishTail(s) PROVE Exclusion'
  BY <1>19, Quiet DEF FinishTail, ShellKept, rows, jobs, rec
<1>51. ASSUME NEW s \in Slots, DbError(s) PROVE Exclusion'
  BY <1>51, Quiet DEF DbError, ShellKept, rows, jobs, rec
<1>20. ASSUME NEW s \in Slots, Begin(s) PROVE Exclusion'
  <2>1. UNCHANGED rows \/ \E g, st : SetMain(trip[s], g, st)
    BY <1>20 DEF Begin
  <2>2. trip[s] \in Trips /\ req[trip[s]] \notin {"idle", "shell"}
    BY <1>20, <1>s DEF Begin, Live
  <2>3. ShellKept
    BY <2>1, <2>2, MainElsewhere DEF ShellKept, rows
  <2> QED
    BY <1>20, <2>3, Quiet DEF Begin, jobs, rec
<1>21. ASSUME NEW s \in Slots, SaveContext(s) PROVE Exclusion'
  <2>1. UNCHANGED rows \/ \E g, st : SetMain(trip[s], g, st)
    BY <1>21 DEF SaveContext
  <2>2. trip[s] \in Trips /\ req[trip[s]] \notin {"idle", "shell"}
    BY <1>21, <1>s DEF SaveContext, Live
  <2>3. ShellKept
    BY <2>1, <2>2, MainElsewhere DEF ShellKept, rows
  <2> QED
    BY <1>21, <2>3, Quiet DEF SaveContext, jobs, rec
<1>22. ASSUME NEW s \in Slots, Finish(s) PROVE Exclusion'
  <2>1. UNCHANGED rows \/ \E g, st : SetMain(trip[s], g, st)
    BY <1>22 DEF Finish
  <2>2. trip[s] \in Trips /\ req[trip[s]] \notin {"idle", "shell"}
    BY <1>22, <1>s DEF Finish, Live
  <2>3. ShellKept
    BY <2>1, <2>2, MainElsewhere DEF ShellKept, rows
  <2> QED
    BY <1>22, <2>3, Quiet DEF Finish, jobs, rec
<1>23. ASSUME NEW s \in Slots, Fail(s) PROVE Exclusion'
  <2>1. UNCHANGED rows \/ \E g, st : SetMain(trip[s], g, st)
    BY <1>23 DEF Fail, FailTrip
  <2>2. trip[s] \in Trips /\ req[trip[s]] \notin {"idle", "shell"}
    BY <1>23, <1>s DEF Fail, Live
  <2>3. ShellKept
    BY <2>1, <2>2, MainElsewhere DEF ShellKept, rows
  <2> QED
    BY <1>23, <2>3, Quiet DEF Fail, jobs, rec
<1>24. ASSUME NEW s \in Slots, RouteBroken(s) PROVE Exclusion'
  <2>1. Live(s) /\ trip[s] \in Trips /\ req[trip[s]] \notin {"idle", "shell"}
    BY <1>24, <1>s DEF RouteBroken, Live
  <2>2. UNCHANGED rows \/ \E g, st : SetMain(trip[s], g, st)
    BY <1>24 DEF RouteBroken, FailTrip
  <2>3. ShellKept
    BY <2>1, <2>2, MainElsewhere DEF ShellKept, rows
  <2> QED
    BY <1>24, <2>1, <2>3, TaskEnds DEF RouteBroken, rec
<1>25. ASSUME NEW s \in Slots, Exit(s) PROVE Exclusion'
  <2>1. Live(s) /\ ShellKept
    BY <1>25 DEF Exit, Live, ShellKept, rows
  <2> QED
    BY <1>25, <2>1, TaskEnds DEF Exit, rec
<1>26. CASE Scan
  <2>1. \A t \in Trips, b \in BOOLEAN : <<t, b>> \in targets' =>
          gen[t] \in {"GENERATING", "FAILED"} /\ t \notin fresh
    BY <1>26 DEF Scan, ScanHit
  <2>2. ShellUntouched'
    BY <1>26, <2>1 DEF Scan, jobs, Exclusion, ShellUntouched, Untouched, ShellFresh
  <2>3. Registered' /\ OneTask' /\ Probed' /\ ShellFresh'
    BY <1>26 DEF Scan, jobs, rows, Exclusion, Registered, OneTask, Probed, ShellFresh, Live, Recovering
  <2> QED
    BY <2>2, <2>3 DEF Exclusion
<1>27. CASE Probe
  <2>1. PICK x \in targets : /\ targets' = targets \ {x}
                             /\ IF Planned(x[1]) THEN UNCHANGED <<rpc, rtrip, rfail>>
                                ELSE rpc' = "decide" /\ rtrip' = x[1] /\ rfail' = x[2]
    BY <1>27 DEF Probe
  <2>2. x = <<x[1], x[2]>> /\ x[1] \in Trips /\ x[2] \in BOOLEAN
    BY <2>1 DEF TypeOK, RecoveryOK
  <2>3. Registered' /\ OneTask' /\ ShellFresh'
    BY <1>27 DEF Probe, jobs, rows, Exclusion, Registered, OneTask, ShellFresh, Live
  <2>4. Probed'
    BY <1>27, <2>1 DEF Probe, Planned, Exclusion, Probed, Recovering
  <2>5. ShellUntouched'
    BY <1>27, <2>1, <2>2 DEF Probe, Exclusion, ShellUntouched, Untouched
  <2> QED
    BY <2>3, <2>4, <2>5 DEF Exclusion
<1>28. CASE ScanEnd \/ ResumeRoute
  BY <1>28, Quiet DEF ScanEnd, ResumeRoute, ShellKept, rows, jobs
<1>29. ASSUME NEW d \in Days, ResumeGraph(d) \/ ResumeRaises(d) \/ ResumeNothing(d) \/ ResumePersist(d)
      PROVE  Exclusion'
  BY <1>29, Quiet DEF ResumeGraph, ResumeRaises, ResumeNothing, ResumePersist, NextTarget, ShellKept,
       rows, jobs, rec
<1>30. CASE Decide \/ ResumeBroken \/ ResumeComplete
  <2>1. rtrip \in Trips /\ req[rtrip] \notin {"idle", "shell"}
    BY <1>30, <1>r DEF Decide, ResumeBroken, ResumeComplete, Recovering
  <2>2. UNCHANGED rows \/ \E g, st : SetMain(rtrip, g, st)
    BY <1>30 DEF Decide, ResumeBroken, ResumeComplete, FailTrip
  <2>3. ShellKept
    BY <2>1, <2>2, MainElsewhere DEF ShellKept, rows
  <2>4. UNCHANGED <<req, active, trip, targets>> /\ rtrip' \in {rtrip, NoTrip}
    BY <1>30 DEF Decide, ResumeBroken, ResumeComplete, NextTarget, jobs
  <2> QED
    BY <2>3, <2>4, Quiet
<1>31. CASE ResumeSubmit
  <2>1. rtrip \in Trips /\ rtrip \notin active /\ req[rtrip] \notin {"idle", "shell"} /\ rtrip' = NoTrip
    BY <1>31, <1>r DEF ResumeSubmit, Recovering, NextTarget
  <2>2. CASE SubmitPlanning(rtrip, rctx, RebuiltFp(rtrip))
    <3>1. UNCHANGED <<targets, gen, fresh, req>>
      BY <1>31 DEF ResumeSubmit, rows
    <3>2. rtrip' # rtrip /\ \A u \in Trips : req'[u] \in {"idle", "shell"} => req[u] = req'[u] /\ u # rtrip
      BY <2>1, <3>1, GenerationAssumption
    <3> QED
      BY <2>1, <2>2, <3>1, <3>2, TaskStarts
  <2>3. CASE UNCHANGED <<active, jobs>>
    BY <1>31, <2>1, <2>3, Quiet DEF ResumeSubmit, ShellKept, rows, jobs
  <2> QED
    BY <1>31, <2>2, <2>3 DEF ResumeSubmit
<1>32. CASE Crash
  BY <1>32, GenerationAssumption DEF Crash, rows, Exclusion, Registered, OneTask, Probed, ShellUntouched,
       Untouched, ShellFresh, Live, Recovering, TypeOK, WorldOK
<1>33. CASE UNCHANGED vars
  BY <1>33, Quiet DEF vars, ShellKept, rows, jobs, rec
<1> QED
  BY <1>1, <1>2, <1>3, <1>4, <1>5, <1>6, <1>7, <1>8, <1>9, <1>10, <1>11, <1>12, <1>13, <1>14, <1>15, <1>16, <1>17, <1>18, <1>19, <1>20, <1>21, <1>22, <1>23, <1>24, <1>25, <1>26, <1>27, <1>28, <1>29, <1>30, <1>31, <1>32, <1>33, <1>51, <1>52
     DEF Next, RequestStep, PlanStep, RecoverStep

\* No trip is planned twice at once, neither by two tasks of the pool nor by a task
\* and the recovery thread, whatever crashes, expires or is relaunched: the registry
\* (_ACTIVE_PLANNING) and the probe at the head of recover_one are enough for it.
THEOREM NoDoublePlanning == Spec => []SinglePlanner
<1>1. Init => Exclusion
  BY GenerationAssumption DEF Init, Exclusion, Registered, OneTask, Probed, ShellUntouched, Untouched,
     ShellFresh, Live, Recovering
<1>2. TypeOK /\ Exclusion => SinglePlanner
  BY GenerationAssumption DEF TypeOK, JobsOK, RecoveryOK, Exclusion, Registered, OneTask, Probed, SinglePlanner
<1> QED
  BY <1>1, <1>2, ExclusionStep, TypeCorrect, PTL DEF Spec

-----------------------------------------------------------------------------
(* Delivered days.  A planner that generates a day holds it RUNNING, since by   *)
(* Exclusion nobody else writes the days of its trip: that is why its persist   *)
(* and its mark_failed, which look at no status, never hit a delivered day: but *)
(* for the first day, whose failure may be that of the theme.                   *)

Holds(s) ==
  \/ pc[s] \in {"generate", "graph", "persist"}
  \/ pc[s] = "dayFailed" /\ ~ThemeDue(s)
DayHeld == \A s \in Slots : Holds(s) => day[trip[s]][dno[s]] = "RUNNING"

\* A step that leaves the days alone and starts no generation.
LEMMA HeldQuiet ==
  ASSUME DayHeld, UNCHANGED day,
         \A u \in Slots : Holds(u)' => Holds(u) /\ trip'[u] = trip[u] /\ dno'[u] = dno[u]
  PROVE  DayHeld'
  BY DEF DayHeld

\* A step of planner s that writes days of its own trip only.
LEMMA HeldStep ==
  ASSUME TypeOK, Exclusion, DayHeld, NEW s \in Slots, Live(s),
         \A t \in Trips : t # trip[s] => day'[t] = day[t],
         \A u \in Slots \ {s} : pc'[u] = pc[u] /\ trip'[u] = trip[u] /\ dno'[u] = dno[u],
         Holds(s)' => day'[trip'[s]][dno'[s]] = "RUNNING"
  PROVE  DayHeld'
  <1> SUFFICES ASSUME NEW u \in Slots, Holds(u)' PROVE day'[trip'[u]][dno'[u]] = "RUNNING"
    BY DEF DayHeld
  <1>1. CASE u = s
    BY <1>1
  <1>2. CASE u # s
    <2>1. Holds(u) /\ Live(u) /\ trip'[u] = trip[u] /\ dno'[u] = dno[u]
      BY <1>2 DEF Holds, ThemeDue, Live
    <2>2. trip[u] \in Trips /\ trip[u] # trip[s]
      BY <1>2, <2>1 DEF TypeOK, JobsOK, Exclusion, OneTask
    <2> QED
      BY <2>1, <2>2 DEF DayHeld
  <1> QED
    BY <1>1, <1>2

\* SetDay writes the one day it names.
LEMMA SetDayOnly ==
  ASSUME TypeOK, NEW t \in Trips, NEW d \in Days, NEW st, NEW f, SetDay(t, d, st, f)
  PROVE  /\ \A u \in Trips : u # t => day'[u] = day[u]
         /\ \A e \in Days : e # d => day'[t][e] = day[t][e]
         /\ day'[t][d] = st
  BY DEF TypeOK, DaysOK, SetDay

\* persist without overwrite writes no delivered day.
LEMMA PersistKeeps ==
  ASSUME TypeOK, NEW t \in Trips, NEW d \in Days, NEW kind, NEW f, Persist(t, d, kind, f, FALSE)
  PROVE  /\ \A u \in Trips : u # t => day'[u] = day[u]
         /\ \A e \in Days : day[t][e] = "SUCCEEDED" => day'[t][e] = "SUCCEEDED"
  <1>1. CASE UNCHANGED days
    BY <1>1 DEF days
  <1>2. CASE Redo(t, d) /\ SetDay(t, d, Delivered(kind), f)
    BY <1>2, SetDayOnly DEF Redo
  <1> QED
    BY <1>1, <1>2 DEF Persist

\* The day keeps its delivery, or the trip is in its stream, or could not be named.
Kept == \A t \in Trips, d \in Days :
          day[t][d] = "SUCCEEDED" /\ day'[t][d] # "SUCCEEDED" => InStream(t) \/ ThemeFails(t, d)

\* Every step keeps a day under generation RUNNING, and takes a delivered day back
\* only inside the stream of its own trip, or with the theme of it.
LEMMA HeldKept == TypeOK /\ Exclusion /\ DayHeld /\ [Next]_vars => DayHeld' /\ Kept
<1> SUFFICES ASSUME TypeOK, Exclusion, DayHeld, [Next]_vars PROVE DayHeld' /\ Kept
  OBVIOUS
<1>s. ASSUME NEW s \in Slots, Live(s) PROVE trip[s] \in Trips
  BY <1>s DEF TypeOK, JobsOK
<1>q. ASSUME UNCHANGED day PROVE Kept
  BY <1>q DEF Kept
<1>1. ASSUME NEW t \in Trips,
             CreateShell(t) \/ RejectRequest(t) \/ DeleteTrip(t) \/ AgeMain(t)
      PROVE  DayHeld' /\ Kept
  BY <1>1, <1>q, HeldQuiet DEF CreateShell, RejectRequest, DeleteTrip, AgeMain, days, jobs, Holds, ThemeDue
<1>n. ASSUME NEW t, NEW c, NEW f, SubmitPlanning(t, c, f), UNCHANGED day PROVE DayHeld'
  <2>0. SubmitPlanning(t, c, f)
    BY <1>n
  <2>1. \A u \in Slots : Holds(u)' => Holds(u) /\ trip'[u] = trip[u] /\ dno'[u] = dno[u]
    <3>1. PICK s \in FreeSlots : /\ pc' = [pc EXCEPT ![s] = "queued"]
                                 /\ \E x : trip' = [trip EXCEPT ![s] = x]
                                 /\ dno' = dno
      BY <2>0 DEF SubmitPlanning
    <3>2. \A u \in Slots : pc'[u] = IF u = s THEN "queued" ELSE pc[u]
      BY <3>1 DEF TypeOK, JobsOK, FreeSlots
    <3>3. \A u \in Slots : u # s => trip'[u] = trip[u]
      BY <3>1 DEF TypeOK, JobsOK, FreeSlots
    <3> QED
      BY <3>1, <3>2, <3>3 DEF Holds, ThemeDue
  <2> QED
    BY <1>n, <2>1, HeldQuiet
<1>2. ASSUME NEW t \in Trips, RequestPlanning(t) PROVE DayHeld' /\ Kept
  <2>1. UNCHANGED day
    BY <1>2 DEF RequestPlanning, days
  <2>2. CASE SubmitPlanning(t, FALSE, "orig")
    BY <1>n, <1>q, <2>1, <2>2
  <2>3. CASE UNCHANGED jobs
    BY <1>q, <2>1, <2>3, HeldQuiet DEF jobs, Holds, ThemeDue
  <2> QED
    BY <1>2, <2>2, <2>3 DEF RequestPlanning
<1>3. CASE ResumeSubmit
  <2>1. UNCHANGED day
    BY <1>3 DEF ResumeSubmit, days
  <2>2. CASE SubmitPlanning(rtrip, rctx, RebuiltFp(rtrip))
    BY <1>n, <1>q, <2>1, <2>2
  <2>3. CASE UNCHANGED jobs
    BY <1>q, <2>1, <2>3, HeldQuiet DEF jobs, Holds, ThemeDue
  <2> QED
    BY <1>3, <2>2, <2>3 DEF ResumeSubmit
<1>4. ASSUME NEW k \in Locks, Expire(k) PROVE DayHeld' /\ Kept
  BY <1>4, <1>q, HeldQuiet DEF Expire, days, jobs, Holds, ThemeDue
<1>5. ASSUME NEW t \in Trips, NEW d \in Days, AgeDay(t, d) PROVE DayHeld' /\ Kept
  BY <1>5, <1>q, HeldQuiet DEF AgeDay, jobs, Holds, ThemeDue
<1>6. CASE Scan \/ ScanEnd \/ Probe \/ Decide \/ ResumeRoute \/ ResumeBroken \/ ResumeComplete
  BY <1>6, <1>q, HeldQuiet DEF Scan, ScanEnd, Probe, Decide, ResumeRoute, ResumeBroken, ResumeComplete,
       days, jobs, Holds, ThemeDue
<1>7. ASSUME NEW d \in Days, ResumeGraph(d) \/ ResumeRaises(d) \/ ResumeNothing(d)
      PROVE  DayHeld' /\ Kept
  BY <1>7, <1>q, HeldQuiet DEF ResumeGraph, ResumeRaises, ResumeNothing, days, jobs, Holds, ThemeDue
<1>8. ASSUME NEW d \in Days, ResumePersist(d) PROVE DayHeld' /\ Kept
  <2>1. rtrip \in Trips /\ \A s \in Slots : Live(s) => trip[s] # rtrip
    BY <1>8 DEF ResumePersist, TypeOK, RecoveryOK, Recovering, Exclusion, Probed, Registered
  <2>2. CASE UNCHANGED days
    BY <1>8, <1>q, <2>2, HeldQuiet DEF ResumePersist, days, jobs, Holds, ThemeDue
  <2>3. CASE Persist(rtrip, d, ckpt[rtrip][d], RebuiltFp(rtrip), FALSE)
    <3>1. \A u \in Trips : u # rtrip => day'[u] = day[u]
      BY <2>1, <2>3, PersistKeeps
    <3>2. \A e \in Days : day[rtrip][e] = "SUCCEEDED" => day'[rtrip][e] = "SUCCEEDED"
      BY <2>1, <2>3, PersistKeeps
    <3>3. \A s \in Slots : Holds(s) => Live(s) /\ trip[s] \in Trips
      BY <1>s DEF Holds, ThemeDue, Live
    <3>4. DayHeld'
      BY <1>8, <2>1, <3>1, <3>3 DEF ResumePersist, jobs, DayHeld, Holds, ThemeDue
    <3>5. Kept
      BY <3>1, <3>2 DEF Kept
    <3> QED
      BY <3>4, <3>5
  <2> QED
    BY <1>8, <2>2, <2>3 DEF ResumePersist
<1>9. ASSUME NEW s \in Slots, StartTask(s) PROVE DayHeld' /\ Kept
  BY <1>9, <1>q, HeldQuiet DEF StartTask, Goto, days, Holds, ThemeDue, TypeOK, JobsOK
<1>10. ASSUME NEW s \in Slots, ResolveRoute(s) PROVE DayHeld' /\ Kept
  BY <1>10, <1>q, HeldQuiet DEF ResolveRoute, Goto, days, Holds, ThemeDue, TypeOK, JobsOK
<1>11. ASSUME NEW s \in Slots, Begin(s) PROVE DayHeld' /\ Kept
  BY <1>11, <1>q, HeldQuiet DEF Begin, Goto, days, Holds, ThemeDue, TypeOK, JobsOK
<1>12. ASSUME NEW s \in Slots, Research(s) PROVE DayHeld' /\ Kept
  BY <1>12, <1>q, HeldQuiet DEF Research, Goto, days, Holds, ThemeDue, TypeOK, JobsOK
<1>13. ASSUME NEW s \in Slots, SaveContext(s) PROVE DayHeld' /\ Kept
  BY <1>13, <1>q, HeldQuiet DEF SaveContext, Goto, days, Holds, ThemeDue, TypeOK, JobsOK
<1>14. ASSUME NEW s \in Slots, StreamEnd(s) PROVE DayHeld' /\ Kept
  BY <1>14, <1>q, HeldQuiet DEF StreamEnd, Goto, days, Holds, ThemeDue, TypeOK, JobsOK
<1>15. ASSUME NEW s \in Slots, Finish(s) PROVE DayHeld' /\ Kept
  BY <1>15, <1>q, HeldQuiet DEF Finish, Goto, days, Holds, ThemeDue, TypeOK, JobsOK
<1>16. ASSUME NEW s \in Slots, FinishTail(s) PROVE DayHeld' /\ Kept
  BY <1>16, <1>q, HeldQuiet DEF FinishTail, Goto, days, Holds, ThemeDue, TypeOK, JobsOK
<1>51. ASSUME NEW s \in Slots, DbError(s) PROVE DayHeld' /\ Kept
  BY <1>51, <1>q, HeldQuiet DEF DbError, Goto, days, Holds, ThemeDue, TypeOK, JobsOK
<1>17. ASSUME NEW s \in Slots, Fail(s) PROVE DayHeld' /\ Kept
  BY <1>17, <1>q, HeldQuiet DEF Fail, Goto, days, Holds, ThemeDue, TypeOK, JobsOK
<1>18. ASSUME NEW s \in Slots, RouteBroken(s) \/ Exit(s) PROVE DayHeld' /\ Kept
  BY <1>18, <1>q, HeldQuiet DEF RouteBroken, Exit, ClearSlot, days, Holds, ThemeDue, TypeOK, JobsOK
<1>19. ASSUME NEW s \in Slots, GraphStart(s) \/ GraphEnd(s) PROVE DayHeld' /\ Kept
  BY <1>19, <1>q, HeldQuiet DEF GraphStart, GraphEnd, Goto, days, Holds, ThemeDue, TypeOK, JobsOK
<1>20. ASSUME NEW s \in Slots, StreamDay(s) PROVE DayHeld' /\ Kept
  <2>1. Live(s) /\ \A u \in Slots \ {s} : pc'[u] = pc[u] /\ trip'[u] = trip[u] /\ dno'[u] = dno[u]
    BY <1>20 DEF StreamDay, Goto, TypeOK, JobsOK, Live
  <2>2. \A t \in Trips : t # trip[s] => day'[t] = day[t]
    <3>1. PICK d \in Days : SetDay(trip[s], d, "RUNNING", fp[s])
      BY <1>20 DEF StreamDay
    <3> QED
      BY <1>s, <2>1, <3>1, SetDayOnly
  <2>3. ~Holds(s)' /\ InStream(trip[s])
    BY <1>20 DEF StreamDay, Goto, Holds, ThemeDue, InStream, TypeOK, JobsOK
  <2>4. DayHeld'
    BY <2>1, <2>2, <2>3, HeldStep
  <2>5. Kept
    BY <2>2, <2>3 DEF Kept
  <2> QED
    BY <2>4, <2>5
<1>21. ASSUME NEW s \in Slots, StreamPersist(s) PROVE DayHeld' /\ Kept
  <2>1. Live(s) /\ \A u \in Slots \ {s} : pc'[u] = pc[u] /\ trip'[u] = trip[u] /\ dno'[u] = dno[u]
    BY <1>21 DEF StreamPersist, Goto, TypeOK, JobsOK, Live
  <2>2. \A t \in Trips : t # trip[s] => day'[t] = day[t]
    <3>1. dno[s] \in Days
      BY <1>21 DEF StreamPersist, TypeOK, JobsOK, OnDay
    <3>2. UNCHANGED days \/ \E st : SetDay(trip[s], dno[s], st, fp[s])
      BY <1>21 DEF StreamPersist, Persist
    <3> QED
      BY <1>s, <2>1, <3>1, <3>2, SetDayOnly DEF days
  <2>3. ~Holds(s)' /\ InStream(trip[s])
    BY <1>21 DEF StreamPersist, Goto, Holds, ThemeDue, InStream, TypeOK, JobsOK
  <2>4. DayHeld'
    BY <2>1, <2>2, <2>3, HeldStep
  <2>5. Kept
    BY <2>2, <2>3 DEF Kept
  <2> QED
    BY <2>4, <2>5
<1>22. ASSUME NEW s \in Slots, Revalidate(s) PROVE DayHeld' /\ Kept
  <2>1. Live(s) /\ \A u \in Slots \ {s} : pc'[u] = pc[u] /\ trip'[u] = trip[u] /\ dno'[u] = dno[u]
    BY <1>22 DEF Revalidate, Goto, TypeOK, JobsOK, Live
  <2>2. \A t \in Trips : t # trip[s] => day'[t] = day[t]
    BY <1>22, <1>s, <2>1 DEF Revalidate, TypeOK, DaysOK
  <2>3. ~Holds(s)' /\ InStream(trip[s])
    BY <1>22 DEF Revalidate, Goto, Holds, ThemeDue, InStream, TypeOK, JobsOK
  <2>4. DayHeld'
    BY <2>1, <2>2, <2>3, HeldStep
  <2>5. Kept
    BY <2>2, <2>3 DEF Kept
  <2> QED
    BY <2>4, <2>5
<1>23. ASSUME NEW s \in Slots, LoopDay(s) PROVE DayHeld' /\ Kept
  <2>1. Live(s) /\ \A u \in Slots \ {s} : pc'[u] = pc[u] /\ trip'[u] = trip[u] /\ dno'[u] = dno[u]
    BY <1>23 DEF LoopDay, Goto, SkipDay, TypeOK, JobsOK, Live
  <2>2. CASE UNCHANGED days /\ ~Holds(s)'
    BY <1>q, <2>1, <2>2, HeldStep DEF days
  <2>3. CASE /\ Redo(trip[s], dno[s]) /\ SetDay(trip[s], dno[s], "RUNNING", fp[s])
             /\ UNCHANGED <<trip, dno>>
    <3>1. trip[s] \in Trips /\ dno[s] \in Days
      BY <1>23, <1>s, <2>1 DEF LoopDay
    <3>2. DayHeld'
      BY <2>1, <2>3, <3>1, SetDayOnly, HeldStep
    <3>3. Kept
      BY <2>3, <3>1, SetDayOnly DEF Kept, Redo
    <3> QED
      BY <3>2, <3>3
  <2> QED
    BY <1>23, <2>2, <2>3 DEF LoopDay, Goto, SkipDay, Holds, ThemeDue, TypeOK, JobsOK
<1>24. ASSUME NEW s \in Slots, PersistDay(s) PROVE DayHeld' /\ Kept
  <2>1. Live(s) /\ \A u \in Slots \ {s} : pc'[u] = pc[u] /\ trip'[u] = trip[u] /\ dno'[u] = dno[u]
    BY <1>24 DEF PersistDay, Goto, TypeOK, JobsOK, Live
  <2>2. trip[s] \in Trips /\ dno[s] \in Days
    BY <1>24, <1>s, <2>1 DEF PersistDay, TypeOK, JobsOK, OnDay
  <2>3. CASE Goto(s, "dayFailed") /\ UNCHANGED <<days, trip, dno>>
    <3>1. day'[trip'[s]][dno'[s]] = "RUNNING"
      BY <1>24, <2>3 DEF PersistDay, DayHeld, Holds, days
    <3> QED
      BY <1>q, <2>1, <2>3, <3>1, HeldStep DEF days
  <2>4. CASE Goto(s, "persisted") /\ Persist(trip[s], dno[s], ckpt[trip[s]][dno[s]], fp[s], FALSE)
    <3>1. ~Holds(s)'
      BY <2>4 DEF Goto, Holds, TypeOK, JobsOK
    <3>2. \A t \in Trips : t # trip[s] => day'[t] = day[t]
      BY <2>2, <2>4, PersistKeeps
    <3>3. \A e \in Days : day[trip[s]][e] = "SUCCEEDED" => day'[trip[s]][e] = "SUCCEEDED"
      BY <2>2, <2>4, PersistKeeps
    <3>4. DayHeld'
      BY <2>1, <3>1, <3>2, HeldStep
    <3> QED
      BY <3>2, <3>3, <3>4 DEF Kept
  <2> QED
    BY <1>24, <2>3, <2>4 DEF PersistDay
<1>52. ASSUME NEW s \in Slots, KeepDay(s) PROVE DayHeld' /\ Kept
  BY <1>52, <1>q, HeldQuiet DEF KeepDay, Goto, days, Holds, ThemeDue, TypeOK, JobsOK
<1>25. ASSUME NEW s \in Slots, DayFailed(s) PROVE DayHeld' /\ Kept
  <2>1. Live(s) /\ \A u \in Slots \ {s} : pc'[u] = pc[u] /\ trip'[u] = trip[u] /\ dno'[u] = dno[u]
    BY <1>25 DEF DayFailed, Goto, TypeOK, JobsOK, Live
  <2>2. trip[s] \in Trips /\ dno[s] \in Days
    BY <1>25, <1>s, <2>1 DEF DayFailed, TypeOK, JobsOK, OnDay
  <2>3. ~Holds(s)'
    BY <1>25 DEF DayFailed, Goto, Holds, TypeOK, JobsOK
  <2>4. CASE UNCHANGED days
    BY <1>q, <2>1, <2>3, <2>4, HeldStep DEF days
  <2>5. CASE SetDay(trip[s], dno[s], "FAILED", fp[s])
    <3>1. DayHeld'
      BY <2>1, <2>2, <2>3, <2>5, SetDayOnly, HeldStep
    <3>2. day[trip[s]][dno[s]] = "RUNNING" \/ ThemeFails(trip[s], dno[s])
      BY <1>25 DEF DayFailed, DayHeld, Holds, ThemeDue, ThemeFails
    <3>3. Kept
      BY <2>2, <2>5, <3>2, SetDayOnly DEF Kept
    <3> QED
      BY <3>1, <3>3
  <2> QED
    BY <1>25, <2>4, <2>5 DEF DayFailed
<1>26. CASE Crash
  BY <1>26, <1>q, HeldQuiet DEF Crash, days, Holds, ThemeDue
<1>27. CASE UNCHANGED vars
  BY <1>27, <1>q, HeldQuiet DEF vars, days, jobs, Holds, ThemeDue
<1> QED
  BY <1>1, <1>2, <1>3, <1>4, <1>5, <1>6, <1>7, <1>8, <1>9, <1>10, <1>11, <1>12, <1>13, <1>14, <1>15, <1>16, <1>17, <1>18, <1>19, <1>20, <1>21, <1>22, <1>23, <1>24, <1>25, <1>26, <1>27, <1>51, <1>52
     DEF Next, RequestStep, PlanStep, RecoverStep

\* A delivered day is never generated again: whatever crashes, expiries and relaunches
\* follow, only the stream that produced a day rewrites it or sends it back, and only the
\* planner that has just delivered the first day marks it failed for want of a theme.
THEOREM DeliveredDaysKept == Spec => DeliveredDayKept
<1>1. Init => Exclusion /\ DayHeld
  BY GenerationAssumption DEF Init, Exclusion, Registered, OneTask, Probed, ShellUntouched, Untouched,
     ShellFresh, Live, Recovering, DayHeld, Holds, ThemeDue
<1>2. TypeOK /\ Exclusion /\ DayHeld /\ [Next]_vars =>
        [\A t \in Trips, d \in Days :
           day[t][d] = "SUCCEEDED" /\ day'[t][d] # "SUCCEEDED"
             => InStream(t) \/ ThemeFails(t, d)]_vars
  BY HeldKept DEF Kept
<1> QED
  BY <1>1, <1>2, HeldKept, ExclusionStep, TypeCorrect, PTL DEF Spec, DeliveredDayKept

-----------------------------------------------------------------------------
(* The registry.  Registered says that it misses no task; without a failing   *)
(* database it holds nothing else, since every end of a task takes its trip   *)
(* out.                                                                        *)

Matched == ~DbFaults => \A t \in active : \E s \in Slots : trip[s] = t

\* Every step keeps it: a task enters the registry with its slot and leaves with it.
LEMMA MatchedStep == TypeOK /\ Matched /\ [Next]_vars => Matched'
<1> SUFFICES ASSUME TypeOK, Matched, [Next]_vars, ~DbFaults PROVE Matched'
  BY DEF Matched
<1>q. ASSUME UNCHANGED <<active, trip>> PROVE Matched'
  BY <1>q DEF Matched
<1>n. ASSUME NEW t, NEW c, NEW f, SubmitPlanning(t, c, f) PROVE Matched'
  <2>1. PICK s \in FreeSlots : trip' = [trip EXCEPT ![s] = t] /\ active' = active \cup {t}
    BY <1>n DEF SubmitPlanning
  <2>2. s \in Slots /\ trip[s] = NoTrip /\ trip'[s] = t /\ \A u \in Slots \ {s} : trip'[u] = trip[u]
    BY <2>1 DEF FreeSlots, TypeOK, JobsOK, Live
  <2>3. NoTrip \notin active
    BY GenerationAssumption DEF TypeOK, WorldOK
  <2> QED
    BY <2>1, <2>2, <2>3 DEF Matched
<1>e. ASSUME NEW s \in Slots, ClearSlot(s), active' = active \ {trip[s]} PROVE Matched'
  <2>1. \A u \in Slots \ {s} : trip'[u] = trip[u]
    BY <1>e DEF ClearSlot, TypeOK, JobsOK
  <2> QED
    BY <1>e, <2>1 DEF Matched
<1>1. ASSUME NEW t \in Trips,
             CreateShell(t) \/ RejectRequest(t) \/ DeleteTrip(t) \/ AgeMain(t)
      PROVE  Matched'
  BY <1>1, <1>q DEF CreateShell, RejectRequest, DeleteTrip, AgeMain, jobs
<1>2. ASSUME NEW t \in Trips, RequestPlanning(t) PROVE Matched'
  BY <1>2, <1>n, <1>q DEF RequestPlanning, jobs
<1>3. ASSUME NEW t \in Trips, NEW d \in Days, AgeDay(t, d) PROVE Matched'
  BY <1>3, <1>q DEF AgeDay, jobs
<1>4. ASSUME NEW k \in Locks, Expire(k) PROVE Matched'
  BY <1>4, <1>q DEF Expire, jobs
<1>5. ASSUME NEW s \in Slots, PlanStep(s), ~RouteBroken(s), ~Exit(s) PROVE Matched'
  BY <1>5, <1>q DEF PlanStep, StartTask, ResolveRoute, Begin, Research, SaveContext, StreamDay,
     StreamPersist, StreamEnd, Revalidate, LoopDay, GraphStart, GraphEnd, PersistDay, KeepDay,
     DayFailed, Finish, FinishTail, DbError, Fail
<1>6. ASSUME NEW s \in Slots, RouteBroken(s) \/ Exit(s) PROVE Matched'
  BY <1>6, <1>e DEF RouteBroken, Exit
<1>7. CASE ResumeSubmit
  BY <1>7, <1>n, <1>q DEF ResumeSubmit, jobs
<1>8. CASE Scan \/ ScanEnd \/ Probe \/ Decide \/ ResumeRoute \/ ResumeBroken \/ ResumeComplete
  BY <1>8, <1>q DEF Scan, ScanEnd, Probe, Decide, ResumeRoute, ResumeBroken, ResumeComplete, jobs
<1>9. ASSUME NEW d \in Days,
             ResumeGraph(d) \/ ResumeRaises(d) \/ ResumeNothing(d) \/ ResumePersist(d)
      PROVE  Matched'
  BY <1>9, <1>q DEF ResumeGraph, ResumeRaises, ResumeNothing, ResumePersist, jobs
<1>10. CASE Crash
  BY <1>10 DEF Crash, Matched
<1>11. CASE UNCHANGED vars
  BY <1>11, <1>q DEF vars, jobs
<1> QED
  BY <1>1, <1>2, <1>3, <1>4, <1>5, <1>6, <1>7, <1>8, <1>9, <1>10, <1>11
     DEF Next, RequestStep, RecoverStep

\* While the database answers, the registry is exactly the set of trips that have a
\* task, however the tasks end: the recovery never spares a trip that nobody plans.
THEOREM RegistryIsExact == Spec => []RegistryExact
<1>1. Init => Exclusion /\ Matched
  BY GenerationAssumption DEF Init, Exclusion, Registered, OneTask, Probed, ShellUntouched, Untouched,
     ShellFresh, Live, Recovering, Matched
<1>2. TypeOK /\ Exclusion /\ Matched => RegistryExact
  BY GenerationAssumption DEF TypeOK, WorldOK, JobsOK, Exclusion, Registered, Matched, RegistryExact
<1> QED
  BY <1>1, <1>2, MatchedStep, ExclusionStep, TypeCorrect, PTL DEF Spec

-----------------------------------------------------------------------------
(* The locks of days in the process's own table.  Only what Redis already      *)
(* holds gets there, and only in the hands of a planner that is at the day; so *)
(* a lock left behind by a crash never turns a planner away.                   *)

DayLocked(t, d) == DayLock(t, d) \in locals
LocalHeld ==
  \A t \in Trips, d \in Days :
    DayLocked(t, d) => \E s \in Slots : OnDay(s) /\ trip[s] = t /\ dno[s] = d

\* A step that takes no lock of a day, and moves no planner off its day.
LEMMA LocalQuiet ==
  ASSUME LocalHeld, \A t \in Trips, d \in Days : DayLocked(t, d)' => DayLocked(t, d),
         \A u \in Slots : OnDay(u) => OnDay(u)' /\ trip'[u] = trip[u] /\ dno'[u] = dno[u]
  PROVE  LocalHeld'
  BY DEF LocalHeld

\* A planner that is at no day finds no local lock on the days of its trip.
LEMMA LocalFree ==
  ASSUME TypeOK, Exclusion, LocalHeld, NEW s \in Slots, Live(s), ~OnDay(s)
  PROVE  \A d \in Days : ~DayLocked(trip[s], d)
  <1> SUFFICES ASSUME NEW d \in Days, DayLocked(trip[s], d) PROVE FALSE
    OBVIOUS
  <1>1. trip[s] \in Trips
    BY DEF TypeOK, JobsOK
  <1>2. PICK u \in Slots : OnDay(u) /\ trip[u] = trip[s]
    BY <1>1 DEF LocalHeld
  <1>3. u = s
    BY <1>2 DEF Exclusion, OneTask, Live, OnDay
  <1> QED
    BY <1>2, <1>3

\* A step of planner s that touches no lock of another trip, and after which a lock of
\* a day of its own is on the day it is at.
LEMMA LocalStep ==
  ASSUME LocalHeld, NEW s \in Slots,
         \A u \in Slots \ {s} : pc'[u] = pc[u] /\ trip'[u] = trip[u] /\ dno'[u] = dno[u],
         \A t \in Trips, d \in Days : t # trip[s] => (DayLocked(t, d)' => DayLocked(t, d)),
         \A t \in Trips, d \in Days : t = trip[s] /\ DayLocked(t, d)' =>
            OnDay(s)' /\ trip'[s] = trip[s] /\ dno'[s] = d
  PROVE  LocalHeld'
  <1> SUFFICES ASSUME NEW t \in Trips, NEW d \in Days, DayLocked(t, d)'
               PROVE  \E u \in Slots : OnDay(u)' /\ trip'[u] = t /\ dno'[u] = d
    BY DEF LocalHeld
  <1>1. CASE t = trip[s]
    BY <1>1
  <1>2. CASE t # trip[s]
    <2>1. PICK u \in Slots : OnDay(u) /\ trip[u] = t /\ dno[u] = d
      BY <1>2 DEF LocalHeld
    <2>2. u # s
      BY <1>2, <2>1
    <2> QED
      BY <2>1, <2>2 DEF OnDay
  <1> QED
    BY <1>1, <1>2

\* What the calls of the mark table do to the locks of days.
LEMMA LockMoves ==
  ASSUME NEW t \in Trips, NEW d \in Days
  PROVE  /\ TryMark(DayLock(t, d)) => \A u \in Trips, e \in Days :
               u # t \/ e # d => (DayLocked(u, e)' => DayLocked(u, e))
         /\ Unmark(DayLock(t, d)) => \A u \in Trips, e \in Days :
               DayLocked(u, e)' => DayLocked(u, e) /\ (u # t \/ e # d)
         /\ TryMark(ResumeLock(t)) \/ Unmark(ResumeLock(t)) => \A u \in Trips, e \in Days :
               DayLocked(u, e)' => DayLocked(u, e)
  BY GenerationAssumption DEF TryMark, Unmark, DayLock, ResumeLock, DayLocked, Days

\* Every step keeps it: a planner takes the lock when it comes to a day and gives it
\* back before it leaves the day.
LEMMA LocalHeldStep == TypeOK /\ Exclusion /\ LocalHeld /\ [Next]_vars => LocalHeld'
<1> SUFFICES ASSUME TypeOK, Exclusion, LocalHeld, [Next]_vars PROVE LocalHeld'
  OBVIOUS
<1>q. ASSUME UNCHANGED <<marks, jobs>> PROVE LocalHeld'
  BY <1>q, LocalQuiet DEF marks, jobs, DayLocked, OnDay
<1>n. ASSUME NEW t, NEW c, NEW f, SubmitPlanning(t, c, f),
             \A u \in Trips, d \in Days : DayLocked(u, d)' => DayLocked(u, d)
      PROVE  LocalHeld'
  <2>1. PICK s \in FreeSlots : /\ pc' = [pc EXCEPT ![s] = "queued"]
                               /\ trip' = [trip EXCEPT ![s] = t] /\ dno' = dno
    BY <1>n DEF SubmitPlanning
  <2>2. \A u \in Slots : OnDay(u) => OnDay(u)' /\ trip'[u] = trip[u] /\ dno'[u] = dno[u]
    BY <2>1 DEF FreeSlots, TypeOK, JobsOK, OnDay
  <2> QED
    BY <1>n, <2>2, LocalQuiet
<1>g. ASSUME NEW s \in Slots, Live(s), ~OnDay(s), UNCHANGED marks,
             \A u \in Slots \ {s} : pc'[u] = pc[u] /\ trip'[u] = trip[u] /\ dno'[u] = dno[u]
      PROVE  LocalHeld'
  BY <1>g, LocalQuiet DEF marks, DayLocked, OnDay
<1>o. ASSUME NEW s \in Slots, PlanStep(s)
      PROVE  \A u \in Slots \ {s} : pc'[u] = pc[u] /\ trip'[u] = trip[u] /\ dno'[u] = dno[u]
  BY <1>o DEF PlanStep, StartTask, ResolveRoute, RouteBroken, Begin, Research, SaveContext, StreamDay,
     StreamPersist, StreamEnd, Revalidate, LoopDay, GraphStart, GraphEnd, PersistDay, KeepDay,
     DayFailed, Finish, FinishTail, DbError, Fail, Exit, Goto, ClearSlot, SkipDay, TypeOK, JobsOK
<1>s. ASSUME NEW s \in Slots, Live(s) PROVE trip[s] \in Trips
  BY <1>s DEF TypeOK, JobsOK
<1>1. ASSUME NEW t \in Trips,
             CreateShell(t) \/ RejectRequest(t) \/ DeleteTrip(t) \/ AgeMain(t)
      PROVE  LocalHeld'
  BY <1>1, <1>q DEF CreateShell, RejectRequest, DeleteTrip, AgeMain
<1>2. ASSUME NEW t \in Trips, RequestPlanning(t) PROVE LocalHeld'
  BY <1>2, <1>n, <1>q DEF RequestPlanning, marks, DayLocked
<1>3. ASSUME NEW t \in Trips, NEW d \in Days, AgeDay(t, d) PROVE LocalHeld'
  BY <1>3, <1>q DEF AgeDay
<1>4. ASSUME NEW k \in Locks, Expire(k) PROVE LocalHeld'
  BY <1>4, LocalQuiet DEF Expire, jobs, DayLocked, OnDay
<1>5. ASSUME NEW s \in Slots,
             StartTask(s) \/ ResolveRoute(s) \/ RouteBroken(s) \/ Begin(s) \/ Research(s)
               \/ SaveContext(s) \/ StreamEnd(s) \/ Revalidate(s) \/ Finish(s) \/ FinishTail(s)
               \/ Fail(s) \/ Exit(s)
      PROVE  LocalHeld'
  <2>1. Live(s) /\ ~OnDay(s) /\ UNCHANGED marks
    BY <1>5 DEF StartTask, ResolveRoute, RouteBroken, Begin, Research, SaveContext, StreamEnd,
       Revalidate, Finish, FinishTail, Fail, Exit, Live, OnDay, marks
  <2> QED
    BY <1>5, <1>g, <1>o, <2>1 DEF PlanStep
<1>6. ASSUME NEW s \in Slots, StreamDay(s) PROVE LocalHeld'
  <2>1. Live(s) /\ ~OnDay(s)
    BY <1>6 DEF StreamDay, Live, OnDay
  <2>2. PICK d \in Days : TryMark(DayLock(trip[s], d)) /\ dno' = [dno EXCEPT ![s] = d]
    BY <1>6 DEF StreamDay
  <2>3. OnDay(s)' /\ trip'[s] = trip[s] /\ dno'[s] = d
    BY <1>6, <2>2 DEF StreamDay, Goto, TypeOK, JobsOK, OnDay
  <2> QED
    BY <1>6, <1>o, <1>s, <2>1, <2>2, <2>3, LockMoves, LocalFree, LocalStep DEF PlanStep
<1>7. ASSUME NEW s \in Slots, \/ StreamPersist(s) \/ DayFailed(s) \/ KeepDay(s)
                              \/ DbError(s) /\ pc'[s] = "fail" /\ pc[s] = "persisted"
      PROVE  LocalHeld'
  <2>1. Live(s) /\ OnDay(s) /\ trip[s] \in Trips /\ dno[s] \in Days
    BY <1>7, <1>s DEF StreamPersist, DayFailed, KeepDay, Live, OnDay, TypeOK, JobsOK
  <2>2. Unmark(DayLock(trip[s], dno[s]))
    BY <1>7 DEF StreamPersist, DayFailed, KeepDay, DbError, Goto, TypeOK, JobsOK
  <2>3. \A d \in Days : DayLocked(trip[s], d) => d = dno[s]
    BY <2>1 DEF LocalHeld, Exclusion, OneTask, Live, OnDay
  <2> QED
    BY <1>7, <1>o, <2>1, <2>2, <2>3, LockMoves, LocalStep DEF PlanStep
<1>8. ASSUME NEW s \in Slots, LoopDay(s) PROVE LocalHeld'
  <2>1. Live(s) /\ ~OnDay(s) /\ trip[s] \in Trips /\ dno[s] \in Days
    BY <1>8, <1>s DEF LoopDay, Live, OnDay
  <2>2. CASE UNCHANGED marks
    BY <1>8, <1>g, <1>o, <2>1, <2>2 DEF PlanStep
  <2>3. CASE Unmark(DayLock(trip[s], dno[s]))
    BY <1>8, <1>o, <2>1, <2>3, LockMoves, LocalFree, LocalStep DEF PlanStep
  <2>4. CASE TryMark(DayLock(trip[s], dno[s])) /\ Goto(s, "generate") /\ UNCHANGED <<trip, dno>>
    <3>1. OnDay(s)'
      BY <2>4 DEF Goto, TypeOK, JobsOK, OnDay
    <3> QED
      BY <1>8, <1>o, <2>1, <2>4, <3>1, LockMoves, LocalFree, LocalStep DEF PlanStep
  <2> QED
    BY <1>8, <2>2, <2>3, <2>4 DEF LoopDay
<1>9. ASSUME NEW s \in Slots, \/ GraphStart(s) \/ GraphEnd(s) \/ PersistDay(s)
                              \/ DbError(s) /\ (pc'[s] # "fail" \/ pc[s] # "persisted")
      PROVE  LocalHeld'
  <2>1. \A u \in Slots : OnDay(u) => OnDay(u)' /\ trip'[u] = trip[u] /\ dno'[u] = dno[u]
    BY <1>9 DEF GraphStart, GraphEnd, PersistDay, DbError, Goto, OnDay, TypeOK, JobsOK
  <2>2. UNCHANGED marks
    BY <1>9 DEF GraphStart, GraphEnd, PersistDay, DbError, Goto, TypeOK, JobsOK
  <2> QED
    BY <2>1, <2>2, LocalQuiet DEF marks, DayLocked
<1>11. CASE Decide
  <2>1. rtrip \in Trips
    BY <1>11 DEF Decide, TypeOK, RecoveryOK, Recovering
  <2> QED
    BY <1>11, <2>1, LockMoves, LocalQuiet DEF Decide, jobs, OnDay, marks, DayLocked
<1>12. CASE ResumeBroken \/ ResumeComplete
  <2>1. rtrip \in Trips
    BY <1>12 DEF ResumeBroken, ResumeComplete, TypeOK, RecoveryOK, Recovering
  <2> QED
    BY <1>12, <2>1, LockMoves, LocalQuiet DEF ResumeBroken, ResumeComplete, jobs, OnDay
<1>13. CASE ResumeSubmit
  <2>1. rtrip \in Trips
    BY <1>13 DEF ResumeSubmit, TypeOK, RecoveryOK, Recovering
  <2>2. CASE SubmitPlanning(rtrip, rctx, RebuiltFp(rtrip)) /\ UNCHANGED marks
    BY <1>n, <2>2 DEF marks, DayLocked
  <2>3. CASE Unmark(ResumeLock(rtrip)) /\ UNCHANGED jobs
    BY <2>1, <2>3, LockMoves, LocalQuiet DEF jobs, OnDay
  <2> QED
    BY <1>13, <2>2, <2>3 DEF ResumeSubmit
<1>14. CASE Scan \/ ScanEnd \/ Probe \/ ResumeRoute
  BY <1>14, <1>q DEF Scan, ScanEnd, Probe, ResumeRoute
<1>15. ASSUME NEW d \in Days,
              ResumeGraph(d) \/ ResumeRaises(d) \/ ResumeNothing(d) \/ ResumePersist(d)
       PROVE  LocalHeld'
  BY <1>15, <1>q DEF ResumeGraph, ResumeRaises, ResumeNothing, ResumePersist
<1>16. CASE Crash
  BY <1>16 DEF Crash, LocalHeld, DayLocked
<1>17. CASE UNCHANGED vars
  BY <1>17, <1>q DEF vars
<1> QED
  BY <1>1, <1>2, <1>3, <1>4, <1>5, <1>6, <1>7, <1>8, <1>9, <1>11, <1>12, <1>13, <1>14,
     <1>15, <1>16, <1>17 DEF Next, RequestStep, PlanStep, RecoverStep

-----------------------------------------------------------------------------
(* COMPLETED.  For plans without hard blockers (the recovery completes a trip  *)
(* without looking at what persist made of a plan that has them).  A planner   *)
(* that may still take a delivered day back has its trip out of COMPLETED, and *)
(* a recovery that has met no day without a plan has delivered all it has done.*)

Full(t) == \A d \in Days : day[t][d] = "SUCCEEDED"
Streaming(s) == pc[s] \in {"research", "save", "stream", "streamPersist", "revalidate", "loop",
  "generate", "graph", "persist", "persisted", "dayFailed"}
FullWhenCompleted == \A t \in Trips : gen[t] = "COMPLETED" => Full(t)
StreamOpen == \A s \in Slots : Streaming(s) => gen[trip[s]] # "COMPLETED"
Covered ==
  rpc \in {"route", "resume"} /\ ~remaining => \A d \in Days \ todo : day[rtrip][d] = "SUCCEEDED"
CkptPlans == \A t \in Trips, d \in Days : ckpt[t][d] # "sparse"
Completion == FullWhenCompleted /\ StreamOpen /\ Covered /\ CkptPlans

\* Who may declare a trip complete: a planner at the end of its loop, or the recovery,
\* and only over days that are all delivered.
Completes(t) ==
  /\ gen'[t] = "COMPLETED" /\ gen[t] # "COMPLETED"
  /\ UNCHANGED day
  /\ Full(t)
  /\ \/ \E s \in Slots : pc[s] = "loop" /\ pc'[s] = "tail" /\ trip[s] = t
     \/ Recovering /\ rtrip = t

\* SetMain writes the one row it names.
LEMMA SetMainOnly ==
  ASSUME TypeOK, NEW t \in Trips, NEW g, NEW st, SetMain(t, g, st)
  PROVE  /\ \A u \in Trips : u # t => gen'[u] = gen[u]
         /\ gen'[t] \in {gen[t], g}
         /\ gen[t] # "deleted" => gen'[t] = g
  BY DEF TypeOK, RowsOK, SetMain

\* Nobody else does, and a planner that goes to work has put its trip in GENERATING.
LEMMA CompletionMoves ==
  ASSUME TypeOK, Covered, [Next]_vars
  PROVE  /\ \A t \in Trips : gen'[t] = "COMPLETED" => gen[t] = "COMPLETED" \/ Completes(t)
         /\ \A s \in Slots : Streaming(s)' =>
              /\ trip'[s] = trip[s]
              /\ Streaming(s) \/ gen'[trip[s]] # "COMPLETED"
<1> DEFINE Gens == \A t \in Trips : gen'[t] = "COMPLETED" => gen[t] = "COMPLETED" \/ Completes(t)
           Moves == \A s \in Slots : Streaming(s)' =>
                      trip'[s] = trip[s] /\ (Streaming(s) \/ gen'[trip[s]] # "COMPLETED")
<1> SUFFICES Gens /\ Moves
  OBVIOUS
<1>s. ASSUME NEW s \in Slots, Live(s) PROVE trip[s] \in Trips
  BY <1>s DEF TypeOK, JobsOK
<1>r. ASSUME Recovering PROVE rtrip \in Trips
  BY <1>r DEF TypeOK, RecoveryOK
<1>g. ASSUME UNCHANGED gen PROVE Gens
  BY <1>g
<1>f. ASSUME NEW t \in Trips, FailTrip(t) PROVE Gens
  BY <1>f, SetMainOnly DEF FailTrip
<1>j. ASSUME \A s \in Slots : Streaming(s)' => Streaming(s) /\ trip'[s] = trip[s] PROVE Moves
  BY <1>j
<1>n. ASSUME NEW t, NEW c, NEW f, SubmitPlanning(t, c, f) PROVE Moves
  <2>1. PICK s \in FreeSlots : pc' = [pc EXCEPT ![s] = "queued"] /\ trip' = [trip EXCEPT ![s] = t]
    BY <1>n DEF SubmitPlanning
  <2> QED
    BY <2>1, <1>j DEF Streaming, FreeSlots, TypeOK, JobsOK
<1>1. ASSUME NEW t \in Trips, CreateShell(t) \/ DeleteTrip(t) \/ AgeMain(t) PROVE Gens /\ Moves
  BY <1>1, <1>j DEF CreateShell, DeleteTrip, AgeMain, jobs, Streaming, TypeOK, RowsOK
<1>2. ASSUME NEW t \in Trips, RejectRequest(t) PROVE Gens /\ Moves
  BY <1>2, <1>f, <1>j DEF RejectRequest, jobs, Streaming
<1>3. ASSUME NEW t \in Trips, RequestPlanning(t) PROVE Gens /\ Moves
  BY <1>3, <1>g, <1>n, <1>j DEF RequestPlanning, rows, jobs, Streaming
<1>4. ASSUME NEW t \in Trips, NEW d \in Days, AgeDay(t, d) PROVE Gens /\ Moves
  BY <1>4, <1>g, <1>j DEF AgeDay, rows, jobs, Streaming
<1>5. ASSUME NEW k \in Locks, Expire(k) PROVE Gens /\ Moves
  BY <1>5, <1>g, <1>j DEF Expire, rows, jobs, Streaming
<1>6. ASSUME NEW s \in Slots,
             StartTask(s) \/ ResolveRoute(s) \/ StreamEnd(s) \/ Research(s) \/ FinishTail(s)
               \/ DbError(s) \/ GraphStart(s) \/ GraphEnd(s) \/ Exit(s)
      PROVE  Gens /\ Moves
  <2>1. Gens
    BY <1>6, <1>g DEF StartTask, ResolveRoute, StreamEnd, Research, FinishTail, DbError, GraphStart,
       GraphEnd, Exit, rows
  <2>2. Moves
    BY <1>6, <1>j DEF StartTask, ResolveRoute, StreamEnd, Research, FinishTail, DbError, GraphStart,
       GraphEnd, Exit, ClearSlot, Goto, Streaming, TypeOK, JobsOK
  <2> QED
    BY <2>1, <2>2
<1>7. ASSUME NEW s \in Slots,
             StreamDay(s) \/ StreamPersist(s) \/ Revalidate(s) \/ LoopDay(s) \/ PersistDay(s)
               \/ DayFailed(s)
      PROVE  Gens /\ Moves
  <2>1. Gens
    BY <1>7, <1>g DEF StreamDay, StreamPersist, Revalidate, LoopDay, PersistDay, DayFailed, rows
  <2>2. Moves
    BY <1>7, <1>j DEF StreamDay, StreamPersist, Revalidate, LoopDay, PersistDay, DayFailed, Goto,
       SkipDay, Streaming, TypeOK, JobsOK
  <2> QED
    BY <2>1, <2>2
<1>8. ASSUME NEW s \in Slots, RouteBroken(s) \/ Fail(s) PROVE Gens /\ Moves
  <2>1. Live(s)
    BY <1>8 DEF RouteBroken, Fail, Live
  <2>2. Gens
    BY <1>8, <1>s, <1>f, <1>g, <2>1 DEF RouteBroken, Fail, rows
  <2>3. Moves
    BY <1>8, <1>j DEF RouteBroken, Fail, ClearSlot, Goto, Streaming, TypeOK, JobsOK
  <2> QED
    BY <2>2, <2>3
<1>9. ASSUME NEW s \in Slots, Begin(s) PROVE Gens /\ Moves
  <2>1. Live(s) /\ trip[s] \in Trips
    BY <1>9, <1>s DEF Begin, Live
  <2>2. CASE gen[trip[s]] = "deleted"
    BY <1>9, <2>2, <1>g, <1>j DEF Begin, rows, Goto, Streaming, TypeOK, JobsOK
  <2>3. CASE SetMain(trip[s], "GENERATING", status[trip[s]]) /\ gen[trip[s]] # "deleted"
    <3>1. Gens /\ gen'[trip[s]] # "COMPLETED"
      BY <2>1, <2>3, SetMainOnly
    <3>2. Moves
      BY <1>9, <3>1 DEF Begin, Goto, Streaming, TypeOK, JobsOK
    <3> QED
      BY <3>1, <3>2
  <2> QED
    BY <1>9, <2>2, <2>3 DEF Begin
<1>10. ASSUME NEW s \in Slots, SaveContext(s) PROVE Gens /\ Moves
  <2>1. trip[s] \in Trips
    BY <1>10, <1>s DEF SaveContext, Live
  <2>2. Gens
    BY <1>10, <2>1, SetMainOnly DEF SaveContext
  <2>3. Moves
    BY <1>10, <1>j DEF SaveContext, Goto, Streaming, TypeOK, JobsOK
  <2> QED
    BY <2>2, <2>3
<1>20. ASSUME NEW s \in Slots, KeepDay(s) PROVE Gens /\ Moves
  <2>1. trip[s] \in Trips
    BY <1>20, <1>s DEF KeepDay, Live
  <2>2. Gens
    BY <1>20, <1>g, <2>1, SetMainOnly DEF KeepDay
  <2>3. Moves
    BY <1>20, <1>j DEF KeepDay, Goto, Streaming, TypeOK, JobsOK
  <2> QED
    BY <2>2, <2>3
<1>11. ASSUME NEW s \in Slots, Finish(s) PROVE Gens /\ Moves
  <2>1. trip[s] \in Trips
    BY <1>11, <1>s DEF Finish, Live
  <2>2. Moves
    BY <1>11, <1>j DEF Finish, Goto, Streaming, TypeOK, JobsOK
  <2>3. CASE UNCHANGED rows
    BY <2>2, <2>3, <1>g DEF rows
  <2>4. CASE /\ gen[trip[s]] # "deleted"
             /\ SetMain(trip[s], IF Unfinished(trip[s]) = {} THEN "COMPLETED" ELSE "PARTIAL", 2)
    <3>1. \A t \in Trips : t # trip[s] => gen'[t] = gen[t]
      BY <2>1, <2>4, SetMainOnly
    <3>2. gen'[trip[s]] = "COMPLETED" => gen[trip[s]] = "COMPLETED" \/ Full(trip[s])
      BY <2>1, <2>4, SetMainOnly DEF Unfinished, Full
    <3>3. pc[s] = "loop" /\ pc'[s] = "tail" /\ UNCHANGED day
      BY <1>11, <2>1, <2>4 DEF Finish, SetMain, Goto, days, rows, TypeOK, JobsOK
    <3> QED
      BY <2>2, <3>1, <3>2, <3>3 DEF Completes
  <2> QED
    BY <1>11, <2>3, <2>4 DEF Finish
<1>12. CASE Scan \/ ScanEnd \/ Probe \/ ResumeRoute
  BY <1>12, <1>g, <1>j DEF Scan, ScanEnd, Probe, ResumeRoute, rows, jobs, Streaming
<1>13. ASSUME NEW d \in Days,
              ResumeGraph(d) \/ ResumeRaises(d) \/ ResumeNothing(d) \/ ResumePersist(d)
       PROVE  Gens /\ Moves
  BY <1>13, <1>g, <1>j DEF ResumeGraph, ResumeRaises, ResumeNothing, ResumePersist, rows, jobs, Streaming
<1>14. CASE Decide
  <2>1. rtrip \in Trips /\ Recovering
    BY <1>14, <1>r DEF Decide, Recovering
  <2>2. Moves
    BY <1>14, <1>j DEF Decide, jobs, Streaming
  <2>3. UNCHANGED day
    BY <1>14 DEF Decide, days
  <2>4. \/ SetMain(rtrip, "COMPLETED", 2) /\ Pending(rtrip) = {}
        \/ UNCHANGED gen
        \/ SetMain(rtrip, "GENERATING", 1)
    BY <1>14 DEF Decide, rows
  <2>5. Pending(rtrip) = {} => Full(rtrip)
    BY DEF Pending, DayDone, Full
  <2> QED
    BY <2>1, <2>2, <2>3, <2>4, <2>5, SetMainOnly DEF Completes
<1>15. CASE ResumeBroken
  BY <1>15, <1>r, <1>f, <1>j DEF ResumeBroken, Recovering, jobs, Streaming
<1>16. CASE ResumeComplete
  <2>1. rtrip \in Trips /\ Recovering /\ Full(rtrip)
    BY <1>16, <1>r DEF ResumeComplete, Recovering, Covered, Full
  <2>2. UNCHANGED day /\ Moves
    BY <1>16, <1>j DEF ResumeComplete, days, jobs, Streaming
  <2> QED
    BY <1>16, <2>1, <2>2, SetMainOnly DEF ResumeComplete, Completes
<1>17. CASE ResumeSubmit
  BY <1>17, <1>g, <1>n, <1>j DEF ResumeSubmit, rows, jobs, Streaming
<1>18. CASE Crash
  BY <1>18, <1>g, <1>j DEF Crash, rows, Streaming
<1>19. CASE UNCHANGED vars
  BY <1>19, <1>g, <1>j DEF vars, rows, jobs, Streaming
<1> QED
  BY <1>1, <1>2, <1>3, <1>4, <1>5, <1>6, <1>7, <1>8, <1>9, <1>10, <1>11, <1>12, <1>13, <1>14,
     <1>15, <1>16, <1>17, <1>18, <1>19, <1>20 DEF Next, RequestStep, PlanStep, RecoverStep

\* Without plans that have hard blockers no checkpoint holds one.
LEMMA CkptStep ==
  ASSUME TypeOK, "sparse" \notin PlanKinds, CkptPlans, [Next]_vars
  PROVE  CkptPlans'
<1>w. ASSUME NEW t \in Trips, NEW d \in Days, NEW k, k # "sparse",
             ckpt' = [ckpt EXCEPT ![t][d] = k]
      PROVE  CkptPlans'
  BY <1>w DEF CkptPlans, TypeOK, WorldOK
<1>q. ASSUME UNCHANGED ckpt PROVE CkptPlans'
  BY <1>q DEF CkptPlans
<1>1. ASSUME NEW s \in Slots, GraphStart(s) \/ GraphEnd(s) PROVE CkptPlans'
  <2>1. trip[s] \in Trips /\ dno[s] \in Days
    BY <1>1 DEF GraphStart, GraphEnd, TypeOK, JobsOK, Live, OnDay
  <2>2. UNCHANGED ckpt \/ \E k \in PlanKinds \cup {"open"} : ckpt' = [ckpt EXCEPT ![trip[s]][dno[s]] = k]
    BY <1>1 DEF GraphStart, GraphEnd
  <2> QED
    BY <1>w, <1>q, <2>1, <2>2
<1>2. ASSUME NEW d \in Days, ResumeGraph(d) PROVE CkptPlans'
  <2>1. rtrip \in Trips
    BY <1>2 DEF ResumeGraph, TypeOK, RecoveryOK, Recovering
  <2> QED
    BY <1>2, <1>w, <2>1 DEF ResumeGraph
<1>3. CASE UNCHANGED ckpt
  BY <1>3, <1>q
<1>4. ASSUME NEW s \in Slots, PlanStep(s), ~GraphStart(s), ~GraphEnd(s) PROVE UNCHANGED ckpt
  BY <1>4 DEF PlanStep, StartTask, ResolveRoute, RouteBroken, Begin, Research, SaveContext, StreamDay,
     StreamPersist, StreamEnd, Revalidate, LoopDay, PersistDay, KeepDay, DayFailed, Finish,
     FinishTail, DbError, Fail, Exit
<1>5. RecoverStep => UNCHANGED ckpt \/ \E d \in Days : ResumeGraph(d)
  BY DEF RecoverStep, Scan, ScanEnd, Probe, Decide, ResumeRoute, ResumeBroken, ResumeComplete,
     ResumeSubmit, ResumeRaises, ResumeNothing, ResumePersist
<1>6. \/ \E s \in Slots : PlanStep(s)
      \/ RecoverStep
      \/ UNCHANGED ckpt
  BY DEF Next, RequestStep, CreateShell, RequestPlanning, RejectRequest, DeleteTrip, AgeMain, AgeDay,
     Expire, Crash, vars
<1> QED
  BY <1>1, <1>2, <1>3, <1>4, <1>5, <1>6

\* What the recovery has done with stays delivered: nobody else has its trip.
LEMMA CoveredStep ==
  ASSUME TypeOK, Exclusion, Kept, Covered, CkptPlans, [Next]_vars
  PROVE  Covered'
<1>k. ASSUME Recovering, NEW d \in Days, day[rtrip][d] = "SUCCEEDED"
      PROVE  day'[rtrip][d] = "SUCCEEDED"
  <2>1. rtrip \in Trips /\ ~InStream(rtrip) /\ ~ThemeFails(rtrip, d)
    BY <1>k DEF TypeOK, RecoveryOK, JobsOK, Live, Exclusion, Registered, Probed, InStream, ThemeFails
  <2> QED
    BY <1>k, <2>1 DEF Kept
<1>q. ASSUME UNCHANGED <<rpc, rtrip, todo, remaining>> PROVE Covered'
  BY <1>k, <1>q DEF Covered, Recovering
<1>i. ASSUME rpc' \notin {"route", "resume"} PROVE Covered'
  BY <1>i DEF Covered
<1>1. ASSUME NEW s \in Slots, PlanStep(s) PROVE Covered'
  BY <1>1, <1>q DEF PlanStep, StartTask, ResolveRoute, RouteBroken, Begin, Research, SaveContext,
     StreamDay, StreamPersist, StreamEnd, Revalidate, LoopDay, GraphStart, GraphEnd, PersistDay, KeepDay,
     DayFailed, Finish, FinishTail, DbError, Fail, Exit, rec
<1>2. CASE Scan \/ ScanEnd \/ Probe \/ ResumeBroken \/ ResumeComplete \/ ResumeSubmit \/ Crash
  BY <1>2, <1>i, <1>q DEF Scan, ScanEnd, Probe, ResumeBroken, ResumeComplete, ResumeSubmit, Crash, NextTarget
<1>3. CASE Decide
  <2>1. CASE NextTarget
    BY <2>1, <1>i DEF NextTarget
  <2>2. CASE rpc' = "route" /\ todo' = Pending(rtrip) /\ UNCHANGED <<rtrip, remaining>>
    BY <1>3, <2>2 DEF Decide, Covered, Pending, DayDone, days
  <2> QED
    BY <1>3, <2>1, <2>2 DEF Decide
<1>4. CASE ResumeRoute
  BY <1>4 DEF ResumeRoute, Covered, days
<1>5. ASSUME NEW d \in Days, ResumeGraph(d) \/ ResumeRaises(d) \/ ResumeNothing(d) PROVE Covered'
  BY <1>5, <1>i, <1>q DEF ResumeGraph, ResumeRaises, ResumeNothing, NextTarget, rec, Covered
<1>6. ASSUME NEW d \in Days, ResumePersist(d) PROVE Covered'
  <2>1. rtrip \in Trips /\ Recovering
    BY <1>6 DEF ResumePersist, TypeOK, RecoveryOK, Recovering
  <2>2. CASE rpc' = "broken"
    BY <2>2, <1>i
  <2>3. CASE /\ Persist(rtrip, d, "plan", RebuiltFp(rtrip), FALSE)
             /\ todo' = todo \ {d} /\ UNCHANGED <<rpc, rtrip, remaining>>
    <3>1. day'[rtrip][d] = "SUCCEEDED"
      BY <2>1, <2>3, SetDayOnly DEF Persist, Redo, Delivered, days
    <3> QED
      BY <1>6, <1>k, <2>1, <2>3, <3>1 DEF ResumePersist, Covered
  <2> QED
    BY <1>6, <2>1, <2>2, <2>3 DEF ResumePersist, CkptPlans
<1>7. CASE UNCHANGED rec
  BY <1>7, <1>q DEF rec
<1>8. \/ \E s \in Slots : PlanStep(s)
      \/ RecoverStep \/ Crash
      \/ UNCHANGED rec
  BY DEF Next, RequestStep, CreateShell, RequestPlanning, RejectRequest, DeleteTrip, AgeMain, AgeDay,
     Expire, vars
<1> QED
  BY <1>1, <1>2, <1>3, <1>4, <1>5, <1>6, <1>7, <1>8 DEF RecoverStep

\* Every step keeps it: a delivered day is taken back in a stream only, whose trip is
\* not COMPLETED and in nobody else's hands.
LEMMA CompletionStep ==
  ASSUME "sparse" \notin PlanKinds
  PROVE  TypeOK /\ Exclusion /\ DayHeld /\ Completion /\ [Next]_vars => Completion'
<1> SUFFICES ASSUME TypeOK, Exclusion, DayHeld, Completion, [Next]_vars PROVE Completion'
  OBVIOUS
<1> USE DEF Completion
<1>1. Kept
  BY HeldKept
<1>2. CkptPlans' /\ Covered'
  BY <1>1, CkptStep, CoveredStep
<1>3. FullWhenCompleted'
  <2> SUFFICES ASSUME NEW t \in Trips, gen'[t] = "COMPLETED" PROVE \A d \in Days : day'[t][d] = "SUCCEEDED"
    BY DEF FullWhenCompleted, Full
  <2>1. CASE gen[t] = "COMPLETED"
    <3>1. ~InStream(t) /\ \A d \in Days : ~ThemeFails(t, d)
      BY <2>1 DEF InStream, ThemeFails, StreamOpen, Streaming
    <3> QED
      BY <1>1, <2>1, <3>1 DEF FullWhenCompleted, Full, Kept
  <2>2. CASE Completes(t)
    BY <2>2 DEF Completes, Full
  <2> QED
    BY <2>1, <2>2, CompletionMoves
<1>4. StreamOpen'
  <2> SUFFICES ASSUME NEW s \in Slots, Streaming(s)', gen'[trip'[s]] = "COMPLETED" PROVE FALSE
    BY DEF StreamOpen
  <2>1. trip'[s] = trip[s] /\ Streaming(s)
    BY CompletionMoves
  <2>2. Live(s) /\ pc'[s] # "tail" /\ trip[s] \in Trips /\ gen[trip[s]] # "COMPLETED"
    BY <2>1 DEF StreamOpen, Streaming, Live, TypeOK, JobsOK
  <2>3. Completes(trip[s])
    BY <2>1, <2>2, CompletionMoves
  <2>4. CASE \E u \in Slots : pc[u] = "loop" /\ pc'[u] = "tail" /\ trip[u] = trip[s]
    BY <2>2, <2>4 DEF Exclusion, OneTask, Live
  <2>5. CASE Recovering /\ rtrip = trip[s]
    BY <2>2, <2>5 DEF Exclusion, Registered, Probed
  <2> QED
    BY <2>3, <2>4, <2>5 DEF Completes
<1> QED
  BY <1>2, <1>3, <1>4

DaysUnlocked == \A s \in Slots : pc[s] = "loop" /\ dno[s] \in Days => ~Busy(DayLock(trip[s], dno[s]))

\* The loop of a planner never finds a day locked, whatever locks crashed processes left
\* in Redis, for plans of every kind: no day is skipped in silence.
THEOREM LocksNeverBlock == Spec => []DaysUnlocked
<1>1. Init => Exclusion /\ LocalHeld
  BY GenerationAssumption DEF Init, Exclusion, Registered, OneTask, Probed, ShellUntouched, Untouched,
     ShellFresh, Live, Recovering, LocalHeld, DayLocked
<1>2. TypeOK /\ Exclusion /\ LocalHeld => DaysUnlocked
  BY LocalFree DEF DaysUnlocked, Live, OnDay, Busy, DayLocked
<1> QED
  BY <1>1, <1>2, LocalHeldStep, ExclusionStep, TypeCorrect, PTL DEF Spec

\* COMPLETED is true: where plans come without hard blockers, every day of a trip that is
\* declared complete is delivered, and stays so, whether a planner or the recovery said it.
THEOREM CompletedIsFull ==
  ASSUME "sparse" \notin PlanKinds
  PROVE  Spec => []DeliveredInFull
<1>1. Init => Exclusion /\ DayHeld /\ Completion
  BY GenerationAssumption DEF Init, Exclusion, Registered, OneTask, Probed, ShellUntouched, Untouched,
     ShellFresh, Live, Recovering, DayHeld, Holds, Completion, FullWhenCompleted, StreamOpen,
     Streaming, Covered, CkptPlans
<1>2. Completion /\ DaysUnlocked => DeliveredInFull
  BY DEF Completion, FullWhenCompleted, Full, Unfinished, DaysUnlocked, DeliveredInFull
<1> QED
  BY <1>1, <1>2, CompletionStep, HeldKept, ExclusionStep, TypeCorrect, LocksNeverBlock, PTL DEF Spec
=============================================================================
