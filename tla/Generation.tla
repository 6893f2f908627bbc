----------------------------- MODULE Generation -----------------------------
(***************************************************************************)
(* The life of a generated trip: the request that creates the shell and    *)
(* queues a planner, the planner in the bounded pool (research, whole-trip *)
(* stream, final validation, per-day loop, terminal state), the recovery   *)
(* scan that relaunches zombies and failed trips, and the crash of the     *)
(* process.  What lives in MySQL, in Redis and in the checkpoint file      *)
(* survives a crash; the registry, the pool, the local mark table and the  *)
(* threads do not.                                                         *)
(***************************************************************************)
EXTENDS Naturals, FiniteSets

CONSTANTS
  Trips,        \* itinerary ids; each is created by one generate() request
  NoTrip,       \* the value of an unused trip field
  NDays,        \* days of every trip
  Slots,        \* tokens of generation_pool: queued plus running tasks
  Workers,      \* its worker threads
  PlanKinds,    \* how a day's graph may end, see Plan
  Drifts,       \* may the command rebuilt from the row differ from the original?
  DbFaults,     \* may a terminal write raise?
  MaxFaults     \* bound on crashes plus failed terminal writes

Plan == {"plan", "sparse", "noplan"}  \* deliverable, with hard blockers, none

ASSUME GenerationAssumption ==
  /\ NoTrip \notin Trips
  /\ NDays \in Nat \ {0}
  /\ Workers \in Nat \ {0}
  /\ PlanKinds \subseteq Plan
  /\ Drifts \subseteq BOOLEAN
  /\ DbFaults \in BOOLEAN
  /\ MaxFaults \in Nat

Days == 1 .. NDays

VARIABLES
  req,        \* the generate() request of each trip
  gen,        \* itinerary_main.gen_state; "none" before the shell, "deleted" after a delete
  status,     \* itinerary_main.status: 1 draft, 2 generated, 3 failed
  resumed,    \* itinerary_main.gen_resumed
  fresh,      \* trips whose main row was updated after the recovery cutoff
  day,        \* itinerary_day.generation_status
  dayFp,      \* itinerary_day.generation_fingerprint
  dayFresh,   \* RUNNING days whose row was updated after the cutoff
  drift,      \* does rebuild_request change the fingerprint of this trip?
  ckpt,       \* checkpoint of thread day-<trip>-<day>: "open" is an unfinished run
  shared,     \* marks held in Redis: <<trip, day>>, and <<trip, 0>> for gen:resume
  locals,     \* marks held in the process's own table
  active,     \* _ACTIVE_PLANNING
  pc, trip, dno, ctx, fp,   \* the task behind each slot of generation_pool
  rpc, targets, rtrip, rfail, todo, remaining, rctx,  \* the recovery thread
  faults

rows  == <<gen, status, resumed, fresh>>
days  == <<day, dayFp, dayFresh>>
marks == <<shared, locals>>
jobs  == <<pc, trip, dno, ctx, fp>>
rec   == <<rpc, targets, rtrip, rfail, todo, remaining, rctx>>
vars  == <<req, drift, rows, days, ckpt, marks, active, jobs, rec, faults>>

-----------------------------------------------------------------------------
(* Rows, marks and the pool. *)

Locks == Trips \X (0 .. NDays)
DayLock(t, d) == <<t, d>>
ResumeLock(t) == <<t, 0>>

\* An UPDATE of the main row: it refreshes updated_at and does not revive a
\* deleted trip.
SetMain(t, g, st) ==
  IF gen[t] = "deleted"
  THEN UNCHANGED <<gen, status, fresh>>
  ELSE /\ gen' = [gen EXCEPT ![t] = g]
       /\ status' = [status EXCEPT ![t] = st]
       /\ fresh' = fresh \cup {t}

FailTrip(t) == SetMain(t, "FAILED", 3) /\ UNCHANGED resumed

SetDay(t, d, st, f) ==
  /\ day' = [day EXCEPT ![t][d] = st]
  /\ dayFp' = [dayFp EXCEPT ![t][d] = f]
  /\ dayFresh' = [dayFresh EXCEPT ![t] = IF st = "RUNNING" THEN @ \cup {d} ELSE @ \ {d}]

\* persist: a plan with hard blockers is stored but keeps the day PENDING.
Delivered(kind) == IF kind = "plan" THEN "SUCCEEDED" ELSE "PENDING"

\* verify_action: a day row stays with the parameters that first claimed it.
VerifyAction(t, d, f) == dayFp[t][d] \in {"none", f}
Accepts(t, d, f) == gen[t] # "deleted" /\ VerifyAction(t, d, f)

\* persist, once the row accepts the caller: a delivered day is only rewritten
\* by a patch of the stream.
\* Variant: delivered days too.
RedoAlways(t, d) == TRUE
Redo(t, d) == day[t][d] # "SUCCEEDED"
Persist(t, d, kind, f, overwrite) ==
  IF Redo(t, d) \/ overwrite THEN SetDay(t, d, Delivered(kind), f) ELSE UNCHANGED days

Unfinished(t) == {d \in Days : day[t][d] # "SUCCEEDED"}
AllFailed(t)  == \A d \in Days : day[t][d] = "FAILED"
\* _day_done, the recovery's own test.
DayDone(t, d) == day[t][d] = "SUCCEEDED"
Pending(t) == {d \in Days : ~DayDone(t, d)}

\* try_mark while Redis answers.  For a key that Redis holds the client returns
\* None, which the code takes for "no answer": it then asks the local table.
\* Variant: what its docstring promises.
BusyInRedis(k) == k \in shared
Busy(k) == k \in shared /\ k \in locals
TryMark(k) ==
  IF k \notin shared
  THEN shared' = shared \cup {k} /\ UNCHANGED locals
  ELSE locals' = locals \cup {k} /\ UNCHANGED shared
Unmark(k) == shared' = shared \ {k} /\ locals' = locals \ {k}

FreeSlots   == {s \in Slots : pc[s] = "free"}
Running     == {s \in Slots : pc[s] \notin {"free", "queued"}}
Goto(s, l)  == pc' = [pc EXCEPT ![s] = l]
ClearSlot(s) ==
  /\ pc' = [pc EXCEPT ![s] = "free"]
  /\ trip' = [trip EXCEPT ![s] = NoTrip]
  /\ dno' = [dno EXCEPT ![s] = 0]
  /\ ctx' = [ctx EXCEPT ![s] = FALSE]
  /\ fp' = [fp EXCEPT ![s] = "orig"]

\* submit_planning: register, then take a slot; a full pool leaves no trace.
SubmitPlanning(t, c, f) ==
  \E s \in FreeSlots :
    /\ active' = active \cup {t}
    /\ pc' = [pc EXCEPT ![s] = "queued"]
    /\ trip' = [trip EXCEPT ![s] = t]
    /\ ctx' = [ctx EXCEPT ![s] = c]
    /\ fp' = [fp EXCEPT ![s] = f]
    /\ UNCHANGED dno

-----------------------------------------------------------------------------
Init ==
  /\ req = [t \in Trips |-> "idle"]
  /\ gen = [t \in Trips |-> "none"]
  /\ status = [t \in Trips |-> 1]
  /\ resumed = [t \in Trips |-> FALSE]
  /\ fresh = {}
  /\ day = [t \in Trips |-> [d \in Days |-> "PENDING"]]
  /\ dayFp = [t \in Trips |-> [d \in Days |-> "none"]]
  /\ dayFresh = [t \in Trips |-> {}]
  /\ drift \in [Trips -> Drifts]
  /\ ckpt = [t \in Trips |-> [d \in Days |-> "none"]]
  /\ shared = {} /\ locals = {}
  /\ active = {}
  /\ pc = [s \in Slots |-> "free"]
  /\ trip = [s \in Slots |-> NoTrip]
  /\ dno = [s \in Slots |-> 0]
  /\ ctx = [s \in Slots |-> FALSE]
  /\ fp = [s \in Slots |-> "orig"]
  /\ rpc = "idle" /\ targets = {} /\ rtrip = NoTrip /\ rfail = FALSE
  /\ todo = {} /\ remaining = FALSE /\ rctx = FALSE
  /\ faults = 0

-----------------------------------------------------------------------------
(* generate(): the request thread. *)

\* One transaction: the main row in GENERATING and all its days PENDING.
CreateShell(t) ==
  /\ req[t] = "idle"
  /\ req' = [req EXCEPT ![t] = "shell"]
  /\ gen' = [gen EXCEPT ![t] = "GENERATING"]
  /\ fresh' = fresh \cup {t}
  /\ UNCHANGED <<status, resumed, drift, days, ckpt, marks, active, jobs, rec, faults>>

RequestPlanning(t) ==
  /\ req[t] = "shell"
  /\ \/ /\ SubmitPlanning(t, FALSE, "orig")
        /\ req' = [req EXCEPT ![t] = "accepted"]
     \/ /\ FreeSlots = {}
        /\ req' = [req EXCEPT ![t] = "full"]
        /\ UNCHANGED <<active, jobs>>
  /\ UNCHANGED <<drift, rows, days, ckpt, marks, rec, faults>>

\* TaskRejected: the shell is failed and the caller gets 429.
RejectRequest(t) ==
  /\ req[t] = "full"
  /\ req' = [req EXCEPT ![t] = "rejected"]
  /\ FailTrip(t)
  /\ UNCHANGED <<drift, days, ckpt, marks, active, jobs, rec, faults>>

\* delete_cascade, at any time after the request has answered.
DeleteTrip(t) ==
  /\ req[t] \in {"accepted", "rejected", "dead"}
  /\ gen[t] # "deleted"
  /\ gen' = [gen EXCEPT ![t] = "deleted"]
  /\ UNCHANGED <<req, status, resumed, fresh, drift, days, ckpt, marks, active, jobs, rec, faults>>

-----------------------------------------------------------------------------
(* plan_days: the task of slot s, on trip[s]. *)

\* One of the pool's worker threads takes the task.
StartTask(s) ==
  /\ pc[s] = "queued"
  /\ Cardinality(Running) < Workers
  /\ Goto(s, "route")
  /\ UNCHANGED <<req, drift, rows, days, ckpt, marks, active, trip, dno, ctx, fp, rec, faults>>

\* resolve_route: the user's own gateway may not be decipherable.
ResolveRoute(s) ==
  /\ pc[s] = "route"
  /\ Goto(s, "begin") \/ Goto(s, "routeBroken")
  /\ UNCHANGED <<req, drift, rows, days, ckpt, marks, active, trip, dno, ctx, fp, rec, faults>>

\* The branch for a broken route is outside the try/finally of the planner.
RouteBroken(s) ==
  /\ pc[s] = "routeBroken"
  /\ \/ /\ FailTrip(trip[s])
        /\ active' = active \ {trip[s]}
        /\ UNCHANGED faults
     \/ /\ DbFaults /\ faults < MaxFaults
        /\ faults' = faults + 1
        /\ UNCHANGED <<rows, active>>
  /\ ClearSlot(s)
  /\ UNCHANGED <<req, drift, days, ckpt, marks, rec>>

\* _shell_exists, then mark_generating, which leaves status alone.
Begin(s) ==
  /\ pc[s] = "begin"
  /\ IF gen[trip[s]] = "deleted"
     THEN Goto(s, "fail") /\ UNCHANGED rows
     ELSE /\ SetMain(trip[s], "GENERATING", status[trip[s]])
          /\ Goto(s, IF ctx[s] THEN "save" ELSE "research")
          /\ UNCHANGED resumed
  /\ UNCHANGED <<req, drift, days, ckpt, marks, active, trip, dno, ctx, fp, rec, faults>>

Research(s) ==
  /\ pc[s] = "research"
  /\ Goto(s, "save") \/ Goto(s, "fail")
  /\ UNCHANGED <<req, drift, rows, days, ckpt, marks, active, trip, dno, ctx, fp, rec, faults>>

\* save_flight_quotes and the choice between a whole-trip stream and the loop.
WholeTrip(t) == gen[t] # "deleted" /\ Unfinished(t) = Days
SaveContext(s) ==
  /\ pc[s] = "save"
  /\ SetMain(trip[s], gen[trip[s]], status[trip[s]])
  /\ Goto(s, IF WholeTrip(trip[s]) THEN "stream" ELSE "loop")
  /\ dno' = [dno EXCEPT ![s] = 1]
  /\ UNCHANGED <<req, resumed, drift, days, ckpt, marks, active, trip, ctx, fp, rec, faults>>

\* A day or day_patch event of the stream, up to mark_running.
StreamDay(s) ==
  LET t == trip[s] IN
  /\ pc[s] = "stream"
  /\ \E d \in Days, patch \in BOOLEAN :
       /\ ~Busy(DayLock(t, d))
       /\ Accepts(t, d, fp[s])
       /\ Redo(t, d) \/ patch
       /\ TryMark(DayLock(t, d))
       /\ SetDay(t, d, "RUNNING", fp[s])
       /\ dno' = [dno EXCEPT ![s] = d]
  /\ Goto(s, "streamPersist")
  /\ UNCHANGED <<req, drift, rows, ckpt, active, trip, ctx, fp, rec, faults>>

\* Its plan may be invalid: the exception is logged and the day stays RUNNING.
StreamPersist(s) ==
  LET t == trip[s] IN
  /\ pc[s] = "streamPersist"
  /\ \/ /\ Accepts(t, dno[s], fp[s])
        /\ \E kind \in PlanKinds \ {"noplan"} : Persist(t, dno[s], kind, fp[s], TRUE)
     \/ UNCHANGED days
  /\ Unmark(DayLock(t, dno[s]))
  /\ Goto(s, "stream")
  /\ UNCHANGED <<req, drift, rows, ckpt, active, trip, dno, ctx, fp, rec, faults>>

\* The stream ends or breaks; either way the final validation follows.
StreamEnd(s) ==
  /\ pc[s] = "stream"
  /\ Goto(s, "revalidate")
  /\ UNCHANGED <<req, drift, rows, days, ckpt, marks, active, trip, dno, ctx, fp, rec, faults>>

\* _revalidate_stream_days: delivered days with issues go back to PENDING.
Revalidate(s) ==
  LET t == trip[s] IN
  /\ pc[s] = "revalidate"
  /\ \E bad \in SUBSET (Days \ Unfinished(t)) :
       /\ gen[t] = "deleted" => bad = {}
       /\ day' = [day EXCEPT ![t] = [d \in Days |-> IF d \in bad THEN "PENDING" ELSE @[d]]]
  /\ Goto(s, "loop")
  /\ dno' = [dno EXCEPT ![s] = 1]
  /\ UNCHANGED <<req, drift, rows, dayFp, dayFresh, ckpt, marks, active, trip, ctx, fp, rec, faults>>

\* One turn of the per-day loop, from try_day_lock to mark_running.
SkipDay(s) == dno' = [dno EXCEPT ![s] = @ + 1] /\ UNCHANGED pc
LoopDay(s) ==
  LET t == trip[s]
      d == dno[s]
      k == DayLock(t, d)
  IN
  /\ pc[s] = "loop" /\ d \in Days
  /\ \/ Busy(k) /\ SkipDay(s) /\ UNCHANGED <<days, marks>>
     \/ /\ ~Busy(k) /\ ~Accepts(t, d, fp[s])
        /\ Goto(s, "fail") /\ Unmark(k) /\ UNCHANGED <<days, dno>>
     \/ /\ ~Busy(k) /\ Accepts(t, d, fp[s])
        /\ IF Redo(t, d)
           THEN /\ TryMark(k)
                /\ SetDay(t, d, "RUNNING", fp[s])
                /\ Goto(s, "generate") /\ UNCHANGED dno
           ELSE SkipDay(s) /\ Unmark(k) /\ UNCHANGED days
  /\ UNCHANGED <<req, drift, rows, ckpt, active, trip, ctx, fp, rec, faults>>

\* run_generate_day: a new run of the day's thread ...
GraphStart(s) ==
  /\ pc[s] = "generate"
  /\ ckpt' = [ckpt EXCEPT ![trip[s]][dno[s]] = "open"]
  /\ Goto(s, "graph")
  /\ UNCHANGED <<req, drift, rows, days, marks, active, trip, dno, ctx, fp, rec, faults>>

\* ... which ends with a plan, ends without one, or raises half-way.
GraphEnd(s) ==
  /\ pc[s] = "graph"
  /\ \/ \E kind \in PlanKinds :
          /\ ckpt' = [ckpt EXCEPT ![trip[s]][dno[s]] = kind]
          /\ Goto(s, IF kind = "noplan" THEN "dayFailed" ELSE "persist")
     \/ Goto(s, "dayFailed") /\ UNCHANGED ckpt
  /\ UNCHANGED <<req, drift, rows, days, marks, active, trip, dno, ctx, fp, rec, faults>>

PersistDay(s) ==
  LET t == trip[s] IN
  /\ pc[s] = "persist"
  /\ IF Accepts(t, dno[s], fp[s])
     THEN /\ Persist(t, dno[s], ckpt[t][dno[s]], fp[s], FALSE)
          /\ Goto(s, "persisted")
     ELSE Goto(s, "dayFailed") /\ UNCHANGED days
  /\ UNCHANGED <<req, drift, rows, ckpt, marks, active, trip, dno, ctx, fp, rec, faults>>

\* The first day's plan may name the trip (set_trip_theme, an UPDATE of the main
\* row in a transaction of its own); then the lock goes and the loop goes on.
ThemeDue(s) == dno[s] = 1
KeepDay(s) ==
  LET t == trip[s] IN
  /\ pc[s] = "persisted"
  /\ \/ ThemeDue(s) /\ SetMain(t, gen[t], status[t])
     \/ UNCHANGED <<gen, status, fresh>>
  /\ Unmark(DayLock(t, dno[s]))
  /\ dno' = [dno EXCEPT ![s] = @ + 1]
  /\ Goto(s, "loop")
  /\ UNCHANGED <<req, resumed, drift, days, ckpt, active, trip, ctx, fp, rec, faults>>

\* mark_failed, whatever the row says by now; it may itself raise, and the lock is
\* released in finally.
DayFailed(s) ==
  LET t == trip[s] IN
  /\ pc[s] = "dayFailed"
  /\ IF Accepts(t, dno[s], fp[s]) THEN SetDay(t, dno[s], "FAILED", fp[s])
                                  ELSE UNCHANGED days
  /\ Unmark(DayLock(t, dno[s]))
  /\ Goto(s, "fail")
  /\ UNCHANGED <<req, drift, rows, ckpt, active, trip, dno, ctx, fp, rec, faults>>

\* _finish up to complete_trip.
Finish(s) ==
  LET t == trip[s] IN
  /\ pc[s] = "loop" /\ dno[s] \notin Days
  /\ IF gen[t] = "deleted"
     THEN Goto(s, "exit") /\ UNCHANGED rows
     ELSE /\ SetMain(t, IF Unfinished(t) = {} THEN "COMPLETED" ELSE "PARTIAL", 2)
          /\ resumed' = [resumed EXCEPT ![t] = FALSE]
          /\ Goto(s, "tail")
  /\ UNCHANGED <<req, drift, days, ckpt, marks, active, trip, dno, ctx, fp, rec, faults>>

\* The rest of _finish (snapshot, event, enrichment); a failed read turns the
\* finished trip into a failed one.
FinishTail(s) ==
  /\ pc[s] = "tail"
  /\ \/ Goto(s, "exit") /\ UNCHANGED faults
     \/ DbFaults /\ faults < MaxFaults /\ faults' = faults + 1 /\ Goto(s, "fail")
  /\ UNCHANGED <<req, drift, rows, days, ckpt, marks, active, trip, dno, ctx, fp, rec>>

\* Any other statement of the database may fail: the failure of persist or of the
\* theme is the day's, the rest lead to the except branch of plan_days (the reads
\* after a persisted day through the finally that gives its lock back).
DbError(s) ==
  /\ DbFaults /\ faults < MaxFaults /\ faults' = faults + 1
  /\ \/ /\ pc[s] \in {"begin", "save", "loop"}
        /\ Goto(s, "fail") /\ UNCHANGED marks
     \/ /\ \/ pc[s] = "persist"
           \/ pc[s] = "persisted" /\ ThemeDue(s)
        /\ Goto(s, "dayFailed") /\ UNCHANGED marks
     \/ /\ pc[s] = "persisted"
        /\ Goto(s, "fail") /\ Unmark(DayLock(trip[s], dno[s]))
  /\ UNCHANGED <<req, drift, rows, days, ckpt, active, trip, dno, ctx, fp, rec>>

\* The except branch of plan_days.
Fail(s) ==
  /\ pc[s] = "fail"
  /\ \/ FailTrip(trip[s]) /\ UNCHANGED faults
     \/ DbFaults /\ faults < MaxFaults /\ faults' = faults + 1 /\ UNCHANGED rows
  /\ Goto(s, "exit")
  /\ UNCHANGED <<req, drift, days, ckpt, marks, active, trip, dno, ctx, fp, rec>>

\* finally: unregister; the pool gets its slot back.
\* Variant: the registry entry is forgotten.
ExitRegistered(s) ==
  /\ pc[s] = "exit"
  /\ ClearSlot(s)
  /\ UNCHANGED <<req, drift, rows, days, ckpt, marks, active, rec, faults>>
Exit(s) ==
  /\ pc[s] = "exit"
  /\ active' = active \ {trip[s]}
  /\ ClearSlot(s)
  /\ UNCHANGED <<req, drift, rows, days, ckpt, marks, rec, faults>>

PlanStep(s) ==
  \/ StartTask(s) \/ ResolveRoute(s) \/ RouteBroken(s) \/ Begin(s) \/ Research(s)
  \/ SaveContext(s) \/ StreamDay(s) \/ StreamPersist(s) \/ StreamEnd(s) \/ Revalidate(s)
  \/ LoopDay(s) \/ GraphStart(s) \/ GraphEnd(s) \/ PersistDay(s) \/ KeepDay(s)
  \/ DayFailed(s)
  \/ Finish(s) \/ FinishTail(s) \/ DbError(s) \/ Fail(s) \/ Exit(s)

-----------------------------------------------------------------------------
(* recover(): one cron thread, one target at a time. *)

ScanHit(t, g) == gen[t] = g /\ t \notin fresh
Scan ==
  /\ rpc = "idle"
  /\ rpc' = "next"
  /\ targets' = {<<t, FALSE>> : t \in {u \in Trips : ScanHit(u, "GENERATING")}}
           \cup {<<t, TRUE>> : t \in {u \in Trips : ScanHit(u, "FAILED")}}
  /\ UNCHANGED <<req, drift, rows, days, ckpt, marks, active, jobs, rtrip, rfail, todo, remaining, rctx, faults>>

ScanEnd ==
  /\ rpc = "next" /\ targets = {}
  /\ rpc' = "idle"
  /\ UNCHANGED <<req, drift, rows, days, ckpt, marks, active, jobs, targets, rtrip, rfail, todo, remaining, rctx, faults>>

\* recover_one, the liveness probe: a trip that is planned here is left alone.
\* Variant: no probe.
PlannedNever(t) == FALSE
Planned(t) == t \in active
Probe ==
  /\ rpc = "next"
  /\ \E x \in targets :
       /\ x[2] => \A y \in targets : y[2]   \* generating trips come first
       /\ targets' = targets \ {x}
       /\ IF Planned(x[1])
          THEN UNCHANGED <<rpc, rtrip, rfail>>
          ELSE rpc' = "decide" /\ rtrip' = x[1] /\ rfail' = x[2]
  /\ UNCHANGED <<req, drift, rows, days, ckpt, marks, active, jobs, todo, remaining, rctx, faults>>

\* recover_one's transaction: what to do with the trip.
NextTarget == rpc' = "next" /\ rtrip' = NoTrip /\ rfail' = FALSE
              /\ todo' = {} /\ remaining' = FALSE /\ rctx' = FALSE
\* Variant: a RUNNING day of any age.
Resumable(t) == AllFailed(t)
HeartbeatAnyAge(t) == \E d \in Days : day[t][d] = "RUNNING"
Heartbeat(t) == dayFresh[t] # {}
Declined(t) ==
  \/ gen[t] = "deleted"
  \/ Heartbeat(t)
  \/ rfail /\ ~Resumable(t)
  \/ Busy(ResumeLock(t))

Decide ==
  /\ rpc = "decide"
  /\ \/ /\ gen[rtrip] # "deleted" /\ Pending(rtrip) = {}
        /\ SetMain(rtrip, "COMPLETED", 2)
        /\ NextTarget
        /\ UNCHANGED <<resumed, marks>>
     \/ /\ Pending(rtrip) # {} \/ gen[rtrip] = "deleted"
        /\ Declined(rtrip)
        /\ NextTarget
        /\ UNCHANGED <<rows, marks>>
     \/ /\ Pending(rtrip) # {} /\ ~Declined(rtrip)
        /\ TryMark(ResumeLock(rtrip))
        /\ IF rfail
           THEN /\ SetMain(rtrip, "GENERATING", 1)
                /\ resumed' = [resumed EXCEPT ![rtrip] = TRUE]
           ELSE UNCHANGED rows
        /\ rpc' = "route"
        /\ todo' = Pending(rtrip)
        /\ UNCHANGED <<rtrip, rfail, remaining, rctx>>
  /\ UNCHANGED <<req, drift, days, ckpt, active, jobs, targets, faults>>

ResumeRoute ==
  /\ rpc = "route"
  /\ rpc' \in {"resume", "broken"}
  /\ UNCHANGED <<req, drift, rows, days, ckpt, marks, active, jobs, targets, rtrip, rfail, todo, remaining, rctx, faults>>

\* Any ApiError on the way: release the resume lock and fail the trip.
ResumeBroken ==
  /\ rpc = "broken"
  /\ Unmark(ResumeLock(rtrip))
  /\ FailTrip(rtrip)
  /\ NextTarget
  /\ UNCHANGED <<req, drift, days, ckpt, active, jobs, targets, faults>>

RebuiltFp(t) == IF drift[t] THEN "rebuilt" ELSE "orig"
NextDay(d) == d \in todo /\ \A e \in todo : d <= e

\* resume_day on an unfinished run continues it from the checkpoint ...
ResumeGraph(d) ==
  /\ rpc = "resume" /\ NextDay(d)
  /\ ckpt[rtrip][d] = "open"
  /\ \E kind \in PlanKinds : ckpt' = [ckpt EXCEPT ![rtrip][d] = kind]
  /\ UNCHANGED <<req, drift, rows, days, marks, active, jobs, rec, faults>>

\* ... or raises: recover() logs it and the target is left with its resume lock.
ResumeRaises(d) ==
  /\ rpc = "resume" /\ NextDay(d)
  /\ ckpt[rtrip][d] = "open"
  /\ NextTarget
  /\ UNCHANGED <<req, drift, rows, days, ckpt, marks, active, jobs, targets, faults>>

\* No plan in the checkpoint: the day is left to a new planner.
ResumeNothing(d) ==
  /\ rpc = "resume" /\ NextDay(d)
  /\ ckpt[rtrip][d] \in {"none", "noplan"}
  /\ remaining' = TRUE
  /\ rctx' = (rctx \/ ckpt[rtrip][d] = "noplan")
  /\ todo' = todo \ {d}
  /\ UNCHANGED <<req, drift, rows, days, ckpt, marks, active, jobs, rpc, targets, rtrip, rfail, faults>>

\* A plan in the checkpoint is persisted; a foreign fingerprint is refused (409).
ResumePersist(d) ==
  LET t == rtrip IN
  /\ rpc = "resume" /\ NextDay(d)
  /\ ckpt[t][d] \in {"plan", "sparse"}
  /\ IF Accepts(t, d, RebuiltFp(t))
     THEN /\ Persist(t, d, ckpt[t][d], RebuiltFp(t), FALSE)
          /\ rctx' = TRUE
          /\ todo' = todo \ {d}
          /\ UNCHANGED rpc
     ELSE rpc' = "broken" /\ UNCHANGED <<days, rctx, todo>>
  /\ UNCHANGED <<req, drift, rows, ckpt, marks, active, jobs, targets, rtrip, rfail, remaining, faults>>

\* Every day came out of a checkpoint: the trip is declared complete.
ResumeComplete ==
  /\ rpc = "resume" /\ todo = {} /\ ~remaining
  /\ SetMain(rtrip, "COMPLETED", 2)
  /\ Unmark(ResumeLock(rtrip))
  /\ NextTarget
  /\ UNCHANGED <<req, resumed, drift, days, ckpt, active, jobs, targets, faults>>

\* Otherwise a new planner is queued; the resume lock is kept until it expires,
\* unless the pool is full.
ResumeSubmit ==
  /\ rpc = "resume" /\ todo = {} /\ remaining
  /\ \/ SubmitPlanning(rtrip, rctx, RebuiltFp(rtrip)) /\ UNCHANGED marks
     \/ FreeSlots = {} /\ Unmark(ResumeLock(rtrip)) /\ UNCHANGED <<active, jobs>>
  /\ NextTarget
  /\ UNCHANGED <<req, drift, rows, days, ckpt, targets, faults>>

RecoverStep ==
  \/ Scan \/ ScanEnd \/ Probe \/ Decide \/ ResumeRoute \/ ResumeBroken
  \/ ResumeComplete \/ ResumeSubmit
  \/ \E d \in Days : ResumeGraph(d) \/ ResumeRaises(d) \/ ResumeNothing(d) \/ ResumePersist(d)

-----------------------------------------------------------------------------
(* Time and failure. *)

\* The cutoff of the next scan moves past a row.  A request takes far less than
\* the five minutes between its shell and its answer.
AgeMain(t) ==
  /\ rpc = "idle" /\ t \in fresh
  /\ req[t] \notin {"shell", "full"}
  /\ fresh' = fresh \ {t}
  /\ UNCHANGED <<req, gen, status, resumed, drift, days, ckpt, marks, active, jobs, rec, faults>>

AgeDay(t, d) ==
  /\ rpc = "idle" /\ d \in dayFresh[t]
  /\ dayFresh' = [dayFresh EXCEPT ![t] = @ \ {d}]
  /\ UNCHANGED <<req, drift, rows, day, dayFp, ckpt, marks, active, jobs, rec, faults>>

\* The TTL of a mark runs out.
Expire(k) ==
  /\ \/ k \in shared /\ shared' = shared \ {k} /\ UNCHANGED locals
     \/ k \in locals /\ locals' = locals \ {k} /\ UNCHANGED shared
  /\ UNCHANGED <<req, drift, rows, days, ckpt, active, jobs, rec, faults>>

\* The process dies and comes back.
Crash ==
  /\ faults < MaxFaults
  /\ faults' = faults + 1
  /\ req' = [t \in Trips |-> IF req[t] \in {"shell", "full"} THEN "dead" ELSE req[t]]
  /\ locals' = {} /\ active' = {}
  /\ pc' = [s \in Slots |-> "free"]
  /\ trip' = [s \in Slots |-> NoTrip]
  /\ dno' = [s \in Slots |-> 0]
  /\ ctx' = [s \in Slots |-> FALSE]
  /\ fp' = [s \in Slots |-> "orig"]
  /\ rpc' = "idle" /\ targets' = {} /\ rtrip' = NoTrip /\ rfail' = FALSE
  /\ todo' = {} /\ remaining' = FALSE /\ rctx' = FALSE
  /\ UNCHANGED <<drift, rows, days, ckpt, shared>>

RequestStep(t) == RequestPlanning(t) \/ RejectRequest(t)

Next ==
  \/ \E t \in Trips : CreateShell(t) \/ RequestStep(t) \/ DeleteTrip(t) \/ AgeMain(t)
  \/ \E t \in Trips, d \in Days : AgeDay(t, d)
  \/ \E s \in Slots : PlanStep(s)
  \/ RecoverStep
  \/ \E k \in Locks : Expire(k)
  \/ Crash

Spec == Init /\ [][Next]_vars

\* What the code's scheduling gives: a request and a planner go on, the recovery
\* thread scans for ever, time passes, a stream ends, and a run resumed again and
\* again is not interrupted for ever.
Fairness ==
  /\ \A t \in Trips : WF_vars(RequestStep(t)) /\ SF_vars(AgeMain(t))
  /\ \A t \in Trips, d \in Days : SF_vars(AgeDay(t, d))
  /\ \A s \in Slots : WF_vars(PlanStep(s)) /\ SF_vars(StreamEnd(s))
  /\ WF_vars(RecoverStep) /\ \A d \in Days : SF_vars(ResumeGraph(d))
  /\ \A k \in Locks : WF_vars(Expire(k))

FairSpec == Spec /\ Fairness

-----------------------------------------------------------------------------
(* Properties. *)

GenStates == {"none", "GENERATING", "COMPLETED", "PARTIAL", "FAILED", "deleted"}
DayStates == {"PENDING", "RUNNING", "SUCCEEDED", "FAILED"}
Fps       == {"orig", "rebuilt"}
PlannerPcs == {"free", "queued", "route", "routeBroken", "begin", "research", "save",
  "stream", "streamPersist", "revalidate", "loop", "generate", "graph", "persist",
  "persisted", "dayFailed", "tail", "fail", "exit"}
RecoveryPcs == {"idle", "next", "decide", "route", "broken", "resume"}

WorldOK ==
  /\ req \in [Trips -> {"idle", "shell", "full", "accepted", "rejected", "dead"}]
  /\ drift \in [Trips -> BOOLEAN]
  /\ ckpt \in [Trips -> [Days -> Plan \cup {"none", "open"}]]
  /\ active \subseteq Trips
  /\ faults \in 0 .. MaxFaults
RowsOK ==
  /\ gen \in [Trips -> GenStates]
  /\ status \in [Trips -> 1 .. 3]
  /\ resumed \in [Trips -> BOOLEAN]
  /\ fresh \subseteq Trips
DaysOK ==
  /\ day \in [Trips -> [Days -> DayStates]]
  /\ dayFp \in [Trips -> [Days -> Fps \cup {"none"}]]
  /\ dayFresh \in [Trips -> SUBSET Days]
MarksOK == shared \subseteq Locks /\ locals \subseteq Locks
\* A task names a trip exactly while it has a slot, and a planner that has chosen
\* a day stands on a day of its trip.
Live(s) == pc[s] # "free"
OnDay(s) == pc[s] \in {"streamPersist", "generate", "graph", "persist", "persisted", "dayFailed"}
JobsOK ==
  /\ pc \in [Slots -> PlannerPcs]
  /\ trip \in [Slots -> Trips \cup {NoTrip}]
  /\ dno \in [Slots -> 0 .. NDays + 1]
  /\ ctx \in [Slots -> BOOLEAN]
  /\ fp \in [Slots -> Fps]
  /\ \A s \in Slots :
       /\ Live(s) <=> trip[s] # NoTrip
       /\ OnDay(s) => dno[s] \in Days
       /\ pc[s] = "loop" => dno[s] > 0
\* The recovery names a trip exactly while it works on one.
Recovering == rpc \notin {"idle", "next"}
RecoveryOK ==
  /\ rpc \in RecoveryPcs
  /\ targets \subseteq Trips \X BOOLEAN
  /\ rtrip \in Trips \cup {NoTrip}
  /\ rfail \in BOOLEAN /\ todo \subseteq Days
  /\ remaining \in BOOLEAN /\ rctx \in BOOLEAN
  /\ Recovering <=> rtrip # NoTrip

\* Every column, mark and thread holds a value of its kind.
TypeOK == WorldOK /\ RowsOK /\ DaysOK /\ MarksOK /\ JobsOK /\ RecoveryOK

\* No trip is ever planned twice at once: not by two tasks of the pool, and not
\* by a task and the recovery thread (the registry of active planning, and the
\* liveness probe at the head of recover_one).
SinglePlanner ==
  /\ \A s1, s2 \in Slots : Live(s1) /\ Live(s2) /\ trip[s1] = trip[s2] => s1 = s2
  /\ Recovering => \A s \in Slots : trip[s] # rtrip

\* The registry is the set of trips a slot works on: a planner that ends by any
\* path takes its trip out, else the recovery would spare a dead trip for ever.
RegistryExact == ~DbFaults => active = {trip[s] : s \in {u \in Slots : Live(u)}}

\* A day that was delivered is not generated again, whatever crashes and
\* relaunches follow: only the stream that produced it may patch it and only the
\* validation of that stream may send it back (persist's idempotence and the
\* SUCCEEDED branch of the loop).  The one exception is the first day, in the hands
\* of the planner that has just delivered it: where the theme of the trip cannot be
\* written, the day is marked FAILED after all (the except branch of the loop).
InStream(t) == \E s \in Slots : trip[s] = t /\ pc[s] \in {"stream", "streamPersist", "revalidate"}
ThemeFails(t, d) == d = 1 /\ \E s \in Slots : trip[s] = t /\ dno[s] = d /\ pc[s] = "dayFailed"
DeliveredDayKept ==
  [][\A t \in Trips, d \in Days :
       day[t][d] = "SUCCEEDED" /\ day'[t][d] # "SUCCEEDED" => InStream(t) \/ ThemeFails(t, d)]_vars

\* COMPLETED says that every day was delivered (complete_trip, and the two places
\* of recover_one that mark a trip complete); and the loop of a planner never finds
\* a day locked: such a day would be skipped in silence and the trip would end
\* PARTIAL.  The lock a crashed process left in Redis is the case that matters.
DeliveredInFull ==
  /\ \A t \in Trips : gen[t] = "COMPLETED" => Unfinished(t) = {}
  /\ \A s \in Slots : pc[s] = "loop" /\ dno[s] \in Days => ~Busy(DayLock(trip[s], dno[s]))

\* A trip does not stay in GENERATING: a planner ends it, or, after a crash, the
\* recovery does.
Settles == \A t \in Trips : gen[t] = "GENERATING" ~> gen[t] # "GENERATING"
=============================================================================
