------------------------------ MODULE TripEdit ------------------------------
(***************************************************************************)
(* One trip under the hands of its owner and its members, each with one or *)
(* more open tabs: the edits by hand, the edit in words, the chat that     *)
(* proposes a draft and the request that applies it, the hotel that is     *)
(* chosen, the restore of a version, the roles, the delete, and the cached *)
(* detail that every one of them reads and evicts.  A transaction reads    *)
(* the tables as they were at its first SELECT and writes them at its end. *)
(***************************************************************************)
EXTENDS TripRows

CONSTANTS
  Clients,        \* open tabs
  Users, Owner,
  UserOf,         \* whose tab
  Nothing,        \* the content of an empty cache entry
  SnapshotTries,  \* _MAX_SNAPSHOT_ATTEMPTS
  Scenarios       \* bounds of a behaviour: the kinds of requests that are sent, how many of
                  \* them and from which tabs, the rows and the roles it begins with

ASSUME TripEditAssumption ==
  /\ Owner \in Users /\ UserOf \in [Clients -> Users]
  /\ SnapshotTries \in Nat \ {0}
  /\ \A s \in Scenarios : s.tabs \subseteq Clients /\ s.requests \in Nat
  /\ \A s \in Scenarios : \A t \in s.rows : Tables(t) /\ Tidy(t)

VARIABLES
  rows,      \* itinerary_day, itinerary_item and main.days
  bill,      \* budget_detail
  there,     \* is the main row not deleted?
  role,      \* itinerary_member: "none", "viewer" or "editor"
  versions,  \* itinerary_version: version k has number k
  drafts,    \* the answers of the assistant, per user; a consumed one is Spent
  thread,    \* the checkpoint of the confirmation thread, one for the trip
  cached,    \* itinerary:detail, per reader
  pc, op, view, tries, built, answer,  \* the request of each tab
  scenario,  \* one of Scenarios
  left,      \* requests still to be sent
  crossed,   \* tabs during whose edit another one committed
  torn,      \* did one of those commit?
  wrote,     \* tabs whose present or last request has committed its change
  lapsed,    \* the rows are in no version: the one that was due could not be written
  demoted,   \* users who lost a role since they had it
  late,      \* tabs that hold a detail while its key was evicted
  suspect    \* readers whose entry such a tab has filled

trip    == <<rows, bill, there, role, versions>>
request == <<pc, op, view, tries, built, answer, scenario, left>>
history == <<crossed, torn, wrote, lapsed, demoted, late, suspect>>
vars    == <<trip, drafts, thread, cached, request, history>>

Spent == [kind |-> "none", base |-> <<>>, plan |-> <<>>, hotel |-> Nothing, times |-> 0]
NoOp  == [kind |-> "none"]
NoView == [rows |-> <<>>, seen |-> 0, top |-> 0, base |-> <<>>, basis |-> <<>>]
Idle  == [state |-> "none", kind |-> "none", hotel |-> Nothing, confirmed |-> FALSE]

Me(c) == UserOf[c]
Goto(c, l) == pc' = [pc EXCEPT ![c] = l] /\ UNCHANGED <<op, answer>>
GotoWith(c, l, o) == pc' = [pc EXCEPT ![c] = l] /\ op' = [op EXCEPT ![c] = o] /\ UNCHANGED answer
Answer(c, a) ==
  pc' = [pc EXCEPT ![c] = "idle"] /\ op' = [op EXCEPT ![c] = NoOp] /\ answer' = [answer EXCEPT ![c] = a]

-----------------------------------------------------------------------------
(* Gates, detail and cache. *)

\* require_main, require_writable_main, require_owned_main
Reads(u)  == there /\ (u = Owner \/ role[u] # "none")
Writes(u) == there /\ (u = Owner \/ role[u] = "editor")
Owns(u)   == there /\ u = Owner

\* build_detail: what a reader is shown.
Detail(u) ==
  [plans |-> CurrentPlans(rows), length |-> rows.length, bill |-> bill,
   mine |-> IF u = Owner THEN "owner" ELSE role[u]]

\* evict_detail: the owner's key, the members' and the caller's.
\* Variant: as it was before there were members.
ReadersCaller(u) == {u}
Readers(u) == {u} \cup (IF there THEN {Owner} ELSE {}) \cup {m \in Users \ {Owner} : role[m] # "none"}
Holding(us) == {c \in Clients : pc[c] = "store" /\ Me(c) \in us}
EvictDetail(u) ==
  /\ cached' = [v \in Users |-> IF v \in Readers(u) THEN Nothing ELSE cached[v]]
  /\ late' = late \cup Holding(Readers(u))
  /\ suspect' = suspect \ Readers(u)

-----------------------------------------------------------------------------
(* Requests. *)

\* A tab knows every id it has ever been shown.
SomeDay == 1 .. (rows.nextDay - 1)
SomeItem == 1 .. (rows.nextItem - 1)
SomeDraft == UNION {DOMAIN drafts[u] : u \in Users}
HandOps ==
  [kind : {"add"} \cap scenario.kinds, day : SomeDay, name : Names] \cup
  [kind : {"update"} \cap scenario.kinds, item : SomeItem, name : Names] \cup
  [kind : {"move"} \cap scenario.kinds, item : SomeItem, day : SomeDay] \cup
  [kind : {"delete"} \cap scenario.kinds, item : SomeItem] \cup
  (UNION {[kind : {"reorder", "optimize"} \cap scenario.kinds, day : {d},
           order : SetToSeqs(ItemsOf(rows, d))] : d \in SomeDay}) \cup
  [kind : {"retitle"} \cap scenario.kinds, day : SomeDay]
OtherOps ==
  [kind : {"words", "chat", "clear", "read", "trash"} \cap scenario.kinds] \cup
  [kind : {"apply"} \cap scenario.kinds, draft : SomeDraft] \cup
  [kind : {"hotel"} \cap scenario.kinds, draft : SomeDraft, hotel : Hotels,
   nights : SUBSET (1 .. TripDays) \ {{}}] \cup
  [kind : {"restore"} \cap scenario.kinds, version : DOMAIN versions] \cup
  [kind : {"role"} \cap scenario.kinds, member : Users \ {Owner},
   to : {"none", "viewer", "editor"}] \cup
  [kind : {"join"} \cap scenario.kinds, to : {"viewer", "editor"}]
Ops == HandOps \cup OtherOps

ByHand == {"add", "update", "move", "delete", "reorder", "optimize", "retitle"}
\* Requests that write a version of their own before they write.
Versioned == ByHand \cup {"words", "trash"}
\* What the model may make of an instruction.
InWords == {"deleteNamed", "moveNext", "addNamed", "upgradeHotel", "retime"}
Writing(c) == op[c].kind \in Versioned \cup InWords \cup {"apply", "hotel", "restore"}

\* The checks of the first transaction of an edit by hand.
Acceptable(o) ==
  CASE o.kind = "add"     -> o.day \in LiveDays(rows)
    [] o.kind = "update"  -> o.item \in LiveItems(rows)
    [] o.kind = "move"    -> o.item \in LiveItems(rows) /\ o.day \in LiveDays(rows)
    [] o.kind = "delete"  -> o.item \in LiveItems(rows)
    [] o.kind = "reorder" -> o.day \in LiveDays(rows)
    [] o.kind = "optimize" -> o.day \in LiveDays(rows) /\ Len(o.order) >= 2
    [] o.kind = "retitle" -> o.day \in LiveDays(rows)

Send(c, o) ==
  /\ left' = left - 1
  /\ wrote' = wrote \ {c} /\ crossed' = crossed \ {c}
  /\ UNCHANGED <<trip, drafts, thread, cached, view, tries, built, scenario, torn, lapsed, demoted, late, suspect>>

\* The edits by hand: the checks come before the version is written.
SendEdit(c, o) ==
  /\ Send(c, o)
  /\ o.kind \in Versioned
  /\ IF /\ IF o.kind = "trash" THEN Owns(Me(c)) ELSE Writes(Me(c))
        /\ o.kind \in ByHand => Acceptable(o)
     THEN GotoWith(c, "number", o)
     ELSE Answer(c, "refused")

\* Everything else checks what it needs when it runs.
SendOther(c, o) ==
  /\ Send(c, o)
  /\ o.kind \notin Versioned
  /\ GotoWith(c, o.kind, o)

\* What a transaction of c reads.
SeeWith(c, d) == view' = [view EXCEPT ![c] =
  [rows |-> rows, seen |-> Len(drafts[Me(c)]), top |-> Len(versions), base |-> d.base, basis |-> d.plan]]
See(c) == SeeWith(c, Spent)
Forget(c) == view' = [view EXCEPT ![c] = NoView]

\* A committed change of the rows: everybody who is in the middle of one is crossed.
Editing(c) == Writing(c) /\ pc[c] \in {"number", "insert", "look", "begin", "commit"}
Committed(c) ==
  /\ wrote' = wrote \cup {c}
  /\ crossed' = crossed \cup {q \in Clients \ {c} : Editing(q)}
  /\ torn' = (torn \/ c \in crossed)

-----------------------------------------------------------------------------
(* Versions. *)

\* Where a request goes after its second version; restore has evicted before it.
Recorded(c) == IF op[c].kind = "restore" THEN "get" ELSE "evict"

\* _write_snapshot reads the latest number and evicts before it writes ...
TakeNumber(c) ==
  /\ pc[c] \in {"number", "renumber"}
  /\ IF Writes(Me(c))
     THEN /\ See(c) /\ EvictDetail(Me(c))
          /\ Goto(c, IF pc[c] = "number" THEN "insert" ELSE "reinsert")
          /\ UNCHANGED lapsed
     ELSE /\ IF pc[c] = "number" THEN Answer(c, "refused") ELSE Goto(c, Recorded(c))
          /\ lapsed' = (lapsed \/ pc[c] = "renumber")
          /\ UNCHANGED <<view, cached, late, suspect>>
  /\ UNCHANGED <<trip, drafts, thread, tries, built, scenario, left, crossed, torn, wrote, demoted>>

\* ... and inserts the next one.  uk_itinerary_version lets one of two through.
NumberTaken(c) == Len(versions) # view[c].top
WithVersion(c) == Append(versions, [parent |-> view[c].top, trip |-> Content(view[c].rows)])
Kept(c) ==
  /\ versions' = WithVersion(c)
  /\ lapsed' = (lapsed /\ view[c].rows # rows)
  /\ UNCHANGED <<crossed, torn, wrote, demoted, late, suspect>>

\* create_snapshot before the change: the edit goes on ...
InsertVersion(c) ==
  /\ pc[c] = "insert"
  /\ ~NumberTaken(c)
  /\ Kept(c)
  /\ tries' = [tries EXCEPT ![c] = 0]
  /\ Goto(c, IF op[c].kind = "words" THEN "look" ELSE "begin")
  /\ Forget(c)
  /\ UNCHANGED <<rows, bill, there, role, drafts, thread, cached, built, scenario, left>>

\* ... unless the number was taken each time.  Variant: one time more.
InsertCollidesOnceMore(c) ==
  /\ pc[c] = "insert"
  /\ NumberTaken(c)
  /\ IF tries[c] < SnapshotTries
     THEN Goto(c, "number") /\ tries' = [tries EXCEPT ![c] = @ + 1]
     ELSE Answer(c, "broken") /\ tries' = [tries EXCEPT ![c] = 0]
  /\ Forget(c)
  /\ UNCHANGED <<trip, drafts, thread, cached, built, scenario, left, history>>
InsertCollides(c) ==
  /\ pc[c] = "insert"
  /\ NumberTaken(c)
  /\ IF tries[c] + 1 < SnapshotTries
     THEN Goto(c, "number") /\ tries' = [tries EXCEPT ![c] = @ + 1]
     ELSE Answer(c, "broken") /\ tries' = [tries EXCEPT ![c] = 0]
  /\ Forget(c)
  /\ UNCHANGED <<trip, drafts, thread, cached, built, scenario, left, history>>

\* record_snapshot_or_log after the change: nothing stops it.
\* Variants: a collision is an error of the request; no version is written.
RecordVersionNever(c) ==
  /\ pc[c] = "reinsert"
  /\ Goto(c, Recorded(c)) /\ Forget(c)
  /\ UNCHANGED <<trip, drafts, thread, cached, tries, built, scenario, left, history>>
RecordVersionStrict(c) ==
  /\ pc[c] = "reinsert"
  /\ IF NumberTaken(c)
     THEN Answer(c, "broken") /\ UNCHANGED <<versions, history>>
     ELSE Kept(c) /\ Goto(c, Recorded(c))
  /\ Forget(c)
  /\ UNCHANGED <<rows, bill, there, role, drafts, thread, cached, tries, built, scenario, left>>
RecordVersion(c) ==
  /\ pc[c] = "reinsert"
  /\ IF NumberTaken(c)
     THEN /\ IF tries[c] + 1 < SnapshotTries
             THEN Goto(c, "renumber") /\ tries' = [tries EXCEPT ![c] = @ + 1] /\ UNCHANGED lapsed
             ELSE Goto(c, Recorded(c)) /\ tries' = [tries EXCEPT ![c] = 0] /\ lapsed' = TRUE
          /\ UNCHANGED <<versions, crossed, torn, wrote, demoted, late, suspect>>
     ELSE Kept(c) /\ Goto(c, Recorded(c)) /\ tries' = [tries EXCEPT ![c] = 0]
  /\ Forget(c)
  /\ UNCHANGED <<rows, bill, there, role, drafts, thread, cached, built, scenario, left>>

-----------------------------------------------------------------------------
(* The change itself. *)

\* nl_edit reads the ids of the days, and asks the model, outside any transaction.
DayAfter(d) ==
  CHOOSE e \in LiveDays(rows) : rows.days[e].no = Min({rows.days[d].no + 1, Cardinality(LiveDays(rows))})
WordOps ==
  [kind : {"deleteNamed"}, day : LiveDays(rows) \cup {0}, name : Names] \cup
  (UNION {[kind : {"moveNext"}, day : {d}, to : {DayAfter(d)} \ {d}, name : Names] : d \in LiveDays(rows)}) \cup
  [kind : {"addNamed"}, day : LiveDays(rows), name : Spots] \cup
  [kind : {"upgradeHotel"}, no : DayNos(rows) \cup {0}, hotel : Hotels] \cup
  [kind : {"retime"}, day : LiveDays(rows), name : Names]
Look(c) ==
  /\ pc[c] = "look"
  /\ \/ \E o \in WordOps : GotoWith(c, "begin", o)
     \/ Answer(c, "broken")
  /\ UNCHANGED <<trip, drafts, thread, cached, view, tries, built, scenario, left, history>>

\* The items that an instruction may mean: there, of that name, in that day or anywhere.
Named(t, d, n) == {i \in IF d = 0 THEN LiveItems(t) ELSE ItemsOf(t, d) : t.items[i].name = n}

\* The tables that an edit may leave, from those it reads; none if it raises.
Changes(t, o) ==
  CASE o.kind \in {"add", "addNamed"} -> {InsertItem(t, o.day, o.name, NextSort(t, o.day))}
    [] o.kind = "update" -> {SetName(t, i, o.name) : i \in {o.item} \cap LiveItems(t)}
    [] o.kind = "move"   -> {MoveToDay(t, i, o.day) : i \in {o.item} \cap LiveItems(t)}
    [] o.kind = "delete" -> {Drop(t, i) : i \in {o.item} \cap LiveItems(t)}
    [] o.kind \in {"reorder", "optimize"} ->
         {Reorder(t, w) : w \in {x \in {o.order} : ToSet(x) \subseteq LiveItems(t)}}
    [] o.kind = "retitle"     -> {t : d \in {o.day} \cap LiveDays(t)}
    [] o.kind = "deleteNamed" -> {Drop(t, i) : i \in Named(t, o.day, o.name)}
    [] o.kind = "moveNext"    -> {MoveToDay(t, i, o.to) : i \in Named(t, o.day, o.name)}
    [] o.kind = "retime"      -> {t : i \in Named(t, o.day, o.name)}
    [] o.kind = "upgradeHotel" ->
         {SetName(t, i, o.hotel) : i \in
            {x \in IF o.no = 0 THEN LiveItems(t) ELSE UNION {ItemsOf(t, d) : d \in DaysAt(t, o.no)} :
               t.items[x].name \in Hotels \ {o.hotel}}}
    [] o.kind = "trash" -> {DropAll(t)}
\* optimize_day, update_day and the delete leave the budget as it is.
Recalculates(o) == o.kind \notin {"optimize", "retitle", "trash"}

Spend(d) == [Spent EXCEPT !.times = d.times]
SpendAll(u) == [k \in DOMAIN drafts[u] |-> Spend(drafts[u][k])]
\* invalidate_pending_actions: the drafts of this user that the transaction sees.
Invalidate(c) ==
  LET mine == drafts[Me(c)] IN
  drafts' = [drafts EXCEPT ![Me(c)] =
    [k \in DOMAIN mine |-> IF k <= view[c].seen THEN Spend(mine[k]) ELSE mine[k]]]

BeginEdit(c) ==
  /\ pc[c] = "begin"
  /\ See(c) /\ Goto(c, "commit")
  /\ UNCHANGED <<trip, drafts, thread, cached, tries, built, scenario, left, history>>

\* The transaction of the change and of what hangs on it.
CommitEdit(c) ==
  /\ pc[c] = "commit" /\ op[c].kind \in ByHand \cup InWords
  /\ \E want \in Changes(view[c].rows, op[c]) :
       /\ ~FlushRaises(rows, view[c].rows, want)
       /\ rows' = Flush(rows, view[c].rows, want)
       /\ bill' = IF Recalculates(op[c]) THEN Bill(want) ELSE bill
  /\ Invalidate(c)
  /\ Committed(c)
  /\ Goto(c, "renumber") /\ Forget(c)
  /\ UNCHANGED <<there, role, versions, thread, cached, tries, built, scenario, left, lapsed, demoted, late, suspect>>

\* ... raises: what it read is gone, or the flush meets a purged row.
FailEdit(c) ==
  /\ pc[c] = "commit" /\ op[c].kind \in ByHand \cup InWords
  /\ \A want \in Changes(view[c].rows, op[c]) : FlushRaises(rows, view[c].rows, want)
  /\ Answer(c, IF op[c].kind \in InWords THEN "refused" ELSE "broken") /\ Forget(c)
  /\ UNCHANGED <<trip, drafts, thread, cached, tries, built, scenario, left, history>>

\* delete_cascade: every row of the trip, of all its users.
CommitDelete(c) ==
  /\ pc[c] = "commit" /\ op[c].kind = "trash"
  /\ rows' = Flush(rows, view[c].rows, DropAll(view[c].rows))
  /\ there' = FALSE
  /\ drafts' = [u \in Users |-> SpendAll(u)]
  /\ Committed(c)
  /\ Goto(c, "evict") /\ Forget(c)
  /\ UNCHANGED <<bill, role, versions, thread, cached, tries, built, scenario, left, lapsed, demoted, late, suspect>>

\* restore: one transaction, and its DELETE takes what is there when it runs.
Restore(c) ==
  /\ pc[c] = "restore"
  /\ IF Writes(Me(c))
     THEN /\ rows' = RestoreRows(rows, versions[op[c].version].trip)
          /\ bill' = Bill(rows')
          /\ Committed(c)
          /\ Goto(c, "evictfirst")
     ELSE Answer(c, "refused") /\ UNCHANGED <<rows, bill, crossed, torn, wrote>>
  /\ UNCHANGED <<there, role, versions, drafts, thread, cached, view, tries, built, scenario, left, lapsed, demoted, late, suspect>>

-----------------------------------------------------------------------------
(* The chat and its drafts. *)

Pending(u) == {k \in DOMAIN drafts[u] : drafts[u][k].kind # "none"}
Lines(plans) == [k \in DOMAIN plans |->
  [j \in DOMAIN plans[k].items |-> [id |-> plans[k].items[j].id, name |-> plans[k].items[j].name]]]

\* build_chat_turn_context: the plan as it is, with its fingerprint, or the latest
\* draft that was made for it.
Basis(u) ==
  LET same == {k \in Pending(u) : drafts[u][k].kind = "apply" /\ drafts[u][k].base = CurrentPlans(rows)} IN
  IF same = {} THEN Lines(CurrentPlans(rows)) ELSE drafts[u][Max(same)].plan
ChatContext(c) ==
  /\ pc[c] = "chat"
  /\ IF Writes(Me(c))
     THEN /\ view' = [view EXCEPT ![c] =
               [NoView EXCEPT !.base = CurrentPlans(rows), !.basis = Basis(Me(c))]]
          /\ Goto(c, "propose")
     ELSE Answer(c, "refused") /\ UNCHANGED view
  /\ UNCHANGED <<trip, drafts, thread, cached, tries, built, scenario, left, history>>

\* What the assistant may propose for a plan: a day less, a day more, one thing
\* more, the first thing of the trip on its last day.
New(n) == [id |-> 0, name |-> n]
Proposals(plan) ==
  LET last == Len(plan) IN
  {SubSeq(plan, 1, last - 1) : x \in {1} \cap 1 .. (last - 1)}
  \cup {Append(plan, <<New(n)>>) : n \in IF last < TripDays THEN Spots ELSE {}}
  \cup {[plan EXCEPT ![1] = Append(@, New(n))] : n \in IF last > 0 THEN Spots ELSE {}}
  \cup {[plan EXCEPT ![1] = Tail(@), ![last] = Append(@, plan[1][1])] :
          x \in IF last > 1 /\ plan[1] # <<>> THEN {1} ELSE {}}

PlanDraft(c, p)  == [Spent EXCEPT !.kind = "apply", !.base = view[c].base, !.plan = p]
HotelDraft(c, h) == [Spent EXCEPT !.kind = "hotel", !.base = view[c].base, !.hotel = h]

\* The turn: it answers in words, fails, or proposes; a proposal takes the place
\* of whatever the thread holds (run_confirmation).
Propose(c) ==
  /\ pc[c] = "propose"
  /\ \/ \E a \in {"ok", "broken"} : Answer(c, a)
        /\ Forget(c) /\ UNCHANGED thread
     \/ \E p \in Proposals(view[c].basis) :
          /\ thread' = [Idle EXCEPT !.state = "paused", !.kind = "apply"]
          /\ GotoWith(c, "save", PlanDraft(c, p))
          /\ Forget(c)
     \/ \E h \in Hotels :
          /\ thread' = [Idle EXCEPT !.state = "paused", !.kind = "hotel", !.hotel = h]
          /\ GotoWith(c, "save", HotelDraft(c, h))
          /\ Forget(c)
  /\ UNCHANGED <<trip, drafts, cached, tries, built, scenario, left, history>>

\* finalize_chat_turn: the user's drafts give way to the new one.
SaveTurn(c) ==
  /\ pc[c] = "save"
  /\ drafts' = [drafts EXCEPT ![Me(c)] = Append(SpendAll(Me(c)), op[c])]
  /\ Answer(c, "ok")
  /\ UNCHANGED <<trip, thread, cached, view, tries, built, scenario, left, history>>

\* clear_history
ClearHistory(c) ==
  /\ pc[c] = "clear"
  /\ IF Owns(Me(c))
     THEN drafts' = [drafts EXCEPT ![Me(c)] = SpendAll(Me(c))] /\ Answer(c, "ok")
     ELSE Answer(c, "refused") /\ UNCHANGED drafts
  /\ UNCHANGED <<trip, thread, cached, view, tries, built, scenario, left, history>>

-----------------------------------------------------------------------------
(* Applying a draft. *)

\* require_pending_action: the message has a payload of this kind, is the latest of
\* its user that has one, and the plan is the one it was made for.
\* Variant: without the last condition.
PendingActionAnyBase(u, o) ==
  o.draft \in Pending(u) /\ drafts[u][o.draft].kind = o.kind /\ o.draft = Max(Pending(u))
PendingAction(u, o) ==
  PendingActionAnyBase(u, o) /\ drafts[u][o.draft].base = CurrentPlans(rows)

\* resume_confirmation: a paused thread judges the choice and keeps its verdict, a
\* finished one repeats it, and no thread has none.
Judged(o) ==
  IF thread.state # "paused" THEN thread
  ELSE [thread EXCEPT !.state = "done",
          !.confirmed = thread.kind = o.kind /\ (o.kind = "hotel" => thread.hotel = o.hotel)]
Refused(o) == Judged(o).state = "done" /\ ~Judged(o).confirmed

\* What is checked of the payload after that.
Applicable(u, o) ==
  LET d == drafts[u][o.draft] IN
  IF o.kind = "apply" THEN ValidDraft(rows, d.plan)
  ELSE d.hotel = o.hotel /\ o.nights \subseteq DayNos(rows)

\* The transaction of an apply begins: every check, the verdict, which no rollback
\* takes back, and the version from before, with its eviction.
BeginApply(c) ==
  /\ pc[c] \in {"apply", "hotel"}
  /\ IF Writes(Me(c)) /\ PendingAction(Me(c), op[c])
     THEN /\ thread' = Judged(op[c])
          /\ IF ~Refused(op[c]) /\ Applicable(Me(c), op[c])
             THEN SeeWith(c, drafts[Me(c)][op[c].draft]) /\ EvictDetail(Me(c)) /\ Goto(c, "commit")
             ELSE Answer(c, "refused") /\ UNCHANGED <<view, cached, late, suspect>>
     ELSE Answer(c, "refused") /\ UNCHANGED <<thread, view, cached, late, suspect>>
  /\ UNCHANGED <<trip, drafts, tries, built, scenario, left, crossed, torn, wrote, lapsed, demoted>>

Applied(c) ==
  IF op[c].kind = "apply" THEN ApplyDraft(view[c].rows, view[c].basis)
  ELSE ApplyHotel(view[c].rows, op[c].hotel, op[c].nights)
Applying(c) == pc[c] = "commit" /\ op[c].kind \in {"apply", "hotel"}
\* Both versions are part of the transaction: a number that is taken ends it.
ApplyRaises(c) == NumberTaken(c) \/ FlushRaises(rows, view[c].rows, Applied(c))

CommitApply(c) ==
  /\ Applying(c) /\ ~ApplyRaises(c)
  /\ rows' = Flush(rows, view[c].rows, Applied(c))
  /\ bill' = Bill(Applied(c))
  /\ versions' = Append(WithVersion(c), [parent |-> view[c].top + 1, trip |-> Content(Applied(c))])
  /\ LET draft == drafts[Me(c)][op[c].draft] IN
     drafts' = [drafts EXCEPT ![Me(c)][op[c].draft] = [Spent EXCEPT !.times = draft.times + 1]]
  /\ Committed(c)
  /\ Goto(c, "evict") /\ Forget(c)
  /\ UNCHANGED <<there, role, thread, cached, tries, built, scenario, left, lapsed, demoted, late, suspect>>

FailApply(c) ==
  /\ Applying(c) /\ ApplyRaises(c)
  /\ Answer(c, "broken") /\ Forget(c)
  /\ UNCHANGED <<trip, drafts, thread, cached, tries, built, scenario, left, history>>

-----------------------------------------------------------------------------
(* Members, and the detail at the end of a request. *)

\* update_member_role, remove_member
SetRole(c) ==
  /\ pc[c] = "role"
  /\ LET m == op[c].member IN
     IF Owns(Me(c)) /\ role[m] # "none"
     THEN /\ role' = [role EXCEPT ![m] = op[c].to]
          /\ demoted' = demoted \cup {m}
          /\ Goto(c, "evict")
     ELSE Answer(c, "refused") /\ UNCHANGED <<role, demoted>>
  /\ UNCHANGED <<rows, bill, there, versions, drafts, thread, cached, view, tries, built, scenario, left,
                 crossed, torn, wrote, lapsed, late, suspect>>

\* accept_invitation: whoever is a member stays what he is, nothing is evicted, and a
\* row for the owner himself gives him nothing.
Join(c) ==
  /\ pc[c] = "join"
  /\ \/ /\ there /\ Me(c) # Owner /\ role[Me(c)] = "none"
        /\ role' = [role EXCEPT ![Me(c)] = op[c].to] /\ Answer(c, "ok")
     \/ there /\ Me(c) = Owner /\ Answer(c, "ok") /\ UNCHANGED role
     \/ (there /\ Me(c) # Owner => role[Me(c)] # "none") /\ Answer(c, "refused") /\ UNCHANGED role
  /\ UNCHANGED <<rows, bill, there, versions, drafts, thread, cached, view, tries, built, scenario, left, history>>

\* Whose keys a request evicts: the caller's, or the member's whose role it set.
Subject(c) == IF op[c].kind = "role" THEN op[c].member ELSE Me(c)
Evict(c) ==
  /\ pc[c] \in {"evict", "evictfirst"}
  /\ EvictDetail(Subject(c))
  /\ IF op[c].kind \in {"role", "trash"} THEN Answer(c, "ok")
     ELSE Goto(c, IF pc[c] = "evict" THEN "get" ELSE "renumber")
  /\ UNCHANGED <<trip, drafts, thread, view, tries, built, scenario, left, crossed, torn, wrote, lapsed, demoted>>

\* detail: what is cached is the answer, whoever asks ...
Get(c) ==
  /\ pc[c] \in {"get", "read"}
  /\ IF cached[Me(c)] # Nothing THEN Answer(c, "ok") ELSE Goto(c, "build")
  /\ UNCHANGED <<trip, drafts, thread, cached, view, tries, built, scenario, left, history>>

\* ... else it is built, behind the gate, ...
Build(c) ==
  /\ pc[c] = "build"
  /\ IF Reads(Me(c))
     THEN built' = [built EXCEPT ![c] = Detail(Me(c))] /\ Goto(c, "store")
     ELSE Answer(c, "refused") /\ UNCHANGED built
  /\ late' = late \ {c}
  /\ UNCHANGED <<trip, drafts, thread, cached, view, tries, scenario, left, crossed, torn, wrote, lapsed, demoted, suspect>>

\* ... and stored, although the key may have been evicted since.
Store(c) ==
  /\ pc[c] = "store"
  /\ cached' = [cached EXCEPT ![Me(c)] = built[c]]
  /\ suspect' = IF c \in late THEN suspect \cup {Me(c)} ELSE suspect \ {Me(c)}
  /\ late' = late \ {c}
  /\ built' = [built EXCEPT ![c] = Nothing]
  /\ Answer(c, "ok")
  /\ UNCHANGED <<trip, drafts, thread, view, tries, scenario, left, crossed, torn, wrote, lapsed, demoted>>

-----------------------------------------------------------------------------
Start(c) ==
  /\ pc[c] = "idle" /\ c \in scenario.tabs /\ left > 0
  /\ \E o \in Ops : SendEdit(c, o) \/ SendOther(c, o)
VersionStep(c) == TakeNumber(c) \/ InsertVersion(c) \/ InsertCollides(c) \/ RecordVersion(c)
EditStep(c) ==
  Look(c) \/ BeginEdit(c) \/ CommitEdit(c) \/ FailEdit(c) \/ CommitDelete(c) \/ Restore(c)
ChatStep(c) == ChatContext(c) \/ Propose(c) \/ SaveTurn(c) \/ ClearHistory(c)
ApplyStep(c) == BeginApply(c) \/ CommitApply(c) \/ FailApply(c)
ReadStep(c) == SetRole(c) \/ Join(c) \/ Evict(c) \/ Get(c) \/ Build(c) \/ Store(c)
Next == \E c \in Clients :
  Start(c) \/ VersionStep(c) \/ EditStep(c) \/ ChatStep(c) \/ ApplyStep(c) \/ ReadStep(c)

Init ==
  /\ scenario \in Scenarios /\ left = scenario.requests
  /\ rows \in scenario.rows /\ bill = Bill(rows) /\ there = TRUE
  /\ role \in [Users \ {Owner} -> scenario.roles]
  /\ versions = <<[parent |-> 0, trip |-> Content(rows)]>>
  /\ drafts = [u \in Users |-> <<>>] /\ thread = Idle
  /\ cached = [u \in Users |-> Nothing]
  /\ pc = [c \in Clients |-> "idle"] /\ op = [c \in Clients |-> NoOp]
  /\ view = [c \in Clients |-> NoView] /\ tries = [c \in Clients |-> 0]
  /\ built = [c \in Clients |-> Nothing] /\ answer = [c \in Clients |-> "none"]
  /\ crossed = {} /\ torn = FALSE /\ wrote = {} /\ lapsed = FALSE /\ demoted = {} /\ late = {} /\ suspect = {}

Spec == Init /\ [][Next]_vars

-----------------------------------------------------------------------------
(* Properties. *)

\* Every row, version, draft and request is of its kind.
TypeOK ==
  /\ \A d \in DOMAIN rows.days : rows.days[d].gone \in BOOLEAN /\ d < rows.nextDay
  /\ \A i \in DOMAIN rows.items : rows.items[i].name \in Names /\ i < rows.nextItem
  /\ role \in [Users \ {Owner} -> {"none", "viewer", "editor"}]
  /\ thread.state \in {"none", "paused", "done"}
  /\ \A u \in Users : \A k \in DOMAIN drafts[u] : drafts[u][k].kind \in {"none", "apply", "hotel"}
  /\ tries \in [Clients -> 0 .. SnapshotTries - 1]
  /\ answer \in [Clients -> {"none", "ok", "refused", "broken"}]

\* A request that ends in an error has left the trip as it was, unless its user has
\* lost the trip meanwhile (record_snapshot_or_log: no error after the write, lest the
\* user repeat it).
ErrorsChangeNothing ==
  \A c \in Clients : answer[c] \in {"refused", "broken"} /\ pc[c] = "idle" /\ c \in wrote =>
    ~there \/ Me(c) \in demoted

\* Unless two edits have crossed, the rows are in order and the budget is theirs.
TidyUnlessCrossed == there /\ ~torn => Tidy(rows) /\ bill = Bill(rows)

\* Unless two edits have crossed, what an edit or a draft replaces is in the history,
\* from where restore brings it back (create_snapshot before the change); what a restore
\* replaces is there too, unless the version of an earlier change is still due or was
\* given up (record_snapshot_or_log).
InHistory(t) == \E k \in DOMAIN versions' : versions'[k].trip = Content(t)
Replaced == rows' # rows /\ Content(rows') # Content(rows) /\ ~torn'
Restoring == \E c \in Clients : pc[c] = "restore" /\ pc'[c] # "restore"
Outstanding == lapsed \/ \E c \in Clients : pc[c] \in {"renumber", "reinsert", "evictfirst"}
EditsUndoable == [][Replaced /\ ~Restoring => InHistory(rows)]_vars
Undoable == EditsUndoable /\ [][Replaced /\ Restoring /\ ~Outstanding => InHistory(rows)]_vars

\* A cached detail is what its reader would be shown now, unless an eviction of it is
\* due or a fill has outlived one (evict_detail, for the owner and every member).
Due(u) == \E c \in Clients :
  /\ pc[c] \in {"renumber", "reinsert", "evict", "evictfirst"}
  /\ u \in IF op[c].kind = "role" THEN {Subject(c)} ELSE Readers(Me(c))
CacheFresh ==
  \A u \in Users : cached[u] # Nothing /\ ~Due(u) /\ u \notin suspect =>
    Reads(u) /\ cached[u] = Detail(u)

\* A draft is applied once, also from two tabs at the same time, and to the plan it was
\* made for (consume_pending_action; invalidate_pending_actions: an old plan is not
\* applied to a trip that was changed), unless an edit crossed it.
AppliedToItsBase ==
  [][ /\ \A u \in Users : \A k \in DOMAIN drafts'[u] : drafts'[u][k].times <= 1
      /\ \A c \in Clients \ (wrote \cup crossed) :
           Applying(c) /\ c \in wrote' => view[c].base = CurrentPlans(rows) ]_vars

\* A valid draft that nothing crossed can be applied, whatever was applied before
\* (the tests apply a draft that is longer than the trip).
AcceptedDraftApplies ==
  [][ \A c \in Clients :
        Applying(c) /\ answer'[c] = "broken" => c \in crossed \/ NumberTaken(c) ]_vars
=============================================================================
