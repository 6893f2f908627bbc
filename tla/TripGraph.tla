------------------------------ MODULE TripGraph ------------------------------
(***************************************************************************)
(* The graph that writes a plan (unified_agent_graph): one request, in one *)
(* of three modes.                                                         *)
(*                                                                         *)
(*   day     dispatch, day_generate <-> day.reflect/retry/fallback         *)
(*   trip    dispatch, parse, research, generate <-> reflect/refill, format*)
(*   stream  dispatch, stream_generate: the days go to the client as they  *)
(*           are written                                                   *)
(*                                                                         *)
(* The checkpoint follows the run asynchronously; a process may die        *)
(* between two steps, and the recovery takes a day's run up from what was  *)
(* saved.  What becomes of a day the model has written is in Landing.      *)
(***************************************************************************)
EXTENDS Landing

CONSTANTS
  Requests,        \* [mode, days, budget, llm, found, answers, trips]: the cases of a run
  MaxDayAttempts, MaxGenerations, MaxFixes, MaxRefills,
  MaxDeaths        \* bound: processes that die in a behaviour

\* What a request brings along: a model's item has every field, and every name the sources
\* may be asked for is one they have an answer for.
Fields == {"name", "type", "ref", "from", "to", "open", "cost", "at", "by"}
IsItem(item) == Fields \subseteq DOMAIN item /\ item.name \in DOMAIN Listed \cup {""}
IsList(s) == s \in Seq({s[i] : i \in DOMAIN s})
IsPlan(items) == IsList(items) /\ \A i \in DOMAIN items : IsItem(items[i])
ASSUME TripGraphAssumption ==
  /\ "" \notin DOMAIN Listed
  /\ IsList(Rows) /\ \A i \in DOMAIN Rows : Rows[i].name \in DOMAIN Listed
  /\ \A r \in Requests :
       /\ r.mode \in {"day", "trip", "stream"} /\ r.days \in Nat \ {0} /\ r.found \in 0 .. Len(Rows)
       /\ \A items \in r.answers : IsPlan(items)
       /\ \A trip \in r.trips : /\ IsList(trip)
                                \* the days of an answer and their plans
                                /\ \A i \in DOMAIN trip : trip[i].day \in Nat /\ IsPlan(trip[i].items)

VARIABLES
  req,     \* the request
  run,     \* "idle", "running", "dead", "over", "failed" (an exception left the graph)
  node,    \* the node to run next
  st,      \* UnifiedAgentState
  saved,   \* the checkpoint of the thread: [node, st], or <<>>
  draft,   \* the locals of generate_open_plans
  world,   \* what the sources have said, and what asking has cost
  wire,    \* the stream: the days sent, the client's copy of each, the end
  deaths   \* processes that died

vars == <<req, run, node, st, saved, draft, world, wire, deaths>>

Found(n) == SubSeq(Rows, 1, n)
AnyItems(plans) == \E d \in DOMAIN plans : plans[d] # <<>>
NoDraft == [phase |-> "none", day |-> 0, byDay |-> <<>>, plans |-> <<>>, errors |-> FALSE,
            seen |-> NothingSeen]
EmptyPlans(days) == [d \in 1 .. days |-> <<>>]

\* empty_trip_state, empty_day_state
Unset == ""
Fresh(r) == [plans |-> <<>>, issues |-> {}, feedback |-> FALSE, asked |-> FALSE, attempts |-> 0,
             force |-> FALSE, error |-> FALSE, fixes |-> 0, refills |-> 0, found |-> r.found,
             dest |-> Unset, quality |-> Unset]

Init ==
  /\ req \in Requests
  /\ run = "idle" /\ node = "dispatch" /\ st = Fresh(req)
  /\ saved = <<>> /\ draft = NoDraft
  /\ world = [memo |-> [n \in DOMAIN Listed |-> "open"], checks |-> 0]
  /\ wire = [sent |-> <<>>, view |-> EmptyPlans(req.days), done |-> "no", cancel |-> FALSE]
  /\ deaths = 0

At(n) == run = "running" /\ node = n
Goto(n) == node' = n

-----------------------------------------------------------------------------
(* The run and its checkpoint. *)

Start ==
  /\ run = "idle" /\ run' = "running"
  /\ saved' = <<[node |-> "dispatch", st |-> st]>>
  /\ UNCHANGED <<req, node, st, draft, world, wire, deaths>>

Dispatch ==
  /\ At("dispatch")
  /\ \/ /\ req.mode = "stream" /\ ~req.llm /\ run' = "failed" /\ UNCHANGED node
     \/ /\ req.mode = "stream" => req.llm
        /\ Goto(CASE req.mode = "day" -> "day_generate" [] req.mode = "stream" -> "stream_generate"
                  [] OTHER -> "parse")
        /\ UNCHANGED run
  /\ UNCHANGED <<req, st, saved, draft, world, wire, deaths>>

\* The saver writes behind the run; invoke returns when it has caught up.
Save ==
  /\ run = "running" /\ saved # <<[node |-> node, st |-> st]>>
  /\ req.mode = "day" \/ node = "END"
  /\ saved' = <<[node |-> node, st |-> st]>>
  /\ UNCHANGED <<req, run, node, st, draft, world, wire, deaths>>

ReturnEarly ==
  /\ At("END") /\ run' = "over"
  /\ UNCHANGED <<req, node, st, saved, draft, world, wire, deaths>>
Return ==
  /\ At("END") /\ saved = <<[node |-> node, st |-> st]>>
  /\ run' = "over"
  /\ UNCHANGED <<req, node, st, saved, draft, world, wire, deaths>>

\* Only a day's thread has a name that the recovery can find again.
Die ==
  /\ run = "running" /\ req.mode = "day" /\ deaths < MaxDeaths
  /\ run' = "dead" /\ deaths' = deaths + 1
  /\ UNCHANGED <<req, node, st, saved, draft, world, wire>>

\* resume_run in a new process: nothing remembered, nothing spent.
Resume ==
  /\ run = "dead" /\ run' = "running"
  /\ node' = saved[1].node /\ st' = saved[1].st
  /\ world' = [memo |-> [n \in DOMAIN Listed |-> "open"], checks |-> 0]
  /\ UNCHANGED <<req, saved, draft, wire, deaths>>

-----------------------------------------------------------------------------
(* mode = day. *)

\* llm_open_day: the items of an answer that can be parsed, at the first or the
\* repaired try; anything else raises.
Raised == [ok |-> FALSE, items |-> <<>>]
DayWriting ==
  {Raised} \cup {a \in {[ok |-> TRUE, items |-> items] : items \in req.answers} : req.llm}

DayGenerate ==
  /\ At("day_generate") /\ Goto("day.reflect")
  /\ LET tried == [st EXCEPT !.asked = @ \/ st.feedback, !.attempts = @ + 1]
     IN \E a \in DayWriting :
          IF ~a.ok THEN st' = [tried EXCEPT !.plans = <<>>, !.error = TRUE] /\ UNCHANGED world
          ELSE \E day \in {LandAlone(Found(st.found), a.items, world)} :
               /\ st' = [tried EXCEPT !.plans = <<day.kept>>, !.error = FALSE]
               /\ world' = day.w
  /\ UNCHANGED <<req, run, saved, draft, wire, deaths>>

DayIssuesNow == IF st.plans = <<>> THEN {"failed"} ELSE Issues(st.plans, req.budget)
DayAttempts == IF req.days > 1 THEN 1 ELSE MaxDayAttempts

DayReflect ==
  /\ At("day.reflect")
  /\ LET issues == DayIssuesNow IN
     /\ st' = [st EXCEPT !.issues = issues, !.feedback = issues # {}]
     /\ Goto(IF issues = {} \/ st.force THEN "END"
             ELSE IF st.attempts < DayAttempts THEN "day.retry" ELSE "day.fallback")
  /\ UNCHANGED <<req, run, saved, draft, world, wire, deaths>>

DayRetryResets ==
  /\ At("day.retry") /\ Goto("day_generate")
  /\ st' = [st EXCEPT !.force = FALSE, !.attempts = 0]
  /\ UNCHANGED <<req, run, saved, draft, world, wire, deaths>>
DayRetry ==
  /\ At("day.retry") /\ Goto("day_generate")
  /\ st' = [st EXCEPT !.force = FALSE]
  /\ UNCHANGED <<req, run, saved, draft, world, wire, deaths>>

\* The feedback of the state is cleared, that of the request is not.
DayFallback ==
  /\ At("day.fallback") /\ Goto("day_generate")
  /\ st' = [st EXCEPT !.force = TRUE, !.feedback = FALSE]
  /\ UNCHANGED <<req, run, saved, draft, world, wire, deaths>>

-----------------------------------------------------------------------------
(* generate_open_plans, in modes trip and stream: the model writes the whole *)
(* trip, then each day it has left out; every day lands at its turn.         *)

Drafting == At("generate") \/ At("stream_generate")
DraftAt(phase) == Drafting /\ draft.phase = phase

\* The first plan of a day number counts.
FirstOf(trip, d) ==
  LET hits == {i \in DOMAIN trip : trip[i].day = d}
  IN trip[Min(hits)].items
Covered(trip) == {trip[i].day : i \in DOMAIN trip}

BeginDraft ==
  [NoDraft EXCEPT !.phase = IF req.days > 1 THEN "trip" ELSE "days", !.day = 1]

\* llm_open_trip: the days of an answer, or an exception.
TripWriting == {[ok |-> TRUE, days |-> trip] : trip \in req.trips} \cup {[ok |-> FALSE, days |-> <<>>]}
DraftTrip ==
  /\ DraftAt("trip")
  /\ \E a \in TripWriting :
       draft' = [draft EXCEPT !.phase = "days", !.byDay = a.days, !.errors = ~a.ok]
  /\ UNCHANGED <<req, run, node, st, saved, world, wire, deaths>>

\* on_day: an empty day is skipped, a cancelled stream stops, and a plan the
\* contract refuses raises after its number was noted.
OnDay(d, items, next) ==
  LET noted == [wire EXCEPT !.sent = Append(@, d)] IN
  IF req.mode # "stream" \/ items = <<>> THEN draft' = next /\ UNCHANGED wire
  ELSE IF wire.cancel THEN draft' = [next EXCEPT !.phase = "cancelled"] /\ UNCHANGED wire
  ELSE IF \E i \in DOMAIN items : ~KnownType(items[i].type)
       THEN draft' = [next EXCEPT !.phase = "failed"] /\ wire' = noted
       ELSE draft' = next /\ wire' = [noted EXCEPT !.view[d] = items]

\* The day of the trip's answer, or one asked for on its own.
Written ==
  IF draft.day \in Covered(draft.byDay)
  THEN {[ok |-> TRUE, items |-> FirstOf(draft.byDay, draft.day)]} ELSE DayWriting
DraftDay ==
  /\ DraftAt("days") /\ draft.day <= req.days
  /\ \E a \in Written : \E day \in {LandDay(Found(st.found), a.items, draft.seen, world)} :
       /\ world' = day.w
       /\ OnDay(draft.day, day.kept, [draft EXCEPT !.day = @ + 1, !.plans = Append(@, day.kept),
                                                   !.seen = day.seen, !.errors = @ \/ ~a.ok])
  /\ UNCHANGED <<req, run, node, st, saved, deaths>>

\* _postprocess_drafts: the hotel of the trip for the other nights (the days the
\* client has are sent again), then the prices the model has left at 0.
PatchedNever(grown) == {}
Patched(grown) == {d \in grown : Contains(wire.sent, d)}
DraftEnd ==
  /\ DraftAt("days") /\ draft.day > req.days
  /\ IF draft.errors /\ ~AnyItems(draft.plans)
     THEN draft' = [draft EXCEPT !.phase = "failed"] /\ UNCHANGED wire
     ELSE LET spread == Spread(draft.plans)
              grown == {d \in DOMAIN spread : spread[d] # draft.plans[d]}
              patched == Patched(grown)
          IN IF req.mode = "stream" /\ \E d \in patched : \E i \in DOMAIN spread[d] :
                                         ~KnownType(spread[d][i].type)
             THEN draft' = [draft EXCEPT !.phase = "failed"] /\ UNCHANGED wire
             ELSE /\ draft' = [draft EXCEPT !.phase = "ready",
                                            !.plans = FillCosts(Found(st.found), spread)]
                  /\ wire' = [wire EXCEPT !.view = [d \in DOMAIN @ |->
                                                      IF d \in patched THEN spread[d] ELSE @[d]]]
  /\ UNCHANGED <<req, run, node, st, saved, world, deaths>>

-----------------------------------------------------------------------------
(* mode = trip. *)

Parse ==
  /\ At("parse") /\ Goto("research")
  /\ UNCHANGED <<req, run, st, saved, draft, world, wire, deaths>>

\* Each domain may come back empty: what is found is a part of what there is.
Research ==
  /\ At("research") /\ Goto("generate")
  /\ \E n \in 0 .. req.found : st' = [st EXCEPT !.found = n]
  /\ UNCHANGED <<req, run, saved, draft, world, wire, deaths>>

\* draft_state: an empty plan that says so.
DraftOnly(s) == [s EXCEPT !.plans = EmptyPlans(req.days), !.error = FALSE, !.dest = "draft_only"]

GenerateCall ==
  /\ At("generate") /\ draft.phase = "none"
  /\ IF req.llm /\ st.attempts < MaxGenerations
     THEN draft' = BeginDraft /\ UNCHANGED <<node, st>>
     ELSE Goto("reflect") /\ st' = DraftOnly(st) /\ UNCHANGED draft
  /\ UNCHANGED <<req, run, saved, world, wire, deaths>>

GenerateDone ==
  /\ At("generate") /\ draft.phase \in {"ready", "failed"}
  /\ draft' = NoDraft /\ Goto("reflect")
  /\ st' = IF draft.phase = "ready"
           THEN [st EXCEPT !.plans = draft.plans, !.error = FALSE,
                           !.dest = IF ~draft.errors /\ st.found > 0 THEN "researched"
                                    ELSE "draft_only"]
           ELSE IF st.attempts + 1 >= MaxGenerations THEN DraftOnly(st)
                ELSE [st EXCEPT !.error = TRUE, !.attempts = @ + 1]
  /\ UNCHANGED <<req, run, saved, world, wire, deaths>>

\* reflect and needs_fix
FixLimit == IF req.days > 1 THEN 1 ELSE MaxFixes
NextNode(s) ==
  IF s.error /\ s.attempts < MaxGenerations THEN "generate"
  ELSE IF s.issues # {} /\ s.fixes <= FixLimit
       THEN IF "no sight" \in s.issues /\ s.refills < MaxRefills THEN "refill_research" ELSE "generate"
       ELSE "format"
Reflect ==
  /\ At("reflect")
  /\ LET issues == IF st.error THEN {} ELSE Issues(st.plans, req.budget)
         judged == [st EXCEPT !.issues = issues,
                              !.feedback = IF st.error THEN @ ELSE issues # {},
                              !.fixes = IF issues = {} THEN @ ELSE @ + 1]
     IN st' = judged /\ Goto(NextNode(judged))
  /\ UNCHANGED <<req, run, saved, draft, world, wire, deaths>>

Refill ==
  /\ At("refill_research") /\ Goto("generate")
  /\ \E n \in st.found .. req.found : st' = [st EXCEPT !.found = n, !.refills = @ + 1]
  /\ UNCHANGED <<req, run, saved, draft, world, wire, deaths>>

\* format_output: types and facts once more, the live prices, the season,
\* the limit of a meal, and the rules once more on what comes out; judge_output.
Priced(item) == MealPriced(Quoted("food", InSeason(Quoted("hotel", item))))
Assembled(items) ==
  LET clean == Sanitized(items)
  IN [i \in DOMAIN clean |-> Priced(Facts(Found(st.found), clean[i]))]
HasSight(plans) == \E d \in DOMAIN plans : OfType(plans[d], "attraction") # {}
JudgeEarlier(plans) ==
  IF ~AnyItems(plans) THEN "failed"
  ELSE IF st.issues # {} \/ \E d \in DOMAIN plans : plans[d] = <<>> THEN "blocked" ELSE "ready"
FinalIssues(plans) == Issues(plans, req.budget)
Judge(plans) ==
  IF ~AnyItems(plans) THEN "failed"
  ELSE IF FinalIssues(plans) # {} \/ ~HasSight(plans) \/ \E d \in DOMAIN plans : plans[d] = <<>>
       THEN "blocked" ELSE "ready"
Format ==
  /\ At("format") /\ Goto("END")
  /\ LET plans == [d \in DOMAIN st.plans |-> Assembled(st.plans[d])]
     IN st' = [st EXCEPT !.plans = plans, !.quality = Judge(plans)]
  /\ UNCHANGED <<req, run, saved, draft, world, wire, deaths>>

-----------------------------------------------------------------------------
(* mode = stream. *)

StreamCall ==
  /\ At("stream_generate") /\ draft.phase = "none"
  /\ draft' = BeginDraft
  /\ UNCHANGED <<req, run, node, st, saved, world, wire, deaths>>

\* The consumer has gone; the producer looks when it next hands something over.
Cancel ==
  /\ run = "running" /\ req.mode = "stream" /\ ~wire.cancel /\ wire.done = "no"
  /\ wire' = [wire EXCEPT !.cancel = TRUE]
  /\ UNCHANGED <<req, run, node, st, saved, draft, world, deaths>>

StreamCancelled ==
  /\ At("stream_generate") /\ draft.phase \in {"ready", "failed", "cancelled"} /\ wire.cancel
  /\ draft' = NoDraft /\ Goto("END")
  /\ UNCHANGED <<req, run, st, saved, world, wire, deaths>>

\* The second look, before the suggestions, is outside the try.
StreamLook ==
  /\ At("stream_generate") /\ draft.phase \in {"ready", "failed"} /\ ~wire.cancel
  /\ draft' = [draft EXCEPT !.phase = IF @ = "ready" THEN "suggest" ELSE "report"]
  /\ UNCHANGED <<req, run, node, st, saved, world, wire, deaths>>
StreamRaises ==
  /\ At("stream_generate") /\ draft.phase \in {"suggest", "report"} /\ wire.cancel
  /\ draft' = NoDraft /\ run' = "failed"
  /\ UNCHANGED <<req, node, st, saved, world, wire, deaths>>

\* suggestions and done: the days noted are counted against the days asked for.
StreamDone ==
  /\ At("stream_generate") /\ draft.phase \in {"suggest", "report"}
  /\ wire' = [wire EXCEPT !.done = IF Len(wire.sent) = req.days THEN "complete" ELSE "partial"]
  /\ st' = IF draft.phase = "suggest" THEN [st EXCEPT !.plans = draft.plans] ELSE st
  /\ draft' = NoDraft /\ Goto("END")
  /\ UNCHANGED <<req, run, saved, world, deaths>>

-----------------------------------------------------------------------------
Work ==
  \/ Start \/ Dispatch \/ Save \/ Return \/ Resume
  \/ DayGenerate \/ DayReflect \/ DayRetry \/ DayFallback
  \/ DraftTrip \/ DraftDay \/ DraftEnd
  \/ Parse \/ Research \/ GenerateCall \/ GenerateDone \/ Reflect \/ Refill \/ Format
  \/ StreamCall \/ StreamCancelled \/ StreamLook \/ StreamRaises \/ StreamDone
Finished == run \in {"over", "failed"} /\ UNCHANGED vars
Next == Work \/ Die \/ Cancel \/ Finished

Spec == Init /\ [][Next]_vars
\* A run that has been started goes on: its steps are calls that return or raise.
\* (Weak fairness of Work, with its enabling condition spelled out: TLC finds no
\* deadlock, so a run that is not finished can always work.)
Working == run \in {"idle", "running", "dead"}
FairSpec == Spec /\ (<>[]Working => []<><<Work>>_vars)

-----------------------------------------------------------------------------
\* Type invariant.
TypeOK ==
  /\ run \in {"idle", "running", "dead", "over", "failed"}
  /\ node \in {"dispatch", "parse", "research", "generate", "reflect", "refill_research", "format", "END",
              "day_generate", "day.reflect", "day.retry", "day.fallback", "stream_generate"}
  /\ draft.phase \in {"none", "trip", "days", "ready", "failed", "cancelled", "suggest", "report"}
  /\ Len(st.plans) \in {0, 1, req.days} /\ Len(wire.view) = req.days
  /\ st.found \in 0 .. Len(Rows) /\ Len(saved) <= 1
  /\ world.checks \in 0 .. MaxChecks
  /\ wire.done \in {"no", "complete", "partial"}

\* A place an authoritative source has denied is in no plan, unless a row the service
\* has a ticket for vouches for it: not in a repaired plan, a spread hotel or a day
\* taken up by the next process (drop_refuted_items, resolve_poi).
Refuted(item) == item.type # "transport" /\ item.by # "source" /\ world.memo[item.name] = "absent"
RefutedOut ==
  /\ \A d \in DOMAIN st.plans : \A i \in DOMAIN st.plans[d] : ~Refuted(st.plans[d][i])
  /\ \A d \in DOMAIN draft.plans : \A i \in DOMAIN draft.plans[d] : ~Refuted(draft.plans[d][i])

\* When the stream ends with a plan, the client's copy of every day it was sent shows
\* the same places at the same times as the plan, the hotel added later included, and
\* it has nothing of the other days (on_day, on_patch; prices may differ).
Shape(items) == [i \in DOMAIN items |-> <<items[i].name, items[i].type, items[i].from, items[i].to>>]
StreamShowsTrip ==
  (wire.done # "no" /\ st.plans # <<>>) =>
     \A d \in 1 .. req.days :
        IF Contains(wire.sent, d) THEN Shape(wire.view[d]) = Shape(st.plans[d])
        ELSE wire.view[d] = <<>>

\* A trip is only called ready if the plan that is handed out, with its final types,
\* facts and prices, has something for every day and breaks no rule: what reflect
\* has seen earlier does not count (run_final_validation, judge_output).
ReadyIsClean ==
  st.quality = "ready" => /\ Issues(st.plans, req.budget) = {}
                          /\ \A d \in 1 .. req.days : st.plans[d] # <<>>

\* Every run that is started comes to an end, whatever the model answers, raises or
\* leaves out.
Ends == run = "running" ~> run \in {"over", "failed"}

\* A day's run is the run that the planner and the recovery rely on.
Outcome(s) == IF s.plans = <<>> THEN "noplan"
              ELSE IF s.plans[1] = <<>> \/ DayIssues(s.plans[1]) \cap {"no sight", "too thin"} # {}
                   THEN "sparse" ELSE "plan"
CkptOf(thread) == IF thread = <<>> THEN "none"
                  ELSE IF thread[1].node = "END" THEN Outcome(thread[1].st) ELSE "open"
IsDay == req.mode = "day"
Abs == INSTANCE GraphRun WITH
  Outcomes <- {"plan", "sparse", "noplan"},
  phase  <- IF IsDay THEN run ELSE "idle",
  ckpt   <- IF IsDay THEN CkptOf(saved) ELSE "none",
  answer <- IF IsDay /\ run = "over" THEN Outcome(st) ELSE "none"
RunRefines == Abs!AbsSpec /\ Abs!AbsAnswers
=============================================================================
