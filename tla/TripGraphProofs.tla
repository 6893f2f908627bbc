--------------------------- MODULE TripGraphProofs ---------------------------
(***************************************************************************)
(* Proofs about TripGraph, for any requests, rows, sources and bounds: the *)
(* run of a day's graph is, step by step, the run that the planner and the *)
(* recovery rely on (GraphRun).  The checkpoint is written behind the run, *)
(* by a step of its own, and a run may die at any point; what makes the    *)
(* mapping hold is RunInv: a checkpoint is there from the first step on,   *)
(* and one that names the end is the state the run ended in, since nothing *)
(* moves a run that has come to END.                                       *)
(***************************************************************************)
EXTENDS TripGraph, TLAPS

DayNodes == {"dispatch", "day_generate", "day.reflect", "day.retry", "day.fallback", "END"}
RunInv ==
  IsDay =>
    /\ run \in {"idle", "running", "dead", "over"}
    /\ node \in DayNodes
    /\ run = "idle" => saved = <<>> /\ node = "dispatch"
    /\ run # "idle" => /\ saved = <<[node |-> saved[1].node, st |-> saved[1].st]>>
                       /\ saved[1].node \in DayNodes
                       /\ saved[1].node = "END" => saved = <<[node |-> node, st |-> st]>>

\* What a step of a day's run does to its checkpoint: the nodes move the run alone, the
\* saver writes where the run is, the rest starts, ends or takes up the run.
NodeStep ==
  /\ run = "running" /\ node # "END" /\ UNCHANGED <<run, saved>>
  /\ node' \in DayNodes
DaySteps == NodeStep \/ Start \/ Save \/ Return \/ Die \/ Resume \/ UNCHANGED vars

\* Nothing else happens to a day's run: the other nodes belong to the other modes.
LEMMA DayMoves ==
  ASSUME IsDay, RunInv, [Next]_vars
  PROVE  DaySteps /\ UNCHANGED req
<1> USE DEF IsDay, RunInv, DaySteps, NodeStep, DayNodes, At, Goto
<1>1. CASE Start \/ Save \/ Return \/ Die \/ Resume \/ UNCHANGED vars
  BY <1>1 DEF Start, Save, Return, Die, Resume, vars
<1>2. CASE Dispatch
  BY <1>2 DEF Dispatch
<1>3. CASE DayGenerate \/ DayReflect \/ DayRetry \/ DayFallback
  BY <1>3 DEF DayGenerate, DayReflect, DayRetry, DayFallback
<1>4. CASE DraftTrip \/ DraftDay \/ DraftEnd
  BY <1>4 DEF DraftTrip, DraftDay, DraftEnd, DraftAt, Drafting
<1>5. CASE Parse \/ Research \/ GenerateCall \/ GenerateDone \/ Reflect \/ Refill \/ Format
  BY <1>5 DEF Parse, Research, GenerateCall, GenerateDone, Reflect, Refill, Format
<1>6. CASE StreamCall \/ StreamCancelled \/ StreamLook \/ StreamRaises \/ StreamDone \/ Cancel
  BY <1>6 DEF StreamCall, StreamCancelled, StreamLook, StreamRaises, StreamDone, Cancel
<1>7. CASE Finished
  BY <1>7 DEF Finished, vars
<1> QED
  BY <1>1, <1>2, <1>3, <1>4, <1>5, <1>6, <1>7 DEF Next, Work

\* Every step keeps RunInv.
LEMMA RunInvStep == RunInv /\ [Next]_vars => RunInv'
<1> SUFFICES ASSUME RunInv, [Next]_vars, IsDay' PROVE RunInv'
  BY DEF RunInv
<1>1. IsDay
  <2>1. UNCHANGED req
    BY DEF Next, Work, Finished, Start, Dispatch, Save, Return, Die, Resume, DayGenerate, DayReflect,
       DayRetry, DayFallback, DraftTrip, DraftDay, DraftEnd, Parse, Research, GenerateCall,
       GenerateDone, Reflect, Refill, Format, StreamCall, StreamCancelled, StreamLook,
       StreamRaises, StreamDone, Cancel, vars
  <2> QED
    BY <2>1 DEF IsDay
<1>2. DaySteps /\ UNCHANGED req
  BY <1>1, DayMoves
<1> USE DEF RunInv
<1>3. CASE NodeStep
  BY <1>1, <1>3 DEF NodeStep
<1>4. CASE Start
  BY <1>1, <1>4 DEF Start, DayNodes
<1>5. CASE Save
  BY <1>1, <1>5 DEF Save
<1>6. CASE Return \/ Die
  BY <1>1, <1>6 DEF Return, Die, At
<1>7. CASE Resume
  BY <1>1, <1>7 DEF Resume
<1>8. CASE UNCHANGED vars
  BY <1>1, <1>8 DEF vars
<1> QED
  BY <1>2, <1>3, <1>4, <1>5, <1>6, <1>7, <1>8 DEF DaySteps

\* A run ends in one of the three ways the recovery knows.
LEMMA OutcomeKinds == \A s : Outcome(s) \in {"plan", "sparse", "noplan"}
  BY DEF Outcome

\* Every step of the graph is a step of the abstract run, or leaves it as it is.
LEMMA StepMaps == RunInv /\ RunInv' /\ [Next]_vars => [Abs!AbsNext]_(Abs!absVars)
<1> SUFFICES ASSUME RunInv, RunInv', [Next]_vars PROVE Abs!AbsNext \/ UNCHANGED Abs!absVars
  OBVIOUS
<1>0. UNCHANGED req
  BY DEF Next, Work, Finished, Start, Dispatch, Save, Return, Die, Resume, DayGenerate, DayReflect,
     DayRetry, DayFallback, DraftTrip, DraftDay, DraftEnd, Parse, Research, GenerateCall,
     GenerateDone, Reflect, Refill, Format, StreamCall, StreamCancelled, StreamLook,
     StreamRaises, StreamDone, Cancel, vars
<1>1. CASE ~IsDay
  BY <1>0, <1>1 DEF IsDay, Abs!absVars
<1>2. CASE IsDay
  <2>0. IsDay' /\ DaySteps
    BY <1>0, <1>2, DayMoves DEF IsDay
  <2> USE <1>2, <2>0
  <2>1. CASE NodeStep
    BY <2>1 DEF NodeStep, RunInv, Abs!absVars
  <2>2. CASE Start
    BY <2>2 DEF Start, RunInv, CkptOf, Abs!AbsNext, Abs!Begin
  <2>3. CASE Save
    <3>1. /\ run = "running" /\ run' = run
          /\ saved # <<>> /\ saved[1].node # "END" /\ saved' = <<[node |-> node, st |-> st]>>
      BY <2>3 DEF Save, RunInv
    <3>2. CASE node = "END"
      BY <3>1, <3>2, OutcomeKinds DEF CkptOf, Abs!AbsNext, Abs!Settle
    <3>3. CASE node # "END"
      BY <3>1, <3>3 DEF CkptOf, Abs!absVars
    <3> QED
      BY <3>2, <3>3
  <2>4. CASE Return
    BY <2>4, OutcomeKinds DEF Return, At, RunInv, CkptOf, Abs!AbsNext, Abs!Return
  <2>5. CASE Die
    BY <2>5 DEF Die, Abs!AbsNext, Abs!Die
  <2>6. CASE Resume
    BY <2>6 DEF Resume, Abs!AbsNext, Abs!Revive
  <2>7. CASE UNCHANGED vars
    BY <2>7 DEF vars, Abs!absVars
  <2> QED
    BY <2>0, <2>1, <2>2, <2>3, <2>4, <2>5, <2>6, <2>7 DEF DaySteps
<1> QED
  BY <1>1, <1>2

\* The run of a day's graph keeps what the planner and the recovery rely on: a checkpoint
\* from the first step on, an outcome once left stays and is what the run returns, and a
\* run whose process died goes on from there (the safety half of RunRefines).
THEOREM RunImplements == Spec => Abs!AbsSpec
<1>1. Init => RunInv
  BY DEF Init, RunInv, DayNodes
<1>2. Init => Abs!AbsInit
  BY DEF Init, Abs!AbsInit, CkptOf
<1> QED
  BY <1>1, <1>2, RunInvStep, StepMaps, PTL DEF Spec, Abs!AbsSpec

-----------------------------------------------------------------------------
\* What a plan is made of: items with a name the sources can be asked for.
IsPoi(item) == Fields \subseteq DOMAIN item /\ item.name \in DOMAIN Listed
Pois(items) == IsList(items) /\ \A i \in DOMAIN items : IsPoi(items[i])
Trip(plans) == IsList(plans) /\ \A d \in DOMAIN plans : Pois(plans[d])

\* A name no source will deny any more: one has confirmed it, or asking costs more than is
\* left before anybody who may refute it has said no.  Nothing that is asked later, for
\* this name or another, changes that.
WorldOK(w) ==
  /\ w.memo \in [DOMAIN Listed -> {"open", "here", "absent"}]
  /\ w.checks \in 0 .. MaxChecks
Cleared(n, w) ==
  \/ w.memo[n] = "here"
  \/ /\ w.memo[n] = "open"
     /\ \A c \in w.checks .. MaxChecks : RunProviders(n, c).verdict # "absent"
Sound(item, w) == item.type = "transport" \/ item.by = "source" \/ Cleared(item.name, w)
SoundDay(items, w) == \A i \in DOMAIN items : Sound(items[i], w)
SoundTrip(plans, w) == \A d \in DOMAIN plans : SoundDay(plans[d], w)

\* A day's run: it may lose what was remembered, so its plan is only as sound as the memo of
\* the day.
Undenied(items, w) ==
  \A i \in DOMAIN items :
    items[i].type = "transport" \/ items[i].by = "source" \/ w.memo[items[i].name] # "absent"
IsState(s) ==
  /\ {"plans", "issues", "feedback", "asked", "attempts", "force", "error", "fixes", "refills", "found",
      "dest", "quality"} \subseteq DOMAIN s
  /\ s.found \in 0 .. Len(Rows) /\ Trip(s.plans)
DayInv ==
  /\ draft = NoDraft /\ st.quality = Unset /\ wire.done = "no"
  /\ saved # <<>> => IsState(saved[1].st) /\ saved[1].st.quality = Unset
  /\ \A d \in DOMAIN st.plans : Undenied(st.plans[d], world)

\* The draft: one plan for every day it has come past.
IsDraft(dr, r, w) ==
  /\ {"phase", "day", "byDay", "plans", "errors", "seen"} \subseteq DOMAIN dr
  /\ Trip(dr.plans) /\ SoundTrip(dr.plans, w)
  /\ dr.phase \in {"none", "trip"} => dr.plans = <<>> /\ dr.byDay = <<>>
  /\ dr.phase = "trip" => dr.day = 1
  /\ dr.phase = "days" =>
       /\ dr.day \in 1 .. r.days + 1 /\ Len(dr.plans) = dr.day - 1
       /\ dr.byDay = <<>> \/ dr.byDay \in r.trips
  /\ dr.phase \in {"ready", "suggest"} => Len(dr.plans) = r.days

\* A request for a whole trip: its plan has all its days or none.
TripInv ==
  /\ node \in {"dispatch", "parse", "research", "generate", "reflect", "refill_research", "format", "END"}
  /\ SoundTrip(st.plans, world)
  /\ st.plans = <<>> \/ Len(st.plans) = req.days
  /\ node # "END" => st.quality = Unset
  /\ {"done", "view"} \subseteq DOMAIN wire /\ wire.done = "no" /\ ReadyIsClean

\* A stream: what the client has of the days it was sent is what the draft has.
Shows(plans, w, days) ==
  \A d \in 1 .. days :
    IF Contains(w.sent, d) THEN Shape(w.view[d]) = Shape(plans[d]) ELSE w.view[d] = <<>>
ShowsDraft(dr, w, days) ==
  \A d \in 1 .. days :
    IF Contains(w.sent, d) THEN d < dr.day /\ w.view[d] = dr.plans[d] ELSE w.view[d] = <<>>
StreamInv ==
  /\ node \in {"dispatch", "stream_generate", "END"}
  /\ SoundTrip(st.plans, world) /\ st.quality = Unset
  /\ {"sent", "view", "done", "cancel"} \subseteq DOMAIN wire
  /\ wire.sent \in Seq(1 .. req.days) /\ DOMAIN wire.view = 1 .. req.days
  /\ wire.done # "no" => node = "END" /\ (st.plans # <<>> => Shows(st.plans, wire, req.days))
  /\ node # "END" => st.plans = <<>>
  /\ run \in {"idle", "running"} /\ node # "END" /\ draft.phase \in {"none", "trip"} =>
       wire.sent = <<>> /\ \A d \in 1 .. req.days : wire.view[d] = <<>>
  /\ draft.phase = "days" => ShowsDraft(draft, wire, req.days)
  /\ draft.phase \in {"ready", "suggest"} => Shows(draft.plans, wire, req.days)

GraphInv ==
  /\ req \in Requests /\ WorldOK(world) /\ IsState(st)
  /\ req.mode = "day" => DayInv
  /\ req.mode # "day" => run # "dead" /\ IsDraft(draft, req, world)
  /\ req.mode = "trip" => TripInv
  /\ req.mode = "stream" => StreamInv

-----------------------------------------------------------------------------
(* Sequences. *)

LEMMA ListOf ==
  ASSUME NEW s, IsList(s)
  PROVE  /\ Len(s) \in Nat /\ DOMAIN s = 1 .. Len(s)
         /\ s = [i \in 1 .. Len(s) |-> s[i]]
  BY DEF IsList

LEMMA ListFrom == \A n \in Nat : \A s : s = [i \in 1 .. n |-> s[i]] => IsList(s) /\ Len(s) = n
<1> SUFFICES ASSUME NEW n \in Nat, NEW s, s = [i \in 1 .. n |-> s[i]]
             PROVE  IsList(s) /\ Len(s) = n
  OBVIOUS
<1>1. DOMAIN s = 1 .. n
  OBVIOUS
<1> DEFINE R == {s[i] : i \in DOMAIN s}
<1>2. \A i \in 1 .. n : s[i] \in R
  BY <1>1
<1> HIDE DEF R
<1>3. s \in [1 .. n -> R]
  BY <1>1, <1>2
<1>4. s \in Seq(R) /\ Len(s) = n
  BY <1>3
<1> QED
  BY <1>4 DEF IsList, R

LEMMA Nothing == IsList(<<>>) /\ Pois(<<>>) /\ Trip(<<>>) /\ DOMAIN <<>> = {}
  BY DEF IsList, Pois, Trip

LEMMA Longer ==
  ASSUME NEW s, NEW e, IsList(s)
  PROVE  /\ IsList(Append(s, e)) /\ Len(Append(s, e)) = Len(s) + 1
         /\ \A i \in 1 .. Len(s) : Append(s, e)[i] = s[i]
         /\ Append(s, e)[Len(s) + 1] = e
<1> DEFINE R == {s[i] : i \in DOMAIN s} \cup {e}
<1>1. s \in Seq({s[i] : i \in DOMAIN s})
  BY DEF IsList
<1>2. s \in Seq(R)
  <2> DEFINE Q == {s[i] : i \in DOMAIN s}
  <2>1. Q \subseteq R /\ s \in Seq(Q)
    BY <1>1
  <2> HIDE DEF Q, R
  <2> QED
    BY <2>1
<1>3. e \in R
  OBVIOUS
<1> DEFINE t == Append(s, e)
<1>4. /\ t \in Seq(R) /\ Len(t) = Len(s) + 1 /\ t[Len(s) + 1] = e
      /\ \A i \in 1 .. Len(s) : t[i] = s[i]
  <2> HIDE DEF R
  <2> QED
    BY <1>2, <1>3
<1>5. Len(t) \in Nat /\ t = [i \in 1 .. Len(t) |-> t[i]]
  <2> HIDE DEF R, t
  <2> QED
    BY <1>4
<1> HIDE DEF t
<1>6. IsList(t)
  BY <1>5, ListFrom
<1> QED
  BY <1>4, <1>6 DEF t

\* One more item, one more day.
LEMMA PoisGrow ==
  ASSUME NEW s, NEW e, Pois(s), IsPoi(e)
  PROVE  Pois(Append(s, e)) /\ IsList(s)
<1>1. /\ IsList(s) /\ IsList(Append(s, e)) /\ DOMAIN s = 1 .. Len(s) /\ Len(s) \in Nat
      /\ DOMAIN Append(s, e) = 1 .. Len(s) + 1
  <2>1. IsList(s)
    BY DEF Pois
  <2>2. IsList(Append(s, e)) /\ Len(Append(s, e)) = Len(s) + 1
    BY <2>1, Longer
  <2> QED
    BY <2>1, <2>2, ListOf
<1>2. ASSUME NEW i \in 1 .. Len(s) + 1 PROVE IsPoi(Append(s, e)[i])
  <2>1. CASE i = Len(s) + 1
    BY <1>1, <2>1, Longer
  <2>2. CASE i # Len(s) + 1
    <3>1. i \in 1 .. Len(s)
      BY <1>1, <2>2
    <3>2. Append(s, e)[i] = s[i] /\ IsPoi(s[i])
      BY <1>1, <3>1, Longer DEF Pois
    <3> QED
      BY <3>2
  <2> QED
    BY <2>1, <2>2
<1> QED
  BY <1>1, <1>2 DEF Pois

LEMMA DaysGrow ==
  ASSUME NEW s, NEW e, Trip(s), Pois(e), NEW w, SoundTrip(s, w), SoundDay(e, w)
  PROVE  Trip(Append(s, e)) /\ SoundTrip(Append(s, e), w) /\ Len(Append(s, e)) = Len(s) + 1
<1>1. /\ IsList(s) /\ IsList(Append(s, e)) /\ DOMAIN s = 1 .. Len(s) /\ Len(s) \in Nat
      /\ DOMAIN Append(s, e) = 1 .. Len(s) + 1 /\ Len(Append(s, e)) = Len(s) + 1
  <2>1. IsList(s)
    BY DEF Trip
  <2>2. IsList(Append(s, e)) /\ Len(Append(s, e)) = Len(s) + 1
    BY <2>1, Longer
  <2> QED
    BY <2>1, <2>2, ListOf
<1>2. ASSUME NEW i \in 1 .. Len(s) + 1 PROVE Pois(Append(s, e)[i]) /\ SoundDay(Append(s, e)[i], w)
  <2>1. CASE i = Len(s) + 1
    BY <1>1, <2>1, Longer
  <2>2. CASE i # Len(s) + 1
    <3>1. i \in 1 .. Len(s)
      BY <1>1, <2>2
    <3>2. Append(s, e)[i] = s[i] /\ Pois(s[i]) /\ SoundDay(s[i], w)
      BY <1>1, <3>1, Longer DEF Trip, SoundTrip
    <3> QED
      BY <3>2
  <2> QED
    BY <2>1, <2>2
<1> QED
  BY <1>1, <1>2 DEF Trip, SoundTrip

-----------------------------------------------------------------------------
(* Asking the sources about a name. *)

\* Beside what was asked from q.from on, another run of the same questions, q.run, that
\* began with more already spent.
AskOp(n, acc, i) == Asked(n, acc, i)
Reckoned(acc, from) ==
  /\ acc \in [checks : from .. MaxChecks, over : BOOLEAN, no : BOOLEAN,
              verdict : {"unknown", "here", "away"}]
  /\ acc.verdict # "unknown" => acc.over
SaysLess(f, g) ==
  f.verdict = "unknown" => /\ f.over => g.over
                           /\ ~g.over => f.checks <= g.checks
                           /\ g.no => f.no
AskKept(q, k, acc) == Reckoned(acc, q.from) /\ (q.other => SaysLess(acc, q.run[k]))
Asks == INSTANCE FoldLaws WITH Op <- AskOp, Kept <- AskKept

Indices(s) == [i \in DOMAIN s |-> i]
Start0(c) == [checks |-> c, over |-> FALSE, no |-> FALSE, verdict |-> "unknown"]
LEMMA AskFold ==
  ASSUME NEW n, NEW c
  PROVE  LET end == Asks!Fold(n, Start0(c), Indices(Sources))
         IN RunProviders(n, c) =
              [end EXCEPT !.verdict = IF @ = "unknown" /\ end.no THEN "absent" ELSE @]
<1>1. FoldLeft(LAMBDA acc, i : Asked(n, acc, i), Start0(c), Indices(Sources))
        = Asks!Fold(n, Start0(c), Indices(Sources))
  BY DEF Asks!Fold, AskOp, FoldLeft, Asks!FoldLeft, MapThenFoldSet, Asks!MapThenFoldSet, Max, Asks!Max
<1> QED
  BY <1>1 DEF RunProviders, Start0, Indices

LEMMA SourceList ==
  /\ MaxChecks \in Nat /\ Len(Sources) \in Nat /\ DOMAIN Sources = 1 .. Len(Sources)
  /\ \A i \in DOMAIN Sources : Sources[i].refutes \in BOOLEAN
<1> DEFINE R == [kind : {"pool", "map", "shop"}, on : BOOLEAN, refutes : BOOLEAN]
<1>1. Sources \in Seq(R) /\ MaxChecks \in Nat
  BY LandingAssumption
<1>2. \A r \in R : r.refutes \in BOOLEAN
  OBVIOUS
<1> HIDE DEF R
<1> QED
  BY <1>1, <1>2

LEMMA AskedReckoned ==
  ASSUME NEW n, NEW i \in DOMAIN Sources, NEW from \in 0 .. MaxChecks, NEW acc, Reckoned(acc, from)
  PROVE  Reckoned(Asked(n, acc, i), from) /\ Asked(n, acc, i).checks >= acc.checks
<1> DEFINE a == Replies[n][i].what
           r == [acc EXCEPT !.checks = @ + 1]
<1>1. Sources[i].refutes \in BOOLEAN /\ MaxChecks \in Nat
  BY SourceList
<1>2. acc.checks < MaxChecks =>
        /\ r = [checks |-> acc.checks + 1, over |-> acc.over, no |-> acc.no, verdict |-> acc.verdict]
        /\ acc.checks + 1 \in from .. MaxChecks
  BY <1>1 DEF Reckoned
<1>3. CASE acc.over \/ a = "off"
  BY <1>3 DEF Asked, Reckoned
<1>4. CASE ~(acc.over \/ a = "off") /\ acc.checks >= MaxChecks
  <2>1. Asked(n, acc, i) = [acc EXCEPT !.over = TRUE]
    BY <1>1, <1>4 DEF Asked, Reckoned
  <2>2. Asked(n, acc, i) = [checks |-> acc.checks, over |-> TRUE, no |-> acc.no, verdict |-> acc.verdict]
    BY <2>1 DEF Reckoned
  <2> QED
    BY <1>1, <2>2 DEF Reckoned
<1>5. CASE ~(acc.over \/ a = "off") /\ acc.checks < MaxChecks /\ a = "error"
  <2>1. Asked(n, acc, i) = acc
    BY <1>1, <1>5 DEF Asked, Reckoned
  <2> QED
    BY <2>1 DEF Reckoned
<1>6. CASE ~(acc.over \/ a = "off") /\ acc.checks < MaxChecks /\ a \in {"here", "away"}
  <2>1. Asked(n, acc, i) = [r EXCEPT !.over = TRUE, !.verdict = a]
    BY <1>1, <1>6 DEF Asked, Reckoned
  <2>2. Asked(n, acc, i) = [checks |-> acc.checks + 1, over |-> TRUE, no |-> acc.no, verdict |-> a]
    BY <1>2, <1>6, <2>1
  <2> QED
    BY <1>2, <1>6, <2>2 DEF Reckoned
<1>7. CASE ~(acc.over \/ a = "off") /\ acc.checks < MaxChecks /\ a = "no"
  <2>1. Asked(n, acc, i) = [r EXCEPT !.no = @ \/ Sources[i].refutes]
    BY <1>1, <1>7 DEF Asked, Reckoned
  <2>2. Asked(n, acc, i) = [checks |-> acc.checks + 1, over |-> acc.over,
                            no |-> acc.no \/ Sources[i].refutes, verdict |-> acc.verdict]
    BY <1>2, <1>7, <2>1
  <2> QED
    BY <1>1, <1>2, <1>7, <2>2 DEF Reckoned
<1>8. CASE ~(acc.over \/ a = "off") /\ acc.checks < MaxChecks /\ a \notin {"error", "here", "away", "no"}
  <2>1. Asked(n, acc, i) = r
    BY <1>1, <1>8 DEF Asked, Reckoned
  <2> QED
    BY <1>2, <1>8, <2>1 DEF Reckoned
<1> HIDE DEF a
<1> HIDE DEF a
<1> QED
  BY <1>1, <1>3, <1>4, <1>5, <1>6, <1>7, <1>8 DEF Reckoned

\* Who began with more spent says no more than the other, turn by turn.
LEMMA AskedLess ==
  ASSUME NEW n, NEW i \in DOMAIN Sources, NEW f, NEW g, Reckoned(f, 0), Reckoned(g, 0), SaysLess(f, g)
  PROVE  SaysLess(Asked(n, f, i), Asked(n, g, i))
<1> DEFINE a == Replies[n][i].what
<1>1. Sources[i].refutes \in BOOLEAN /\ MaxChecks \in Nat
  BY SourceList
<1> SUFFICES ASSUME Asked(n, f, i).verdict = "unknown"
             PROVE  LET x == Asked(n, f, i)  y == Asked(n, g, i)
                    IN (x.over => y.over) /\ (~y.over => x.checks <= y.checks) /\ (y.no => x.no)
  BY DEF SaysLess
<1>2. ASSUME NEW acc, Reckoned(acc, 0)
      PROVE  LET x == Asked(n, acc, i)
             IN /\ acc.over \/ a = "off" => x = acc
                /\ ~acc.over /\ a # "off" /\ acc.checks >= MaxChecks =>
                     x.over /\ x.verdict = acc.verdict /\ x.no = acc.no
                /\ ~acc.over /\ a # "off" /\ ~(acc.checks >= MaxChecks) =>
                     /\ a = "error" => x = acc
                     /\ a \in {"here", "away"} => x.over /\ x.verdict = a /\ x.no = acc.no
                     /\ a = "no" => /\ x.no = (acc.no \/ Sources[i].refutes) /\ x.over = acc.over
                                    /\ x.checks = acc.checks + 1 /\ x.verdict = acc.verdict
                     /\ a \notin {"error", "here", "away", "no"} =>
                          /\ x.no = acc.no /\ x.over = acc.over
                          /\ x.checks = acc.checks + 1 /\ x.verdict = acc.verdict
  BY <1>1, <1>2 DEF Asked, Reckoned
<1>3. f.verdict = "unknown"
  BY <1>2 DEF Reckoned
<1>4. (f.over => g.over) /\ (~g.over => f.checks <= g.checks) /\ (g.no => f.no)
  BY <1>3 DEF SaysLess
<1>5. f.checks \in Nat /\ g.checks \in Nat
  BY <1>1 DEF Reckoned
<1> DEFINE x == Asked(n, f, i)
           y == Asked(n, g, i)
<1>6. f.over \in BOOLEAN /\ g.over \in BOOLEAN /\ f.no \in BOOLEAN /\ g.no \in BOOLEAN
  BY DEF Reckoned
<1>7. CASE f.over \/ a = "off"
  <2>1. x = f
    BY <1>2, <1>7
  <2>2. g.over \/ a = "off" => y = g
    BY <1>2
  <2> QED
    BY <1>4, <1>7, <2>1, <2>2
<1>8. CASE ~f.over /\ a # "off" /\ g.over
  <2>1. y = g /\ (f.no => x.no)
    BY <1>1, <1>2, <1>5, <1>6, <1>8
  <2> QED
    BY <1>4, <1>8, <2>1
<1>9. CASE ~f.over /\ a # "off" /\ ~g.over /\ g.checks >= MaxChecks
  <2>1. y.over /\ y.no = g.no /\ (f.no => x.no)
    BY <1>1, <1>2, <1>5, <1>6, <1>9
  <2> QED
    BY <1>4, <1>9, <2>1
<1>10. CASE ~f.over /\ a # "off" /\ ~g.over /\ ~(g.checks >= MaxChecks)
  <2>1. ~(f.checks >= MaxChecks)
    BY <1>1, <1>4, <1>5, <1>10
  <2>2. CASE a = "error"
    <3>1. x = f /\ y = g
      BY <1>2, <1>10, <2>1, <2>2
    <3> QED
      BY <1>4, <3>1
  <2>3. CASE a \in {"here", "away"}
    <3>1. x.verdict = a /\ x.verdict = "unknown"
      <4>1. x.verdict = a
        BY <1>2, <1>10, <2>1, <2>3
      <4> QED
        BY <4>1 DEF x
    <3> QED
      BY <2>3, <3>1
  <2>4. CASE a = "no"
    <3>1. /\ x.no = (f.no \/ Sources[i].refutes) /\ x.over = f.over /\ x.checks = f.checks + 1
          /\ y.no = (g.no \/ Sources[i].refutes) /\ y.over = g.over /\ y.checks = g.checks + 1
      BY <1>2, <1>10, <2>1, <2>4
    <3>2. (x.over => y.over) /\ (~y.over => x.checks <= y.checks)
      BY <1>4, <1>5, <1>10, <3>1
    <3>3. y.no => x.no
      BY <1>4, <3>1, Zenon
    <3> QED
      BY <3>2, <3>3
  <2>5. CASE a \notin {"error", "here", "away", "no"}
    <3>1. /\ x.no = f.no /\ x.over = f.over /\ x.checks = f.checks + 1
          /\ y.no = g.no /\ y.over = g.over /\ y.checks = g.checks + 1
      BY <1>2, <1>10, <2>1, <2>5
    <3> QED
      BY <1>4, <1>5, <1>10, <3>1
  <2> QED
    BY <2>2, <2>3, <2>4, <2>5
<1> QED
  BY <1>6, <1>7, <1>8, <1>9, <1>10

LEMMA IndexList ==
  /\ Len(Sources) \in Nat /\ DOMAIN Indices(Sources) = 1 .. Len(Sources)
  /\ \A k \in 0 .. (Len(Sources) - 1) : Indices(Sources)[k + 1] = k + 1 /\ k + 1 \in DOMAIN Sources
<1>1. Len(Sources) \in Nat /\ DOMAIN Sources = 1 .. Len(Sources)
  BY SourceList
<1> QED
  BY <1>1 DEF Indices

Alone(c) == [from |-> c, other |-> FALSE, run |-> <<>>]
LEMMA AskResult ==
  ASSUME NEW n, NEW c \in 0 .. MaxChecks
  PROVE  /\ Reckoned(Asks!Fold(n, Start0(c), Indices(Sources)), c)
         /\ RunProviders(n, c).checks \in c .. MaxChecks
         /\ RunProviders(n, c).verdict \in {"unknown", "here", "away", "absent"}
<1> DEFINE s == Indices(Sources)
           m == Len(Sources)
           end == Asks!Fold(n, Start0(c), s)
<1>1. MaxChecks \in Nat /\ m \in Nat /\ DOMAIN s = 1 .. m
  BY SourceList, IndexList
<1>2. AskKept(Alone(c), 0, Start0(c))
  BY <1>1 DEF AskKept, Alone, Start0, Reckoned
<1>3. ASSUME NEW k \in 0 .. (m - 1), NEW acc, AskKept(Alone(c), k, acc)
      PROVE  AskKept(Alone(c), k + 1, AskOp(n, acc, s[k + 1]))
  <2>1. s[k + 1] = k + 1 /\ k + 1 \in DOMAIN Sources
    BY IndexList
  <2>2. Reckoned(acc, c)
    BY <1>3 DEF AskKept, Alone
  <2>3. Reckoned(Asked(n, acc, k + 1), c)
    BY <2>1, <2>2, AskedReckoned
  <2> QED
    BY <2>1, <2>3 DEF AskKept, Alone, AskOp
<1>4. AskKept(Alone(c), m, end)
  <2> HIDE DEF m, s
  <2>1. \A k \in 0 .. (m - 1) : \A acc : AskKept(Alone(c), k, acc) =>
                                          AskKept(Alone(c), k + 1, AskOp(n, acc, s[k + 1]))
    BY <1>3
  <2> QED
    BY <1>1, <1>2, <2>1, Asks!FoldKeeps
<1>5. Reckoned(end, c)
  BY <1>4 DEF AskKept, Alone
<1>6. RunProviders(n, c) = [end EXCEPT !.verdict = IF @ = "unknown" /\ end.no THEN "absent" ELSE @]
  BY AskFold
<1> HIDE DEF end
<1>7. /\ RunProviders(n, c).checks = end.checks
      /\ RunProviders(n, c).verdict = IF end.verdict = "unknown" /\ end.no THEN "absent" ELSE end.verdict
  BY <1>5, <1>6 DEF Reckoned
<1> QED
  BY <1>5, <1>7 DEF end, Reckoned

\* Who cannot say anything of a name will not deny it with less left to spend.
LEMMA AskLater ==
  ASSUME NEW n, NEW c \in 0 .. MaxChecks, NEW d \in c .. MaxChecks,
         RunProviders(n, c).verdict = "unknown"
  PROVE  RunProviders(n, d).verdict # "absent"
<1> DEFINE s == Indices(Sources)
           m == Len(Sources)
           end(x) == Asks!Fold(n, Start0(x), s)
<1>1. MaxChecks \in Nat /\ m \in Nat /\ DOMAIN s = 1 .. m /\ d \in 0 .. MaxChecks
  BY SourceList, IndexList
<1>2. PICK h : /\ h[0] = Start0(d) /\ end(d) = h[m]
               /\ \A k \in 0 .. (m - 1) : h[k + 1] = AskOp(n, h[k], s[k + 1])
  <2> HIDE DEF m, s
  <2> QED
    BY <1>1, Asks!FoldRuns
<1>3. \A k \in 0 .. m : Reckoned(h[k], 0)
  <2>1. AskKept(Alone(0), 0, h[0])
    BY <1>1, <1>2 DEF AskKept, Alone, Start0, Reckoned
  <2>2. ASSUME NEW k \in 0 .. (m - 1), AskKept(Alone(0), k, h[k]) PROVE AskKept(Alone(0), k + 1, h[k + 1])
    <3>1. s[k + 1] = k + 1 /\ k + 1 \in DOMAIN Sources
      BY IndexList
    <3>2. Reckoned(h[k], 0) /\ 0 \in 0 .. MaxChecks
      BY <1>1, <2>2 DEF AskKept, Alone
    <3>3. Reckoned(Asked(n, h[k], k + 1), 0)
      BY <3>1, <3>2, AskedReckoned
    <3>4. h[k + 1] = Asked(n, h[k], k + 1)
      BY <1>2, <3>1 DEF AskOp
    <3> QED
      BY <3>3, <3>4 DEF AskKept, Alone
  <2>3. \A k \in 0 .. m : AskKept(Alone(0), k, h[k])
    <3> HIDE DEF m, s
    <3>1. \A k \in 0 .. (m - 1) : AskKept(Alone(0), k, h[k]) => AskKept(Alone(0), k + 1, h[k + 1])
      BY <2>2
    <3> QED
      BY <1>1, <2>1, <3>1, Asks!RunKeeps
  <2> QED
    BY <2>3 DEF AskKept, Alone
<1> DEFINE q == [from |-> 0, other |-> TRUE, run |-> h]
<1>4. AskKept(q, 0, Start0(c))
  <2>1. Reckoned(Start0(c), 0)
    BY <1>1 DEF Start0, Reckoned
  <2>2. SaysLess(Start0(c), h[0])
    BY <1>1, <1>2 DEF Start0, SaysLess
  <2> QED
    BY <2>1, <2>2 DEF AskKept
<1>5. ASSUME NEW k \in 0 .. (m - 1), NEW acc, AskKept(q, k, acc)
      PROVE  AskKept(q, k + 1, AskOp(n, acc, s[k + 1]))
  <2>1. s[k + 1] = k + 1 /\ k + 1 \in DOMAIN Sources
    BY IndexList
  <2>2. Reckoned(acc, 0) /\ SaysLess(acc, h[k]) /\ 0 \in 0 .. MaxChecks
    BY <1>1, <1>5 DEF AskKept
  <2>3. Reckoned(h[k], 0) /\ h[k + 1] = Asked(n, h[k], k + 1)
    BY <1>2, <1>3, <2>1 DEF AskOp
  <2>4. Reckoned(Asked(n, acc, k + 1), 0)
    BY <2>1, <2>2, AskedReckoned
  <2>5. SaysLess(Asked(n, acc, k + 1), Asked(n, h[k], k + 1))
    BY <2>1, <2>2, <2>3, AskedLess
  <2> QED
    BY <2>1, <2>3, <2>4, <2>5 DEF AskKept, AskOp
<1>6. AskKept(q, m, end(c))
  <2> HIDE DEF m, s, q
  <2>1. \A k \in 0 .. (m - 1) : \A acc : AskKept(q, k, acc) => AskKept(q, k + 1, AskOp(n, acc, s[k + 1]))
    BY <1>5
  <2> QED
    BY <1>1, <1>4, <2>1, Asks!FoldKeeps
<1>7. SaysLess(end(c), end(d)) /\ Reckoned(end(c), 0) /\ Reckoned(end(d), 0)
  BY <1>1, <1>2, <1>3, <1>6 DEF AskKept
<1>8. \A x : RunProviders(n, x) =
               [end(x) EXCEPT !.verdict = IF @ = "unknown" /\ end(x).no THEN "absent" ELSE @]
  BY AskFold
<1> DEFINE f == end(c)
           g == end(d)
<1>9. /\ RunProviders(n, c) = [f EXCEPT !.verdict = IF @ = "unknown" /\ f.no THEN "absent" ELSE @]
      /\ RunProviders(n, d) = [g EXCEPT !.verdict = IF @ = "unknown" /\ g.no THEN "absent" ELSE @]
  BY <1>8
<1> HIDE DEF f, g
<1>10. SaysLess(f, g) /\ Reckoned(f, 0) /\ Reckoned(g, 0)
  BY <1>7 DEF f, g
<1>11. /\ RunProviders(n, c).verdict = IF f.verdict = "unknown" /\ f.no THEN "absent" ELSE f.verdict
       /\ RunProviders(n, d).verdict = IF g.verdict = "unknown" /\ g.no THEN "absent" ELSE g.verdict
  BY <1>9, <1>10 DEF Reckoned
<1>12. f.verdict = "unknown" /\ ~f.no
  BY <1>11
<1>13. ~g.no
  BY <1>10, <1>12 DEF SaysLess
<1> QED
  BY <1>10, <1>11, <1>13 DEF Reckoned

-----------------------------------------------------------------------------
(* What is remembered grows, and who is cleared stays cleared. *)

Grows(v, w) ==
  /\ WorldOK(w) /\ w.checks >= v.checks
  /\ \A n \in DOMAIN Listed : Cleared(n, v) => Cleared(n, w)

LEMMA GrowsOn ==
  /\ \A v : WorldOK(v) => Grows(v, v)
  /\ \A u, v, w : WorldOK(u) /\ Grows(u, v) /\ Grows(v, w) => Grows(u, w)
<1>1. \A w : WorldOK(w) => w.checks \in Nat
  BY SourceList DEF WorldOK
<1>2. ASSUME NEW v, WorldOK(v) PROVE Grows(v, v)
  BY <1>1, <1>2 DEF Grows
<1>3. ASSUME NEW u, NEW v, NEW w, WorldOK(u), Grows(u, v), Grows(v, w) PROVE Grows(u, w)
  BY <1>1, <1>3 DEF Grows
<1> QED
  BY <1>2, <1>3

LEMMA SoundStays ==
  ASSUME NEW v, NEW w, Grows(v, w), NEW item, IsPoi(item), Sound(item, v)
  PROVE  Sound(item, w)
  BY DEF Grows, Sound, IsPoi

LEMMA TripStays ==
  ASSUME NEW v, NEW w, Grows(v, w), NEW plans, Trip(plans), SoundTrip(plans, v)
  PROVE  SoundTrip(plans, w)
  BY SoundStays DEF Trip, Pois, SoundTrip, SoundDay

\* An answer that is remembered, or one that leaves the name open, loses nothing; a name
\* that is not denied now is cleared.
LEMMA ResolveClears ==
  ASSUME NEW n \in DOMAIN Listed, NEW w, WorldOK(w)
  PROVE  /\ Grows(w, Resolve(n, w).w)
         /\ Resolve(n, w).verdict \notin {"away", "absent"} => Cleared(n, Resolve(n, w).w)
         /\ Resolve(n, w).verdict = "here" => Resolve(n, w).w.memo[n] = "here"
<1>1. CASE w.memo[n] # "open"
  <2>1. Resolve(n, w) = [verdict |-> w.memo[n], w |-> w]
    BY <1>1 DEF Resolve
  <2>2. w.memo[n] \in {"here", "absent"}
    BY <1>1 DEF WorldOK
  <2> QED
    BY <2>1, <2>2, GrowsOn DEF Cleared
<1>2. CASE w.memo[n] = "open"
  <2> DEFINE r == RunProviders(n, w.checks)
             x == [memo |-> IF Remembered(r.verdict) THEN [w.memo EXCEPT ![n] = r.verdict] ELSE w.memo,
                   checks |-> r.checks]
  <2>1. Resolve(n, w) = [verdict |-> r.verdict, w |-> x]
    BY <1>2 DEF Resolve
  <2>2. /\ r.checks \in w.checks .. MaxChecks /\ w.checks \in 0 .. MaxChecks /\ MaxChecks \in Nat
        /\ r.verdict \in {"unknown", "here", "away", "absent"}
    BY AskResult, SourceList DEF WorldOK
  <2>3. \A d \in w.checks .. MaxChecks : r.verdict = "unknown" => RunProviders(n, d).verdict # "absent"
    BY <2>2, AskLater
  <2> HIDE DEF r
  <2>4. /\ x.checks = r.checks
        /\ x.memo = IF r.verdict \in {"here", "absent"} THEN [w.memo EXCEPT ![n] = r.verdict] ELSE w.memo
    BY DEF Remembered
  <2>5. w.memo \in [DOMAIN Listed -> {"open", "here", "absent"}]
    BY DEF WorldOK
  <2>6. /\ r.verdict \in {"here", "absent"} => x.memo[n] = r.verdict
        /\ r.verdict \notin {"here", "absent"} => x.memo[n] = "open"
        /\ \A m \in DOMAIN Listed : m # n => x.memo[m] = w.memo[m]
        /\ x.memo \in [DOMAIN Listed -> {"open", "here", "absent"}]
    <3> HIDE DEF x
    <3> QED
      BY <1>2, <2>4, <2>5
  <2> HIDE DEF x
  <2>7. WorldOK(x) /\ x.checks >= w.checks
    BY <2>2, <2>4, <2>6 DEF WorldOK
  <2>8. \A d \in x.checks .. MaxChecks : d \in w.checks .. MaxChecks
    BY <2>2, <2>4
  <2>9. r.verdict \notin {"away", "absent"} => Cleared(n, x)
    BY <2>2, <2>3, <2>6, <2>8 DEF Cleared
  <2>10. ASSUME NEW m \in DOMAIN Listed, Cleared(m, w) PROVE Cleared(m, x)
    <3>1. CASE m # n
      BY <2>6, <2>8, <2>10, <3>1 DEF Cleared
    <3>2. CASE m = n
      <4>1. r.verdict # "absent"
        <5>1. w.checks \in w.checks .. MaxChecks
          BY <2>2
        <5> QED
          BY <1>2, <2>10, <3>2, <5>1 DEF Cleared, r
      <4>2. CASE r.verdict = "away"
        BY <1>2, <2>6, <2>8, <2>10, <3>2, <4>2 DEF Cleared
      <4>3. CASE r.verdict # "away"
        BY <2>9, <3>2, <4>1, <4>3
      <4> QED
        BY <4>2, <4>3
    <3> QED
      BY <3>1, <3>2
  <2>11. Grows(w, x)
    BY <2>7, <2>10 DEF Grows
  <2> QED
    BY <2>1, <2>6, <2>9, <2>11
<1> QED
  BY <1>1, <1>2

\* An item without a position asks, and only a confirmed one is vouched for.
LEMMA GroundAsks ==
  ASSUME NEW item, IsPoi(item), NEW w, WorldOK(w)
  PROVE  LET g == LocalGround(item, w) IN
           /\ Grows(w, g.w) /\ IsPoi(g.item)
           /\ g.item.name = item.name /\ g.item.type = item.type
<1>1. CASE ~Named(item) \/ Located(item)
  BY <1>1, GrowsOn DEF LocalGround
<1>2. CASE ~(~Named(item) \/ Located(item))
  <2> DEFINE r == Resolve(item.name, w)
             at == PlaceOf(item.name)
  <2>1. Grows(w, r.w)
    BY ResolveClears DEF IsPoi
  <2>2. LocalGround(item, w) =
          [item |-> IF r.verdict = "here" THEN [item EXCEPT !.at = at, !.by = "source"] ELSE item,
           w |-> r.w]
    BY <1>2 DEF LocalGround, Placed
  <2> HIDE DEF r, at
  <2>3. Fields \subseteq DOMAIN item /\ item.name \in DOMAIN Listed
    BY DEF IsPoi
  <2> QED
    BY <2>1, <2>2, <2>3 DEF IsPoi, Fields
<1> QED
  BY <1>1, <1>2

-----------------------------------------------------------------------------
(* The rows of the research. *)

RowList(rows) == IsList(rows) /\ \A i \in DOMAIN rows : rows[i].name \in DOMAIN Listed

LEMMA FirstRows ==
  ASSUME NEW rows, RowList(rows), NEW n \in 0 .. Len(rows)
  PROVE  RowList(SubSeq(rows, 1, n))
<1>1. Len(rows) \in Nat /\ DOMAIN rows = 1 .. Len(rows)
  BY ListOf DEF RowList
<1>2. SubSeq(rows, 1, n) = [i \in 1 .. n |-> rows[i]]
  BY <1>1 DEF SubSeq
<1> DEFINE t == SubSeq(rows, 1, n)
<1>3. DOMAIN t = 1 .. n /\ n \in Nat /\ t = [i \in 1 .. n |-> t[i]] /\ \A i \in 1 .. n : t[i] = rows[i] /\ i \in DOMAIN rows
  BY <1>1, <1>2
<1> HIDE DEF t
<1>4. IsList(t)
  BY <1>3, ListFrom
<1> QED
  BY <1>3, <1>4 DEF RowList, t

LEMMA FoundRows == \A n \in 0 .. Len(Rows) : RowList(Found(n))
  BY TripGraphAssumption, FirstRows DEF Found, RowList

LEMMA NumberedRows == ASSUME NEW rows, RowList(rows) PROVE RowList(References(rows))
<1>1. RefLimit \in Nat
  BY LandingAssumption
<1>2. Len(rows) \in Nat
  BY ListOf DEF RowList
<1>3. (IF Len(rows) < RefLimit THEN Len(rows) ELSE RefLimit) \in 0 .. Len(rows)
  BY <1>1, <1>2
<1> QED
  BY <1>3, FirstRows DEF References

LEMMA LeastIn ==
  ASSUME NEW n \in Nat, NEW t \in SUBSET (1 .. n), t # {}
  PROVE  Min(t) \in t /\ \A y \in t : Min(t) <= y
<1>1. Min(t) = Asks!Min(t)
  BY DEF Min, Asks!Min
<1> QED
  BY <1>1, Asks!LeastOf

LEMMA RowHit ==
  ASSUME NEW rows, RowList(rows), NEW n
  PROVE  RowNamed(rows, n) = NoRow \/ RowNamed(rows, n).name \in DOMAIN Listed
<1> DEFINE hits == {i \in DOMAIN rows : rows[i].name = n}
<1>1. CASE hits = {}
  BY <1>1 DEF RowNamed
<1>2. CASE hits # {}
  <2>1. Len(rows) \in Nat /\ DOMAIN rows = 1 .. Len(rows)
    BY ListOf DEF RowList
  <2>2. hits \in SUBSET (1 .. Len(rows))
    BY <2>1
  <2>3. Min(hits) \in hits
    <3> HIDE DEF hits
    <3> QED
      BY <1>2, <2>1, <2>2, LeastIn
  <2>4. RowNamed(rows, n) = rows[Min(hits)]
    BY <1>2 DEF RowNamed
  <2> QED
    BY <2>3, <2>4 DEF RowList
<1> QED
  BY <1>1, <1>2

LEMMA MatchHit ==
  ASSUME NEW rows, RowList(rows), NEW item
  PROVE  Match(rows, item) = NoRow \/ Match(rows, item).name \in DOMAIN Listed
<1>1. RowList(References(rows))
  BY NumberedRows
<1>2. \/ RowNamed(References(rows), item.name) = NoRow
      \/ RowNamed(References(rows), item.name).name \in DOMAIN Listed
  BY <1>1, RowHit
<1> QED
  BY <1>1, <1>2 DEF Match, RowList

LEMMA Grounded ==
  ASSUME NEW rows, RowList(rows), NEW item, IsPoi(item)
  PROVE  IsPoi(Ground(rows, item))
<1> DEFINE row == Match(rows, item)
<1>1. row = NoRow \/ row.name \in DOMAIN Listed
  BY MatchHit
<1>2. CASE item.type = "transport" \/ row = NoRow
  BY <1>2 DEF Ground
<1>3. CASE ~(item.type = "transport" \/ row = NoRow)
  <2>1. Ground(rows, item) =
          [item EXCEPT !.name = row.name, !.type = row.type,
                       !.by = IF row.trusted THEN "source" ELSE "client",
                       !.at = IF row.trusted /\ row.at # Nowhere THEN row.at ELSE @,
                       !.cost = IF row.trusted /\ row.price # 0 THEN row.price ELSE @]
    BY <1>3 DEF Ground
  <2>2. row.name \in DOMAIN Listed
    BY <1>1, <1>3
  <2>3. DOMAIN Ground(rows, item) = DOMAIN item
    BY <2>1
  <2>4. "name" \in DOMAIN item
    BY DEF IsPoi, Fields
  <2>5. Ground(rows, item).name = row.name
    BY <2>1, <2>4
  <2> QED
    BY <2>2, <2>3, <2>5 DEF IsPoi
<1> QED
  BY <1>2, <1>3

\* Facts and prices leave who an item is.
Same(a, b) == DOMAIN a = DOMAIN b /\ a.name = b.name /\ a.type = b.type /\ a.by = b.by
                /\ a.from = b.from /\ a.to = b.to
LEMMA SameIs ==
  ASSUME NEW a, NEW b, Same(b, a), IsPoi(a)
  PROVE  IsPoi(b) /\ \A w : Sound(a, w) => Sound(b, w)
  BY DEF Same, IsPoi, Sound

LEMMA PricesKeep ==
  ASSUME NEW item, IsPoi(item)
  PROVE  /\ \A rows : Same(Facts(rows, item), item)
         /\ \A type : Same(Quoted(type, item), item)
         /\ Same(MealPriced(item), item) /\ Same(InSeason(item), item)
<1>1. {"name", "type", "by", "from", "to"} \subseteq DOMAIN item
  BY DEF IsPoi, Fields
<1>2. ASSUME NEW rows PROVE Same(Facts(rows, item), item)
  <2> DEFINE row == RowNamed(rows, item.name)
  <2>1. \/ Facts(rows, item) = item
        \/ Facts(rows, item) = [item EXCEPT !.at = IF @ = Nowhere THEN row.at ELSE @,
                                            !.cost = IF @ = 0 THEN row.price ELSE @]
    BY DEF Facts
  <2> HIDE DEF row
  <2> QED
    BY <1>1, <2>1 DEF Same
<1>3. ASSUME NEW type PROVE Same(Quoted(type, item), item)
  BY <1>1 DEF Quoted, Same
<1>4. Same(MealPriced(item), item)
  BY <1>1 DEF MealPriced, Same
<1>5. Same(InSeason(item), item)
  BY <1>1 DEF InSeason, Same
<1> QED
  BY <1>2, <1>3, <1>4, <1>5

LEMMA Pricing ==
  ASSUME NEW item, IsPoi(item), NEW rows
  PROVE  /\ Same(MealPriced(Quoted("food", InSeason(Facts(rows, item)))), item)
         /\ Same(Priced(Facts(rows, item)), item)
<1>0. \A a, b, c : Same(a, b) /\ Same(b, c) => Same(a, c)
  BY DEF Same
<1> DEFINE f == Facts(rows, item)
           q == Quoted("hotel", f)
<1>1. Same(f, item) /\ IsPoi(f)
  BY PricesKeep, SameIs
<1>2. Same(q, item) /\ IsPoi(q)
  BY <1>0, <1>1, PricesKeep, SameIs
<1>3. ASSUME NEW x, Same(x, item), IsPoi(x) PROVE Same(MealPriced(Quoted("food", InSeason(x))), item)
  <2>1. Same(InSeason(x), item) /\ IsPoi(InSeason(x))
    BY <1>0, <1>3, PricesKeep, SameIs
  <2>2. Same(Quoted("food", InSeason(x)), item) /\ IsPoi(Quoted("food", InSeason(x)))
    BY <1>0, <2>1, PricesKeep, SameIs
  <2> QED
    BY <1>0, <2>2, PricesKeep
<1> QED
  BY <1>1, <1>2, <1>3 DEF Priced

-----------------------------------------------------------------------------
(* The folds over a day's items. *)

\* Dropping what is denied: who is left is sound.
DropOp(p, acc, item) == DropOne(acc, item)
DropKept(v, k, day) ==
  /\ {"kept", "w"} \subseteq DOMAIN day
  /\ Pois(day.kept) /\ SoundDay(day.kept, day.w) /\ WorldOK(day.w) /\ Grows(v, day.w)
Drops == INSTANCE FoldLaws WITH Op <- DropOp, Kept <- DropKept

LEMMA DropFold ==
  ASSUME NEW day, NEW p
  PROVE  DropRefuted(day) = Drops!Fold(p, [day EXCEPT !.kept = <<>>], day.kept)
  BY DEF DropRefuted, Drops!Fold, DropOp, FoldLeft, Drops!FoldLeft, MapThenFoldSet, Drops!MapThenFoldSet,
         Max, Drops!Max

LEMMA DayGrows ==
  ASSUME NEW items, NEW w, Pois(items), SoundDay(items, w), NEW item, IsPoi(item), Sound(item, w)
  PROVE  Pois(Append(items, item)) /\ SoundDay(Append(items, item), w)
<1>1. /\ IsList(items) /\ Pois(Append(items, item)) /\ Len(items) \in Nat /\ DOMAIN items = 1 .. Len(items)
      /\ IsList(Append(items, item)) /\ Len(Append(items, item)) = Len(items) + 1
  BY PoisGrow, Longer, ListOf
<1>2. DOMAIN Append(items, item) = 1 .. Len(items) + 1
  BY <1>1, ListOf
<1>3. ASSUME NEW i \in 1 .. Len(items) + 1 PROVE Sound(Append(items, item)[i], w)
  <2>1. CASE i = Len(items) + 1
    BY <1>1, <2>1, Longer
  <2>2. CASE i # Len(items) + 1
    <3>1. i \in 1 .. Len(items)
      BY <1>1, <2>2
    <3>2. Append(items, item)[i] = items[i] /\ Sound(items[i], w)
      BY <1>1, <3>1, Longer DEF SoundDay
    <3> QED
      BY <3>2
  <2> QED
    BY <2>1, <2>2
<1> QED
  BY <1>1, <1>2, <1>3 DEF SoundDay

LEMMA DayStays ==
  ASSUME NEW items, NEW v, NEW w, Pois(items), SoundDay(items, v), Grows(v, w)
  PROVE  SoundDay(items, w)
  BY SoundStays DEF Pois, SoundDay

LEMMA DropTurn ==
  ASSUME NEW v, WorldOK(v), NEW k, NEW day, DropKept(v, k, day), NEW item, IsPoi(item)
  PROVE  DropKept(v, k + 1, DropOne(day, item))
<1> USE DEF DropKept
<1>1. CASE item.type = "transport" \/ item.by = "source"
  <2> DEFINE d == [day EXCEPT !.kept = Append(@, item)]
  <2>1. DropOne(day, item) = d
    BY <1>1 DEF DropOne
  <2>2. DOMAIN d = DOMAIN day /\ d.kept = Append(day.kept, item) /\ d.w = day.w
    OBVIOUS
  <2>3. Sound(item, day.w)
    BY <1>1 DEF Sound
  <2>4. Pois(d.kept) /\ SoundDay(d.kept, day.w)
    BY <2>2, <2>3, DayGrows
  <2> HIDE DEF d
  <2> QED
    BY <2>1, <2>2, <2>4
<1>2. CASE ~(item.type = "transport" \/ item.by = "source")
  <2> DEFINE r == Resolve(item.name, day.w)
             d == [day EXCEPT !.kept = IF r.verdict \in {"away", "absent"} THEN @ ELSE Append(@, item),
                              !.w = r.w]
  <2>1. DropOne(day, item) = d
    BY <1>2 DEF DropOne, KeptUnlessDenied
  <2>2. /\ Grows(day.w, r.w)
        /\ r.verdict \notin {"away", "absent"} => Cleared(item.name, r.w)
    BY ResolveClears DEF IsPoi
  <2> HIDE DEF r
  <2>3. /\ DOMAIN d = DOMAIN day /\ d.w = r.w
        /\ d.kept = IF r.verdict \in {"away", "absent"} THEN day.kept ELSE Append(day.kept, item)
    OBVIOUS
  <2>4. Pois(d.kept) /\ SoundDay(d.kept, r.w)
    <3>1. CASE r.verdict \in {"away", "absent"}
      BY <2>2, <2>3, <3>1, DayStays
    <3>2. CASE r.verdict \notin {"away", "absent"}
      <4>1. Sound(item, r.w)
        BY <2>2, <3>2 DEF Sound
      <4> QED
        BY <2>2, <2>3, <3>2, <4>1, DayStays, DayGrows
    <3> QED
      BY <3>1, <3>2
  <2>5. Grows(v, r.w) /\ WorldOK(r.w)
    BY <2>2, GrowsOn DEF Grows
  <2> HIDE DEF d
  <2> QED
    BY <2>1, <2>3, <2>4, <2>5
<1> QED
  BY <1>1, <1>2

LEMMA Dropped ==
  ASSUME NEW v, WorldOK(v), NEW day, {"kept", "w"} \subseteq DOMAIN day, Pois(day.kept), WorldOK(day.w),
         Grows(v, day.w)
  PROVE  DropKept(v, Len(day.kept), DropRefuted(day))
<1> DEFINE b == [day EXCEPT !.kept = <<>>]
           s == day.kept
           n == Len(s)
<1>1. n \in Nat /\ DOMAIN s = 1 .. n /\ \A i \in 1 .. n : IsPoi(s[i])
  BY ListOf DEF Pois
<1>2. DropKept(v, 0, b)
  BY Nothing DEF DropKept, SoundDay
<1> HIDE DEF b, s, n
<1>3. ASSUME NEW k \in 0 .. (n - 1), NEW acc, DropKept(v, k, acc) PROVE DropKept(v, k + 1, DropOp(0, acc, s[k + 1]))
  <2>1. IsPoi(s[k + 1])
    BY <1>1
  <2> QED
    BY <1>3, <2>1, DropTurn DEF DropOp
<1>4. DropKept(v, n, Drops!Fold(0, b, s))
  <2>1. \A k \in 0 .. (n - 1) : \A acc : DropKept(v, k, acc) => DropKept(v, k + 1, DropOp(0, acc, s[k + 1]))
    BY <1>3
  <2> QED
    BY <1>1, <1>2, <2>1, Drops!FoldKeeps
<1> QED
  BY <1>4, DropFold DEF b, s, n

\* The turns before: items with a name, and a world that only grows.
LandOp(rows, acc, item) == LandItem(rows, acc, item)
LandKept(v, k, acc) ==
  /\ {"kept", "w"} \subseteq DOMAIN acc
  /\ Pois(acc.kept) /\ WorldOK(acc.w) /\ Grows(v, acc.w)
Lands == INSTANCE FoldLaws WITH Op <- LandOp, Kept <- LandKept
AloneOp(rows, acc, item) == LandOne(rows, acc, item)
Alones == INSTANCE FoldLaws WITH Op <- AloneOp, Kept <- LandKept

LEMMA LandTurn ==
  ASSUME NEW v, WorldOK(v), NEW k, NEW acc, LandKept(v, k, acc), NEW rows, RowList(rows),
         NEW item, IsItem(item)
  PROVE  LandKept(v, k + 1, LandItem(rows, acc, item))
<1> USE DEF LandKept
<1>1. CASE ~Named(item)
  BY <1>1 DEF LandItem
<1>2. CASE Named(item)
  <2> DEFINE x == Ground(rows, item)
             g == LocalGround(x, acc.w)
             r == Landed(acc, item, g)
  <2>1. LandItem(rows, acc, item) = r
    BY <1>2 DEF LandItem
  <2>2. IsPoi(item)
    BY <1>2 DEF IsItem, IsPoi, Named
  <2>3. IsPoi(x)
    BY <2>2, Grounded
  <2>4. Grows(acc.w, g.w) /\ IsPoi(g.item)
    BY <2>3, GroundAsks
  <2> HIDE DEF x, g
  <2>5. \/ r = acc
        \/ r = [acc EXCEPT !.w = g.w]
        \/ r = [kept |-> Append(acc.kept, g.item),
                seen |-> Register(acc.seen, item.name, item.type, g.item.at), w |-> g.w]
    BY DEF Landed
  <2>6. Pois(Append(acc.kept, g.item)) /\ Grows(v, g.w) /\ WorldOK(g.w)
    BY <2>4, PoisGrow, GrowsOn DEF Grows
  <2> HIDE DEF r
  <2>7. CASE r = acc
    BY <2>1, <2>7
  <2>8. CASE r = [acc EXCEPT !.w = g.w]
    <3>1. DOMAIN r = DOMAIN acc /\ r.w = g.w /\ r.kept = acc.kept
      BY <2>8
    <3> QED
      BY <2>1, <2>6, <3>1
  <2>9. CASE r = [kept |-> Append(acc.kept, g.item),
                  seen |-> Register(acc.seen, item.name, item.type, g.item.at), w |-> g.w]
    BY <2>1, <2>6, <2>9
  <2> QED
    BY <2>5, <2>7, <2>8, <2>9
<1> QED
  BY <1>1, <1>2

LEMMA LandedDay ==
  ASSUME NEW rows, RowList(rows), NEW items, IsPlan(items), NEW seen, NEW w, WorldOK(w)
  PROVE  LET day == LandDay(rows, items, seen, w)
         IN Pois(day.kept) /\ SoundDay(day.kept, day.w) /\ Grows(w, day.w)
<1> DEFINE b == [kept |-> <<>>, seen |-> seen, w |-> w]
           n == Len(items)
           mid == Lands!Fold(rows, b, items)
<1>1. n \in Nat /\ DOMAIN items = 1 .. n /\ \A i \in 1 .. n : IsItem(items[i])
  BY ListOf DEF IsPlan
<1>2. LandKept(w, 0, b)
  BY Nothing, GrowsOn DEF LandKept
<1>3. FoldLeft(LAMBDA acc, item : LandItem(rows, acc, item), b, items) = mid
  BY DEF Lands!Fold, LandOp, FoldLeft, Lands!FoldLeft, MapThenFoldSet, Lands!MapThenFoldSet, Max, Lands!Max
<1>4. LandDay(rows, items, seen, w) = DropRefuted(mid)
  BY <1>3 DEF LandDay
<1> HIDE DEF b, n
<1>5. LandKept(w, n, mid)
  <2>1. ASSUME NEW k \in 0 .. (n - 1), NEW acc, LandKept(w, k, acc)
        PROVE  LandKept(w, k + 1, LandOp(rows, acc, items[k + 1]))
    <3>1. IsItem(items[k + 1])
      BY <1>1
    <3> QED
      BY <2>1, <3>1, LandTurn DEF LandOp
  <2>2. \A k \in 0 .. (n - 1) : \A acc : LandKept(w, k, acc) =>
                                          LandKept(w, k + 1, LandOp(rows, acc, items[k + 1]))
    BY <2>1
  <2> HIDE DEF mid
  <2>3. LandKept(w, n, Lands!Fold(rows, b, items))
    BY <1>1, <1>2, <2>2, Lands!FoldKeeps
  <2> QED
    BY <2>3 DEF mid
<1> HIDE DEF mid
<1>6. DropKept(w, Len(mid.kept), DropRefuted(mid))
  BY <1>5, Dropped DEF LandKept
<1> QED
  BY <1>4, <1>6 DEF DropKept

\* sanitize_itinerary_items keeps the names it lets through.
CleanOp(p, acc, item) == Sanitize(acc, item)
CleanKept(q, k, acc) == Pois(acc) /\ (q.judge => SoundDay(acc, q.w))
Cleans == INSTANCE FoldLaws WITH Op <- CleanOp, Kept <- CleanKept

LEMMA CleanTurn ==
  ASSUME NEW q, NEW k, NEW acc, CleanKept(q, k, acc), NEW item, IsItem(item),
         q.judge => Sound(item, q.w)
  PROVE  CleanKept(q, k + 1, Sanitize(acc, item))
<1>1. CASE ~Named(item)
  BY <1>1 DEF Sanitize, CleanKept
<1>2. CASE Named(item)
  <2> DEFINE x == [item EXCEPT !.type = IF KnownType(@) THEN @ ELSE "attraction"]
  <2>1. Sanitize(acc, item) = Append(acc, x)
    BY <1>2 DEF Sanitize
  <2>2. Fields \subseteq DOMAIN item /\ item.name \in DOMAIN Listed
    BY <1>2 DEF IsItem, Named
  <2>3. DOMAIN x = DOMAIN item /\ x.name = item.name /\ x.by = item.by
        /\ (item.type = "transport" => x.type = "transport")
    BY <2>2 DEF Fields, KnownType
  <2> HIDE DEF x
  <2>4. IsPoi(x)
    BY <2>2, <2>3 DEF IsPoi
  <2>5. Pois(Append(acc, x))
    BY <2>4, PoisGrow DEF CleanKept
  <2>6. q.judge => SoundDay(Append(acc, x), q.w)
    <3> SUFFICES ASSUME q.judge PROVE SoundDay(Append(acc, x), q.w)
      OBVIOUS
    <3>1. Sound(x, q.w)
      BY <2>3 DEF Sound
    <3> QED
      BY <2>4, <3>1, DayGrows DEF CleanKept
  <2> QED
    BY <2>1, <2>5, <2>6 DEF CleanKept
<1> QED
  BY <1>1, <1>2

LEMMA Cleaned ==
  ASSUME NEW items, IsPlan(items), NEW q,
         q.judge => SoundDay(items, q.w)
  PROVE  Pois(Sanitized(items)) /\ (q.judge => SoundDay(Sanitized(items), q.w))
<1> DEFINE n == Len(items)
<1>1. n \in Nat /\ DOMAIN items = 1 .. n /\ \A i \in 1 .. n : IsItem(items[i])
  BY ListOf DEF IsPlan
<1>2. CleanKept(q, 0, <<>>)
  BY Nothing DEF CleanKept, SoundDay
<1>3. Sanitized(items) = Cleans!Fold(0, <<>>, items)
  BY DEF Sanitized, Cleans!Fold, CleanOp, FoldLeft, Cleans!FoldLeft, MapThenFoldSet, Cleans!MapThenFoldSet,
         Max, Cleans!Max
<1>4. ASSUME NEW k \in 0 .. (n - 1), NEW acc, CleanKept(q, k, acc)
      PROVE  CleanKept(q, k + 1, CleanOp(0, acc, items[k + 1]))
  <2>1. IsItem(items[k + 1]) /\ k + 1 \in DOMAIN items
    BY <1>1
  <2>2. q.judge => Sound(items[k + 1], q.w)
    BY <2>1 DEF SoundDay
  <2> QED
    BY <1>4, <2>1, <2>2, CleanTurn DEF CleanOp
<1> HIDE DEF n
<1>5. \A k \in 0 .. (n - 1) : \A acc : CleanKept(q, k, acc) => CleanKept(q, k + 1, CleanOp(0, acc, items[k + 1]))
  BY <1>4
<1>6. CleanKept(q, n, Cleans!Fold(0, <<>>, items))
  BY <1>1, <1>2, <1>5, Cleans!FoldKeeps
<1> QED
  BY <1>3, <1>6 DEF CleanKept

LEMMA AloneTurn ==
  ASSUME NEW v, WorldOK(v), NEW k, NEW acc, LandKept(v, k, acc), NEW rows, RowList(rows),
         NEW item, IsPoi(item)
  PROVE  LandKept(v, k + 1, LandOne(rows, acc, item))
<1> DEFINE g == IF FromRow(rows, item) THEN [item |-> Ground(rows, item), w |-> acc.w]
                ELSE LocalGround(item, acc.w)
<1>1. LandOne(rows, acc, item) = [kept |-> Append(acc.kept, g.item), w |-> g.w]
  BY DEF LandOne, WithItem
<1>2. Grows(acc.w, g.w) /\ IsPoi(g.item)
  <2>1. CASE FromRow(rows, item)
    BY <2>1, Grounded, GrowsOn DEF LandKept
  <2>2. CASE ~FromRow(rows, item)
    BY <2>2, GroundAsks DEF LandKept
  <2> QED
    BY <2>1, <2>2
<1> HIDE DEF g
<1>3. Pois(Append(acc.kept, g.item)) /\ Grows(v, g.w) /\ WorldOK(g.w)
  BY <1>2, PoisGrow, GrowsOn DEF Grows, LandKept
<1> QED
  BY <1>1, <1>3 DEF LandKept

\* A plan of which each item is who it was.
LEMMA Likeness ==
  ASSUME NEW s, Pois(s), NEW t, t = [i \in DOMAIN s |-> t[i]], \A i \in DOMAIN s : Same(t[i], s[i])
  PROVE  /\ Pois(t) /\ Shape(t) = Shape(s) /\ (t = <<>> <=> s = <<>>)
         /\ \A w : SoundDay(s, w) => SoundDay(t, w)
<1>1. Len(s) \in Nat /\ DOMAIN s = 1 .. Len(s)
  BY ListOf DEF Pois
<1>2. IsList(t) /\ DOMAIN t = DOMAIN s /\ Len(t) = Len(s)
  BY <1>1, ListFrom
<1>3. \A i \in DOMAIN s : IsPoi(t[i]) /\ \A w : Sound(s[i], w) => Sound(t[i], w)
  BY SameIs DEF Pois
<1>4. Shape(t) = Shape(s)
  BY <1>2 DEF Shape, Same
<1>5. t = <<>> <=> s = <<>>
  <2>1. ASSUME NEW u, IsList(u) PROVE u = <<>> <=> Len(u) = 0
    BY <2>1 DEF IsList
  <2>2. IsList(s)
    BY DEF Pois
  <2> QED
    BY <1>2, <2>1, <2>2
<1> QED
  BY <1>2, <1>3, <1>4, <1>5 DEF Pois, SoundDay

LEMMA LandedAlone ==
  ASSUME NEW rows, RowList(rows), NEW items, IsPlan(items), NEW w, WorldOK(w)
  PROVE  LET day == LandAlone(rows, items, w)
         IN Pois(day.kept) /\ SoundDay(day.kept, day.w) /\ Grows(w, day.w)
<1> DEFINE b == [kept |-> <<>>, w |-> w]
           s == Sanitized(items)
           n == Len(s)
           mid == Alones!Fold(rows, b, s)
           day == DropRefuted(mid)
           kept == [i \in DOMAIN day.kept |->
                      MealPriced(Quoted("food", InSeason(Facts(References(rows), day.kept[i]))))]
<1>1. n \in Nat /\ DOMAIN s = 1 .. n /\ \A i \in 1 .. n : IsPoi(s[i])
  <2> DEFINE q == [judge |-> FALSE, w |-> w]
  <2>0. ~q.judge
    OBVIOUS
  <2> HIDE DEF q
  <2>1. Pois(s)
    BY <2>0, Cleaned
  <2> HIDE DEF s
  <2> QED
    BY <2>1, ListOf DEF Pois
<1>2. LandKept(w, 0, b)
  BY Nothing, GrowsOn DEF LandKept
<1>3. FoldLeft(LAMBDA acc, item : LandOne(rows, acc, item), b, s) = mid
  BY DEF Alones!Fold, AloneOp, FoldLeft, Alones!FoldLeft, MapThenFoldSet, Alones!MapThenFoldSet, Max,
         Alones!Max
<1>4. LandAlone(rows, items, w) = [day EXCEPT !.kept = kept]
  BY <1>3 DEF LandAlone
<1> HIDE DEF b, n, s
<1>5. LandKept(w, n, mid)
  <2>1. ASSUME NEW k \in 0 .. (n - 1), NEW acc, LandKept(w, k, acc)
        PROVE  LandKept(w, k + 1, AloneOp(rows, acc, s[k + 1]))
    <3>1. IsPoi(s[k + 1])
      BY <1>1
    <3> QED
      BY <2>1, <3>1, AloneTurn DEF AloneOp
  <2>2. \A k \in 0 .. (n - 1) : \A acc : LandKept(w, k, acc) =>
                                          LandKept(w, k + 1, AloneOp(rows, acc, s[k + 1]))
    BY <2>1
  <2> HIDE DEF mid
  <2>3. LandKept(w, n, Alones!Fold(rows, b, s))
    BY <1>1, <1>2, <2>2, Alones!FoldKeeps
  <2> QED
    BY <2>3 DEF mid
<1> HIDE DEF mid
<1>6. DropKept(w, Len(mid.kept), day)
  BY <1>5, Dropped DEF LandKept
<1> HIDE DEF day
<1>7. ASSUME NEW i \in DOMAIN day.kept PROVE Same(kept[i], day.kept[i])
  BY <1>6, Pricing DEF DropKept, Pois
<1>8. kept = [i \in DOMAIN day.kept |-> kept[i]]
  OBVIOUS
<1> HIDE DEF kept
<1>9. Pois(kept) /\ SoundDay(kept, day.w)
  BY <1>6, <1>7, <1>8, Likeness DEF DropKept
<1>10. LandAlone(rows, items, w).kept = kept /\ LandAlone(rows, items, w).w = day.w
  BY <1>4, <1>6 DEF DropKept
<1> QED
  BY <1>6, <1>9, <1>10 DEF DropKept

-----------------------------------------------------------------------------
(* After the draft. *)

LEMMA Spreads ==
  ASSUME NEW plans, Trip(plans), NEW w, SoundTrip(plans, w)
  PROVE  LET spread == Spread(plans)
         IN Trip(spread) /\ SoundTrip(spread, w) /\ Len(spread) = Len(plans) /\ DOMAIN spread = DOMAIN plans
<1> DEFINE withHotel == {d \in DOMAIN plans : HasHotel(plans[d])}
           first == plans[Min(withHotel)]
           hotel == first[Min(OfType(first, "hotel"))]
           t == [d \in DOMAIN plans |->
                   IF withHotel # {} /\ d <= StayNights(Len(plans)) /\ d \notin withHotel
                   THEN Append(plans[d], hotel) ELSE plans[d]]
<1>1. Spread(plans) = t
  BY DEF Spread
<1>2. Len(plans) \in Nat /\ DOMAIN plans = 1 .. Len(plans)
  BY ListOf DEF Trip
<1>3. withHotel # {} => IsPoi(hotel) /\ Sound(hotel, w)
  <2> SUFFICES ASSUME withHotel # {} PROVE IsPoi(hotel) /\ Sound(hotel, w)
    OBVIOUS
  <2>1. withHotel \in SUBSET (1 .. Len(plans))
    BY <1>2
  <2>2. Min(withHotel) \in withHotel
    <3> HIDE DEF withHotel
    <3> QED
      BY <1>2, <2>1, LeastIn
  <2>3. Min(withHotel) \in DOMAIN plans /\ HasHotel(first)
    BY <2>2
  <2> HIDE DEF withHotel
  <2>4. Pois(first) /\ SoundDay(first, w)
    BY <2>3 DEF Trip, SoundTrip
  <2> HIDE DEF first
  <2>5. Len(first) \in Nat /\ DOMAIN first = 1 .. Len(first)
    BY <2>4, ListOf DEF Pois
  <2>6. OfType(first, "hotel") \in SUBSET (1 .. Len(first)) /\ OfType(first, "hotel") # {}
    BY <2>3, <2>5 DEF HasHotel, OfType
  <2>7. Min(OfType(first, "hotel")) \in DOMAIN first
    BY <2>5, <2>6, LeastIn
  <2> QED
    BY <2>4, <2>7 DEF Pois, SoundDay
<1> HIDE DEF withHotel, hotel
<1>4. ASSUME NEW d \in DOMAIN plans PROVE Pois(t[d]) /\ SoundDay(t[d], w)
  <2>1. Pois(plans[d]) /\ SoundDay(plans[d], w)
    BY DEF Trip, SoundTrip
  <2>2. CASE withHotel # {} /\ d <= StayNights(Len(plans)) /\ d \notin withHotel
    <3>1. IsPoi(hotel) /\ Sound(hotel, w)
      BY <1>3, <2>2
    <3>2. Pois(Append(plans[d], hotel)) /\ SoundDay(Append(plans[d], hotel), w)
      BY <2>1, <3>1, DayGrows
    <3> QED
      BY <2>2, <3>2
  <2>3. CASE ~(withHotel # {} /\ d <= StayNights(Len(plans)) /\ d \notin withHotel)
    BY <2>1, <2>3
  <2> QED
    BY <2>2, <2>3
<1>5. DOMAIN t = DOMAIN plans /\ t = [d \in DOMAIN plans |-> t[d]]
  OBVIOUS
<1> HIDE DEF t
<1>6. IsList(t) /\ Len(t) = Len(plans)
  BY <1>2, <1>5, ListFrom
<1> QED
  BY <1>1, <1>4, <1>5, <1>6 DEF Trip, SoundTrip

LEMMA CostsKeep ==
  ASSUME NEW plans, Trip(plans), NEW rows
  PROVE  LET filled == FillCosts(rows, plans)
         IN /\ Trip(filled) /\ Len(filled) = Len(plans) /\ DOMAIN filled = DOMAIN plans
            /\ \A w : SoundTrip(plans, w) => SoundTrip(filled, w)
            /\ \A d \in DOMAIN plans : Shape(filled[d]) = Shape(plans[d])
<1> DEFINE t == FillCosts(rows, plans)
<1>1. Len(plans) \in Nat /\ DOMAIN plans = 1 .. Len(plans)
  BY ListOf DEF Trip
<1>2. DOMAIN t = DOMAIN plans /\ t = [d \in DOMAIN plans |-> t[d]]
  BY DEF FillCosts
<1>3. ASSUME NEW d \in DOMAIN plans
      PROVE  /\ Pois(t[d]) /\ Shape(t[d]) = Shape(plans[d])
             /\ \A w : SoundDay(plans[d], w) => SoundDay(t[d], w)
  <2> DEFINE s == plans[d]
             F(item) == IF item.type \in {"food", "hotel"} /\ item.cost = 0
                        THEN [item EXCEPT !.cost = RowNamed(rows, item.name).price] ELSE item
             u == [i \in DOMAIN s |-> F(s[i])]
  <2>1. t[d] = u
    BY DEF FillCosts
  <2>2. Pois(s)
    BY DEF Trip
  <2>3. ASSUME NEW i \in DOMAIN s PROVE Same(u[i], s[i])
    <3> DEFINE item == s[i]
    <3>1. {"name", "type", "by", "from", "to"} \subseteq DOMAIN item
      BY <2>2 DEF Pois, IsPoi, Fields
    <3>2. u[i] = F(item)
      OBVIOUS
    <3> HIDE DEF item, u
    <3>3. Same(F(item), item)
      BY <3>1 DEF Same
    <3> QED
      BY <3>2, <3>3 DEF item
  <2>4. u = [i \in DOMAIN s |-> u[i]]
    OBVIOUS
  <2> HIDE DEF u, s
  <2> QED
    BY <2>1, <2>2, <2>3, <2>4, Likeness DEF s
<1> HIDE DEF t
<1>4. IsList(t) /\ Len(t) = Len(plans)
  BY <1>1, <1>2, ListFrom
<1>5. Trip(t)
  BY <1>2, <1>3, <1>4 DEF Trip
<1>6. \A w : SoundTrip(plans, w) => SoundTrip(t, w)
  BY <1>2, <1>3 DEF SoundTrip
<1> QED
  BY <1>2, <1>3, <1>4, <1>5, <1>6 DEF t

LEMMA Assembles ==
  ASSUME NEW items, Pois(items), NEW w, WorldOK(w), SoundDay(items, w), st.found \in 0 .. Len(Rows)
  PROVE  Pois(Assembled(items)) /\ SoundDay(Assembled(items), w)
<1> DEFINE q == [judge |-> TRUE, w |-> w]
           clean == Sanitized(items)
           t == [i \in DOMAIN clean |-> Priced(Facts(Found(st.found), clean[i]))]
<1>1. IsPlan(items)
  BY DEF Pois, IsPlan, IsPoi, IsItem
<1>2. q.judge /\ q.w = w
  OBVIOUS
<1> HIDE DEF q
<1>3. Pois(clean) /\ SoundDay(clean, w)
  BY <1>1, <1>2, Cleaned
<1>4. Assembled(items) = t
  BY DEF Assembled
<1> HIDE DEF clean
<1>5. ASSUME NEW i \in DOMAIN clean PROVE Same(t[i], clean[i])
  BY <1>3, Pricing DEF Pois
<1>6. t = [i \in DOMAIN clean |-> t[i]]
  OBVIOUS
<1> HIDE DEF t
<1> QED
  BY <1>3, <1>4, <1>5, <1>6, Likeness

-----------------------------------------------------------------------------
(* The runs. *)

LEMMA Asking ==
  ASSUME req \in Requests
  PROVE  /\ req.mode \in {"day", "trip", "stream"} /\ req.days \in Nat \ {0} /\ req.found \in 0 .. Len(Rows)
         /\ \A items \in req.answers : IsPlan(items)
         /\ \A trip \in req.trips : IsList(trip) /\ \A i \in DOMAIN trip : trip[i].day \in Nat /\ IsPlan(trip[i].items)
         /\ Len(Rows) \in Nat
<1>1. Len(Rows) \in Nat
  BY TripGraphAssumption, ListOf
<1> QED
  BY <1>1, TripGraphAssumption

LEMMA Blank ==
  /\ IsPlan(<<>>) /\ \A w : SoundTrip(<<>>, w) /\ SoundDay(<<>>, w)
  /\ \A n \in Nat : /\ Trip(EmptyPlans(n)) /\ Len(EmptyPlans(n)) = n
                    /\ \A w : SoundTrip(EmptyPlans(n), w)
                    /\ \A d \in 1 .. n : EmptyPlans(n)[d] = <<>>
<1>1. IsPlan(<<>>) /\ \A w : SoundTrip(<<>>, w) /\ SoundDay(<<>>, w)
  BY Nothing DEF IsPlan, SoundTrip, SoundDay
<1>2. ASSUME NEW n \in Nat
      PROVE  /\ Trip(EmptyPlans(n)) /\ Len(EmptyPlans(n)) = n
             /\ \A w : SoundTrip(EmptyPlans(n), w)
             /\ \A d \in 1 .. n : EmptyPlans(n)[d] = <<>>
  <2> DEFINE e == EmptyPlans(n)
  <2>1. e = [i \in 1 .. n |-> e[i]] /\ DOMAIN e = 1 .. n /\ \A d \in 1 .. n : e[d] = <<>>
    BY DEF EmptyPlans
  <2> HIDE DEF e
  <2>2. IsList(e) /\ Len(e) = n
    BY <2>1, ListFrom
  <2>3. Trip(e) /\ \A w : SoundTrip(e, w)
    BY <1>1, <2>1, <2>2, Nothing DEF Trip, SoundTrip
  <2> QED
    BY <2>1, <2>2, <2>3 DEF e
<1> QED
  BY <1>1, <1>2

LEMMA WritingIsPlan == req \in Requests => \A a \in DayWriting : IsPlan(a.items)
  BY Asking, Blank DEF DayWriting, Raised

LEMMA Unjudged == Unset # "ready"
  BY Zenon DEF Unset

LEMMA InitGraph == Init => GraphInv
<1> SUFFICES ASSUME Init PROVE GraphInv
  OBVIOUS
<1>1. req \in Requests /\ MaxChecks \in Nat
  BY SourceList DEF Init
<1>2. WorldOK(world)
  BY <1>1 DEF Init, WorldOK
<1>3. st.plans = <<>> /\ st.quality = Unset /\ IsState(st)
  BY <1>1, Asking, Nothing DEF Init, Fresh, IsState
<1>4. draft = NoDraft /\ IsDraft(draft, req, world)
  BY Nothing, Blank DEF Init, NoDraft, IsDraft
<1>5. /\ wire.sent = <<>> /\ \A d \in 1 .. req.days : wire.view[d] = <<>>
      /\ DOMAIN wire.view = 1 .. req.days /\ wire.done = "no"
      /\ {"sent", "view", "done", "cancel"} \subseteq DOMAIN wire
  BY <1>1 DEF Init, EmptyPlans
<1>6. run = "idle" /\ node = "dispatch" /\ saved = <<>>
  BY DEF Init
<1>7. DayInv
  BY <1>3, <1>4, <1>5, <1>6, Nothing DEF DayInv
<1>8. TripInv
  BY <1>3, <1>5, <1>6, Blank, Unjudged DEF TripInv, ReadyIsClean
<1>9. StreamInv
  <2>1. draft.phase = "none" /\ SoundTrip(st.plans, world)
    BY <1>3, <1>4, Blank DEF NoDraft
  <2> QED
    BY <1>3, <1>5, <1>6, <2>1 DEF StreamInv
<1> QED
  BY <1>1, <1>2, <1>3, <1>4, <1>6, <1>7, <1>8, <1>9 DEF GraphInv

\* Steps that touch neither the plans nor what is known of places.
LEMMA QuietStep ==
  ASSUME GraphInv, RunInv, RunInv', req' = req, world' = world, wire' = wire, draft' = draft,
         st'.plans = st.plans, st'.quality = st.quality, IsState(st'),
         node' \in {"dispatch", "parse", "research", "generate", "reflect", "refill_research", "format", "END"}
           \/ req.mode # "trip",
         node' \in {"dispatch", "stream_generate", "END"} \/ req.mode # "stream",
         req.mode # "day" => run' # "dead",
         saved' = saved \/ saved' = <<[node |-> node, st |-> st]>> \/ req.mode # "day",
         node = "END" => node' = "END",
         run \in {"idle", "running"} \/ run' \notin {"idle", "running"} \/ req.mode # "stream",
         st.quality = Unset
           \/ node' = "END"
  PROVE  GraphInv'
<1>1. (req \in Requests /\ WorldOK(world) /\ IsState(st))'
  BY DEF GraphInv
<1>2. CASE req.mode = "day"
  <2>1. DayInv
    BY <1>2 DEF GraphInv
  <2>4. DayInv'
    <3>1. CASE saved' = saved
      BY <2>1, <3>1 DEF DayInv
    <3>2. CASE saved' = <<[node |-> node, st |-> st]>>
      <4>1. saved'[1].st = st /\ IsState(st) /\ st.quality = Unset
        BY <2>1, <3>2 DEF GraphInv, DayInv
      <4> QED
        BY <2>1, <4>1 DEF DayInv
    <3> QED
      BY <1>2, <3>1, <3>2
  <2> QED
    BY <1>1, <1>2, <2>4 DEF GraphInv
<1>3. CASE req.mode = "trip"
  <2>1. TripInv'
    BY <1>3 DEF GraphInv, TripInv, ReadyIsClean
  <2> QED
    BY <1>1, <1>3, <2>1 DEF GraphInv
<1>4. CASE req.mode = "stream"
  <2>1. StreamInv'
    BY <1>4 DEF GraphInv, StreamInv
  <2> QED
    BY <1>1, <1>4, <2>1 DEF GraphInv
<1> QED
  BY <1>2, <1>3, <1>4, Asking DEF GraphInv

\* Which request is at which node.
LEMMA Where ==
  ASSUME GraphInv, RunInv
  PROVE  /\ node \in {"day_generate", "day.reflect", "day.retry", "day.fallback"} => req.mode = "day"
         /\ node \in {"parse", "research", "generate", "reflect", "refill_research", "format"} =>
              req.mode = "trip" /\ st.quality = Unset
         /\ node = "stream_generate" => req.mode = "stream" /\ st.plans = <<>>
         /\ node # "END" => st.quality = Unset
         /\ req.mode \in {"day", "trip", "stream"} /\ req \in Requests /\ WorldOK(world) /\ IsState(st)
         /\ req.mode = "day" => DayInv
         /\ req.mode # "day" => run # "dead" /\ IsDraft(draft, req, world)
         /\ req.mode = "trip" => TripInv
         /\ req.mode = "stream" => StreamInv
<1>1. /\ req.mode \in {"day", "trip", "stream"} /\ req \in Requests /\ WorldOK(world) /\ IsState(st)
      /\ req.mode = "day" => DayInv
      /\ req.mode # "day" => run # "dead" /\ IsDraft(draft, req, world)
      /\ req.mode = "trip" => TripInv
      /\ req.mode = "stream" => StreamInv
  BY Asking DEF GraphInv
<1>2. CASE req.mode = "day"
  BY <1>1, <1>2 DEF RunInv, IsDay, DayNodes, DayInv
<1>3. CASE req.mode = "trip"
  BY <1>1, <1>3 DEF TripInv
<1>4. CASE req.mode = "stream"
  BY <1>1, <1>4 DEF StreamInv
<1> QED
  BY <1>1, <1>2, <1>3, <1>4

LEMMA QuietSteps ==
  ASSUME GraphInv, RunInv, RunInv',
         Start \/ Dispatch \/ Save \/ Return \/ Finished \/ UNCHANGED vars \/ DayReflect \/ DayRetry
           \/ DayFallback \/ Parse \/ Research \/ Reflect \/ Refill
  PROVE  GraphInv'
<1> USE Where
<1>1. CASE Start
  <2>1. req.mode = "day" => node = "dispatch"
    BY <1>1 DEF Start, RunInv, IsDay
  <2>2. req.mode = "trip" => node \in {"dispatch", "parse", "research", "generate", "reflect",
                                       "refill_research", "format", "END"}
    BY DEF TripInv
  <2>3. req.mode = "stream" => node \in {"dispatch", "stream_generate", "END"}
    BY DEF StreamInv
  <2> QED
    BY <1>1, <2>1, <2>2, <2>3, QuietStep DEF Start
<1>2. CASE Dispatch
  BY <1>2, QuietStep DEF Dispatch, At, Goto
<1>3. ASSUME node' = node, req' = req, world' = world, wire' = wire, draft' = draft, st' = st,
             saved' = saved \/ saved' = <<[node |-> node, st |-> st]>>,
             run' = run \/ (run = "running" /\ run' = "over")
      PROVE  GraphInv'
  <2>2. req.mode = "trip" => node \in {"dispatch", "parse", "research", "generate", "reflect",
                                       "refill_research", "format", "END"}
    BY DEF TripInv
  <2>3. req.mode = "stream" => node \in {"dispatch", "stream_generate", "END"}
    BY DEF StreamInv
  <2> QED
    BY <1>3, <2>2, <2>3, QuietStep
<1>4. CASE Save \/ Return \/ Finished \/ UNCHANGED vars
  BY <1>3, <1>4 DEF Save, Return, Finished, vars, At
<1>5. CASE DayReflect
  <2>1. st'.plans = st.plans /\ st'.quality = st.quality /\ IsState(st')
    BY <1>5 DEF DayReflect, IsState
  <2> QED
    BY <1>5, <2>1, QuietStep DEF DayReflect, At, Goto
<1>6. CASE DayRetry
  <2>1. st'.plans = st.plans /\ st'.quality = st.quality /\ IsState(st')
    BY <1>6 DEF DayRetry, IsState
  <2> QED
    BY <1>6, <2>1, QuietStep DEF DayRetry, At, Goto
<1>7. CASE DayFallback
  <2>1. st'.plans = st.plans /\ st'.quality = st.quality /\ IsState(st')
    BY <1>7 DEF DayFallback, IsState
  <2> QED
    BY <1>7, <2>1, QuietStep DEF DayFallback, At, Goto
<1>8. CASE Parse
  BY <1>8, QuietStep DEF Parse, At, Goto
<1>9. CASE Research
  <2>1. PICK n \in 0 .. req.found : st' = [st EXCEPT !.found = n]
    BY <1>9 DEF Research
  <2>2. n \in 0 .. Len(Rows)
    BY Asking
  <2>3. st'.plans = st.plans /\ st'.quality = st.quality /\ IsState(st')
    BY <2>1, <2>2 DEF IsState
  <2> QED
    BY <1>9, <2>3, QuietStep DEF Research, At, Goto
<1>10. CASE Reflect
  <2>1. st'.plans = st.plans /\ st'.quality = st.quality /\ IsState(st')
    BY <1>10 DEF Reflect, IsState
  <2>2. node' \in {"generate", "refill_research", "format"}
    BY <1>10 DEF Reflect, NextNode, Goto
  <2> QED
    BY <1>10, <2>1, <2>2, QuietStep DEF Reflect, At
<1>11. CASE Refill
  <2>1. PICK n \in st.found .. req.found : st' = [st EXCEPT !.found = n, !.refills = @ + 1]
    BY <1>11 DEF Refill
  <2>2. n \in 0 .. Len(Rows)
    BY Asking DEF IsState
  <2>3. st'.plans = st.plans /\ st'.quality = st.quality /\ IsState(st')
    BY <2>1, <2>2 DEF IsState
  <2> QED
    BY <1>11, <2>3, QuietStep DEF Refill, At, Goto
<1> QED
  BY <1>1, <1>2, <1>4, <1>5, <1>6, <1>7, <1>8, <1>9, <1>10, <1>11

\* A day's run: writing, dying, being taken up.
LEMMA DaySteps2 ==
  ASSUME GraphInv, RunInv, Die \/ Resume \/ DayGenerate
  PROVE  GraphInv'
<1>0. /\ req.mode = "day" /\ DayInv /\ req \in Requests /\ WorldOK(world) /\ IsState(st)
      /\ req' = req /\ wire' = wire
  <2>1. req.mode = "day"
    BY Where DEF Die, Resume, DayGenerate, At
  <2> QED
    BY <2>1, Where DEF Die, Resume, DayGenerate
<1> SUFFICES (WorldOK(world) /\ IsState(st) /\ DayInv)'
  BY <1>0 DEF GraphInv
<1>1. CASE Die
  BY <1>0, <1>1 DEF Die, DayInv
<1>2. CASE Resume
  <2>1. saved # <<>>
    BY <1>0, <1>2 DEF Resume, RunInv, IsDay
  <2>2. IsState(saved[1].st) /\ saved[1].st.quality = Unset
    BY <1>0, <2>1 DEF DayInv
  <2> DEFINE w == [memo |-> [n \in DOMAIN Listed |-> "open"], checks |-> 0]
  <2>3. st' = saved[1].st /\ world' = w /\ saved' = saved /\ draft' = draft
    BY <1>2 DEF Resume
  <2>4. WorldOK(w)
    BY SourceList DEF WorldOK
  <2>5. \A n \in DOMAIN Listed : w.memo[n] # "absent"
    OBVIOUS
  <2> HIDE DEF w
  <2>6. \A d \in DOMAIN saved[1].st.plans : Undenied(saved[1].st.plans[d], w)
    BY <2>2, <2>5 DEF IsState, Trip, Pois, IsPoi, Undenied
  <2> QED
    BY <1>0, <2>2, <2>3, <2>4, <2>6 DEF DayInv
<1>3. CASE DayGenerate
  <2> DEFINE tried == [st EXCEPT !.asked = @ \/ st.feedback, !.attempts = @ + 1]
  <2>1. PICK a \in DayWriting :
          IF ~a.ok THEN st' = [tried EXCEPT !.plans = <<>>, !.error = TRUE] /\ UNCHANGED world
          ELSE \E day \in {LandAlone(Found(st.found), a.items, world)} :
               /\ st' = [tried EXCEPT !.plans = <<day.kept>>, !.error = FALSE]
               /\ world' = day.w
    BY <1>3 DEF DayGenerate
  <2>2. saved' = saved /\ draft' = draft
    BY <1>3 DEF DayGenerate
  <2>3. /\ DOMAIN tried = DOMAIN st /\ tried.found = st.found /\ tried.quality = st.quality
        /\ {"plans", "issues", "feedback", "asked", "attempts", "force", "error", "fixes", "refills",
            "found", "dest", "quality"} \subseteq DOMAIN st
    BY <1>0 DEF IsState
  <2> HIDE DEF tried
  <2>4. ASSUME NEW plans, Trip(plans), NEW e, st' = [tried EXCEPT !.plans = plans, !.error = e]
        PROVE  IsState(st') /\ st'.plans = plans /\ st'.quality = Unset
    <3>1. DOMAIN st' = DOMAIN st /\ st'.plans = plans /\ st'.found = st.found /\ st'.quality = st.quality
      BY <2>3, <2>4
    <3> QED
      BY <1>0, <2>3, <2>4, <3>1 DEF IsState, DayInv
  <2>5. CASE ~a.ok
    <3>1. st' = [tried EXCEPT !.plans = <<>>, !.error = TRUE] /\ world' = world
      BY <2>1, <2>5
    <3>2. IsState(st') /\ st'.plans = <<>> /\ st'.quality = Unset
      BY <2>4, <3>1, Nothing
    <3> QED
      BY <1>0, <2>2, <3>1, <3>2, Nothing DEF DayInv
  <2>6. CASE a.ok
    <3> DEFINE day == LandAlone(Found(st.found), a.items, world)
    <3>1. st' = [tried EXCEPT !.plans = <<day.kept>>, !.error = FALSE] /\ world' = day.w
      BY <2>1, <2>6
    <3>2. RowList(Found(st.found)) /\ IsPlan(a.items)
      BY <1>0, FoundRows, WritingIsPlan DEF IsState
    <3>3. Pois(day.kept) /\ SoundDay(day.kept, day.w) /\ Grows(world, day.w)
      BY <1>0, <3>2, LandedAlone
    <3> HIDE DEF day
    <3> DEFINE plans == <<day.kept>>
    <3>4. Trip(plans)
      <4>1. plans = [i \in 1 .. 1 |-> plans[i]] /\ DOMAIN plans = 1 .. 1 /\ plans[1] = day.kept
        OBVIOUS
      <4> HIDE DEF plans
      <4>2. IsList(plans)
        BY <4>1, ListFrom
      <4> QED
        BY <3>3, <4>1, <4>2 DEF Trip
    <3>5. Undenied(day.kept, day.w)
      BY <3>3 DEF SoundDay, Sound, Cleared, Undenied
    <3>6. DOMAIN plans = 1 .. 1 /\ \A d \in DOMAIN plans : plans[d] = day.kept
      OBVIOUS
    <3>7. st' = [tried EXCEPT !.plans = plans, !.error = FALSE]
      BY <3>1
    <3> HIDE DEF plans
    <3>8. IsState(st') /\ st'.plans = plans /\ st'.quality = Unset
      BY <2>4, <3>4, <3>7
    <3>9. \A d \in DOMAIN st'.plans : Undenied(st'.plans[d], world')
      BY <3>1, <3>5, <3>6, <3>8
    <3> QED
      BY <1>0, <2>2, <3>1, <3>3, <3>8, <3>9 DEF DayInv, Grows
  <2> QED
    BY <2>5, <2>6
<1> QED
  BY <1>1, <1>2, <1>3

-----------------------------------------------------------------------------
(* The draft of a trip. *)

LEMMA Begins ==
  ASSUME req \in Requests, NEW w
  PROVE  /\ IsDraft(BeginDraft, req, w) /\ IsDraft(NoDraft, req, w)
         /\ BeginDraft.phase \in {"trip", "days"} /\ BeginDraft.day = 1 /\ NoDraft.phase = "none"
         /\ BeginDraft.phase = "trip" <=> req.days > 1
<1>1. req.days \in Nat \ {0}
  BY Asking
<1>2. Trip(<<>>) /\ SoundTrip(<<>>, w) /\ Len(<<>>) = 0
  BY Nothing, Blank
<1> QED
  BY <1>1, <1>2 DEF IsDraft, BeginDraft, NoDraft

LEMMA NobodySent == \A d : ~Contains(<<>>, d)
  BY DEF Contains

\* Steps that leave the plan as it is and give the draft a new phase or a new start.
LEMMA DraftStep ==
  ASSUME GraphInv, req.mode # "day", req' = req, world' = world, st'.plans = st.plans,
         st'.quality = st.quality, IsState(st'), node' = node, run' # "dead", IsDraft(draft', req, world),
         req.mode = "trip" => wire' = wire,
         req.mode = "stream" => StreamInv'
  PROVE  GraphInv'
<1>1. (req \in Requests /\ WorldOK(world) /\ IsState(st) /\ run # "dead" /\ IsDraft(draft, req, world))'
  BY DEF GraphInv
<1>2. req.mode = "trip" => TripInv'
  BY DEF GraphInv, TripInv, ReadyIsClean
<1> QED
  BY <1>1, <1>2 DEF GraphInv

LEMMA StartDraft ==
  ASSUME GraphInv, RunInv, StreamCall \/ Cancel \/ StreamLook \/ StreamRaises \/ StreamCancelled
  PROVE  GraphInv'
<1>0. /\ req.mode = "stream" /\ StreamInv /\ req \in Requests /\ WorldOK(world) /\ IsState(st) /\ req' = req
      /\ run # "dead" /\ IsDraft(draft, req, world) /\ world' = world /\ st' = st
  <2>1. req.mode = "stream"
    BY Where DEF StreamCall, Cancel, StreamLook, StreamRaises, StreamCancelled, At
  <2> QED
    BY <2>1, Where DEF StreamCall, Cancel, StreamLook, StreamRaises, StreamCancelled
<1>1. CASE StreamCall
  <2>1. draft' = BeginDraft /\ wire' = wire /\ node' = node /\ run' = run /\ draft.phase = "none"
        /\ run = "running" /\ node = "stream_generate"
    BY <1>1 DEF StreamCall, At
  <2>2. wire.sent = <<>> /\ \A d \in 1 .. req.days : wire.view[d] = <<>>
    BY <1>0, <2>1 DEF StreamInv
  <2>3. IsDraft(BeginDraft, req, world) /\ BeginDraft.phase \in {"trip", "days"}
    BY <1>0, Begins
  <2>4. ShowsDraft(BeginDraft, wire, req.days)
    BY <2>2, NobodySent DEF ShowsDraft
  <2>5. StreamInv'
    BY <1>0, <2>1, <2>2, <2>3, <2>4 DEF StreamInv
  <2> QED
    BY <1>0, <2>1, <2>3, <2>5, DraftStep
<1>2. CASE Cancel
  <2>1. draft' = draft /\ wire' = [wire EXCEPT !.cancel = TRUE] /\ node' = node /\ run' = run
    BY <1>2 DEF Cancel
  <2>2. {"sent", "view", "done", "cancel"} \subseteq DOMAIN wire
    BY <1>0 DEF StreamInv
  <2>3. DOMAIN wire' = DOMAIN wire /\ wire'.sent = wire.sent /\ wire'.view = wire.view /\ wire'.done = wire.done
    BY <2>1, <2>2
  <2>4. StreamInv'
    BY <1>0, <2>1, <2>3 DEF StreamInv, Shows, ShowsDraft
  <2> QED
    BY <1>0, <2>1, <2>4, DraftStep
<1>3. CASE StreamLook
  <2>1. /\ draft' = [draft EXCEPT !.phase = IF @ = "ready" THEN "suggest" ELSE "report"]
        /\ wire' = wire /\ node' = node /\ run' = run /\ draft.phase \in {"ready", "failed"}
    BY <1>3 DEF StreamLook
  <2>2. {"phase", "day", "byDay", "plans", "errors", "seen"} \subseteq DOMAIN draft
    BY <1>0 DEF IsDraft
  <2>3. /\ DOMAIN draft' = DOMAIN draft /\ draft'.plans = draft.plans /\ draft'.day = draft.day
        /\ draft'.phase = IF draft.phase = "ready" THEN "suggest" ELSE "report"
    BY <2>1, <2>2
  <2>4. IsDraft(draft', req, world)
    BY <1>0, <2>1, <2>3 DEF IsDraft
  <2>5. StreamInv'
    BY <1>0, <2>1, <2>3 DEF StreamInv
  <2> QED
    BY <1>0, <2>1, <2>4, <2>5, DraftStep
<1>4. CASE StreamRaises
  <2>1. draft' = NoDraft /\ wire' = wire /\ node' = node /\ run' = "failed"
    BY <1>4 DEF StreamRaises
  <2>2. IsDraft(NoDraft, req, world) /\ NoDraft.phase = "none"
    BY <1>0, Begins
  <2>3. StreamInv'
    BY <1>0, <2>1, <2>2 DEF StreamInv
  <2> QED
    BY <1>0, <2>1, <2>2, <2>3, DraftStep
<1>5. CASE StreamCancelled
  <2>1. draft' = NoDraft /\ wire' = wire /\ node' = "END" /\ run' = run /\ node = "stream_generate"
    BY <1>5 DEF StreamCancelled, At, Goto
  <2>2. IsDraft(NoDraft, req, world) /\ NoDraft.phase = "none"
    BY <1>0, Begins
  <2>3. StreamInv'
    BY <1>0, <2>1, <2>2 DEF StreamInv
  <2> QED
    BY <1>0, <2>1, <2>2, <2>3 DEF GraphInv
<1> QED
  BY <1>1, <1>2, <1>3, <1>4, <1>5

LEMMA StreamEnds ==
  ASSUME GraphInv, RunInv, StreamDone
  PROVE  GraphInv'
<1>0. /\ req.mode = "stream" /\ StreamInv /\ req \in Requests /\ WorldOK(world) /\ IsState(st) /\ req' = req
      /\ run # "dead" /\ IsDraft(draft, req, world) /\ world' = world /\ node = "stream_generate"
  BY Where DEF StreamDone, At
<1>1. /\ draft.phase \in {"suggest", "report"} /\ draft' = NoDraft /\ node' = "END" /\ run' = run
      /\ wire' = [wire EXCEPT !.done = IF Len(wire.sent) = req.days THEN "complete" ELSE "partial"]
      /\ st' = IF draft.phase = "suggest" THEN [st EXCEPT !.plans = draft.plans] ELSE st
  BY DEF StreamDone, Goto
<1>2. IsDraft(NoDraft, req, world) /\ NoDraft.phase = "none"
  BY <1>0, Begins
<1>3. {"sent", "view", "done", "cancel"} \subseteq DOMAIN wire
  BY <1>0 DEF StreamInv
<1>4. DOMAIN wire' = DOMAIN wire /\ wire'.sent = wire.sent /\ wire'.view = wire.view
  BY <1>1, <1>3
<1>5. CASE draft.phase = "report"
  <2>1. StreamInv'
    BY <1>0, <1>1, <1>2, <1>4, <1>5 DEF StreamInv
  <2> QED
    BY <1>0, <1>1, <1>2, <1>5, <2>1 DEF GraphInv
<1>6. CASE draft.phase = "suggest"
  <2>1. st' = [st EXCEPT !.plans = draft.plans]
    BY <1>1, <1>6
  <2>2. Trip(draft.plans) /\ SoundTrip(draft.plans, world)
    BY <1>0 DEF IsDraft
  <2>3. st'.plans = draft.plans /\ st'.quality = st.quality /\ IsState(st')
    BY <1>0, <2>1, <2>2 DEF IsState
  <2>4. Shows(draft.plans, wire, req.days)
    BY <1>0, <1>6 DEF StreamInv
  <2>5. Shows(draft.plans, wire', req.days)
    BY <1>4, <2>4 DEF Shows
  <2>6. StreamInv'
    BY <1>0, <1>1, <1>2, <1>4, <2>2, <2>3, <2>5 DEF StreamInv
  <2> QED
    BY <1>0, <1>1, <1>2, <2>3, <2>6 DEF GraphInv
<1> QED
  BY <1>1, <1>5, <1>6

\* Who is drafting, and where it stands.
LEMMA Drafts ==
  ASSUME GraphInv, RunInv, NEW phase, DraftAt(phase)
  PROVE  /\ req.mode \in {"trip", "stream"} /\ draft.phase = phase /\ node \in {"generate", "stream_generate"}
         /\ run = "running" /\ req \in Requests /\ WorldOK(world) /\ IsState(st)
         /\ IsDraft(draft, req, world) /\ req.days \in Nat \ {0}
         /\ req.mode = "stream" => StreamInv /\ st.plans = <<>>
         /\ req.mode = "trip" => TripInv
  BY Where, Asking DEF DraftAt, Drafting, At, StreamInv

LEMMA TripAnswered ==
  ASSUME GraphInv, RunInv, DraftTrip
  PROVE  GraphInv'
<1>0. /\ req.mode \in {"trip", "stream"} /\ draft.phase = "trip" /\ node \in {"generate", "stream_generate"}
      /\ run = "running" /\ req \in Requests /\ WorldOK(world) /\ IsState(st)
      /\ IsDraft(draft, req, world) /\ req.days \in Nat \ {0}
      /\ req.mode = "stream" => StreamInv /\ st.plans = <<>>
  BY Drafts DEF DraftTrip
<1>1. UNCHANGED <<req, run, node, st, saved, world, wire, deaths>>
  BY DEF DraftTrip
<1>2. PICK a \in TripWriting :
        draft' = [draft EXCEPT !.phase = "days", !.byDay = a.days, !.errors = ~a.ok]
  BY DEF DraftTrip
<1>3. a.days = <<>> \/ a.days \in req.trips
  BY DEF TripWriting
<1>4. {"phase", "day", "byDay", "plans", "errors", "seen"} \subseteq DOMAIN draft
  BY <1>0 DEF IsDraft
<1>5. /\ DOMAIN draft' = DOMAIN draft /\ draft'.phase = "days" /\ draft'.byDay = a.days
      /\ draft'.plans = draft.plans /\ draft'.day = draft.day
  BY <1>2, <1>4
<1>6. draft.plans = <<>> /\ draft.day = 1
  BY <1>0 DEF IsDraft
<1>7. IsDraft(draft', req, world)
  BY <1>0, <1>3, <1>4, <1>5, <1>6 DEF IsDraft
<1>8. ASSUME req.mode = "stream" PROVE StreamInv'
  <2>1. wire.sent = <<>> /\ \A d \in 1 .. req.days : wire.view[d] = <<>>
    BY <1>0, <1>8 DEF StreamInv
  <2>2. ShowsDraft(draft', wire, req.days)
    BY <2>1, NobodySent DEF ShowsDraft
  <2> QED
    BY <1>0, <1>1, <1>5, <1>8, <2>2 DEF StreamInv
<1> QED
  BY <1>0, <1>1, <1>7, <1>8, DraftStep

\* A day that has come past: its plan, what is known since, and what the client was sent.
Passed(day) ==
  /\ Pois(day.kept) /\ SoundDay(day.kept, day.w) /\ Grows(world, day.w)

LEMMA WrittenIsPlan ==
  ASSUME req \in Requests, IsDraft(draft, req, world), draft.phase = "days"
  PROVE  \A a \in Written : IsPlan(a.items)
<1>1. CASE draft.day \in Covered(draft.byDay)
  <2> DEFINE trip == draft.byDay
             hits == {i \in DOMAIN trip : trip[i].day = draft.day}
  <2>1. hits # {}
    BY <1>1 DEF Covered
  <2>2. trip # <<>>
    BY <2>1, Nothing
  <2>3. trip \in req.trips
    BY <2>2 DEF IsDraft
  <2>4. IsList(trip) /\ \A i \in DOMAIN trip : IsPlan(trip[i].items)
    BY <2>3, Asking
  <2>5. Len(trip) \in Nat /\ DOMAIN trip = 1 .. Len(trip)
    BY <2>4, ListOf
  <2>6. hits \in SUBSET (1 .. Len(trip))
    BY <2>5
  <2>7. Min(hits) \in hits
    <3> HIDE DEF hits
    <3> QED
      BY <2>1, <2>5, <2>6, LeastIn
  <2>8. FirstOf(trip, draft.day) = trip[Min(hits)].items
    BY DEF FirstOf
  <2>9. IsPlan(FirstOf(trip, draft.day))
    BY <2>4, <2>7, <2>8
  <2> QED
    BY <1>1, <2>9 DEF Written
<1>2. CASE draft.day \notin Covered(draft.byDay)
  BY <1>2, WritingIsPlan DEF Written
<1> QED
  BY <1>1, <1>2

LEMMA Sending ==
  ASSUME NEW s, NEW n \in Nat, s \in Seq(1 .. n), NEW d \in 1 .. n
  PROVE  Append(s, d) \in Seq(1 .. n) /\ \A e : Contains(Append(s, d), e) <=> Contains(s, e) \/ e = d
<1> DEFINE t == Append(s, d)
<1>1. /\ t \in Seq(1 .. n) /\ Len(t) = Len(s) + 1 /\ Len(s) \in Nat /\ t[Len(s) + 1] = d
      /\ \A i \in 1 .. Len(s) : t[i] = s[i]
  OBVIOUS
<1> HIDE DEF t
<1>2. ASSUME NEW e, Contains(t, e) PROVE Contains(s, e) \/ e = d
  <2>1. PICK i \in 1 .. Len(t) : t[i] = e
    BY <1>2 DEF Contains
  <2>2. CASE i = Len(s) + 1
    BY <1>1, <2>1, <2>2
  <2>3. CASE i # Len(s) + 1
    <3>1. i \in 1 .. Len(s)
      BY <1>1, <2>3
    <3> QED
      BY <1>1, <2>1, <3>1 DEF Contains
  <2> QED
    BY <2>2, <2>3
<1>3. ASSUME NEW e, Contains(s, e) PROVE Contains(t, e)
  <2>1. PICK i \in 1 .. Len(s) : s[i] = e
    BY <1>3 DEF Contains
  <2>2. i \in 1 .. Len(t) /\ t[i] = e
    BY <1>1, <2>1
  <2> QED
    BY <2>2 DEF Contains
<1>4. Contains(t, d)
  <2>1. Len(s) + 1 \in 1 .. Len(t)
    BY <1>1
  <2> QED
    BY <1>1, <2>1 DEF Contains
<1> QED
  BY <1>1, <1>2, <1>3, <1>4 DEF t

LEMMA DayDrafted ==
  ASSUME GraphInv, RunInv, DraftDay
  PROVE  GraphInv'
<1>0. /\ req.mode \in {"trip", "stream"} /\ draft.phase = "days" /\ node \in {"generate", "stream_generate"}
      /\ run = "running" /\ req \in Requests /\ WorldOK(world) /\ IsState(st)
      /\ IsDraft(draft, req, world) /\ req.days \in Nat \ {0}
      /\ req.mode = "stream" => StreamInv /\ st.plans = <<>>
      /\ req.mode = "trip" => TripInv
  BY Drafts DEF DraftDay
<1>1. UNCHANGED <<req, run, node, st, saved, deaths>> /\ draft.day <= req.days
  BY DEF DraftDay
<1>2. PICK a \in Written, day \in {LandDay(Found(st.found), x.items, draft.seen, world) : x \in Written} :
        /\ day = LandDay(Found(st.found), a.items, draft.seen, world)
        /\ world' = day.w
        /\ OnDay(draft.day, day.kept, [draft EXCEPT !.day = @ + 1, !.plans = Append(@, day.kept),
                                                    !.seen = day.seen, !.errors = @ \/ ~a.ok])
  BY DEF DraftDay
<1>3. Passed(day)
  <2>1. RowList(Found(st.found)) /\ IsPlan(a.items)
    BY <1>0, FoundRows, WrittenIsPlan DEF IsState
  <2> QED
    BY <1>0, <1>2, <2>1, LandedDay DEF Passed
<1> DEFINE d == draft.day
           next == [draft EXCEPT !.day = @ + 1, !.plans = Append(@, day.kept),
                                 !.seen = day.seen, !.errors = @ \/ ~a.ok]
           noted == [wire EXCEPT !.sent = Append(@, d)]
           plans == Append(draft.plans, day.kept)
<1>4. {"phase", "day", "byDay", "plans", "errors", "seen"} \subseteq DOMAIN draft
  BY <1>0 DEF IsDraft
<1>5. /\ DOMAIN next = DOMAIN draft /\ next.phase = "days" /\ next.byDay = draft.byDay
      /\ next.plans = plans /\ next.day = d + 1
  BY <1>0, <1>4
<1>6. d \in 1 .. req.days /\ Len(draft.plans) = d - 1
  BY <1>0, <1>1 DEF IsDraft
<1>7. OnDay(d, day.kept, next)
  BY <1>2
<1> HIDE DEF next
<1>8. /\ Trip(draft.plans) /\ SoundTrip(draft.plans, world)
      /\ draft.byDay = <<>> \/ draft.byDay \in req.trips
  BY <1>0 DEF IsDraft
<1>9. Trip(plans) /\ SoundTrip(plans, day.w) /\ Len(plans) = d
  <2>1. SoundTrip(draft.plans, day.w)
    BY <1>3, <1>8, TripStays DEF Passed
  <2>2. Trip(plans) /\ SoundTrip(plans, day.w) /\ Len(plans) = Len(draft.plans) + 1
    BY <1>3, <1>8, <2>1, DaysGrow DEF Passed
  <2> QED
    BY <1>6, <2>2
<1>10. WorldOK(day.w) /\ SoundTrip(st.plans, day.w)
  <2>1. Trip(st.plans) /\ SoundTrip(st.plans, world)
    BY <1>0, Blank DEF IsState, TripInv
  <2> QED
    BY <1>3, <2>1, TripStays DEF Passed, Grows
<1>11. /\ \A e \in 1 .. d - 1 : plans[e] = draft.plans[e]
       /\ plans[d] = day.kept
  <2>1. IsList(draft.plans)
    BY <1>8 DEF Trip
  <2>2. /\ \A i \in 1 .. Len(draft.plans) : Append(draft.plans, day.kept)[i] = draft.plans[i]
        /\ Append(draft.plans, day.kept)[Len(draft.plans) + 1] = day.kept
    BY <2>1, Longer
  <2>3. Len(draft.plans) + 1 = d
    BY <1>6
  <2> QED
    BY <1>6, <2>2, <2>3
<1> HIDE DEF plans
<1>12. IsDraft(next, req, day.w)
  BY <1>0, <1>4, <1>5, <1>6, <1>8, <1>9 DEF IsDraft
<1>13. ASSUME NEW ph \in {"cancelled", "failed"}, NEW dr, dr = [next EXCEPT !.phase = ph]
       PROVE  IsDraft(dr, req, day.w) /\ dr.phase = ph
  <2>1. DOMAIN dr = DOMAIN next /\ dr.plans = next.plans /\ dr.phase = ph
    BY <1>4, <1>5, <1>13
  <2> QED
    BY <1>12, <2>1 DEF IsDraft
<1>14. CASE req.mode = "trip"
  <2>1. draft' = next /\ wire' = wire
    BY <1>7, <1>14 DEF OnDay
  <2>2. TripInv'
    BY <1>0, <1>1, <1>2, <1>10, <1>14, <2>1 DEF TripInv, ReadyIsClean
  <2> QED
    BY <1>0, <1>1, <1>2, <1>10, <1>12, <1>14, <2>1, <2>2 DEF GraphInv
<1>15. CASE req.mode = "stream"
  <2>0. /\ StreamInv /\ st.plans = <<>> /\ ShowsDraft(draft, wire, req.days)
        /\ wire.sent \in Seq(1 .. req.days) /\ DOMAIN wire.view = 1 .. req.days
        /\ {"sent", "view", "done", "cancel"} \subseteq DOMAIN wire /\ wire.done = "no"
    BY <1>0, <1>15 DEF StreamInv
  <2> SUFFICES StreamInv' /\ IsDraft(draft', req, day.w)
    BY <1>0, <1>1, <1>2, <1>10, <1>15 DEF GraphInv
  <2>1. CASE day.kept = <<>>
    <3>1. draft' = next /\ wire' = wire
      BY <1>7, <2>1 DEF OnDay
    <3>2. ShowsDraft(next, wire, req.days)
      <4>1. ASSUME NEW e \in 1 .. req.days, Contains(wire.sent, e)
            PROVE  e < next.day /\ wire.view[e] = next.plans[e]
        <5>1. e < d /\ wire.view[e] = draft.plans[e]
          BY <2>0, <4>1 DEF ShowsDraft
        <5>2. e \in 1 .. d - 1
          BY <1>6, <5>1
        <5> QED
          BY <1>5, <1>6, <1>11, <5>1, <5>2
      <4> QED
        BY <2>0, <4>1 DEF ShowsDraft
    <3>3. StreamInv'
      BY <1>1, <1>2, <1>5, <1>10, <1>15, <2>0, <3>1, <3>2 DEF StreamInv
    <3> QED
      BY <1>12, <3>1, <3>3
  <2>2. CASE day.kept # <<>> /\ wire.cancel
    <3>1. draft' = [next EXCEPT !.phase = "cancelled"] /\ wire' = wire
      BY <1>7, <1>15, <2>2 DEF OnDay
    <3>2. IsDraft(draft', req, day.w) /\ draft'.phase = "cancelled"
      BY <1>13, <3>1
    <3>3. StreamInv'
      BY <1>1, <1>2, <1>10, <1>15, <2>0, <3>1, <3>2 DEF StreamInv
    <3> QED
      BY <3>2, <3>3
  <2>3. /\ DOMAIN noted = DOMAIN wire /\ noted.view = wire.view /\ noted.done = wire.done
        /\ noted.sent = Append(wire.sent, d) /\ noted.sent \in Seq(1 .. req.days)
        /\ \A e : Contains(noted.sent, e) <=> Contains(wire.sent, e) \/ e = d
    <3>1. /\ DOMAIN noted = DOMAIN wire /\ noted.view = wire.view /\ noted.done = wire.done
          /\ noted.sent = Append(wire.sent, d)
      BY <2>0
    <3> HIDE DEF noted, d
    <3>2. /\ Append(wire.sent, d) \in Seq(1 .. req.days)
          /\ \A e : Contains(Append(wire.sent, d), e) <=> Contains(wire.sent, e) \/ e = d
      BY <1>0, <1>6, <2>0, Sending
    <3> QED
      BY <3>1, <3>2
  <2>4. CASE day.kept # <<>> /\ ~wire.cancel /\ \E i \in DOMAIN day.kept : ~KnownType(day.kept[i].type)
    <3>1. draft' = [next EXCEPT !.phase = "failed"] /\ wire' = noted
      BY <1>7, <1>15, <2>4 DEF OnDay
    <3>2. IsDraft(draft', req, day.w) /\ draft'.phase = "failed"
      BY <1>13, <3>1
    <3> HIDE DEF noted
    <3>3. StreamInv'
      BY <1>0, <1>1, <1>2, <1>10, <1>15, <2>0, <2>3, <3>1, <3>2 DEF StreamInv
    <3> QED
      BY <3>2, <3>3
  <2>5. CASE day.kept # <<>> /\ ~wire.cancel /\ ~ \E i \in DOMAIN day.kept : ~KnownType(day.kept[i].type)
    <3> DEFINE shown == [noted EXCEPT !.view[d] = day.kept]
    <3>1. draft' = next /\ wire' = shown
      BY <1>7, <1>15, <2>5 DEF OnDay
    <3> HIDE DEF noted
    <3>2. /\ DOMAIN shown = DOMAIN noted /\ shown.sent = noted.sent /\ shown.done = noted.done
          /\ shown.view = [wire.view EXCEPT ![d] = day.kept]
      BY <2>0, <2>3
    <3> HIDE DEF shown
    <3>3. /\ DOMAIN shown.view = 1 .. req.days /\ shown.view[d] = day.kept
          /\ \A e \in 1 .. req.days : e # d => shown.view[e] = wire.view[e]
      BY <1>6, <2>0, <3>2
    <3>4. ShowsDraft(next, shown, req.days)
      <4>1. ASSUME NEW e \in 1 .. req.days, Contains(shown.sent, e)
            PROVE  e < next.day /\ shown.view[e] = next.plans[e]
        <5>1. CASE e = d
          BY <1>5, <1>6, <1>11, <3>3, <5>1
        <5>2. CASE e # d
          <6>1. e < d /\ wire.view[e] = draft.plans[e]
            BY <2>0, <2>3, <3>2, <4>1, <5>2 DEF ShowsDraft
          <6>2. e \in 1 .. d - 1
            BY <1>6, <6>1
          <6> QED
            BY <1>5, <1>6, <1>11, <3>3, <5>2, <6>1, <6>2
        <5> QED
          BY <5>1, <5>2
      <4>2. ASSUME NEW e \in 1 .. req.days, ~Contains(shown.sent, e) PROVE shown.view[e] = <<>>
        <5>1. e # d /\ ~Contains(wire.sent, e)
          BY <2>3, <3>2, <4>2
        <5> QED
          BY <2>0, <3>3, <5>1 DEF ShowsDraft
      <4> QED
        BY <4>1, <4>2 DEF ShowsDraft
    <3>5. StreamInv'
      BY <1>0, <1>1, <1>2, <1>5, <1>10, <1>15, <2>0, <2>3, <3>1, <3>2, <3>3, <3>4 DEF StreamInv
    <3> QED
      BY <1>12, <3>1, <3>5
  <2> QED
    BY <2>1, <2>2, <2>4, <2>5
<1> QED
  BY <1>0, <1>14, <1>15

LEMMA DraftEnds ==
  ASSUME GraphInv, RunInv, DraftEnd
  PROVE  GraphInv'
<1>0. /\ req.mode \in {"trip", "stream"} /\ draft.phase = "days" /\ node \in {"generate", "stream_generate"}
      /\ run = "running" /\ req \in Requests /\ WorldOK(world) /\ IsState(st)
      /\ IsDraft(draft, req, world) /\ req.days \in Nat \ {0}
      /\ req.mode = "stream" => StreamInv /\ st.plans = <<>>
      /\ req.mode = "trip" => TripInv
  BY Drafts DEF DraftEnd
<1>1. UNCHANGED <<req, run, node, st, saved, world, deaths>> /\ draft.day > req.days
  BY DEF DraftEnd
<1> DEFINE spread == Spread(draft.plans)
           filled == FillCosts(Found(st.found), spread)
           grown == {d \in DOMAIN spread : spread[d] # draft.plans[d]}
           patched == Patched(grown)
           shown == [wire EXCEPT !.view = [d \in DOMAIN @ |-> IF d \in patched THEN spread[d] ELSE @[d]]]
<1>2. {"phase", "day", "byDay", "plans", "errors", "seen"} \subseteq DOMAIN draft
  BY <1>0 DEF IsDraft
<1>3. /\ draft.day = req.days + 1 /\ Len(draft.plans) = req.days
      /\ Trip(draft.plans) /\ SoundTrip(draft.plans, world)
  BY <1>0, <1>1 DEF IsDraft
<1>4. DOMAIN draft.plans = 1 .. req.days
  BY <1>3, ListOf DEF Trip
<1>5. /\ Trip(spread) /\ SoundTrip(spread, world) /\ DOMAIN spread = 1 .. req.days
      /\ Len(spread) = req.days
  BY <1>3, <1>4, Spreads
<1> HIDE DEF spread
<1>6. /\ Trip(filled) /\ SoundTrip(filled, world) /\ Len(filled) = req.days
      /\ \A d \in 1 .. req.days : Shape(filled[d]) = Shape(spread[d])
  BY <1>5, CostsKeep
<1> HIDE DEF filled
<1>7. ASSUME draft' = [draft EXCEPT !.phase = "failed"], wire' = wire PROVE GraphInv'
  <2>1. DOMAIN draft' = DOMAIN draft /\ draft'.phase = "failed" /\ draft'.plans = draft.plans
    BY <1>2, <1>7
  <2>2. IsDraft(draft', req, world)
    BY <1>0, <2>1 DEF IsDraft
  <2>3. req.mode = "stream" => StreamInv'
    BY <1>0, <1>1, <1>7, <2>1 DEF StreamInv
  <2> QED
    BY <1>0, <1>1, <1>7, <2>2, <2>3, DraftStep
<1>8. ASSUME draft' = [draft EXCEPT !.phase = "ready", !.plans = filled], wire' = shown PROVE GraphInv'
  <2>1. DOMAIN draft' = DOMAIN draft /\ draft'.phase = "ready" /\ draft'.plans = filled
    BY <1>2, <1>8
  <2>2. IsDraft(draft', req, world)
    BY <1>2, <1>6, <2>1 DEF IsDraft
  <2>3. CASE req.mode = "stream"
    <3>1. /\ {"sent", "view", "done", "cancel"} \subseteq DOMAIN wire /\ DOMAIN wire.view = 1 .. req.days
          /\ wire.sent \in Seq(1 .. req.days) /\ ShowsDraft(draft, wire, req.days)
          /\ st.plans = <<>> /\ st.quality = Unset /\ SoundTrip(st.plans, world)
          /\ node = "stream_generate" /\ wire.done = "no"
      BY <1>0, <2>3 DEF StreamInv
    <3>2. /\ DOMAIN shown = DOMAIN wire /\ shown.sent = wire.sent /\ shown.done = wire.done
          /\ shown.view = [d \in 1 .. req.days |-> IF d \in patched THEN spread[d] ELSE wire.view[d]]
      BY <3>1
    <3> HIDE DEF shown
    <3>3. patched = {d \in grown : Contains(wire.sent, d)}
      BY DEF Patched
    <3>4. ASSUME NEW d \in 1 .. req.days, Contains(wire.sent, d) PROVE Shape(shown.view[d]) = Shape(filled[d])
      <4>1. shown.view[d] = spread[d]
        <5>1. CASE d \in grown
          BY <3>2, <3>3, <3>4, <5>1
        <5>2. CASE d \notin grown
          <6>1. wire.view[d] = draft.plans[d]
            BY <3>1, <3>4 DEF ShowsDraft
          <6>2. spread[d] = draft.plans[d]
            BY <1>5, <5>2
          <6> QED
            BY <3>2, <3>3, <5>2, <6>1, <6>2
        <5> QED
          BY <5>1, <5>2
      <4> QED
        BY <1>6, <4>1
    <3>5. ASSUME NEW d \in 1 .. req.days, ~Contains(wire.sent, d) PROVE shown.view[d] = <<>>
      BY <3>1, <3>2, <3>3, <3>5 DEF ShowsDraft
    <3>6. Shows(filled, shown, req.days)
      BY <3>2, <3>4, <3>5 DEF Shows
    <3>7. StreamInv'
      BY <1>1, <1>8, <2>1, <3>1, <3>2, <3>6 DEF StreamInv
    <3> QED
      BY <1>0, <1>1, <2>2, <2>3, <3>7, DraftStep
  <2>4. CASE req.mode = "trip"
    <3>1. req' = req /\ world' = world /\ st' = st /\ node' = node /\ run' = run
      BY <1>1
    <3>2. node # "END" /\ st.quality = Unset
      BY <1>0, <2>4 DEF TripInv
    <3>3. TripInv'
      <4>1. DOMAIN wire' = DOMAIN wire /\ wire'.done = wire.done
        <5>1. {"done", "view"} \subseteq DOMAIN wire
          BY <1>0, <2>4 DEF TripInv
        <5>2. DOMAIN shown = DOMAIN wire /\ shown.done = wire.done
          BY <5>1
        <5> HIDE DEF shown
        <5> QED
          BY <1>8, <5>2
      <4> QED
        BY <1>0, <2>4, <3>1, <4>1 DEF TripInv, ReadyIsClean
    <3> QED
      BY <1>0, <2>2, <2>4, <3>1, <3>3 DEF GraphInv
  <2> QED
    BY <1>0, <2>3, <2>4
<1> HIDE DEF patched, shown
<1>9. \/ draft' = [draft EXCEPT !.phase = "failed"] /\ wire' = wire
      \/ draft' = [draft EXCEPT !.phase = "ready", !.plans = filled] /\ wire' = shown
  BY DEF DraftEnd, spread, filled, patched, shown
<1> QED
  BY <1>7, <1>8, <1>9

-----------------------------------------------------------------------------
(* A whole trip. *)

LEMMA TripStep ==
  ASSUME GraphInv, req.mode = "trip", req' = req, world' = world, wire' = wire, run' # "dead",
         IsState(st'), IsDraft(draft', req, world), SoundTrip(st'.plans, world),
         st'.plans = <<>> \/ Len(st'.plans) = req.days,
         node' \in {"generate", "reflect", "END"}, node' # "END" => st'.quality = Unset,
         st'.quality = "ready" => /\ Issues(st'.plans, req.budget) = {}
                                  /\ \A d \in 1 .. req.days : st'.plans[d] # <<>>
  PROVE  GraphInv'
<1>1. TripInv'
  BY DEF GraphInv, TripInv, ReadyIsClean
<1> QED
  BY <1>1 DEF GraphInv

LEMMA Generating ==
  ASSUME GraphInv, RunInv, GenerateCall \/ GenerateDone
  PROVE  GraphInv'
<1>0. /\ req.mode = "trip" /\ TripInv /\ req \in Requests /\ WorldOK(world) /\ IsState(st) /\ req' = req
      /\ run' # "dead" /\ IsDraft(draft, req, world) /\ world' = world /\ wire' = wire
      /\ node = "generate" /\ st.quality = Unset /\ req.days \in Nat \ {0}
  <2>1. node = "generate"
    BY DEF GenerateCall, GenerateDone, At
  <2> QED
    BY <2>1, Where, Asking DEF GenerateCall, GenerateDone
<1>1. IsDraft(BeginDraft, req, world) /\ IsDraft(NoDraft, req, world)
  BY <1>0, Begins
<1>2. Trip(st.plans) /\ SoundTrip(st.plans, world) /\ (st.plans = <<>> \/ Len(st.plans) = req.days)
  BY <1>0 DEF TripInv, IsState
<1>3. Unset # "ready"
  BY Unjudged
<1>4. ASSUME st' = DraftOnly(st), node' = "reflect", IsDraft(draft', req, world) PROVE GraphInv'
  <2> DEFINE e == EmptyPlans(req.days)
  <2>1. Trip(e) /\ Len(e) = req.days /\ SoundTrip(e, world)
    BY <1>0, Blank
  <2>2. st' = [st EXCEPT !.plans = e, !.error = FALSE, !.dest = "draft_only"]
    BY <1>4 DEF DraftOnly
  <2> HIDE DEF e
  <2>3. st'.plans = e /\ st'.quality = Unset /\ IsState(st')
    BY <1>0, <2>1, <2>2 DEF IsState
  <2> QED
    BY <1>0, <1>3, <1>4, <2>1, <2>3, TripStep
<1>5. CASE GenerateCall
  <2>1. CASE req.llm /\ st.attempts < MaxGenerations
    <3>1. draft' = BeginDraft /\ node' = node /\ st' = st
      BY <1>5, <2>1 DEF GenerateCall
    <3> QED
      BY <1>0, <1>1, <1>2, <1>3, <3>1, TripStep
  <2>2. CASE ~(req.llm /\ st.attempts < MaxGenerations)
    <3>1. draft' = draft /\ node' = "reflect" /\ st' = DraftOnly(st)
      BY <1>5, <2>2 DEF GenerateCall, Goto
    <3> QED
      BY <1>0, <1>4, <3>1
  <2> QED
    BY <2>1, <2>2
<1>6. CASE GenerateDone
  <2>0. draft' = NoDraft /\ node' = "reflect"
    BY <1>6 DEF GenerateDone, Goto
  <2>1. CASE draft.phase = "ready"
    <3>1. PICK x : st' = [st EXCEPT !.plans = draft.plans, !.error = FALSE, !.dest = x]
      BY <1>6, <2>1 DEF GenerateDone
    <3>2. Trip(draft.plans) /\ SoundTrip(draft.plans, world) /\ Len(draft.plans) = req.days
      BY <1>0, <2>1 DEF IsDraft
    <3>3. st'.plans = draft.plans /\ st'.quality = Unset /\ IsState(st')
      BY <1>0, <3>1, <3>2 DEF IsState
    <3> QED
      BY <1>0, <1>1, <1>3, <2>0, <3>2, <3>3, TripStep
  <2>2. CASE draft.phase # "ready" /\ st.attempts + 1 >= MaxGenerations
    <3>1. st' = DraftOnly(st)
      BY <1>6, <2>2 DEF GenerateDone
    <3> QED
      BY <1>1, <1>4, <2>0, <3>1
  <2>3. CASE draft.phase # "ready" /\ ~(st.attempts + 1 >= MaxGenerations)
    <3>1. st' = [st EXCEPT !.error = TRUE, !.attempts = @ + 1]
      BY <1>6, <2>3 DEF GenerateDone
    <3>2. st'.plans = st.plans /\ st'.quality = Unset /\ IsState(st')
      BY <1>0, <3>1 DEF IsState
    <3> QED
      BY <1>0, <1>1, <1>2, <1>3, <2>0, <3>2, TripStep
  <2> QED
    BY <2>1, <2>2, <2>3
<1> QED
  BY <1>5, <1>6

\* What is handed out is sound, and ready only if it is judged so as it is.
LEMMA Formats ==
  ASSUME GraphInv, RunInv, Format
  PROVE  GraphInv'
<1>0. /\ req.mode = "trip" /\ TripInv /\ req \in Requests /\ WorldOK(world) /\ IsState(st) /\ req' = req
      /\ run' # "dead" /\ IsDraft(draft, req, world) /\ world' = world /\ wire' = wire /\ draft' = draft
      /\ node' = "END" /\ req.days \in Nat \ {0}
  <2>1. node = "format"
    BY DEF Format, At
  <2> QED
    BY <2>1, Where, Asking DEF Format, Goto
<1> DEFINE plans == [d \in DOMAIN st.plans |-> Assembled(st.plans[d])]
<1>1. st' = [st EXCEPT !.plans = plans, !.quality = Judge(plans)]
  BY DEF Format
<1>2. Trip(st.plans) /\ SoundTrip(st.plans, world) /\ (st.plans = <<>> \/ Len(st.plans) = req.days)
  BY <1>0 DEF TripInv, IsState
<1>3. Len(st.plans) \in Nat /\ DOMAIN st.plans = 1 .. Len(st.plans)
  BY <1>2, ListOf DEF Trip
<1>4. ASSUME NEW d \in DOMAIN st.plans PROVE Pois(plans[d]) /\ SoundDay(plans[d], world)
  BY <1>0, <1>2, Assembles DEF Trip, SoundTrip, IsState
<1>5. DOMAIN plans = DOMAIN st.plans /\ plans = [d \in DOMAIN st.plans |-> plans[d]]
  OBVIOUS
<1> HIDE DEF plans
<1>6. IsList(plans) /\ Len(plans) = Len(st.plans)
  BY <1>3, <1>5, ListFrom
<1>7. Trip(plans) /\ SoundTrip(plans, world)
  BY <1>4, <1>5, <1>6 DEF Trip, SoundTrip
<1>8. plans = <<>> \/ Len(plans) = req.days
  <2>1. CASE st.plans = <<>>
    <3>1. Len(plans) = 0
      BY <1>6, <2>1
    <3> QED
      BY <1>6, <3>1 DEF IsList
  <2> QED
    BY <1>2, <1>6, <2>1
<1>9. st'.plans = plans /\ st'.quality = Judge(plans) /\ IsState(st')
  BY <1>0, <1>1, <1>7 DEF IsState
<1>10. ASSUME Judge(plans) = "ready"
       PROVE  Issues(plans, req.budget) = {} /\ \A d \in 1 .. req.days : plans[d] # <<>>
  <2>1. /\ AnyItems(plans) /\ FinalIssues(plans) = {}
        /\ ~ \E d \in DOMAIN plans : plans[d] = <<>>
    BY <1>10 DEF Judge
  <2>2. plans # <<>>
    BY <2>1, Nothing DEF AnyItems
  <2>3. DOMAIN plans = 1 .. req.days
    BY <1>6, <1>8, <2>2, ListOf
  <2> QED
    BY <2>1, <2>3 DEF FinalIssues
<1> QED
  BY <1>0, <1>7, <1>8, <1>9, <1>10, TripStep

LEMMA StepGraph == GraphInv /\ RunInv /\ RunInv' /\ [Next]_vars => GraphInv'
<1> SUFFICES ASSUME GraphInv, RunInv, RunInv', [Next]_vars PROVE GraphInv'
  OBVIOUS
<1>1. CASE Start \/ Dispatch \/ Save \/ Return \/ Finished \/ UNCHANGED vars \/ DayReflect \/ DayRetry
             \/ DayFallback \/ Parse \/ Research \/ Reflect \/ Refill
  BY <1>1, QuietSteps
<1>2. CASE Die \/ Resume \/ DayGenerate
  BY <1>2, DaySteps2
<1>3. CASE StreamCall \/ Cancel \/ StreamLook \/ StreamRaises \/ StreamCancelled
  BY <1>3, StartDraft
<1>4. CASE StreamDone
  BY <1>4, StreamEnds
<1>5. CASE DraftTrip
  BY <1>5, TripAnswered
<1>6. CASE DraftDay
  BY <1>6, DayDrafted
<1>7. CASE DraftEnd
  BY <1>7, DraftEnds
<1>8. CASE GenerateCall \/ GenerateDone
  BY <1>8, Generating
<1>9. CASE Format
  BY <1>9, Formats
<1> QED
  BY <1>1, <1>2, <1>3, <1>4, <1>5, <1>6, <1>7, <1>8, <1>9 DEF Next, Work

LEMMA GraphKeeps == Spec => [](RunInv /\ GraphInv)
<1>1. Init => RunInv /\ GraphInv
  BY InitGraph DEF Init, RunInv, DayNodes
<1> QED
  BY <1>1, RunInvStep, StepGraph, PTL DEF Spec

\* A place that was denied is in no plan and in no draft, whatever the sources answer and
\* in whatever order they are asked: who is kept is confirmed, vouched for by a row, or
\* nobody who could deny it can still be asked (drop_refuted_items, resolve_poi).
THEOREM NothingDenied == Spec => []RefutedOut
<1>1. GraphInv => RefutedOut
  <2> SUFFICES ASSUME GraphInv PROVE RefutedOut
    OBVIOUS
  <2>1. req.mode = "day" \/ req.mode # "day"
    OBVIOUS
  <2>2. CASE req.mode = "day"
    <3>1. draft.plans = <<>> /\ \A d \in DOMAIN st.plans : Undenied(st.plans[d], world)
      BY <2>2 DEF GraphInv, DayInv, NoDraft
    <3> QED
      BY <3>1, Nothing DEF RefutedOut, Refuted, Undenied
  <2>3. CASE req.mode # "day"
    <3>1. SoundTrip(st.plans, world) /\ SoundTrip(draft.plans, world)
      <4>1. req.mode \in {"trip", "stream"}
        BY <2>3, Asking DEF GraphInv
      <4> QED
        BY <2>3, <4>1 DEF GraphInv, IsDraft, TripInv, StreamInv
    <3>2. \A item : Sound(item, world) => ~Refuted(item)
      BY DEF Sound, Cleared, Refuted
    <3> QED
      BY <3>1, <3>2 DEF RefutedOut, SoundTrip, SoundDay
  <2> QED
    BY <2>2, <2>3
<1> QED
  BY <1>1, GraphKeeps, PTL

\* The client of a stream that ended with a plan has the plan: the days it was sent as they
\* are, with the hotel that came later, and none of the others.
THEOREM ClientHasThePlan == Spec => []StreamShowsTrip
<1>1. GraphInv => StreamShowsTrip
  <2> SUFFICES ASSUME GraphInv, wire.done # "no", st.plans # <<>>
               PROVE  \A d \in 1 .. req.days :
                        IF Contains(wire.sent, d) THEN Shape(wire.view[d]) = Shape(st.plans[d])
                        ELSE wire.view[d] = <<>>
    BY DEF StreamShowsTrip
  <2>1. CASE req.mode = "stream"
    BY <2>1 DEF GraphInv, StreamInv, Shows
  <2>2. CASE req.mode = "trip"
    BY <2>2 DEF GraphInv, TripInv
  <2>3. CASE req.mode = "day"
    BY <2>3 DEF GraphInv, DayInv
  <2> QED
    BY <2>1, <2>2, <2>3, Asking DEF GraphInv
<1> QED
  BY <1>1, GraphKeeps, PTL

\* A trip called ready breaks no rule as it is handed out and has something for every day.
THEOREM ReadyMeansClean == Spec => []ReadyIsClean
<1>1. GraphInv => ReadyIsClean
  <2> SUFFICES ASSUME GraphInv PROVE ReadyIsClean
    OBVIOUS
  <2>1. CASE req.mode = "trip"
    BY <2>1 DEF GraphInv, TripInv
  <2>2. CASE req.mode = "day" \/ req.mode = "stream"
    <3>1. st.quality = Unset
      BY <2>2 DEF GraphInv, DayInv, StreamInv
    <3> QED
      BY <3>1, Unjudged DEF ReadyIsClean
  <2> QED
    BY <2>1, <2>2, Asking DEF GraphInv
<1> QED
  BY <1>1, GraphKeeps, PTL
=============================================================================
