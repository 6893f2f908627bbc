------------------------------- MODULE Replan -------------------------------
(***************************************************************************)
(* Rearranging some days of a trip (local_replan.py): on every affected    *)
(* day the places that are not locked give way to the candidates, slot by  *)
(* slot, and the optimizer (schedule_optimizer.py) times the day anew,     *)
(* leaving out what does not fit.  A day that cannot keep its locked       *)
(* places, or whose distances nobody tells, stays as it was.               *)
(***************************************************************************)
EXTENDS Integers, Sequences, FiniteSets, SequencesExt

CONSTANTS
  Jobs,       \* requests: [plans, days, wanted, locked, money]; money -1: no limit
  Shop,       \* what a search for places finds, each name once
  Travel,     \* hours between two places, as the matrix says
  DayStart, DayEnd, MaxSights, MaxBusy, SearchMax  \* SearchMax: up to so many items all orders are tried

\* The matrix has every place of the trip and of the search.
Placeable == {way[1] : way \in DOMAIN Travel}
Stops == [name : Placeable, type : STRING, long : Nat, open : Int \X Int, cost : Int, from : Int]
ASSUME ReplanAssumption ==
  /\ Travel \in [Placeable \X Placeable -> Nat] /\ "none" \notin Placeable
  /\ Shop \in Seq(Stops)
  /\ {DayStart, DayEnd, MaxSights, MaxBusy, SearchMax} \subseteq Int
  /\ \A j \in Jobs : /\ j.plans \in Seq(Seq(Stops)) /\ j.days \in Seq(DOMAIN j.plans)
                    /\ j.wanted \in Seq(STRING) /\ j.money \in Int

VARIABLE job    \* [at, asked, given, todo, out, bad]
replanVars == <<job>>

\* Hours on the way, of a place to another.
Hours(p, q) == Travel[<<p, q>>]
Active(x) == x.type \in {"sight", "food"}
NamesIn(items) == {x.name : x \in ToSet(items)}

-----------------------------------------------------------------------------
(* optimize_daily_plan *)

\* Sights beyond the limit go, required ones excepted.
KeepOne(locked, acc, x) ==
  LET sights == acc.sights + (IF x.type = "sight" THEN 1 ELSE 0) IN
  IF Active(x) /\ (x.type = "food" \/ sights <= MaxSights \/ x.name \in locked)
  THEN [kept |-> Append(acc.kept, x), sights |-> sights] ELSE [acc EXCEPT !.sights = sights]
KeptOf(items, locked) ==
  FoldLeft(LAMBDA acc, x : KeepOne(locked, acc, x), [kept |-> <<>>, sights |-> 0], items).kept

\* One item more: it waits for the opening and for the way, and is left out when it does
\* not end in time, costs too much or makes the day too long.
Begins(st, x) ==
  LET ready == st.clock + (IF st.prev = "none" THEN 0 ELSE Hours(st.prev, x.name)) IN
  IF ready < x.open[1] THEN x.open[1] ELSE ready
Fits(st, x, money) ==
  LET end == Begins(st, x) + x.long IN
  /\ end <= x.open[2] /\ end <= DayEnd
  /\ money = -1 \/ st.spent + x.cost <= money
  /\ st.busy + x.long <= MaxBusy
Idle == [clock |-> DayStart, prev |-> "none", spent |-> 0, busy |-> 0, way |-> 0, list |-> <<>>, out |-> <<>>]
Timed(st, x, money) ==
  IF Fits(st, x, money)
  THEN [st EXCEPT !.clock = Begins(st, x) + x.long, !.prev = x.name, !.spent = @ + x.cost, !.busy = @ + x.long,
          !.way = @ + (IF st.prev = "none" THEN 0 ELSE Hours(st.prev, x.name)),
          !.list = Append(@, [x EXCEPT !.from = Begins(st, x)])]
  ELSE [st EXCEPT !.out = Append(@, x.name)]
Schedule(items, order, money) == FoldLeft(LAMBDA st, i : Timed(st, items[i], money), Idle, order)

\* Locked places keep their slot; a longer list is taken as it is.
Orders(items, locked) ==
  LET same == [i \in DOMAIN items |-> i] IN
  IF Len(items) > SearchMax THEN {same}
  ELSE {o \in [DOMAIN items -> DOMAIN items] :
          /\ \A i, j \in DOMAIN items : o[i] = o[j] => i = j
          /\ \A i \in DOMAIN items : items[i].name \in locked => o[i] = i}
Missed(s, locked) == locked \ NamesIn(s.list)
LeftOut(s, names) == Len(SelectSeq(s.out, LAMBDA n : n \in names))
\* The numbers that are compared, one after the other, the greater the better: how many
\* are placed, then what is required, the way, and what was removed or moved.
Rank(s, order, locked) ==
  LET moved == FoldLeft(LAMBDA n, i : n + (IF order[i] > i THEN order[i] - i ELSE i - order[i]), 0, [i \in DOMAIN order |-> i])
  IN  <<Len(s.list), -LeftOut(s, locked) - Cardinality(Missed(s, locked)), -s.way,
        LeftOut(s, locked) - Len(s.out) - moved>>
Better(a, b) == \E k \in 1..4 : a[k] > b[k] /\ \A m \in 1..(k - 1) : a[m] = b[m]
BestOrders(items, locked, money) ==
  LET orders == Orders(items, locked)
      rank == [o \in orders |-> Rank(Schedule(items, o, money), o, locked)]
  IN  {o \in orders : \A p \in orders : ~Better(rank[p], rank[o])}
\* What is no sight and no meal goes to the end of the day as it is.
OptimizedDays(items, locked, money) ==
  LET active == KeptOf(items, locked) IN
  {Schedule(active, o, money) : o \in BestOrders(active, locked, money)}
StandOne(acc, x) == IF Active(x) THEN acc ELSE Append(acc, x)
Standing(items) == FoldLeft(StandOne, <<>>, items)

-----------------------------------------------------------------------------
(* run_local_replan *)

\* _candidate_items: those of the trip (the last of a name), then what a search finds.
InTrip(j, n) == \E d \in DOMAIN j.plans : n \in NamesIn(j.plans[d])
FromTrip(j, n) ==
  LET last == Max({d \in DOMAIN j.plans : n \in NamesIn(j.plans[d])})
  IN  j.plans[last][Max({i \in DOMAIN j.plans[last] : j.plans[last][i].name = n})]
Recall(j, acc, n) == IF InTrip(j, n) /\ n \notin NamesIn(acc) THEN Append(acc, FromTrip(j, n)) ELSE acc
Discover(j, acc, x) == IF x.name \in ToSet(j.wanted) /\ ~InTrip(j, x.name) THEN Append(acc, x) ELSE acc
Wanted(j, found) ==
  FoldLeft(LAMBDA acc, x : Discover(j, acc, x),
           FoldLeft(LAMBDA acc, n : Recall(j, acc, n), <<>>, j.wanted), found)

\* _replace_unlocked: the slots that are not locked take the candidates in their order.
ReplacedDay(items, given, locked) ==
  LET free == {i \in DOMAIN items : Active(items[i]) /\ items[i].name \notin locked}
      turn(i) == Cardinality({k \in free : k <= i})
      takes(i) == i \in free /\ turn(i) <= Len(given) /\ given[turn(i)].name # items[i].name
  IN  [i \in DOMAIN items |-> IF takes(i) THEN given[turn(i)] ELSE items[i]]

ReplanInit ==
  job \in [at : {"asked"}, asked : Jobs, given : {<<>>}, todo : {<<>>}, out : {<<>>}, bad : {FALSE}]
Asked == job.asked

\* The search may find nothing; a candidate nobody knows fails the whole request, unless
\* it is locked.
Collect ==
  /\ job.at = "asked"
  /\ \E found \in {<<>>, Shop} :
       LET given == Wanted(Asked, found)
           unknown == ToSet(Asked.wanted) \ (NamesIn(given) \cup Asked.locked)
       IN  job' = IF unknown # {}
                  THEN [job EXCEPT !.at = "over", !.out = Asked.plans, !.bad = TRUE]
                  ELSE [job EXCEPT !.at = "days", !.out = Asked.plans, !.todo = Asked.days, !.given = given]
DayLocked(d) == Asked.locked \cap NamesIn(Asked.plans[d])

\* A day that lost a locked place stays as it was.  Variant: it is taken as it came.
AcceptAny(d, s) == TRUE
Accept(d, s) == DayLocked(d) \subseteq NamesIn(s.list) \cup NamesIn(Standing(Asked.plans[d]))
RearrangeDay ==
  /\ job.at = "days" /\ job.todo # <<>>
  /\ LET d == Head(job.todo)
         working == ReplacedDay(Asked.plans[d], job.given, DayLocked(d))
     IN  \/ job' = [job EXCEPT !.todo = Tail(@), !.bad = TRUE]        \* the matrix raises
         \/ \E s \in OptimizedDays(working, DayLocked(d), Asked.money) :
              job' = [job EXCEPT !.todo = Tail(@),
                        !.out = IF Accept(d, s) THEN [@ EXCEPT ![d] = s.list \o Standing(working)] ELSE @,
                        !.bad = @ \/ ~Accept(d, s) \/ LeftOut(s, DayLocked(d)) > 0]
EndReplan == job.at = "days" /\ job.todo = <<>> /\ job' = [job EXCEPT !.at = "over"]

ReplanNext == Collect \/ RearrangeDay \/ EndReplan
ReplanSpec == ReplanInit /\ [][ReplanNext]_replanVars

-----------------------------------------------------------------------------
(* Properties. *)

\* One can get from each stop to the next.
InTime(items) ==
  \A i \in 1..(Len(items) - 1) :
    Active(items[i]) /\ Active(items[i + 1]) =>
      items[i].from + items[i].long + Hours(items[i].name, items[i + 1].name) <= items[i + 1].from
DayKept(d, new) ==
  LET old == Asked.plans[d] IN
  /\ d \notin ToSet(Asked.days) => new = old
  /\ DayLocked(d) \subseteq NamesIn(new)
  /\ ToSet(Standing(old)) \subseteq ToSet(new)
  /\ new # old => InTime(new)

\* What the answer may not do, whichever order the optimizer liked: touch a day that is
\* not affected, lose a locked place or a hotel, or time two stops so that one cannot get
\* from the first to the second (local_replan.py:141-148, schedule_optimizer.py:161-206).
LockedKept == job.at = "over" => \A d \in DOMAIN Asked.plans : DayKept(d, job.out[d])
=============================================================================
