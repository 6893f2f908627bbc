----------------------------- MODULE DraftTurn ------------------------------
(***************************************************************************)
(* One turn of the chat about a trip, from the sentence to the answer: the *)
(* model proposes short patches or a whole document, and the code alone    *)
(* turns the proposal into a draft, repairs it once, falls back to cutting *)
(* or lengthening the trip by itself, and checks the result; whatever is   *)
(* about hotels becomes cards to choose from.  Nothing is written here.    *)
(*                                                                         *)
(* A sentence is what the patterns of intent.py and hotel_intent.py find   *)
(* in it.  Clock times are numbers, and NoTime one that is missing.  Notes,*)
(* tags, remarks and the wording of the answers are left out.              *)
(***************************************************************************)
EXTENDS Integers, Sequences, FiniteSets, SequencesExt

CONSTANTS
  Trips,          \* what the plans of the request may be: of each day its items
  MaxTripDays,    \* MAX_TRIP_DAYS
  FirstHour, LastHour, EndOfDay, NoTime,
  Sayings,      \* what the user may say
  Decisions,      \* what the model may answer
  NewDays,        \* what the generator of one day may answer
  HotelTable,     \* hotels of the city: [name, tier, price]; price 0: none is known
  MaxCards        \* candidates[:3]

\* An item, a day's items and a plan.  An item that is not stored yet has no id (0): the
\* trip that is shown may be a draft of an earlier turn.
Item(x) == x = [id |-> x.id, type |-> x.type, name |-> x.name, from |-> x.from, to |-> x.to,
                long |-> x.long, cost |-> x.cost]
Listing(items) == Len(items) \in Nat /\ items = [k \in 1..Len(items) |-> items[k]]
Itinerary(plans) == Listing(plans) /\ \A d \in DOMAIN plans : Listing(plans[d]) /\ \A i \in DOMAIN plans[d] : Item(plans[d][i])
\* No item twice.
UsedOnce(plans) ==
  \A d, e \in DOMAIN plans : \A i \in DOMAIN plans[d], j \in DOMAIN plans[e] :
    plans[d][i].id = plans[e][j].id /\ plans[d][i].id # 0 => d = e /\ i = j
\* Who asks for more days does not ask for fewer in the same breath.
ASSUME DraftTurnAssumption ==
  /\ {MaxTripDays, MaxCards} \subseteq Nat \ {0} /\ IsFiniteSet(HotelTable)
  /\ \A h \in HotelTable : h.tier \in Nat /\ h.price \in Nat
  /\ \A t \in Trips : Itinerary(t) /\ UsedOnce(t)
  /\ \A s \in Sayings : s.days \in Nat /\ s.more \in Nat /\ (s.more # 0 => s.more = s.days)
  /\ \A s \in NewDays : Listing(s) /\ \A i \in DOMAIN s : Item(s[i]) /\ s[i].id = 0
  /\ \A x \in Decisions :
       /\ x.mode = "plan_update" => Listing(x.patches) /\ \A k \in DOMAIN x.patches :
            /\ x.patches[k].pos \in Nat
            /\ x.patches[k].op = "add" => Item(x.patches[k].item) /\ x.patches[k].item.id = 0
       /\ x.mode = "rewrite_plan" => Itinerary(x.document)

VARIABLE turn     \* [at, trip, said, decision, plans, by, reply, cards]
draftVars == <<turn>>

Trip == turn.trip
Days == Len(Trip)
NoPlans == <<>>   \* None
Ordinary(items) == Cardinality({i \in DOMAIN items : items[i].type # "hotel"})
HasId(plans, d, n) == n # 0 /\ \E i \in DOMAIN plans[d] : plans[d][i].id = n
DayOf(plans, n) == IF \E d \in DOMAIN plans : HasId(plans, d, n)
                   THEN CHOOSE d \in DOMAIN plans : HasId(plans, d, n) ELSE 0
PlaceOf(items, n) == CHOOSE i \in DOMAIN items : items[i].id = n
ItemIn(items, n) == items[PlaceOf(items, n)]
TheItem(n) == ItemIn(Trip[DayOf(Trip, n)], n)
Without(items, n) == RemoveAt(items, PlaceOf(items, n))

\* By time, those without one last; ties keep their order.
Hour(x) == IF x.from = NoTime THEN EndOfDay ELSE x.from
ByTime(items) ==
  FoldLeft(LAMBDA sorted, x : InsertAt(sorted, Cardinality({i \in DOMAIN sorted : Hour(sorted[i]) <= Hour(x)}) + 1, x),
           <<>>, items)

\* _requested_day_count: what the user says counts, whatever the model took it for.
Target(s, data) == IF s.days # 0 THEN s.days ELSE Days

-----------------------------------------------------------------------------
(* _apply_decision_patches.  st: the days, and the items moved without a time. *)

End(x) == IF x.to = NoTime /\ x.from # NoTime /\ x.long > 0 THEN x.from + x.long ELSE x.to
Busy(items) == {x \in ToSet(items) : x.type # "transport" /\ x.from # NoTime /\ End(x) > x.from}

Delete(s, n, st, p) ==
  LET d == DayOf(st.days, p.id) IN
  IF /\ n < Days \/ s.cut
     /\ n > Days => Ordinary(FlattenSeq(st.days)) > n
  THEN [st EXCEPT !.days[d] = Without(@, p.id)] ELSE st
Move(n, st, p) ==
  LET item == ItemIn(st.days[DayOf(st.days, p.id)], p.id)
      left == [st.days EXCEPT ![DayOf(st.days, p.id)] = Without(@, p.id)]
      place == IF p.pos > Len(left[p.day]) THEN Len(left[p.day]) ELSE p.pos
  IN  IF p.day \notin 1..n THEN st
      ELSE [days |-> [left EXCEPT ![p.day] = InsertAt(@, place + 1, item)], moved |-> st.moved \cup {p.id}]
\* A new start alone pulls the end along, which may fall behind midnight.
Retimed(x, p) ==
  LET started == IF p.from = NoTime THEN x ELSE [x EXCEPT !.from = p.from] IN
  IF p.to # NoTime THEN [started EXCEPT !.to = p.to]
  ELSE IF p.from # NoTime /\ x.long > 0
       THEN [started EXCEPT !.to = IF p.from + x.long < EndOfDay THEN p.from + x.long ELSE NoTime]
  ELSE started
Update(st, p) ==
  LET d == DayOf(st.days, p.id) IN
  [days |-> [st.days EXCEPT ![d] = [i \in DOMAIN @ |-> IF @[i].id = p.id THEN Retimed(@[i], p) ELSE @[i]]],
   moved |-> IF p.from # NoTime THEN st.moved \ {p.id} ELSE st.moved]
AddItem(n, st, p) ==
  IF p.day \in 1..n /\ p.item.type # "hotel" THEN [st EXCEPT !.days[p.day] = Append(@, [p.item EXCEPT !.cost = 0])] ELSE st

Patched(s, n, st, p) ==
  IF p.op = "add" THEN AddItem(n, st, p)
  ELSE LET d == DayOf(st.days, p.id) IN
       IF d = 0 THEN st                         \* an id the trip does not have
       ELSE IF p.op = "update" THEN Update(st, p)
       ELSE IF ItemIn(st.days[d], p.id).type = "hotel" THEN st
       ELSE IF p.op = "delete" THEN Delete(s, n, st, p) ELSE Move(n, st, p)

\* _reschedule_moved_item: its own time if it is free, else the first that is.
Rescheduled(days, id) ==
  LET d == DayOf(days, id)
      item == ItemIn(days[d], id)
      free(h) == /\ h + item.long <= LastHour
                 /\ \A x \in Busy(Without(days[d], id)) : h + item.long <= x.from \/ End(x) <= h
      hours == {h \in FirstHour..(LastHour - item.long) : free(h)}
      hour == CHOOSE h \in hours : \A g \in hours : h <= g
  IN  IF d = 0 \/ item.long = 0 \/ (item.from # NoTime /\ free(item.from)) \/ hours = {} THEN days
      ELSE [days EXCEPT ![d] = [i \in DOMAIN @ |->
              IF @[i].id = id THEN [@[i] EXCEPT !.from = hour, !.to = hour + item.long] ELSE @[i]]]

\* A blank day of a longer trip gets the last ordinary item of the fullest day.
FilledDay(days, d) ==
  LET full == {e \in DOMAIN days : Ordinary(days[e]) > 1 /\ \A f \in DOMAIN days : Ordinary(days[f]) <= Ordinary(days[e])}
      from == CHOOSE e \in full : \A f \in full : e <= f
      k == CHOOSE i \in DOMAIN days[from] :
             days[from][i].type # "hotel" /\ \A j \in (i + 1)..Len(days[from]) : days[from][j].type = "hotel"
      left == [days EXCEPT ![from] = RemoveAt(@, k)]
  IN  IF days[d] # <<>> \/ full = {} THEN days ELSE [left EXCEPT ![d] = <<days[from][k]>>]

\* The moved items are taken in the order of a Python set, which nothing fixes.
PatchedPlans(s, data) ==
  LET n == Target(s, data)
      long == [d \in 1..(IF n > Days THEN n ELSE Days) |-> IF d <= Days THEN Trip[d] ELSE <<>>]
      st == FoldLeft(LAMBDA a, p : Patched(s, n, a, p), [days |-> long, moved |-> {}], data.patches)
      timed == FoldLeft(Rescheduled, st.days, SetToSeq(st.moved))
      short == [d \in 1..n |-> timed[d]]
      filled == IF n > Days THEN FoldLeft(FilledDay, short, [d \in 1..n |-> d]) ELSE short
  IN  IF n \notin 1..MaxTripDays THEN NoPlans ELSE [d \in 1..n |-> ByTime(filled[d])]

-----------------------------------------------------------------------------
(* _extract_document_plans and _hydrate_decision_plans.  A document is the days as the   *)
(* model wrote them; prices in it are not looked at, and a new item has id 0.             *)

HydratableLoosely(doc) ==
  \A d \in DOMAIN doc : \A x \in ToSet(doc[d]) :
    IF x.id = 0 THEN x.type # "hotel"
    ELSE /\ DayOf(Trip, x.id) # 0
         /\ x.name = TheItem(x.id).name
         /\ TheItem(x.id).type = "hotel" => [x EXCEPT !.cost = TheItem(x.id).cost] = TheItem(x.id)
Hydratable(doc) == HydratableLoosely(doc) /\ UsedOnce(doc)
Hydrated(x) == [x EXCEPT !.cost = IF x.id = 0 THEN 0 ELSE TheItem(x.id).cost]
DocumentPlans(s, data) ==
  LET doc == data.document IN
  IF /\ data.metadata                          \* city, persons, budget... as they were
     /\ Target(s, data) \in 1..MaxTripDays
     /\ Len(doc) = Target(s, data)
     /\ data.claims \in {Days, Target(s, data)}
     /\ Hydratable(doc)
  THEN [d \in DOMAIN doc |-> [i \in DOMAIN doc[d] |-> Hydrated(doc[d][i])]]
  ELSE NoPlans

\* _apply_plan_update
Applied(s, data) == IF data.mode = "rewrite_plan" THEN DocumentPlans(s, data) ELSE PatchedPlans(s, data)

-----------------------------------------------------------------------------
(* The fallbacks, and the checks. *)

\* _dedupe_plans: the first of a name stays.
Comparable(x) == x.type \in {"attraction", "food"}
Repeated(plans, d, i) ==
  Comparable(plans[d][i]) /\ \E e \in 1..d : \E j \in DOMAIN plans[e] :
    (e < d \/ j < i) /\ Comparable(plans[e][j]) /\ plans[e][j].name = plans[d][i].name
Deduped(plans) ==
  [d \in DOMAIN plans |->
     FoldLeft(LAMBDA kept, i : IF Repeated(plans, d, i) THEN kept ELSE Append(kept, plans[d][i]),
              <<>>, [i \in DOMAIN plans[d] |-> i])]

\* _deterministic_reduce
Reduced(s) ==
  LET plans == Deduped(Trip)
      n == IF s.fewer \in 1..(Days - 1) THEN s.fewer ELSE Days
  IN  [d \in 1..n |-> ByTime(plans[d])]

HotelSignature(plans) ==
  UNION {{<<d, x.name>> : x \in {y \in ToSet(plans[d]) : y.type = "hotel"}} : d \in DOMAIN plans}
Signature(plans) ==
  UNION {{<<d, i, plans[d][i].id, plans[d][i].type, plans[d][i].name, plans[d][i].from, plans[d][i].to, plans[d][i].long>> :
            i \in DOMAIN plans[d]} : d \in DOMAIN plans}
\* _plan_conflict; a hotel occupies its time as everything does that is not transport.
Conflict(plans) ==
  \E d \in DOMAIN plans : \E i, j \in DOMAIN plans[d] :
    /\ i # j /\ {plans[d][i], plans[d][j]} \subseteq Busy(plans[d])
    /\ plans[d][i].from <= plans[d][j].from /\ plans[d][j].from < End(plans[d][i])

-----------------------------------------------------------------------------
(* Hotels: hotel_intent.py says which tier is meant, hotel.py what is offered. *)

Priced == {h \in HotelTable : h.price > 0}
Nights == {d \in DOMAIN Trip : \E x \in ToSet(Trip[d]) : x.type = "hotel"}
CurrentNames == {x.name : x \in {y \in ToSet(FlattenSeq(Trip)) : y.type = "hotel"}}
TopTier == Max({h.tier : h \in HotelTable})
\* _current_hotel_tier; a hotel the table does not know leaves the preference, tier 2.
BaseTier ==
  LET known == {h \in HotelTable : h.name \in CurrentNames} IN
  IF known = {} THEN 2 ELSE Max({h.tier : h \in known})

\* _normalized_hotel_intent, _fallback_hotel_intent: the code moves the tier; "again" starts
\* from the tier that was offered last.
TierOf(action, base) ==
  CASE action = "cheaper" -> Max({base - 1, 1})
    [] action = "better" -> Min({base + 1, TopTier})
    [] action = "best" -> TopTier
    [] OTHER -> base
\* The user's own comparison goes before the model's reading of him, which may be any tier;
\* hotels that were named fix it (_with_stay_scope).
TiersMeant(s) ==
  LET named == {h \in HotelTable : h.name \in s.named} IN
  IF named # {} THEN {Max({h.tier : h \in named})}
  ELSE IF s.compares = "no" THEN 1..TopTier
  ELSE {TierOf(s.compares, b) : b \in IF s.again THEN 1..TopTier ELSE {BaseTier}}
Understood(s) == {[names |-> s.named, tier |-> t] : t \in TiersMeant(s)}

\* _hotel_options: the tier meant, and the nearest if only the present hotel is of it.
Distance(a, b) == IF a > b THEN a - b ELSE b - a
OtherPriced(intent) == {h \in Priced : h.name \notin CurrentNames \cup intent.names}
Tiers(intent) ==
  LET others == {h.tier : h \in OtherPriced(intent)}
      nearest == {t \in others : \A u \in others : Distance(t, intent.tier) <= Distance(u, intent.tier)}
  IN  IF intent.names # {} \/ intent.tier \in others THEN {{intent.tier}}
      ELSE {{intent.tier} \cup {t} : t \in nearest} \cup (IF others = {} THEN {{intent.tier}} ELSE {})
Candidates(intent, tiers) ==
  {h \in Priced : h.tier \in tiers
     /\ IF intent.names = {} THEN h.name \notin CurrentNames ELSE h.name \in intent.names}
\* The best three, by budget, rating and price.
Offers(intent) ==
  UNION {LET all == Candidates(intent, tiers) IN
         kSubset(Min({MaxCards, Cardinality(all)}), all) : tiers \in Tiers(intent)}

Ended(reply) == turn' = [turn EXCEPT !.at = "over", !.reply = reply]
\* _hotel_proposal_response
Propose(s, intents) ==
  IF Nights = {} /\ ~s.scope THEN Ended("no_hotel_to_replace")
  ELSE IF s.beyond THEN Ended("no_such_night")
  ELSE \E intent \in intents : \E cards \in Offers(intent) :
         turn' = [turn EXCEPT !.at = "over", !.cards = cards,
                    !.reply = IF cards = {} THEN "no_cards" ELSE "cards"]

-----------------------------------------------------------------------------
(* _chat_turn_response *)

DraftInit ==
  turn \in [at : {"asked"}, trip : Trips, said : Sayings, decision : {[mode |-> "none"]}, plans : {NoPlans},
            by : {"none"}, reply : {"none"}, cards : {{}}]
Said == turn.said

Refuse ==
  /\ turn.at = "asked"
  /\ \/ Said.vague /\ ~Said.hotel /\ Ended("which_day")
     \/ ~(Said.vague /\ ~Said.hotel) /\ Said.days > MaxTripDays /\ Ended("too_many_days")
\* _decide_plan_change, with its repair of what is no JSON.
Decide ==
  /\ turn.at = "asked" /\ ~(Said.vague /\ ~Said.hotel) /\ Said.days <= MaxTripDays
  /\ \/ Ended("not_readable")
     \/ IF Said.hotel THEN Propose(Said, Understood(Said)) ELSE Ended("unavailable")
     \/ \E data \in Decisions : turn' = [turn EXCEPT !.at = "decided", !.decision = data]
HasHotel == Nights # {}
\* Words about hotels go to the cards, unless they only move an item in time.
Route ==
  /\ turn.at = "decided"
  /\ IF turn.decision.mode = "hotel_proposal"
     THEN Propose(Said, Understood(Said))
     ELSE IF Said.hotel /\ ~(Said.timing /\ HasHotel) THEN Propose(Said, Understood(Said))
     ELSE IF turn.decision.mode \in {"plan_update", "rewrite_plan"}
     THEN LET plans == Applied(Said, turn.decision) IN
          turn' = [turn EXCEPT !.at = IF plans = NoPlans THEN "repair" ELSE "check",
                               !.plans = plans, !.by = turn.decision.mode]
     ELSE Ended("as_it_is")
\* One more proposal, told what was wrong with the first.
Repair ==
  /\ turn.at = "repair"
  /\ \/ turn' = [turn EXCEPT !.at = "fallback"]
     \/ \E data \in {x \in Decisions : x.mode \in {"plan_update", "rewrite_plan"}} :
          /\ Applied(Said, data) # NoPlans
          /\ turn' = [turn EXCEPT !.at = "check", !.plans = Applied(Said, data), !.by = data.mode,
                                  !.decision = data]
\* _deterministic_reduce, _deterministic_extend: a day that cannot be generated stays blank.
Fallback ==
  /\ turn.at = "fallback"
  /\ IF Said.cut THEN turn' = [turn EXCEPT !.at = "check", !.plans = Reduced(Said), !.by = "reduce"]
     ELSE IF Said.more \in (Days + 1)..MaxTripDays
     THEN \E days \in [(Days + 1)..Said.more -> NewDays \cup {<<>>}] :
            turn' = [turn EXCEPT !.at = "check", !.by = "extend",
                       !.plans = [d \in 1..Said.more |-> IF d <= Days THEN Trip[d] ELSE days[d]]]
     ELSE Ended("no_safe_draft")
CheckDraft ==
  LET plans == Deduped(turn.plans) IN
  /\ turn.at = "check"
  /\ turn' = [turn EXCEPT !.at = "over", !.plans = plans, !.reply =
       IF HotelSignature(plans) # HotelSignature(Trip) /\ Len(plans) = Days THEN "choose_a_hotel"
       ELSE IF Signature(plans) = Signature(Trip) THEN "nothing_changes"
       ELSE IF Conflict(plans) THEN "times_overlap"
       ELSE "draft"]

DraftNext == Refuse \/ Decide \/ Route \/ Repair \/ Fallback \/ CheckDraft
DraftSpec == DraftInit /\ [][DraftNext]_draftVars

-----------------------------------------------------------------------------
(* Properties. *)

Generated(d) == turn.by = "extend" /\ d > Days
\* An item of the model's, and one the trip had.
Added(x) == x.id = 0 /\ x.cost = 0 /\ x.type # "hotel"
Planned(x) == \E d \in DOMAIN Trip : \E i \in DOMAIN Trip[d] :
  LET y == Trip[d][i] IN y.id = x.id /\ y.name = x.name /\ y.cost = x.cost /\ (x.id = 0 => y.type = x.type)
\* Whatever the model proposed and whichever way the draft was made, what the user is
\* asked to accept is his own trip rearranged: no item twice, none under another name,
\* at another price or priced by the model, no hotel that came or went while the number
\* of days stayed, and as many days as he asked for.  The fallback that only thins out
\* (plan_edit.py:220) is left out of that: it heeds "fewer by n" alone.  And who asks for
\* another hotel, and names none, gets at least one card when the city has a priced
\* hotel besides the present one (hotel.py:137).
AnswerIsSound ==
  /\ turn.reply = "no_cards" /\ Said.named = {} => {h \in Priced : h.name \notin CurrentNames} = {}
  /\ turn.reply = "draft" =>
      LET plans == turn.plans IN
      /\ UsedOnce(plans)
      /\ \A d \in DOMAIN plans : ~Generated(d) => \A i \in DOMAIN plans[d] : Added(plans[d][i]) \/ Planned(plans[d][i])
      /\ Len(plans) = Days => HotelSignature(plans) = HotelSignature(Trip)
      /\ Said.days # 0 /\ turn.by # "reduce" => Len(plans) = Said.days
=============================================================================
