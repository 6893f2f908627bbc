------------------------------- MODULE Landing -------------------------------
(***************************************************************************)
(* What happens to one day the model has written before it is a plan: its  *)
(* items are matched with the reference rows of the research, located by   *)
(* the outside sources within the run's budget, compared with the places   *)
(* already used and dropped when a source contradicts them; and the rules  *)
(* a finished plan is checked against.  Pure operators: the runs that use  *)
(* them are in module TripGraph.                                           *)
(*                                                                         *)
(* A plan is a sequence of items, a trip a sequence of plans.  Names are   *)
(* spellings that norm_poi_key keeps apart; times are hours.               *)
(***************************************************************************)
EXTENDS Integers, SequencesExt

CONSTANTS
  Rows,           \* what research found: a sequence of [name, type, at, price, trusted]
  RefLimit,       \* how many of them are numbered and shown to the model
  Sources,        \* in the configured order: [kind, on, refutes]
  Listed,         \* Listed[n][i]: what source i returns for the name n, [is, rows]; "is" says
                  \* whether it was rows, or "down", "odd" (another shape) or "error" (it raised)
  Area,           \* positions within the destination
  CentreKnown,    \* city_center
  SameEntity,     \* pairs of spellings that pass for one place
  MaxChecks,      \* existence_resolve_limit
  Fare,           \* the city's transport per day
  MealPrice,      \* the city's price of a meal; 0 if not known
  Quotes,         \* Quotes[n]: the live price found for the name n; 0 if none, or not asked
  Season,         \* season_factor
  FullDay,        \* MAX_DAILY_MINUTES
  ThinDay,        \* MIN_ACTIVE_MINUTES
  ManyPlaces      \* MAX_DAILY_ATTRACTIONS

Nowhere == "nowhere"
NoRow   == [name |-> "", type |-> "", at |-> Nowhere, price |-> 0, trusted |-> FALSE]
Named(item) == item.name # ""
Located(item) == item.at # Nowhere

ASSUME LandingAssumption ==
  /\ RefLimit \in Nat /\ MaxChecks \in Nat
  /\ {Fare, MealPrice, Season} \subseteq Nat /\ {FullDay, ThinDay, ManyPlaces} \subseteq Nat
  /\ Sources \in Seq([kind : {"pool", "map", "shop"}, on : BOOLEAN, refutes : BOOLEAN])
  /\ \A n \in DOMAIN Listed : \A i \in DOMAIN Sources :
       Listed[n][i].is \in {"rows", "down", "odd", "error"}

-----------------------------------------------------------------------------
(* The reference rows (reference_pool). *)

References(rows) == SubSeq(rows, 1, IF Len(rows) < RefLimit THEN Len(rows) ELSE RefLimit)
SamePlace(a, b) == a = b \/ <<a, b>> \in SameEntity     \* same_entity
RowNamed(rows, n) ==
  LET hits == {i \in DOMAIN rows : rows[i].name = n}
  IN IF hits = {} THEN NoRow ELSE rows[Min(hits)]

\* match: the name first, then the number the model cites; a number alone counts
\* only if the two names pass for one place.
Match(rows, item) ==
  LET refs == References(rows)
      byName == RowNamed(refs, item.name)
  IN IF byName # NoRow THEN byName
     ELSE IF item.ref \in DOMAIN refs /\ SamePlace(item.name, refs[item.ref].name)
          THEN refs[item.ref] ELSE NoRow

\* ground: a hit by number takes the row's name, every hit its type; the facts
\* only come from a row the service has a ticket for.
Ground(rows, item) ==
  LET row == Match(rows, item) IN
  IF item.type = "transport" \/ row = NoRow THEN item
  ELSE [item EXCEPT
         !.name = row.name,
         !.type = row.type,
         !.by   = IF row.trusted THEN "source" ELSE "client",
         !.at   = IF row.trusted /\ row.at # Nowhere THEN row.at ELSE @,
         !.cost = IF row.trusted /\ row.price # 0 THEN row.price ELSE @]

-----------------------------------------------------------------------------
(* The outside sources (existence).  A world has the decided names, which    *)
(* outlive the run, and the checks this run has spent.                       *)

\* matches_any: under any of its spellings.
Hits(n, rows) ==
  SelectSeq(rows, LAMBDA row : row.at # Nowhere /\ \E s \in row.spellings : SamePlace(n, s))
\* _in_destination_area: only a known centre tells that a place is elsewhere.
Elsewhere(at) == CentreKnown /\ at \notin Area

Reply(what, at) == [what |-> what, at |-> at]
Unclear == Reply("unclear", Nowhere)
\* pick_row: the name, then the position.
PickRow(n, rows) ==
  LET hits == Hits(n, rows)
      near == SelectSeq(hits, LAMBDA row : ~Elsewhere(row.at))
  IN IF near # <<>> THEN Reply("here", near[1].at)
     ELSE IF hits # <<>> THEN Reply("away", hits[1].at) ELSE Unclear
\* OpenTripMap: the popular places of the city; who is not among them may exist.
PoolReply(n, list) ==
  LET hits == Hits(n, list.rows) IN
  IF CentreKnown /\ hits # <<>> THEN Reply("here", hits[1].at) ELSE Unclear
\* Nominatim is asked for the name.
MapReply(n, list) ==
  IF list.is # "rows" THEN Unclear
  ELSE IF list.rows = <<>> THEN Reply("no", Nowhere) ELSE PickRow(n, list.rows)
\* Amap and Google: rows of which none can be read do not mean "no".
ShopReply(n, list) ==
  LET read == SelectSeq(list.rows, LAMBDA row : row.at # Nowhere) IN
  IF list.is # "rows" \/ (list.rows # <<>> /\ read = <<>>) THEN Unclear
  ELSE IF list.rows = <<>> THEN Reply("no", Nowhere) ELSE PickRow(n, read)
ReplyOf(i, n) ==
  LET list == Listed[n][i]  kind == Sources[i].kind IN
  CASE ~Sources[i].on -> Reply("off", Nowhere)
    [] Sources[i].on /\ list.is = "error" -> Reply("error", Nowhere)
    [] OTHER -> IF kind = "pool" THEN PoolReply(n, list)
                ELSE IF kind = "map" THEN MapReply(n, list) ELSE ShopReply(n, list)
Replies == [n \in DOMAIN Listed |-> [i \in DOMAIN Sources |-> ReplyOf(i, n)]]
\* Where the first source that knows the name puts it.
PlaceOf(n) ==
  LET knows == {i \in DOMAIN Sources : Replies[n][i].what = "here"}
  IN Replies[n][Min(knows)].at

Asked(n, acc, i) ==
  LET a == Replies[n][i].what
      spent == [acc EXCEPT !.checks = @ + 1]
  IN IF acc.over \/ a = "off" THEN acc
     ELSE IF acc.checks >= MaxChecks THEN [acc EXCEPT !.over = TRUE]
     ELSE CASE a = "error" -> acc
            [] a \in {"here", "away"} -> [spent EXCEPT !.over = TRUE, !.verdict = a]
            [] a = "no" -> [spent EXCEPT !.no = @ \/ Sources[i].refutes]
            [] OTHER -> spent

RunProviders(n, checks) ==
  LET start == [checks |-> checks, over |-> FALSE, no |-> FALSE, verdict |-> "unknown"]
      end == FoldLeft(LAMBDA acc, i : Asked(n, acc, i), start, [i \in DOMAIN Sources |-> i])
  IN [end EXCEPT !.verdict = IF @ = "unknown" /\ end.no THEN "absent" ELSE @]

\* resolve_poi: only "here" and "absent" are remembered.
Remembered(verdict) == verdict \in {"here", "absent"}
Resolve(n, w) ==
  IF w.memo[n] # "open" THEN [verdict |-> w.memo[n], w |-> w]
  ELSE LET r == RunProviders(n, w.checks) IN
       [verdict |-> r.verdict,
        w |-> [memo |-> IF Remembered(r.verdict) THEN [w.memo EXCEPT ![n] = r.verdict] ELSE w.memo,
               checks |-> r.checks]]

\* local_ground: only an item without a position asks.
Placed(item, r) ==
  [item |-> IF r.verdict = "here" THEN [item EXCEPT !.at = PlaceOf(item.name), !.by = "source"] ELSE item,
   w |-> r.w]
LocalGround(item, w) ==
  IF ~Named(item) \/ Located(item) THEN [item |-> item, w |-> w]
  ELSE Placed(item, Resolve(item.name, w))

\* drop_refuted_items: an item nobody vouches for is asked about again.
KeptUnlessDenied(acc, item, r) ==
  [acc EXCEPT !.kept = IF r.verdict \in {"away", "absent"} THEN @ ELSE Append(@, item), !.w = r.w]
DropOne(acc, item) ==
  IF item.type = "transport" \/ item.by = "source"
  THEN [acc EXCEPT !.kept = Append(@, item)]
  ELSE KeptUnlessDenied(acc, item, Resolve(item.name, acc.w))
DropNothing(day) == day
DropRefuted(day) == FoldLeft(DropOne, [day EXCEPT !.kept = <<>>], day.kept)

-----------------------------------------------------------------------------
(* A day of a draft (open_plans) and a day on its own (day_stream). *)

\* PoiSeenRegistry: by name, or by type and position; hotels repeat by design.
Duplicate(seen, n, type, at) ==
  /\ type # "hotel"
  /\ n \in seen.names \/ (at # Nowhere /\ <<type, at>> \in seen.spots)
Register(seen, n, type, at) ==
  IF type = "hotel" THEN seen
  ELSE [names |-> seen.names \cup {n},
        spots |-> IF at = Nowhere THEN seen.spots ELSE seen.spots \cup {<<type, at>>}]
NothingSeen == [names |-> {}, spots |-> {}]

\* One turn of the loop over a day's items.  The name and the type are read before
\* ground_item, which may change both; the position is read after it.
Landed(acc, item, g) ==
  IF Duplicate(acc.seen, item.name, item.type, Nowhere) THEN acc
  ELSE IF Duplicate(acc.seen, item.name, item.type, g.item.at) THEN [acc EXCEPT !.w = g.w]
  ELSE [kept |-> Append(acc.kept, g.item),
        seen |-> Register(acc.seen, item.name, item.type, g.item.at),
        w |-> g.w]
LandItem(rows, acc, item) ==
  IF ~Named(item) THEN acc ELSE Landed(acc, item, LocalGround(Ground(rows, item), acc.w))
LandDay(rows, items, seen, w) ==
  DropRefuted(FoldLeft(LAMBDA acc, item : LandItem(rows, acc, item),
                       [kept |-> <<>>, seen |-> seen, w |-> w], items))

\* sanitize_itinerary_items: an item without a name goes, an unknown type becomes a sight.
KnownType(type) == type \in {"attraction", "food", "hotel", "transport"}
Sanitize(acc, item) ==
  IF ~Named(item) THEN acc
  ELSE Append(acc, [item EXCEPT !.type = IF KnownType(@) THEN @ ELSE "attraction"])
Sanitized(items) == FoldLeft(Sanitize, <<>>, items)

\* A row's facts where the item has none (generate_day_once, apply_item_facts).
Facts(rows, item) ==
  LET row == RowNamed(rows, item.name) IN
  IF row = NoRow \/ ~row.trusted THEN item
  ELSE [item EXCEPT !.at = IF @ = Nowhere THEN row.at ELSE @,
                    !.cost = IF @ = 0 THEN row.price ELSE @]

\* The live price replaces what the item had.
Quoted(type, item) ==
  IF item.type = type /\ Quotes[item.name] > 0 THEN [item EXCEPT !.cost = Quotes[item.name]] ELSE item
\* clamp_meal_cost: a meal far above the city's price is cut to four times that price,
\* or to three.
MealPriced(item) ==
  IF item.type # "food" \/ MealPrice = 0 \/ item.cost <= 4 * MealPrice THEN item
  ELSE [item EXCEPT !.cost = IF item.cost > 8 * MealPrice THEN 4 * MealPrice ELSE 3 * MealPrice]
InSeason(item) == IF item.type = "hotel" THEN [item EXCEPT !.cost = @ * Season] ELSE item

\* generate_day_once after the model's answer: no registry; a row or the sources,
\* never both; then facts and prices.
FromRow(rows, item) == item.type # "transport" /\ Match(rows, item) # NoRow
WithItem(acc, g) == [kept |-> Append(acc.kept, g.item), w |-> g.w]
LandOne(rows, acc, item) ==
  WithItem(acc, IF FromRow(rows, item) THEN [item |-> Ground(rows, item), w |-> acc.w]
                ELSE LocalGround(item, acc.w))
LandAlone(rows, items, w) ==
  [DropRefuted(FoldLeft(LAMBDA acc, item : LandOne(rows, acc, item),
                        [kept |-> <<>>, w |-> w], Sanitized(items)))
   EXCEPT !.kept = [i \in DOMAIN @ |-> MealPriced(Quoted("food", InSeason(Facts(References(rows), @[i]))))]]

-----------------------------------------------------------------------------
(* After the draft (generation_core). *)

OfType(items, type) == {i \in DOMAIN items : items[i].type = type}
HasHotel(items) == OfType(items, "hotel") # {}
StayNights(days) == days - 1

\* spread_hotels: the first hotel of the trip for every night without one.
Spread(plans) ==
  LET withHotel == {d \in DOMAIN plans : HasHotel(plans[d])}
      first == plans[Min(withHotel)]
      hotel == first[Min(OfType(first, "hotel"))]
  IN [d \in DOMAIN plans |->
        IF withHotel # {} /\ d <= StayNights(Len(plans)) /\ d \notin withHotel
        THEN Append(plans[d], hotel) ELSE plans[d]]

\* fill_zero_costs: meals and rooms the model has priced at 0.
FillCosts(rows, plans) ==
  [d \in DOMAIN plans |-> [i \in DOMAIN plans[d] |->
     LET item == plans[d][i]
     IN IF item.type \in {"food", "hotel"} /\ item.cost = 0
        THEN [item EXCEPT !.cost = RowNamed(rows, item.name).price] ELSE item]]

\* count_hotel_nights_in_budget and estimate_plans_total, for one person.
Counted(item, d, days) == item.type = "hotel" => ~(days > 1 /\ d >= days)
Total(plans) ==
  LET Cost(d) == FoldLeft(LAMBDA sum, item : sum + IF Counted(item, d, Len(plans)) THEN item.cost ELSE 0,
                          0, plans[d])
  IN FoldLeft(LAMBDA sum, d : sum + Cost(d), Fare * Len(plans), [d \in DOMAIN plans |-> d])

-----------------------------------------------------------------------------
(* validate_plans (reflect): the issues of one day, then the budget. *)

Before(items, i, j) == items[i].from < items[j].from \/ (items[i].from = items[j].from /\ i < j)
Timed(items) == {i \in DOMAIN items : items[i].type \in {"attraction", "food"}}
Neighbours(items) ==
  {p \in Timed(items) \X Timed(items) :
     /\ Before(items, p[1], p[2])
     /\ ~\E k \in Timed(items) : Before(items, p[1], k) /\ Before(items, k, p[2])}
Transfer(a, b) == IF Located(a) /\ Located(b) THEN 1 ELSE 0
Active(items) ==
  FoldLeft(LAMBDA sum, i : sum + IF i \in Timed(items) /\ items[i].to > items[i].from
                                 THEN items[i].to - items[i].from ELSE 0,
           0, [i \in DOMAIN items |-> i])
Lunches(items) == {i \in OfType(items, "food") : items[i].from \in 11 .. 14}

DayIssues(items) ==
  LET sights == OfType(items, "attraction")
      meals == OfType(items, "food")
      pairs == Neighbours(items)
      Overlap(p) == items[p[1]].to > items[p[2]].from
      Late(p) == ~Overlap(p) /\ items[p[2]].from - items[p[1]].to < Transfer(items[p[1]], items[p[2]])
      Closed(i) == LET o == items[i].open IN
        o # <<>> /\ ~(o[1] <= items[i].from /\ items[i].to <= IF o[2] <= o[1] THEN o[2] + 24 ELSE o[2])
      When(condition, issue) == IF condition THEN {issue} ELSE {}
  IN IF items = <<>> THEN {}
     ELSE UNION { When(\E p \in pairs : Overlap(p), "overlap"),
                  When(\E p \in pairs : Late(p), "transfer"),
                  When(\E i \in sights : Closed(i), "closed"),
                  When(sights = {}, "no sight"),
                  When(Cardinality(sights) > ManyPlaces, "too many"),
                  When(Active(items) > FullDay, "too full"),
                  When(sights # {} /\ Active(items) < ThinDay, "too thin"),
                  When(sights # {} /\ meals = {}, "no meal"),
                  When(Cardinality(Lunches(items)) >= 2, "two lunches"),
                  When(\E i \in meals : items[i].cost = 0, "free meal") }
Issues(plans, budget) ==
  UNION {DayIssues(plans[d]) : d \in DOMAIN plans}
    \cup IF budget > 0 /\ plans # <<>> /\ 100 * (Total(plans) - budget) > 8 * budget
         THEN {"over budget"} ELSE {}
=============================================================================
