------------------------------ MODULE TripRows ------------------------------
(***************************************************************************)
(* The rows of one trip and what the edits make of them.  A table is a     *)
(* function from the primary keys in use: a soft-deleted row keeps its key *)
(* and its place in every unique key, a purged row is out of the domain.   *)
(* Columns that no rule reads (times, notes, prices, evidence) are left    *)
(* out: an item is its name, its day and its place in the day.             *)
(***************************************************************************)
EXTENDS SequencesExt

CONSTANTS
  Spots,    \* names of attractions and restaurants
  Hotels,   \* names of hotels
  TripDays, \* MAX_TRIP_DAYS: the days a draft may have
  DayItems  \* MAX_ITEMS_PER_DAY

ASSUME TripRowsAssumption ==
  /\ Spots \cap Hotels = {}
  /\ TripDays \in Nat \ {0} /\ DayItems \in Nat \ {0}

Names == Spots \cup Hotels

-----------------------------------------------------------------------------
(* Reading. *)

LiveDays(t)   == {d \in DOMAIN t.days : ~t.days[d].gone}
LiveItems(t)  == {i \in DOMAIN t.items : ~t.items[i].gone}
ItemsOf(t, d) == {i \in LiveItems(t) : t.items[i].day = d}
DaysAt(t, n)  == {d \in LiveDays(t) : t.days[d].no = n}
DayNos(t)     == {t.days[d].no : d \in LiveDays(t)}

\* next_sort: one more than the highest.
NextSort(t, d) ==
  LET places == {t.items[i].sort : i \in ItemsOf(t, d)} IN
  IF places = {} THEN 0 ELSE Max(places) + 1

\* ORDER BY: the k-th is the one that k - 1 others come before.
Ranked(S, Before(_, _)) ==
  [k \in 1 .. Cardinality(S) |-> CHOOSE x \in S : Cardinality({y \in S : Before(y, x)}) = k - 1]

InOrder(t, d) ==
  Ranked(ItemsOf(t, d), LAMBDA i, j :
    \/ t.items[i].sort < t.items[j].sort
    \/ t.items[i].sort = t.items[j].sort /\ i < j)

\* current_plans: what the fingerprint of the trip is computed from.
CurrentPlans(t) ==
  LET ds == Ranked(LiveDays(t), LAMBDA d, e : t.days[d].no < t.days[e].no)
      Line(i) == [id |-> i, name |-> t.items[i].name, sort |-> t.items[i].sort]
  IN [k \in DOMAIN ds |->
       [no |-> t.days[ds[k]].no,
        items |-> LET is == InOrder(t, ds[k]) IN [j \in DOMAIN is |-> Line(is[j])]]]

\* What a version keeps of the rows: restore gives its rows new keys.
Content(t) ==
  LET plans == CurrentPlans(t) IN
  [plans  |-> [k \in DOMAIN plans |->
                [no |-> plans[k].no, names |-> [j \in DOMAIN plans[k].items |-> plans[k].items[j].name]]],
   length |-> t.length]

\* The two amounts of recalculate that depend on rows: what is counted, whether or
\* not its day is there, and the days of the trip.
Bill(t) ==
  [items |-> [n \in Names |-> Cardinality({i \in LiveItems(t) : t.items[i].name = n})],
   days  |-> t.length]

-----------------------------------------------------------------------------
(* Writing: the tables after an edit, as the session of the edit sees them; no *)
(* table at all if the edit raises.                                            *)

With(table, key, row) == [k \in DOMAIN table \cup {key} |-> IF k = key THEN row ELSE table[k]]
InsertItem(t, d, n, place) ==
  [t EXCEPT !.items = With(@, t.nextItem, [day |-> d, sort |-> place, name |-> n, gone |-> FALSE]),
            !.nextItem = @ + 1]
InsertDay(t, n) ==
  [t EXCEPT !.days = With(@, t.nextDay, [no |-> n, gone |-> FALSE]), !.nextDay = @ + 1]

\* Rows that are soft-deleted.
Gone(table, which) ==
  [k \in DOMAIN table |-> IF k \in which THEN [table[k] EXCEPT !.gone = TRUE] ELSE table[k]]

SetName(t, i, n) == [t EXCEPT !.items[i].name = n]
Drop(t, i) == [t EXCEPT !.items[i].gone = TRUE]
\* _move_to_day: to the end of the day; the place is read before the day is set.
\* Variant: the place is kept.
MoveToDayInPlace(t, i, d) == [t EXCEPT !.items[i].day = d]
MoveToDay(t, i, d) == [t EXCEPT !.items[i] = [@ EXCEPT !.day = d, !.sort = NextSort(t, d)]]
Reorder(t, order) ==
  [t EXCEPT !.items = [i \in DOMAIN t.items |->
     IF \E k \in DOMAIN order : order[k] = i
     THEN [t.items[i] EXCEPT !.sort = (CHOOSE k \in DOMAIN order : order[k] = i) - 1]
     ELSE t.items[i]]]

\* _validate_plans and the identity check of _apply_plan_item: an item of the draft
\* that has an id is a live item of that name.
ValidDraft(t, draft) ==
  /\ Len(draft) \in 1 .. TripDays
  /\ \A k \in DOMAIN draft :
       /\ Len(draft[k]) <= DayItems
       /\ \A j \in DOMAIN draft[k] : draft[k][j].id # 0 =>
            draft[k][j].id \in LiveItems(t) /\ t.items[draft[k][j].id].name = draft[k][j].name

Retained(draft) == UNION {{draft[k][j].id : j \in DOMAIN draft[k]} : k \in DOMAIN draft} \ {0}

\* One item of the draft: the row it names, or a new one.
PutLine(t, d, place, line) ==
  IF line.id = 0 THEN InsertItem(t, d, line.name, place)
  ELSE [t EXCEPT !.items[line.id] = [@ EXCEPT !.day = d, !.sort = place]]
PutDay(t, d, lines) ==
  FoldLeft(LAMBDA u, j : PutLine(u, d, j - 1, lines[j]), t, [j \in DOMAIN lines |-> j])

AddMissing(t, n) == IF n \in DayNos(t) THEN t ELSE InsertDay(t, n)

\* apply_plans: the missing days, the lines of every day, then the items and the
\* days that the draft does not have.  Variant: those items stay.
ApplyDraftKeeping(t, draft) ==
  LET longer == FoldLeft(AddMissing, t, [k \in DOMAIN draft |-> k])
      filled == FoldLeft(LAMBDA u, k : PutDay(u, CHOOSE d \in DaysAt(longer, k) : TRUE, draft[k]),
                         longer, [k \in DOMAIN draft |-> k])
  IN [filled EXCEPT !.days = Gone(filled.days, {d \in DOMAIN filled.days : filled.days[d].no > Len(draft)}),
                    !.length = Len(draft)]
ApplyDraft(t, draft) ==
  LET kept == ApplyDraftKeeping(t, draft) IN
  [kept EXCEPT !.items = Gone(kept.items, LiveItems(t) \ Retained(draft))]

\* apply_hotel_option: the first hotel of each chosen night, or a new item.
PutHotel(t, hotel, n) ==
  LET d == CHOOSE x \in DaysAt(t, n) : TRUE
      there == {i \in ItemsOf(t, d) : t.items[i].name \in Hotels}
  IN IF there = {} THEN InsertItem(t, d, hotel, NextSort(t, d)) ELSE SetName(t, Min(there), hotel)
ApplyHotel(t, hotel, nights) ==
  FoldLeft(LAMBDA u, n : IF n \in nights THEN PutHotel(u, hotel, n) ELSE u, t, [n \in 1 .. TripDays |-> n])

\* restore: every row of the trip is purged, also those that are soft-deleted, and
\* the snapshot is inserted under new keys.
RestoreInto(t, plans) ==
  FoldLeft(LAMBDA u, k :
             LET v == InsertDay(u, plans[k].no) IN
             PutDay(v, u.nextDay, [j \in DOMAIN plans[k].names |->
                                     [id |-> 0, name |-> plans[k].names[j]]]),
           t, [k \in DOMAIN plans |-> k])
RestoreRows(t, snap) ==
  RestoreInto([t EXCEPT !.days = <<>>, !.items = <<>>, !.length = snap.length], snap.plans)

\* delete_cascade
DropAll(t) ==
  [t EXCEPT !.days = Gone(t.days, DOMAIN t.days), !.items = Gone(t.items, DOMAIN t.items)]

-----------------------------------------------------------------------------
(* Committing: the session read "view" and wants "want"; the tables are "now". *)

\* A flush writes the columns that differ from what the session read.
Field(now, view, want) == IF want = view THEN now ELSE want
ItemRow(now, view, want) ==
  [day |-> Field(now.day, view.day, want.day), sort |-> Field(now.sort, view.sort, want.sort),
   name |-> Field(now.name, view.name, want.name), gone |-> Field(now.gone, view.gone, want.gone)]

\* A flush raises if a row it writes is purged, or if a day it inserts has the
\* number of a row that is there: uk_itinerary_day_no knows no soft delete.
\* Variant: soft-deleted days free their number.
FlushRaisesLive(now, view, want) ==
  \/ \E i \in DOMAIN view.items \ DOMAIN now.items : want.items[i] # view.items[i]
  \/ \E d \in DOMAIN view.days \ DOMAIN now.days : want.days[d] # view.days[d]
  \/ \E d \in DOMAIN want.days \ DOMAIN view.days : want.days[d].no \in DayNos(now)
FlushRaises(now, view, want) ==
  \/ FlushRaisesLive(now, view, want)
  \/ \E d \in DOMAIN want.days \ DOMAIN view.days, e \in DOMAIN now.days :
       now.days[e].no = want.days[d].no

\* The tables after the flush; new rows get the keys that are next now.
Flush(now, view, want) ==
  LET dayShift  == now.nextDay - view.nextDay
      itemShift == now.nextItem - view.nextItem
      Key(d) == IF d >= view.nextDay THEN d + dayShift ELSE d
      newDays  == DOMAIN want.days \ DOMAIN view.days
      newItems == DOMAIN want.items \ DOMAIN view.items
  IN [days |->
        [d \in DOMAIN now.days \cup {Key(x) : x \in newDays} |->
           IF d \notin DOMAIN now.days THEN want.days[d - dayShift]
           ELSE IF d \in DOMAIN view.days
                THEN [now.days[d] EXCEPT !.gone = Field(@, view.days[d].gone, want.days[d].gone)]
                ELSE now.days[d]],
      items |->
        [i \in DOMAIN now.items \cup {x + itemShift : x \in newItems} |->
           IF i \notin DOMAIN now.items
           THEN [want.items[i - itemShift] EXCEPT !.day = Key(@)]
           ELSE IF i \in DOMAIN view.items
                THEN ItemRow(now.items[i], view.items[i], [want.items[i] EXCEPT !.day = Key(@)])
                ELSE now.items[i]],
      length |-> Field(now.length, view.length, want.length),
      nextDay |-> now.nextDay + Cardinality(newDays),
      nextItem |-> now.nextItem + Cardinality(newItems)]

-----------------------------------------------------------------------------
(* What the tables are like. *)

\* The columns of the rows, and the keys that were given out.
IsDay(r)  == r = [no |-> r.no, gone |-> r.gone] /\ r.no \in Nat /\ r.gone \in BOOLEAN
IsItem(r) ==
  /\ r = [day |-> r.day, sort |-> r.sort, name |-> r.name, gone |-> r.gone]
  /\ r.day \in Nat /\ r.sort \in Nat /\ r.gone \in BOOLEAN
Keyed(f, next) == f = [k \in DOMAIN f |-> f[k]] /\ next \in Nat \ {0} /\ DOMAIN f \subseteq 1 .. (next - 1)
Tables(t) ==
  /\ t = [days |-> t.days, items |-> t.items, length |-> t.length, nextDay |-> t.nextDay, nextItem |-> t.nextItem]
  /\ Keyed(t.days, t.nextDay) /\ \A d \in DOMAIN t.days : IsDay(t.days[d])
  /\ Keyed(t.items, t.nextItem) /\ \A i \in DOMAIN t.items : IsItem(t.items[i])
  /\ t.length \in Nat

\* Every live item is in a live day, no two share a place, the live days are
\* numbered from one, each once, and counted in the main row.
Tidy(t) ==
  /\ \A i \in LiveItems(t) : t.items[i].day \in LiveDays(t)
  /\ \A i, j \in LiveItems(t) :
       t.items[i].day = t.items[j].day /\ t.items[i].sort = t.items[j].sort => i = j
  /\ \A d, e \in LiveDays(t) : t.days[d].no = t.days[e].no => d = e
  /\ DayNos(t) = 1 .. t.length
=============================================================================
