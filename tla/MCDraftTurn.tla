---------------------------- MODULE MCDraftTurn -----------------------------
(***************************************************************************)
(* A trip of two days with an inn, and one without that visits a place     *)
(* twice and has an item which an earlier draft added; what may be said of *)
(* them, and answers of the model, the bad ones included.                  *)
(***************************************************************************)
EXTENDS DraftTurn

Entry(id, type, name, from, to, cost) ==
  [id |-> id, type |-> type, name |-> name, from |-> from, to |-> to,
   long |-> IF from = NoTime THEN 2 ELSE to - from, cost |-> cost]
Museum == Entry(1, "attraction", "museum", 9, 11, 5)
Noodles == Entry(2, "food", "noodles", 12, 13, 3)
Inn == Entry(3, "hotel", "inn", 20, 21, 9)
Tower == Entry(4, "attraction", "tower", 10, 12, 5)
Lake == Entry(5, "attraction", "lake", 14, 16, 0)
New(type, name, from, to) == Entry(0, type, name, from, to, 7)
Unsaved == New("food", "grill", 18, 19)
Trip1 == << <<Museum, Noodles, Inn>>, <<Tower, Lake>> >>
Trip2 == << <<Museum, Noodles>>, <<[Tower EXCEPT !.name = "museum"], Unsaved>> >>
MCTrips == {Trip1, Trip2}

Plain == [days |-> 0, cut |-> FALSE, fewer |-> 0, more |-> 0, hotel |-> FALSE, timing |-> FALSE,
          vague |-> FALSE, scope |-> FALSE, beyond |-> FALSE, named |-> {}, compares |-> "no", again |-> FALSE]
Stay == [Plain EXCEPT !.hotel = TRUE]
MCSayings ==
  { Plain, [Plain EXCEPT !.vague = TRUE], [Plain EXCEPT !.cut = TRUE], [Plain EXCEPT !.days = 4, !.more = 0],
    [Plain EXCEPT !.days = 1, !.fewer = 1, !.cut = TRUE], [Plain EXCEPT !.days = 1],
    [Plain EXCEPT !.days = 3, !.more = 3], [Plain EXCEPT !.days = 3, !.more = 3, !.cut = TRUE],
    Stay, [Stay EXCEPT !.vague = TRUE], [Stay EXCEPT !.timing = TRUE], [Stay EXCEPT !.scope = TRUE, !.beyond = TRUE],
    [Stay EXCEPT !.compares = "cheaper"], [Stay EXCEPT !.compares = "better", !.again = TRUE],
    [Stay EXCEPT !.compares = "same"], [Stay EXCEPT !.compares = "best"], [Stay EXCEPT !.named = {"inn"}],
    [Stay EXCEPT !.named = {"palace"}], [Stay EXCEPT !.named = {"lodge"}] }

Patch(op, id, day, pos, from, item) ==
  [op |-> op, id |-> id, day |-> day, pos |-> pos, from |-> from, to |-> NoTime, item |-> item]
NoItem == New("food", "nothing", NoTime, NoTime)
SomePatches ==
  { Patch("delete", n, 0, 0, NoTime, NoItem) : n \in {1, 3, 5, 9} }
  \cup { Patch("move", n, d, p, NoTime, NoItem) : n \in {2, 4}, d \in 1..3, p \in {0, 9} }
  \cup { Patch("update", n, 0, 0, h, NoItem) : n \in {3, 5}, h \in {11, 18, 23} }
  \cup { Patch("add", 0, d, 0, NoTime, x) : d \in {1, 3},
           x \in {New("food", "grill", 18, 19), New("hotel", "lodge", 20, 21), New("food", "noodles", 18, 19)} }
\* The model may count the days wrongly.
Patching(list, n) == [mode |-> "plan_update", patches |-> list, target |-> n]
Document(days, n) ==
  [mode |-> "rewrite_plan", document |-> days, claims |-> n, metadata |-> TRUE, target |-> n]
MCDecisions ==
  { Patching(<<p>>, 0) : p \in SomePatches }
  \cup { Patching(<<p, q>>, 2) : p, q \in {x \in SomePatches : x.op # "add" /\ x.pos = 0} }
  \cup { Patching(<<>>, 3), Patching(<<>>, 1), [mode |-> "clarify"], [mode |-> "hotel_proposal"] }
  \cup { Document(<< <<Noodles, Museum, Inn>>, <<Lake>> >>, 2), Document(<< <<Museum, Inn>> >>, 1),
         Document(<< <<Museum, Noodles>>, <<Lake>> >>, 2),                    \* without the inn
         Document(<< <<Museum, Noodles, Inn>>, <<[Museum EXCEPT !.from = 14, !.to = 16]>> >>, 2),
         Document(<< <<Museum, Inn>>, <<Lake>>, <<New("food", "grill", 18, 19)>> >>, 3),
         Document(<< <<Museum, Inn>>, <<Lake, Inn>>, <<New("food", "grill", 18, 19)>> >>, 3),
         Document(<< <<Museum, Inn>>, <<[Lake EXCEPT !.name = "tower"]>> >>, 2),
         Document(<< <<Museum, Inn>>, <<[Lake EXCEPT !.id = 9]>> >>, 2),
         Document(<< <<Museum, Inn>>, <<[Lake EXCEPT !.cost = 1, !.from = 9, !.to = 11]>> >>, 2),
         [Document(<< <<Museum, Inn>>, <<Lake>> >>, 2) EXCEPT !.metadata = FALSE] }
MCNewDays == { <<New("food", "grill", 18, 19), New("hotel", "lodge", 20, 21)>>, <<New("attraction", "museum", 9, 11)>> }

MCHotelTable == { [name |-> "inn", tier |-> 2, price |-> 9], [name |-> "lodge", tier |-> 2, price |-> 0],
                  [name |-> "palace", tier |-> 4, price |-> 30], [name |-> "castle", tier |-> 5, price |-> 40] }
=============================================================================
