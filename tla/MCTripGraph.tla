----------------------------- MODULE MCTripGraph -----------------------------
(***************************************************************************)
(* A city with three rows (a sight with a ticket, a restaurant without one *)
(* and a hotel that is not among the numbered references) and four         *)
(* sources, one without a key; the last may refute.  Requests in every     *)
(* mode, of one day and of two, with and without a model.                  *)
(***************************************************************************)
EXTENDS TripGraph

MCRows == << [name |-> "palace", type |-> "attraction", at |-> "centre", price |-> 6, trusted |-> TRUE],
             [name |-> "noodles", type |-> "food", at |-> "centre", price |-> 5, trusted |-> FALSE],
             [name |-> "inn", type |-> "hotel", at |-> "east", price |-> 9, trusted |-> TRUE] >>

MCSources == << [kind |-> "pool", on |-> TRUE, refutes |-> FALSE], [kind |-> "map", on |-> TRUE, refutes |-> FALSE],
                [kind |-> "shop", on |-> FALSE, refutes |-> TRUE], [kind |-> "shop", on |-> TRUE, refutes |-> TRUE] >>
MCArea == {"centre", "east"}
Spot(names, at) == [spellings |-> names, at |-> at]
Of(rows) == [is |-> "rows", rows |-> rows]
But(is) == [is |-> is, rows |-> <<>>]
Popular == Of(<< Spot({"palace", "forbidden city"}, "centre"), Spot({"inn"}, "east"), Spot({"garden"}, "centre") >>)
MCListed ==
  [palace    |-> <<Popular, Of(<<Spot({"palace"}, "far")>>), But("down"), Of(<<Spot({"palace"}, "centre")>>)>>,
   noodles   |-> <<Popular, But("down"), But("down"), Of(<<Spot({"grill"}, "centre"), Spot({"noodles"}, "centre")>>)>>,
   inn       |-> <<Popular, But("error"), But("down"), But("odd")>>,
   oldpalace |-> <<But("error"), Of(<<Spot({"museum"}, "centre")>>), But("down"), Of(<<Spot({"oldpalace"}, Nowhere)>>)>>,
   tower     |-> <<Popular, Of(<<>>), But("down"), Of(<<>>)>>,
   lake      |-> <<Popular, Of(<<Spot({"lake"}, "far"), Spot({"lake"}, "abroad")>>), But("down"), Of(<<>>)>>,
   garden    |-> <<Popular, But("down"), But("down"), Of(<<>>)>>,
   dumplings |-> <<Popular, Of(<<>>), But("down"), But("odd")>>]
MCQuotes == [n \in DOMAIN MCListed |-> CASE n = "inn" -> 5 [] n = "dumplings" -> 3 [] OTHER -> 0]
MCSameEntity == {<<"oldpalace", "palace">>}

Item(n, type, from, to) ==
  [name |-> n, type |-> type, ref |-> 0, from |-> from, to |-> to, open |-> <<>>, cost |-> 0,
   at |-> Nowhere, by |-> "model"]
Cited(item, n) == [item EXCEPT !.ref = n]
Opens(item, a, b) == [item EXCEPT !.open = <<a, b>>]

Palace == Opens(Item("palace", "attraction", 9, 12), 8, 18)
Noodles == Item("noodles", "food", 13, 14)
Inn == Item("inn", "hotel", 20, 22)
OldPalace == Cited(Item("oldpalace", "attraction", 14, 17), 1)
Tower == Item("tower", "attraction", 13, 17)
Lake == Item("lake", "attraction", 15, 18)
Garden == Item("garden", "attraction", 9, 12)
Dumplings == [Item("dumplings", "food", 13, 14) EXCEPT !.cost = 2]
Show == Item("garden", "show", 19, 21)
Late == Opens(Item("palace", "attraction", 12, 19), 8, 18)
Nameless == Item("", "food", 12, 13)

DayAnswers == { <<Palace, Noodles>>, <<Palace, Noodles, Tower>>, <<Tower, Noodles>>, <<Late, Noodles, Inn>>,
                <<Nameless>> }
TripAnswers == { << [day |-> 1, items |-> <<Palace, Noodles, Inn>>],
                    [day |-> 2, items |-> <<Lake, Noodles>>] >>,
                 << [day |-> 2, items |-> <<OldPalace, Inn>>],
                    [day |-> 2, items |-> <<Palace>>], [day |-> 1, items |-> <<Tower, Palace>>] >>,
                 << [day |-> 1, items |-> <<Palace, Noodles, Inn>>],
                    [day |-> 2, items |-> <<Garden, Dumplings>>] >>,
                 << [day |-> 1, items |-> <<Palace, Noodles>>] >> }
ShowAnswers == { << [day |-> 1, items |-> <<Palace, Noodles>>], [day |-> 2, items |-> <<Show>>] >> }

Ask(mode, days, budget, found) ==
  [mode |-> mode, days |-> days, budget |-> budget, llm |-> TRUE, found |-> found,
   answers |-> DayAnswers, trips |-> TripAnswers]
NoModel(r) == [r EXCEPT !.llm = FALSE]
MCRequests ==
  { Ask("day", 1, 0, 3), Ask("day", 2, 14, 2), NoModel(Ask("day", 1, 0, 3)),
    [Ask("trip", 1, 0, 3) EXCEPT !.answers = {<<Palace, Noodles>>, <<Tower, Noodles>>}],
    [Ask("trip", 2, 21, 3) EXCEPT !.answers = {<<Tower, Noodles>>, <<OldPalace>>}],
    [Ask("trip", 2, 30, 3) EXCEPT !.answers = {<<Garden>>}], NoModel(Ask("trip", 2, 0, 3)),
    Ask("stream", 1, 0, 0), Ask("stream", 2, 0, 3), NoModel(Ask("stream", 1, 0, 3)),
    [Ask("stream", 2, 0, 3) EXCEPT !.trips = ShowAnswers] }
=============================================================================
