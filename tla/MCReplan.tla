------------------------------ MODULE MCReplan ------------------------------
(***************************************************************************)
(* Days with a museum that is locked or not, a temple that closes early, a *)
(* meal, an inn; candidates of the trip itself, of the search and of       *)
(* nobody; with and without money.                                         *)
(***************************************************************************)
EXTENDS Replan

Place(name, type, long, open, close, cost) ==
  [name |-> name, type |-> type, long |-> long, open |-> <<open, close>>, cost |-> cost, from |-> 0]
Gallery == Place("gallery", "sight", 3, 9, 17, 4)
Temple == Place("temple", "sight", 2, 9, 12, 0)
Dumplings == Place("dumplings", "food", 1, 11, 20, 2)
Bridge == Place("bridge", "sight", 5, 0, 24, 0)
Hostel == Place("hostel", "hotel", 0, 0, 24, 5)
Park == Place("park", "sight", 2, 13, 20, 1)
MCShop == <<Park>>
MCPlaces == {"gallery", "temple", "dumplings", "bridge", "hostel", "park"}
MCTravel == [p \in MCPlaces \X MCPlaces |-> IF p[1] = p[2] THEN 0 ELSE IF "bridge" \in {p[1], p[2]} THEN 2 ELSE 1]
MCPlans == { << <<Gallery, Temple, Dumplings, Hostel>>, <<Bridge, Dumplings>> >>,
             << <<Temple, Bridge, Gallery>>, <<Hostel, Park>> >> }
MCJobs == [plans : MCPlans, days : {<<1>>, <<1, 2>>, <<2>>},
           wanted : {<<>>, <<"park">>, <<"temple", "park">>, <<"castle">>, <<"gallery">>},
           locked : {{}, {"temple"}, {"gallery", "dumplings"}, {"castle"}}, money : {-1, 3}]
=============================================================================
