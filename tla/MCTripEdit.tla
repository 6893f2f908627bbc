----------------------------- MODULE MCTripEdit -----------------------------
(* TripEdit with two users, of whom the owner has two tabs, and a trip of two days. *)
EXTENDS TripEdit

CONSTANTS o1, o2, m1, owner, member, spot, inn, lodge

MCUserOf == [c \in Clients |-> IF c = m1 THEN member ELSE owner]

Item(d, s, n) == [day |-> d, sort |-> s, name |-> n, gone |-> FALSE]
TwoDays ==
  [days |-> <<[no |-> 1, gone |-> FALSE], [no |-> 2, gone |-> FALSE]>>,
   items |-> <<Item(1, 0, spot), Item(1, 1, inn)>>,
   length |-> 2, nextDay |-> 3, nextItem |-> 3]
\* The same after a draft of one day was applied.
OneDay == [TwoDays EXCEPT !.days[2].gone = TRUE, !.length = 1]

Scenario(kinds, requests, tabs, start, roles) ==
  [kinds |-> kinds, requests |-> requests, tabs |-> tabs, rows |-> start, roles |-> roles]
MCScenarios == {
  \* two edits by hand, of the same or of different tabs, with the details they evict
  Scenario({"add", "move", "delete", "read"}, 2, {o1, m1}, {TwoDays}, {"editor"}),
  Scenario({"update", "optimize", "retitle", "reorder"}, 2, {o1, o2}, {TwoDays}, {"none"}),
  Scenario({"words", "delete"}, 2, {o1, m1}, {TwoDays}, {"editor"}),
  Scenario({"retitle"}, 3, {o1, o2, m1}, {OneDay}, {"viewer", "editor"}),
  \* versions, members and the delete
  Scenario({"restore", "delete"}, 3, {o1, m1}, {OneDay}, {"editor"}),
  Scenario({"role", "join", "read", "retitle"}, 3, {o1, m1}, {OneDay}, {"editor", "none"}),
  Scenario({"role", "restore", "delete"}, 3, {o1, m1}, {OneDay}, {"editor"}),
  Scenario({"trash", "read", "add"}, 3, {o1, m1}, {OneDay}, {"editor"}),
  \* drafts: applied twice, lengthened, replaced, crossed, proposed by two at once
  Scenario({"chat", "apply"}, 4, {o1, o2}, {TwoDays, OneDay}, {"none"}),
  Scenario({"chat", "hotel"}, 3, {o1, o2}, {TwoDays}, {"none"}),
  Scenario({"chat", "apply", "hotel"}, 3, {o1, m1}, {OneDay}, {"editor"}),
  Scenario({"chat", "apply", "delete"}, 3, {o1, m1}, {TwoDays}, {"editor"}),
  Scenario({"chat", "apply", "trash", "clear", "restore"}, 3, {o1, m1}, {OneDay}, {"editor"})}
=============================================================================
