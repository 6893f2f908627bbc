------------------------------- MODULE MCTabs -------------------------------
(***************************************************************************)
(* The tabs of a user: those that edit a trip, with the tab of another     *)
(* member, and the one on whose home page a trip is asked for.  They share *)
(* no state here; each behaviour is of one kind, so that they are not      *)
(* multiplied out, and the trip of a home page stays one of those the      *)
(* edits begin with.                                                       *)
(***************************************************************************)
EXTENDS MCTripEdit, HomePage

VARIABLE shown
tabs == <<shown, vars, homeVars>>

\* Bound: a home page goes no further than its first crossing, of which nothing is said.
HomeTab == ~ghosts.crossed /\ HomeNext

AtRest == CHOOSE i \in Scenarios : TRUE
TabsInit ==
  /\ shown \in {"trip", "home"}
  /\ Init /\ HomeInit
  /\ IF shown = "trip" THEN user.session
     ELSE scenario = AtRest /\ rows = CHOOSE r \in AtRest.rows : TRUE
TabsNext ==
  \/ shown = "trip" /\ Next /\ UNCHANGED <<shown, homeVars>>
  \/ shown = "home" /\ HomeTab /\ UNCHANGED <<shown, vars>>
TabsSpec == TabsInit /\ [][TabsNext]_tabs
=============================================================================
