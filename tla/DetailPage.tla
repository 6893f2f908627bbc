----------------------------- MODULE DetailPage -----------------------------
(***************************************************************************)
(* The page of a trip (TripDetailPage.tsx).  It reads the trip once, asks  *)
(* again every three seconds while the trip is being generated, and shows  *)
(* what its own writes answer.  Calls are answered in any order.  Every    *)
(* change of the status (or of offline) ends the poller of that status:    *)
(* what its calls bring later is thrown away; the other calls have no such *)
(* guard.                                                                  *)
(***************************************************************************)
EXTENDS Naturals, FiniteSets

CONSTANTS
  Calls,       \* calls in flight at once
  MaxVersion   \* bound: changes of the trip

ASSUME DetailAssumption == MaxVersion \in Nat

VARIABLES
  served,   \* the trip of the server: [status, version, items]; items: which rows the places are
  view,     \* [at, shown]; shown: what of the trip is on the page, or Empty
  poller,   \* which poller lives: it changes with the status that is shown
  calls,    \* each call: [at, kind, poller, got]
  heard,    \* for the property: the newest version the server has answered with,
  astray    \* and whether an answer that no poller guards was late, or was lost

pageVars == <<served, view, poller, calls, heard, astray>>

Empty == [status |-> "none", version |-> 0, items |-> 0]
FreeCall == [at |-> "free", kind |-> "none", poller |-> 0, got |-> Empty]
DetailInit ==
  /\ served \in {[status |-> s, version |-> 1, items |-> 1] : s \in {"generating", "ready"}}
  /\ view = [at |-> "new", shown |-> Empty] /\ poller = 0
  /\ calls = [c \in Calls |-> FreeCall] /\ heard = 0 /\ astray = FALSE

-----------------------------------------------------------------------------
(* The server: the generation replaces the rows of a day and ends. *)

DaysArrive ==
  /\ served.status = "generating" /\ served.version < MaxVersion
  /\ \E s \in {"generating", "ready"} :
       served' = [status |-> s, version |-> served.version + 1, items |-> served.version + 1]
  /\ UNCHANGED <<view, poller, calls, heard, astray>>

-----------------------------------------------------------------------------
(* The page. *)

AskFor(c, kind) ==
  /\ calls[c].at = "free"
  /\ calls' = [calls EXCEPT ![c] = [at |-> "asked", kind |-> kind, poller |-> poller,
                                    got |-> IF kind = "feedback" THEN view.shown ELSE Empty]]
  /\ UNCHANGED <<served, poller, heard, astray>>

\* load, at the start and by the button of its error; without a session there is a way to
\* the login beside it.
OpenTrip(c) ==
  /\ view.at \in {"new", "error"} /\ view' = [view EXCEPT !.at = "loading"] /\ AskFor(c, "load")
\* Every three seconds, whether or not the last poll was answered.
PollTrip(c) ==
  /\ view.at = "open" /\ view.shown.status = "generating" /\ AskFor(c, "poll") /\ UNCHANGED view
\* favorite, saveTheme, regenerateDay; applyFeedback names an item that is shown.
WriteTrip(c) ==
  /\ view.at = "open" /\ \E kind \in {"write", "feedback"} : AskFor(c, kind)
  /\ UNCHANGED view
\* After an applied draft, or one that met a newer trip.
RefreshTrip(c) == view.at = "open" /\ AskFor(c, "refresh") /\ UNCHANGED view

\* The server takes a call; feedback on rows that are gone is a 400.
ServeCall(c) ==
  LET k == calls[c].kind
      new == IF k = "write" THEN [served EXCEPT !.version = @ + 1] ELSE served IN
  /\ calls[c].at = "asked" /\ (k = "write" => served.version < MaxVersion)
  /\ served' = new
  /\ calls' = [calls EXCEPT ![c].at = IF k = "feedback" /\ calls[c].got.items # served.items
                                       THEN "gone" ELSE "served",
                             ![c].got = new]
  /\ UNCHANGED <<view, poller, heard, astray>>

\* Is an answer still wanted?  Variant: the one of any poller is.
StillWantedAlways(c) == TRUE
StillWanted(c) == calls[c].kind = "poll" => calls[c].poller = poller
FreeIt(c) == calls' = [calls EXCEPT ![c] = FreeCall]
CloseCall(c) ==
  /\ heard' = IF calls[c].got.version > heard THEN calls[c].got.version ELSE heard
  /\ UNCHANGED served

\* setTrip: a new status renews the effect that polls.
ShowAnswer(c) ==
  LET got == calls[c].got IN
  /\ calls[c].at = "served" /\ calls[c].kind # "feedback" /\ StillWanted(c)
  /\ view' = [at |-> "open", shown |-> got]
  /\ poller' = IF got.status # view.shown.status THEN poller + 1 ELSE poller
  /\ astray' = (got.version < heard /\ (astray \/ calls[c].kind # "poll"))
  /\ FreeIt(c) /\ CloseCall(c)
\* The effect that asked has ended.
IgnoreAnswer(c) ==
  /\ calls[c].at = "served" /\ ~StillWanted(c) /\ FreeIt(c) /\ CloseCall(c)
  /\ UNCHANGED <<view, poller, astray>>
\* The feedback was taken; or its rows are gone, and the page asks for the trip again.
FeedbackAnswer(c) ==
  /\ calls[c].kind = "feedback" /\ calls[c].at \in {"served", "gone"}
  /\ calls' = [calls EXCEPT ![c] =
       IF calls[c].at = "served" THEN FreeCall ELSE [FreeCall EXCEPT !.at = "asked", !.kind = "refresh"]]
  /\ UNCHANGED <<served, view, poller, heard, astray>>
\* The call fails.  Only load shows more than a note of it: an error, or, without a server,
\* the sample, which is read only and never left.
FailCall(c) ==
  LET k == calls[c].kind IN
  /\ calls[c].at # "free" /\ FreeIt(c) /\ CloseCall(c)
  /\ astray' = (astray \/ (k = "write" /\ calls[c].at = "served"))
  /\ IF k = "load" THEN \E at \in {"error", "sample"} : view' = [view EXCEPT !.at = at]
                   ELSE UNCHANGED view
  /\ UNCHANGED poller

PageNext ==
  \/ DaysArrive
  \/ \E c \in Calls :
       \/ OpenTrip(c) \/ PollTrip(c) \/ WriteTrip(c) \/ RefreshTrip(c) \/ ServeCall(c)
       \/ ShowAnswer(c) \/ IgnoreAnswer(c) \/ FeedbackAnswer(c) \/ FailCall(c)

PageSpec == DetailInit /\ [][PageNext]_pageVars

-----------------------------------------------------------------------------
(* Properties. *)

\* A page that does not poll any more and waits for nothing shows the trip as it is, in
\* whatever order its calls were answered, unless the answer of a write or of a refresh was
\* late, or that of a write was lost: those have no guard (TripDetailPage.tsx:150-158).
PageSettles ==
  (view.at = "open" /\ view.shown.status = "ready" /\ ~astray /\ \A c \in Calls : calls[c].at = "free")
    => view.shown = served
=============================================================================
