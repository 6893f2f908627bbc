----------------------------- MODULE Enrichment -----------------------------
(***************************************************************************)
(* What happens to a finished trip behind the user's back: a task of       *)
(* enricher_pool asks the model for the butler's note and for              *)
(* introductions, and asks the sources about the suggested places, for     *)
(* minutes, while the user adds places to the trip and takes them out.     *)
(* The note and the suggestions are single columns which both sides read,  *)
(* change and write back as a whole.                                       *)
(***************************************************************************)
EXTENDS Naturals, FiniteSets

CONSTANTS
  Places,      \* the suggested places
  Booked,      \* those that have to be reserved
  Enrichments, \* tasks of enricher_pool: a trip that was resumed has more than one
  Tabs,        \* requests that edit the trip
  MaxPlaced    \* bound: edits

ASSUME EnrichmentAssumption == Booked \subseteq Places /\ MaxPlaced \in Nat

VARIABLES
  suggested,  \* suggestions_json: [there, used, checked, told] of each place
  note,       \* plan_note: [butler, about]; about: the reservations it reminds of
  visits,     \* the places that are items of the trip
  introduced, \* the items with an introduction
  helper,     \* each enrichment: [at, first, rows, since]
  editor,     \* each request: [at, place, add, rows, note, since]
  edited,     \* bound: edits so far
  crossed     \* for the properties: places whose edit was written over

enrichVars == <<suggested, note, visits, introduced, helper, editor, edited, crossed>>

Suggested == [there |-> TRUE, used |-> FALSE, checked |-> FALSE, told |-> FALSE]
Rows == [Places -> [there : BOOLEAN, used : BOOLEAN, checked : BOOLEAN, told : BOOLEAN]]
Quiet == [butler |-> FALSE, about |-> {}]
EnrichInit ==
  /\ suggested = [n \in Places |-> Suggested]
  /\ note = Quiet /\ visits = {} /\ introduced = {}
  /\ helper = [r \in Enrichments |-> [at |-> "queued", first |-> suggested, rows |-> suggested, since |-> {}]]
  /\ editor = [c \in Tabs |->
       [at |-> "idle", place |-> CHOOSE n \in Places : TRUE, add |-> TRUE,
        rows |-> suggested, note |-> note, since |-> {}]]
  /\ edited = 0 /\ crossed = {}

-----------------------------------------------------------------------------
(* enrich_itinerary.  Every part may fail, and the next one goes on. *)

On(r, where) == helper[r].at = where
Then(r, where) == helper' = [helper EXCEPT ![r].at = where]

\* A route that is broken, or a trip that is gone, ends the task.
EnterTask(r) ==
  /\ On(r, "queued")
  /\ \E where \in {"butler", "over"} :
       helper' = [helper EXCEPT ![r].at = where, ![r].first = suggested]
  /\ UNCHANGED <<suggested, note, visits, introduced, editor, edited, crossed>>

\* _write_butler_note: an empty trip has none; what stood in the note is gone.
WriteNote(r) ==
  /\ On(r, "butler") /\ Then(r, "intros")
  /\ \/ visits # {} /\ note' = [butler |-> TRUE, about |-> {}]
     \/ UNCHANGED note
  /\ UNCHANGED <<suggested, visits, introduced, editor, edited, crossed>>

\* _fill_item_intros: by name, in batches of which each may fail.
FillIntros(r) ==
  /\ On(r, "intros") /\ Then(r, "load")
  /\ \E s \in SUBSET visits : introduced' = introduced \cup s
  /\ UNCHANGED <<suggested, note, visits, editor, edited, crossed>>

\* _load_suggestion_rows: the latest row.  Variant: the row of the beginning.
LoadedFirst(r) == helper[r].first
Loaded(r) == suggested
LoadRows(r, from, where) ==
  /\ On(r, from)
  /\ helper' = [helper EXCEPT ![r].rows = Loaded(r), ![r].since = {},
               ![r].at = IF \E n \in Places : suggested[n].there THEN where ELSE "over"]
  /\ UNCHANGED <<suggested, note, visits, introduced, editor, edited, crossed>>

\* _store_suggestion_rows: the whole column, if anything changed.
StoreRows(r, rows, where) ==
  /\ Then(r, where)
  /\ suggested' = rows
  /\ crossed' = IF rows = helper[r].rows THEN crossed ELSE crossed \cup helper[r].since
Unstored(r, where) == Then(r, where) /\ UNCHANGED <<suggested, crossed>>

\* verify_suggestion_rows: real places get their coordinates, denied ones go.
Verified(rows) ==
  {new \in Rows : \A n \in Places :
     new[n] \in IF rows[n].there /\ ~rows[n].checked
                THEN {rows[n], [rows[n] EXCEPT !.checked = TRUE], [rows[n] EXCEPT !.there = FALSE]}
                ELSE {rows[n]}}
Verify(r) ==
  /\ On(r, "verify")
  /\ \/ \E rows \in Verified(helper[r].rows) \ {helper[r].rows} : StoreRows(r, rows, "reload")
     \/ Unstored(r, "reload")
  /\ UNCHANGED <<note, visits, introduced, editor, edited>>

\* _enrich_suggestion_intros
Introduced(rows) ==
  {new \in Rows : \A n \in Places :
     new[n] \in IF rows[n].there /\ ~rows[n].told THEN {rows[n], [rows[n] EXCEPT !.told = TRUE]}
                ELSE {rows[n]}}
Introduce(r) ==
  /\ On(r, "introduce")
  /\ \/ \E rows \in Introduced(helper[r].rows) \ {helper[r].rows} : StoreRows(r, rows, "over")
     \/ Unstored(r, "over")
  /\ UNCHANGED <<note, visits, introduced, editor, edited>>

EnrichStep(r) ==
  \/ EnterTask(r) \/ WriteNote(r) \/ FillIntros(r)
  \/ LoadRows(r, "load", "verify") \/ Verify(r) \/ LoadRows(r, "reload", "introduce") \/ Introduce(r)

-----------------------------------------------------------------------------
(* add_item and delete_item, with _apply_suggestion_used: the transaction reads the   *)
(* two columns without a lock and writes those that it changed.                        *)

BeginPlace(c) ==
  /\ editor[c].at = "idle" /\ edited < MaxPlaced /\ edited' = edited + 1
  /\ \E n \in Places :
       editor' = [editor EXCEPT ![c] = [at |-> "read", place |-> n, add |-> n \notin visits,
                                  rows |-> suggested, note |-> note, since |-> {}]]
  /\ UNCHANGED <<suggested, note, visits, introduced, helper, crossed>>

\* What the edit makes of the columns it has read: a place that is not suggested is no
\* hit; the reminder follows the place.
Found(e) == e.rows[e.place].there
Marked(e) == [e.rows EXCEPT ![e.place].used = e.add]
Reminded(e) ==
  IF e.add THEN (IF e.place \in Booked THEN [e.note EXCEPT !.about = @ \cup {e.place}] ELSE e.note)
  ELSE [e.note EXCEPT !.about = @ \ {e.place}]
\* Did it write the column?
Changes(e) == Found(e) /\ (Marked(e) # e.rows \/ Reminded(e) # e.note)
\* Reminders that came or went since it has read the note.
Renoted(e) == {n \in Places : (n \in e.note.about) # (n \in note.about)}
\* The page adds no place twice; a row that somebody else has taken out is taken out again.
CommitPlace(c) ==
  LET e == editor[c]  n == e.place IN
  /\ e.at = "read"
  /\ IF e.add /\ n \in visits
     THEN editor' = [editor EXCEPT ![c].at = "idle"] /\ UNCHANGED <<suggested, note, visits, helper, crossed>>
     ELSE /\ visits' = IF e.add THEN visits \cup {n} ELSE visits \ {n}
          /\ suggested' = IF Changes(e) THEN Marked(e) ELSE suggested
          /\ note' = IF Found(e) /\ Reminded(e) # e.note THEN Reminded(e) ELSE note
          /\ crossed' = IF Changes(e) THEN (crossed \ {n}) \cup e.since \cup Renoted(e)
                        ELSE IF suggested[n].there THEN crossed \cup {n} ELSE crossed
          /\ helper' = [r \in Enrichments |-> [helper[r] EXCEPT !.since = @ \cup {n}]]
          /\ editor' = [d \in Tabs |->
               IF d = c THEN [e EXCEPT !.at = "idle"] ELSE [editor[d] EXCEPT !.since = @ \cup {n}]]
  /\ UNCHANGED <<introduced, edited>>

EnrichNext ==
  \/ \E r \in Enrichments : EnrichStep(r)
  \/ \E c \in Tabs : BeginPlace(c) \/ CommitPlace(c)

EnrichSpec == EnrichInit /\ [][EnrichNext]_enrichVars

-----------------------------------------------------------------------------
(* Properties. *)

\* A suggestion is marked used exactly while its place is in the trip, and no reservation
\* is called for that is not needed any more, unless somebody wrote back or decided by what
\* he had read before that edit or before the note was rewritten (the single-column updates
\* of the enricher), or the place was denied and is no suggestion any more.
UsedKept ==
  \A n \in Places \ crossed : suggested[n].there =>
    (suggested[n].used <=> n \in visits) /\ (n \in note.about => n \in visits)
=============================================================================
