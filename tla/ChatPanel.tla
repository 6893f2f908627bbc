------------------------------ MODULE ChatPanel ------------------------------
(***************************************************************************)
(* The conversation beside a trip, seen from one panel.  A sentence goes   *)
(* out over a stream whose turn runs in a pool of the server; a stream     *)
(* that breaks is followed by a blocking request with the same sentence,   *)
(* and one that takes too long is given up.  A turn that ends in a draft   *)
(* stores it, in place of the drafts before it, and the panel shows the    *)
(* draft as the card that waits for a confirmation.  Meanwhile the trip    *)
(* may be edited by hand, on the page around the panel or elsewhere.       *)
(***************************************************************************)
EXTENDS Naturals, Sequences, FiniteSets

CONSTANTS
  MaxTurns,   \* bound: turns, those repeated by the panel included
  MaxTouches, \* bound: edits of the trip by hand
  ChatSlots,  \* CHAT_SLOTS: turns running or queued
  ChatWorkers \* threads of chat_pool

ASSUME ChatAssumption ==
  {MaxTurns, MaxTouches} \subseteq Nat /\ ChatSlots \in Nat \ {0} /\ ChatWorkers \in 1 .. ChatSlots

VARIABLES
  turns,    \* each turn: [via, at, base, result]; result: id of a draft, 0 none, -1 an error
  drafts,   \* AI messages that carried a draft, by their id: [base, fate]; fate: "open" as
            \* long as the draft is stored, or what took it: "replaced" by another draft,
            \* "edited" the trip, "applied", or "unheard": applied, and the answer was lost
  revision, \* of the trip
  edits,    \* by hand
  slots,    \* free slots of chat_pool
  panel,    \* [doing, turn, card, placed, confirm, seen]
  deserted  \* for the properties: turns the panel left before they ended, and 0 once it
            \* showed a history that a turn had outrun

chatVars == <<turns, drafts, revision, edits, slots, panel, deserted>>

Turns == 1 .. MaxTurns
Unsent == [via |-> "none", at |-> "new", base |-> 0, result |-> 0]
ChatInit ==
  /\ turns = [t \in Turns |-> Unsent]
  /\ drafts = << >> /\ revision = 1 /\ edits = 0 /\ slots = ChatSlots
  /\ panel = [doing |-> "idle", turn |-> 0, card |-> 0, placed |-> FALSE,
              confirm |-> "no", seen |-> 0]
  /\ deserted = {}

Fresh == {t \in Turns : turns[t].at = "new" /\ \A u \in Turns : u < t => turns[u].at # "new"}
At(t, l) == turns' = [turns EXCEPT ![t].at = l]
Ask(t, via) == turns' = [turns EXCEPT ![t].via = via, ![t].at = "asked"]

-----------------------------------------------------------------------------
(* The server. *)

\* chat_edit_stream: the context is read, then the turn goes to the pool; a context that
\* fails and a full pool are error frames.  chat_edit runs in the thread of its request.
Arrive(t) ==
  /\ turns[t].at = "asked"
  /\ \/ turns' = [turns EXCEPT ![t].at = "over", ![t].result = 0 - 1] /\ UNCHANGED slots
     \/ turns[t].via = "block" /\ UNCHANGED slots
        /\ turns' = [turns EXCEPT ![t].at = "working", ![t].base = revision]
     \/ turns[t].via = "stream" /\ slots > 0 /\ slots' = slots - 1
        /\ turns' = [turns EXCEPT ![t].at = "queued", ![t].base = revision]
  /\ UNCHANGED <<drafts, revision, edits, panel, deserted>>

Start(t) ==
  /\ turns[t].at = "queued"
  /\ Cardinality({u \in Turns : turns[u].via = "stream" /\ turns[u].at \in {"working", "offer"}}) < ChatWorkers
  /\ At(t, "working")
  /\ UNCHANGED <<drafts, revision, edits, slots, panel, deserted>>

\* finalize_chat_turn: one transaction stores the two messages, and a draft takes the
\* place of whatever was pending.
Taken(by) == [i \in DOMAIN drafts |->
  IF drafts[i].fate = "open" THEN [drafts[i] EXCEPT !.fate = by] ELSE drafts[i]]
Answer(t, r) ==
  turns' = [turns EXCEPT ![t].result = r,
              ![t].at = IF turns[t].via = "stream" THEN "offer" ELSE "over"]
Finalize(t) ==
  /\ turns[t].at = "working"
  /\ \/ \E r \in {0, 0 - 1} : Answer(t, r) /\ UNCHANGED drafts
     \/ /\ Answer(t, Len(drafts) + 1)
        /\ drafts' = Append(Taken("replaced"), [base |-> turns[t].base, fate |-> "open"])
  /\ UNCHANGED <<revision, edits, slots, panel, deserted>>

\* _offer hands the outcome to the loop and does not wait; the slot comes back.
\* Variant: it waits for the consumer.
OfferWaiting(t) ==
  /\ turns[t].at = "offer" /\ t \notin deserted
  /\ At(t, "over") /\ slots' = slots + 1
  /\ UNCHANGED <<drafts, revision, edits, panel, deserted>>
Offer(t) ==
  /\ turns[t].at = "offer"
  /\ At(t, "over") /\ slots' = slots + 1
  /\ UNCHANGED <<drafts, revision, edits, panel, deserted>>

\* An edit of the trip by hand is one transaction, which takes the drafts of the user who
\* makes it; a title is not in the revision.  Another member's edit leaves them stored.
EditTrip ==
  /\ edits < MaxTouches /\ edits' = edits + 1
  /\ \/ drafts' = Taken("edited") /\ revision' \in {revision, revision + 1}
     \/ revision' = revision + 1 /\ UNCHANGED drafts
  /\ UNCHANGED <<turns, slots, panel, deserted>>

-----------------------------------------------------------------------------
(* The panel: useTripChat and chatEditStream.  It keeps its card while the trip is edited. *)

Send ==
  /\ panel.doing = "idle"
  /\ \E t \in Fresh :
       /\ Ask(t, "stream")
       /\ panel' = [panel EXCEPT !.doing = "stream", !.turn = t, !.placed = TRUE]
  /\ UNCHANGED <<drafts, revision, edits, slots, deserted>>

\* applyDraftPayload: the card of every other message goes, and the answer's own is put
\* on the placeholder, if that is still in the list.
Shown(r) == IF panel.placed /\ r > 0 THEN r ELSE 0
Fallback ==
  \E t \in Fresh : Ask(t, "block") /\ panel' = [panel EXCEPT !.doing = "block", !.turn = t]
Give == panel' = [panel EXCEPT !.doing = "idle", !.turn = 0, !.placed = FALSE]

HearStream ==
  LET r == turns[panel.turn].result IN
  /\ panel.doing = "stream" /\ turns[panel.turn].at = "over"
  /\ IF r < 0 THEN Fallback
     ELSE /\ panel' = [panel EXCEPT !.doing = "idle", !.turn = 0, !.card = Shown(r), !.placed = FALSE]
          /\ UNCHANGED turns
  /\ UNCHANGED <<drafts, revision, edits, slots, deserted>>

\* The connection breaks, before the answer or in it: the same sentence once more.
Break ==
  /\ panel.doing = "stream" /\ Fallback
  /\ deserted' = deserted \cup {panel.turn}
  /\ UNCHANGED <<drafts, revision, edits, slots>>

\* SEND_TIMEOUT_MS: the stream is aborted, without a fall-back; the blocking request
\* does not know the signal.
GiveUp ==
  /\ panel.doing = "stream" /\ Give
  /\ deserted' = deserted \cup {panel.turn}
  /\ UNCHANGED <<turns, drafts, revision, edits, slots>>

HearBlock ==
  LET r == turns[panel.turn].result IN
  /\ panel.doing = "block"
  /\ \/ /\ turns[panel.turn].at = "over" /\ r >= 0
        /\ panel' = [panel EXCEPT !.doing = "idle", !.turn = 0, !.card = Shown(r), !.placed = FALSE]
        /\ UNCHANGED deserted
     \/ /\ turns[panel.turn].at = "over" /\ r < 0 /\ Give /\ UNCHANGED deserted
     \/ /\ Give /\ deserted' = deserted \cup {panel.turn}    \* the answer is lost
  /\ UNCHANGED <<turns, drafts, revision, edits, slots>>

\* applyDraft, also while a turn is running.  The server takes the draft that is its last
\* pending one and was made for the present revision; otherwise it says 409, and the
\* panel keeps the card.  So it does when the draft was applied and the answer is lost.
Pending == {i \in DOMAIN drafts : drafts[i].fate = "open"}
Acceptable(i) ==
  /\ i \in Pending /\ drafts[i].base = revision
  /\ \A j \in Pending : j <= i
Confirm ==
  /\ panel.confirm = "no" /\ panel.card # 0
  /\ IF Acceptable(panel.card)
     THEN /\ revision' = revision + 1
          /\ \/ /\ drafts' = [drafts EXCEPT ![panel.card].fate = "applied"]
                /\ panel' = [panel EXCEPT !.confirm = "applied"]
             \/ /\ drafts' = [drafts EXCEPT ![panel.card].fate = "unheard"]
                /\ UNCHANGED panel
     ELSE UNCHANGED <<drafts, revision, panel>>
  /\ UNCHANGED <<turns, edits, slots, deserted>>

\* reload: the history as the server has it takes the place of the list, the placeholder
\* included; a history that cannot be read is an empty list.
\* Variant: the list stays as it is.
Latest == IF Pending = {} THEN 0 ELSE CHOOSE i \in Pending : \A j \in Pending : j <= i
ReadHistory ==
  /\ panel.confirm = "applied"
  /\ \E i \in {Latest, 0} : panel' = [panel EXCEPT !.confirm = "read", !.seen = i]
  /\ UNCHANGED <<turns, drafts, revision, edits, slots, deserted>>
ListAfterKept == panel.card
ListAfter == panel.seen
ShowHistory ==
  /\ panel.confirm = "read"
  /\ panel' = [panel EXCEPT !.confirm = "no", !.seen = 0, !.card = ListAfter, !.placed = FALSE]
  /\ deserted' = IF panel.seen # 0 /\ drafts[panel.seen].fate = "replaced"
                 THEN deserted \cup {0} ELSE deserted
  /\ UNCHANGED <<turns, drafts, revision, edits, slots>>

-----------------------------------------------------------------------------
ServeTurn(t) == Arrive(t) \/ Start(t) \/ Finalize(t) \/ Offer(t)
ChatNext ==
  \/ \E t \in Turns : ServeTurn(t)
  \/ EditTrip \/ Send \/ HearStream \/ Break \/ GiveUp \/ HearBlock
  \/ Confirm \/ ReadHistory \/ ShowHistory

ChatSpec == ChatInit /\ [][ChatNext]_chatVars

-----------------------------------------------------------------------------
(* Properties. *)

\* An accepted turn ends and gives its slot back, also when its client has gone
\* (_stream_turn, _offer, SlotExecutor).
WorkersReturn ==
  \A t \in Turns : turns[t].at \in {"queued", "working", "offer"} ~> turns[t].at = "over"

\* The card the panel shows is never one that another draft replaced or whose confirmation
\* the panel heard: the server holds it open, or it was taken by an edit of the trip or by
\* a confirmation whose answer was lost, and the next one is refused.  Exempt is a panel
\* that left a turn that ran on, has shown a history that a turn had outrun, or has an
\* answer still to show (applyDraftPayload, applyDraft, reload, invalidate_in_session).
CardIsPending ==
  panel.card # 0 /\ deserted = {} /\ panel.confirm = "no"
    /\ (panel.turn # 0 => turns[panel.turn].at \notin {"offer", "over"})
    => drafts[panel.card].fate \in {"open", "edited", "unheard"}
=============================================================================
