------------------------------ MODULE HomePage ------------------------------
(***************************************************************************)
(* The home page of the web client: what one tab keeps in memory, what it  *)
(* leaves in its session storage, and the requests it has under way.  A    *)
(* conversation gathers the wishes, a submitted request creates a trip,    *)
(* and a monitor follows the trip by polling and by its event stream.      *)
(* When the page is shown again, by a reload or from another page of the   *)
(* client, the trip that was left in the storage is resumed, and a         *)
(* sentence that met a 401 is sent again.                                  *)
(***************************************************************************)
EXTENDS Integers, FiniteSets

CONSTANTS
  MaxAttempts,   \* bound: submits and resumes; as many trips may come of them
  MaxSentences,  \* bound: what the user says
  MaxReconnects  \* of the event stream

ASSUME HomeAssumption == {MaxAttempts, MaxSentences, MaxReconnects} \subseteq Nat

VARIABLES
  trips,     \* status of each trip: "none", "generating", "done", "failed"
  storage,   \* sessionStorage: [trip, sentence, archive]; archive: a saved session's trip
  user,      \* [known: the name in localStorage, session: the server's view]
  page,      \* [status, draft, request]; request: the attempt in request.current
  attempts,  \* submits and resumes: [by, at, trip, aborted, detached, stream]; detached:
             \* it goes on, but the page that began it is no longer shown
  intake,    \* [ready, asking, spoken]
  answered,  \* for the properties: how often each sentence was answered
  ghosts     \* for the properties: [crossed, fresh, lost]

homeVars == <<trips, storage, user, page, attempts, intake, answered, ghosts>>

Tries == 1 .. MaxAttempts
Sentences == 1 .. MaxSentences
Unused == [by |-> "none", at |-> "none", trip |-> 0, aborted |-> FALSE, detached |-> FALSE,
           stream |-> 0 - 1]
Blank == [status |-> "idle", draft |-> 0, request |-> 0]

HomeInit ==
  /\ trips = [i \in Tries |-> "none"]
  /\ storage = [trip |-> 0, sentence |-> 0, archive |-> 0]
  /\ user \in {[known |-> k, session |-> k] : k \in BOOLEAN}
  /\ page = Blank
  /\ attempts = [a \in Tries |-> Unused]
  /\ intake = [ready |-> FALSE, asking |-> 0, spoken |-> 0]
  /\ answered = [s \in Sentences |-> 0]
  /\ ghosts = [crossed |-> FALSE, fresh |-> FALSE, lost |-> FALSE]

Next1 == {a \in Tries : attempts[a].by = "none" /\ \A b \in Tries : b < a => attempts[b].by # "none"}
Alive(a) == attempts[a].at \in {"asking", "watching"} /\ ~attempts[a].aborted
Closed(a) == [Unused EXCEPT !.by = attempts[a].by, !.at = "over"]
Resuming == \E a \in Tries : attempts[a].by = "resume" /\ Alive(a)

\* A component that is unmounted shows nothing any more; the storage is written all the same.
OnPage(a, new) == IF attempts[a].detached THEN page ELSE new
Remember(t) ==
  /\ storage' = [storage EXCEPT !.trip = t]
  /\ ghosts' = [ghosts EXCEPT !.lost = FALSE]
ForgetTrip(a) ==
  /\ storage' = [storage EXCEPT !.trip = 0]
  /\ ghosts' = [ghosts EXCEPT !.lost = @ \/ attempts[a].detached]

-----------------------------------------------------------------------------
(* useHomePlanning. *)

\* submit: one at a time, as far as request.current knows.
SubmitRequest ==
  /\ page.status = "idle" /\ intake.ready /\ intake.asking = 0 /\ page.request = 0
  /\ \E a \in Next1 :
       /\ attempts' = [attempts EXCEPT ![a] = [Unused EXCEPT !.by = "submit", !.at = "asking"]]
       /\ page' = [page EXCEPT !.status = "creating", !.draft = 0, !.request = a]
  /\ ghosts' = [ghosts EXCEPT !.crossed = @ \/ Resuming, !.fresh = FALSE]
  /\ UNCHANGED <<trips, storage, user, intake, answered>>

\* The server creates the trip; its answer may never arrive.
Created(a) ==
  /\ attempts[a].by = "submit" /\ attempts[a].at = "asking" /\ attempts[a].trip = 0
  /\ user.session
  /\ attempts' = [attempts EXCEPT ![a].trip = a]
  /\ trips' = [trips EXCEPT ![a] = "generating"]
  /\ UNCHANGED <<storage, user, page, intake, answered, ghosts>>

\* finally: request.current is given up only if it is still this attempt's.
Done(a) == IF page.request = a THEN 0 ELSE page.request
Refusal == IF user.session THEN "error" ELSE "login"
SubmitAnswered(a) ==
  /\ attempts[a].by = "submit" /\ attempts[a].at = "asking"
  /\ IF attempts[a].aborted
     THEN /\ attempts' = [attempts EXCEPT ![a] = Closed(a)]
          /\ page' = [page EXCEPT !.request = Done(a)] /\ UNCHANGED <<storage, ghosts>>
     ELSE \/ /\ attempts[a].trip # 0
             /\ attempts' = [attempts EXCEPT ![a].at = "watching", ![a].stream = 0]
             /\ Remember(attempts[a].trip)
             /\ page' = [page EXCEPT !.status = "planning", !.draft = attempts[a].trip]
          \/ /\ attempts' = [attempts EXCEPT ![a] = Closed(a)]
             /\ page' = [page EXCEPT !.request = Done(a), !.status = Refusal]
             /\ UNCHANGED <<storage, ghosts>>
  /\ UNCHANGED <<trips, user, intake, answered>>

\* resumePending, once per mount: the shell tells what there is to follow.
ResumeAnswered(a) ==
  LET t == attempts[a].trip IN
  /\ attempts[a].by = "resume" /\ attempts[a].at = "asking"
  /\ \/ /\ trips[t] = "generating"
        /\ attempts' = [attempts EXCEPT ![a].at = "watching", ![a].stream = 0]
        /\ Remember(t)
        /\ page' = OnPage(a, [page EXCEPT !.status = "planning", !.draft = t])
     \/ /\ trips[t] = "done"
        /\ attempts' = [attempts EXCEPT ![a] = Closed(a)]
        /\ page' = OnPage(a, [page EXCEPT !.status = "ready", !.draft = t])
        /\ UNCHANGED <<storage, ghosts>>
     \/ /\ attempts' = [attempts EXCEPT ![a] = Closed(a)]     \* failed, or no answer
        /\ ForgetTrip(a) /\ UNCHANGED page
  /\ UNCHANGED <<trips, user, intake, answered>>

\* monitor: the poll of waitForItinerary.  What is ready stays in the storage; every
\* other end clears the storage, whatever is in it.
\* Variant: what is ready is cleared as well.
ReadyStoreCleared == [storage EXCEPT !.trip = 0]
ReadyStore == storage
Poll(a) ==
  LET t == attempts[a].trip IN
  /\ attempts[a].at = "watching"
  /\ IF attempts[a].aborted
     THEN attempts' = [attempts EXCEPT ![a].at = "draining"] /\ UNCHANGED <<storage, page, ghosts>>
     ELSE \/ /\ trips[t] = "generating" /\ page' = OnPage(a, [page EXCEPT !.draft = t])
             /\ UNCHANGED <<storage, attempts, ghosts>>
          \/ /\ trips[t] = "done" /\ attempts' = [attempts EXCEPT ![a].at = "draining"]
             /\ page' = OnPage(a, [page EXCEPT !.draft = t, !.status = "ready"])
             /\ storage' = ReadyStore /\ UNCHANGED ghosts
          \/ /\ attempts' = [attempts EXCEPT ![a].at = "draining"]
             /\ page' \in {OnPage(a, [page EXCEPT !.status = "pending"]),
                           OnPage(a, [page EXCEPT !.status = "pending", !.draft = t])}
             /\ ForgetTrip(a)
  /\ UNCHANGED <<trips, user, intake, answered>>

\* streamItineraryEvents: only an `error` (or `done`) frame ends it for good, or an
\* abort, a 4xx, or the last reconnect; -1: it has ended.
StreamEnds(a) ==
  /\ attempts[a].at \in {"watching", "draining"} /\ attempts[a].stream >= 0
  /\ attempts' = [attempts EXCEPT ![a].stream =
       IF attempts[a].aborted \/ trips[attempts[a].trip] = "failed" \/ @ = MaxReconnects
       THEN 0 - 1 ELSE @ + 1]
  /\ UNCHANGED <<trips, storage, user, page, intake, answered, ghosts>>

\* await sse, and the finally of submit.
MonitorEnds(a) ==
  /\ attempts[a].at = "draining" /\ attempts[a].stream < 0
  /\ attempts' = [attempts EXCEPT ![a] = Closed(a)]
  /\ page' = IF attempts[a].by = "submit" THEN [page EXCEPT !.request = Done(a)] ELSE page
  /\ UNCHANGED <<trips, storage, user, intake, answered, ghosts>>

-----------------------------------------------------------------------------
(* useIntakeChat. *)

Say ==
  /\ intake.asking = 0 /\ intake.spoken < MaxSentences
  /\ page.status \notin {"creating", "planning"}
  /\ intake' = [intake EXCEPT !.asking = intake.spoken + 1, !.spoken = @ + 1]
  /\ UNCHANGED <<trips, storage, user, page, attempts, answered, ghosts>>

\* The answer of /clarify fills the slots; a 401 leaves the sentence in the storage.
Heard ==
  LET s == intake.asking IN
  /\ s # 0
  /\ \/ /\ user.session /\ answered' = [answered EXCEPT ![s] = @ + 1]
        /\ \E r \in BOOLEAN : intake' = [intake EXCEPT !.asking = 0, !.ready = r]
        /\ UNCHANGED storage
     \/ /\ ~user.session /\ storage' = [storage EXCEPT !.sentence = s]
        /\ intake' = [intake EXCEPT !.asking = 0] /\ UNCHANGED answered
     \/ /\ intake' = [intake EXCEPT !.asking = 0] /\ UNCHANGED <<answered, storage>>
  /\ UNCHANGED <<trips, user, page, attempts, ghosts>>

-----------------------------------------------------------------------------
(* The page as a whole. *)

\* The page is mounted: the trip that is stored is resumed, and of the attempts there were
\* `left` is left.  A question under way is given up, whether the server has heard it or
\* not; the stored sentence is taken out before it is sent.
SentenceLeft == IF user.known THEN 0 ELSE storage.sentence
Mount(left, stored) ==
  /\ \E gone \in BOOLEAN :
       LET s == intake.asking IN
       /\ gone => s # 0 /\ user.session
       /\ answered' = IF gone THEN [answered EXCEPT ![s] = @ + 1] ELSE answered
  /\ IF stored = 0 THEN attempts' = left
     ELSE \E a \in Next1 : attempts' = [left EXCEPT ![a] =
            [Unused EXCEPT !.by = "resume", !.at = "asking", !.trip = stored]]
  /\ page' = Blank
  /\ storage' = [storage EXCEPT !.trip = stored, !.sentence = SentenceLeft]
  /\ intake' = [intake EXCEPT !.asking = IF user.known THEN storage.sentence ELSE 0]
  /\ UNCHANGED <<trips, user>>

\* A load, or a reload: what the tab had under way is gone with it.
Load ==
  /\ Mount([a \in Tries |-> IF attempts[a].by = "none" THEN Unused ELSE Closed(a)], storage.trip)
  /\ ghosts' = [crossed |-> FALSE, fresh |-> FALSE, lost |-> FALSE]

\* The user goes to another page of the client and comes back, in the end through the logo,
\* which empties the storage: the submit in place is aborted as its page goes, what
\* resumePending follows is not.
Unmounted(a) ==
  IF a = page.request THEN [attempts[a] EXCEPT !.aborted = TRUE]
  ELSE IF attempts[a].by = "resume" /\ Alive(a) THEN [attempts[a] EXCEPT !.detached = TRUE]
  ELSE attempts[a]
Remount ==
  /\ \E stored \in {storage.trip, 0} : Mount([a \in Tries |-> Unmounted(a)], stored)
  /\ ghosts' = [crossed |-> ghosts.crossed /\ Resuming, fresh |-> FALSE, lost |-> FALSE]

\* handleChatReset, from the panel or by the logo: the session is archived with its trip,
\* conversation and planning start anew, and the submit in place is aborted.
Reset ==
  /\ page # Blank \/ intake.asking # 0
  /\ storage' = [trip |-> 0, sentence |-> 0,
                 archive |-> IF page.draft # 0 THEN page.draft ELSE storage.archive]
  /\ attempts' = [a \in Tries |->
       IF a = page.request THEN [attempts[a] EXCEPT !.aborted = TRUE] ELSE attempts[a]]
  /\ page' = Blank
  /\ intake' = [intake EXCEPT !.ready = FALSE, !.asking = 0]
  /\ ghosts' = [ghosts EXCEPT !.crossed = @ \/ Resuming, !.fresh = TRUE]
  /\ UNCHANGED <<trips, user, answered>>

\* handleResumeSession: the archived conversation, and its trip for the next load.
RestoreSession ==
  /\ storage.archive # 0
  /\ storage' = [storage EXCEPT !.trip = storage.archive]
  /\ \E r \in BOOLEAN : intake' = [intake EXCEPT !.asking = 0, !.ready = r]
  /\ ghosts' = [ghosts EXCEPT !.crossed = @ \/ Resuming \/ page.status # "idle", !.fresh = FALSE]
  /\ UNCHANGED <<trips, user, page, attempts, answered>>

-----------------------------------------------------------------------------
TripEnds(i) ==
  /\ trips[i] = "generating"
  /\ \E s \in {"done", "failed"} : trips' = [trips EXCEPT ![i] = s]
  /\ UNCHANGED <<storage, user, page, attempts, intake, answered, ghosts>>
SignIn ==
  /\ ~user.session /\ user' = [known |-> TRUE, session |-> TRUE]
  /\ UNCHANGED <<trips, storage, page, attempts, intake, answered, ghosts>>
SessionEnds ==
  /\ user.session /\ user' = [user EXCEPT !.session = FALSE]
  /\ UNCHANGED <<trips, storage, page, attempts, intake, answered, ghosts>>

HomeNext ==
  \/ SubmitRequest \/ Say \/ Heard \/ Load \/ Remount
  \/ Reset \/ RestoreSession \/ SignIn \/ SessionEnds
  \/ \E a \in Tries :
       \/ Created(a) \/ SubmitAnswered(a) \/ ResumeAnswered(a) \/ Poll(a)
       \/ StreamEnds(a) \/ MonitorEnds(a) \/ TripEnds(a)

HomeSpec == HomeInit /\ [][HomeNext]_homeVars

-----------------------------------------------------------------------------
(* Properties. *)

\* What the page follows or shows as ready is what a reload will find, so that the trip
\* is not generated once more; unless a submit or a reset met a resume that was still
\* alive, a session was restored over it (the comment at GENERATION_KEY), or a monitor
\* that outlived its page failed and cleared the id.  And a sentence is answered once, however
\* often the page is reloaded or left and the user has to sign in (the comment at the
\* resend).
ReloadRepeatsNothing ==
  /\ page.status \in {"planning", "ready"} /\ ~ghosts.crossed /\ ~ghosts.lost =>
       storage.trip = page.draft
  /\ \A s \in Sentences : answered[s] <= 1

\* After a reset the page stays as it is on a first visit, until the user does something
\* (the comment at reset).
ResetForgets == ghosts.fresh => page.status = "idle" /\ page.draft = 0
=============================================================================
