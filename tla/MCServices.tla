----------------------------- MODULE MCServices -----------------------------
(***************************************************************************)
(* The parts around the trip, side by side: what shares the breaker of     *)
(* Redis (marks, sessions, and the windows: "quota"), the guests of a trip,*)
(* their expenses and what of the trip is public, the calls to providers,  *)
(* research, and the numbers of the frames; the words around a trip, its   *)
(* drafts by chat, exports, replanning, pictures, its page, and the        *)
(* gateways of a user.  Each behaviour is of one scene, so that what does  *)
(* not touch is not multiplied out; the parts that are not of the scene    *)
(* stay as they began.                                                     *)
(***************************************************************************)
EXTENDS Sessions, Sharing, ExternalCalls, Research, EventSeq,
        Enrichment, MCDraftTurn, Exports, MCReplan, Pictures, DetailPage, Gateways

MCInterval == [l \in Lanes |-> 1]
MCMaxAsked == [s \in Scenes |-> IF s = "quota" THEN 4 ELSE 3]
MCFaults == [s \in Scenes |->
  CASE s = "marks" -> [flips |-> 2, dies |-> 1]
    [] s = "sessions" -> [flips |-> 1, dies |-> 0]
    [] OTHER -> [flips |-> 0, dies |-> 0]]

deskVars == <<enrichVars, draftVars, exportVars, replanVars, pictureVars, pageVars, gateVars>>

\* Expenses go with one invitation at most; nothing of Sharing meets the breaker.
FewGuests == GuestStep /\ Cardinality({i \in Invitations : invites'[i] # NoInvite}) <= 1
ShareStep ==
  /\ \/ scene = "guests" /\ (GuestStep \/ DeleteTrip)
     \/ scene = "expenses" /\ (ExpenseStep \/ FewGuests \/ Edit)
     \/ scene = "public" /\ (PublicStep \/ DeleteTrip)
  /\ UNCHANGED <<all, outVars, resVars, seqVars, deskVars>>

AccessStep == SessNext /\ UNCHANGED <<shareVars, outVars, resVars, seqVars, deskVars>>
\* "calls" has time for an outage, of one key; "cache" has both keys and less time.
OneKey == \A c \in Callers : caller'[c].key \in Known \cup {"none"}
OutsideStep ==
  /\ \/ scene = "calls" /\ OutNext /\ OneKey /\ UNCHANGED resVars
     \/ scene = "cache" /\ OutNext /\ clock' <= 2 /\ UNCHANGED resVars
     \/ scene = "research" /\ ResNext /\ UNCHANGED outVars
  /\ UNCHANGED <<all, shareVars, seqVars, deskVars>>
NumberStep ==
  /\ scene = "numbers" /\ SeqNext
  /\ UNCHANGED <<all, shareVars, outVars, resVars, deskVars>>

\* A changed key or a table that fails meets one request of the settings page at most.
FewEditors == upset' => \E e \in Editors : setting'[e].at = "idle"
DeskStep ==
  /\ \/ scene = "enrichment" /\ EnrichNext
        /\ UNCHANGED <<draftVars, exportVars, replanVars, pictureVars, pageVars, gateVars>>
     \/ scene = "drafts" /\ DraftNext
        /\ UNCHANGED <<enrichVars, exportVars, replanVars, pictureVars, pageVars, gateVars>>
     \/ scene = "exports" /\ ExportNext
        /\ UNCHANGED <<enrichVars, draftVars, replanVars, pictureVars, pageVars, gateVars>>
     \/ scene = "replan" /\ ReplanNext
        /\ UNCHANGED <<enrichVars, draftVars, exportVars, pictureVars, pageVars, gateVars>>
     \/ /\ (scene = "covers" /\ CoverStep) \/ (scene = "photos" /\ PhotoStep)
        /\ UNCHANGED <<enrichVars, draftVars, exportVars, replanVars, pageVars, gateVars>>
     \/ scene = "page" /\ PageNext
        /\ UNCHANGED <<enrichVars, draftVars, exportVars, replanVars, pictureVars, gateVars>>
     \/ scene = "gateways" /\ GateNext /\ FewEditors
        /\ UNCHANGED <<enrichVars, draftVars, exportVars, replanVars, pictureVars, pageVars>>
  /\ UNCHANGED <<all, shareVars, outVars, resVars, seqVars>>

ServicesInit ==
  /\ SessInit /\ (scene \in {"marks", "sessions", "quota"} \/ up)
  /\ ShareInit /\ OutInit /\ (scene \in {"calls", "cache"} \/ healthy)
  /\ ResInit /\ SeqInit
  /\ EnrichInit /\ DraftInit /\ (scene = "drafts" \/ (turn.trip = Trip1 /\ turn.said = Plain))
  /\ ExportInit /\ ReplanInit /\ (scene = "replan" \/ job.asked = CHOOSE j \in Jobs : TRUE)
  /\ PictureInit /\ DetailInit /\ (scene = "page" \/ served.status = "ready")
  /\ GateInit /\ (scene = "gateways" \/ gates = [g \in Gateways |-> Unborn])
ServicesNext == AccessStep \/ ShareStep \/ OutsideStep \/ NumberStep \/ DeskStep
services == <<all, shareVars, outVars, resVars, seqVars, deskVars>>
ServicesSpec == ServicesInit /\ [][ServicesNext]_services
=============================================================================
