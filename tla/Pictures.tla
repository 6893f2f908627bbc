------------------------------ MODULE Pictures ------------------------------
(***************************************************************************)
(* The pictures of a trip.  Its cover (cover_service.py) is a file and     *)
(* four columns that name it; a picture of the library has one file for    *)
(* everybody of the account, an upload a file of its own.  A photo of a    *)
(* place (poi_photo.py) is asked of one source after the other; a wiki     *)
(* that cannot be reached is left alone for a while.                       *)
(***************************************************************************)
EXTENDS Naturals, FiniteSets

CONSTANTS
  Pickers,    \* requests that set the cover
  Pictures,   \* pictures of the library
  Spots,      \* places somebody wants to see
  Lookers,    \* requests for a photo
  PhotoMax,   \* PHOTO_CACHE_MAX
  MaxLooks    \* bound: photos that are looked up

ASSUME PicturesAssumption == {PhotoMax, MaxLooks} \subseteq Nat /\ PhotoMax > 0

VARIABLES
  cover,      \* the columns: "default" or the name of a file
  store,      \* each file: "none", "partial" or "whole"
  picker,     \* each request: [at, file]
  torn,       \* for the property: files whose writer failed or died
  photos,     \* the cache: "none", "empty" or "photo" of each spot
  paused,     \* the wiki is in its cooldown
  looker,     \* each request: [at, spot, cold]; cold: it came during the cooldown that lasts
  looks       \* bound

pictureVars == <<cover, store, picker, torn, photos, paused, looker, looks>>
coverPart == <<cover, store, picker, torn>>
photoPart == <<photos, paused, looker, looks>>

Names == Pictures \cup Pickers      \* an upload is stored under a name of its own
PictureInit ==
  /\ cover = "default" /\ store = [f \in Names |-> "none"] /\ torn = {}
  /\ picker = [p \in Pickers |-> [at |-> "idle", file |-> p]]
  /\ photos = [s \in Spots |-> "none"] /\ paused = FALSE /\ looks = 0
  /\ looker = [l \in Lookers |-> [at |-> "idle", spot |-> CHOOSE s \in Spots : TRUE, cold |-> FALSE]]

-----------------------------------------------------------------------------
(* set_cover_unsplash, set_cover_upload, set_cover_default *)

\* The order of a cover: bytes, file, columns.  Variant: the columns first.
FollowsEarly(stage) == CASE stage = "bytes" -> "columns" [] stage = "columns" -> "check" [] OTHER -> "over"
Follows(stage) == CASE stage = "bytes" -> "check" [] stage = "file" -> "columns" [] OTHER -> "over"
ToStage(p, where) == picker' = [picker EXCEPT ![p].at = where]

\* Ownership, the resolved address, the download and its compression, or the check of the
\* upload: whatever fails ends the request.
Fetch(p) ==
  /\ picker[p].at = "idle"
  /\ \E f \in Pictures \cup {p} : \E where \in {Follows("bytes"), "over"} :
       picker' = [picker EXCEPT ![p] = [at |-> where, file |-> f]]
  /\ UNCHANGED <<cover, store, torn>>
ResetCover(p) ==
  /\ picker[p].at = "idle" /\ ToStage(p, "over") /\ cover' = "default"
  /\ UNCHANGED <<store, torn>>
\* _write_cover: a file of that name, whole or not, is not written again.
LookForFile(p) ==
  /\ picker[p].at = "check"
  /\ IF store[picker[p].file] # "none" THEN ToStage(p, Follows("file")) ELSE ToStage(p, "open")
  /\ UNCHANGED <<cover, store, torn>>
OpenFile(p) ==
  /\ picker[p].at = "open" /\ ToStage(p, "write")
  /\ store' = [store EXCEPT ![picker[p].file] = "partial"]
  /\ UNCHANGED <<cover, torn>>
FillFile(p) ==
  /\ picker[p].at = "write"
  /\ \/ store' = [store EXCEPT ![picker[p].file] = "whole"] /\ ToStage(p, Follows("file")) /\ UNCHANGED torn
     \/ torn' = torn \cup {picker[p].file} /\ ToStage(p, "over") /\ UNCHANGED store
  /\ UNCHANGED cover
\* _write_cover_columns: one UPDATE.
NameFile(p) ==
  /\ picker[p].at = "columns"
  /\ \/ cover' = picker[p].file /\ ToStage(p, Follows("columns"))
     \/ UNCHANGED cover /\ ToStage(p, "over")
  /\ UNCHANGED <<store, torn>>
HostDies ==
  /\ \E p \in Pickers : picker[p].at \notin {"idle", "over"}
  /\ torn' = torn \cup {picker[p].file : p \in {q \in Pickers : picker[q].at = "write"}}
  /\ picker' = [p \in Pickers |-> IF picker[p].at = "idle" THEN picker[p] ELSE [picker[p] EXCEPT !.at = "over"]]
  /\ UNCHANGED <<cover, store>>

CoverStep ==
  /\ \/ HostDies
     \/ \E p \in Pickers :
          Fetch(p) \/ ResetCover(p) \/ LookForFile(p) \/ OpenFile(p) \/ FillFile(p) \/ NameFile(p)
  /\ UNCHANGED photoPart

-----------------------------------------------------------------------------
(* resolve_poi_photo *)

Wiki == {"wikipedia", "commons", "links"}
Asks(l, where) == looker' = [looker EXCEPT ![l].at = where]
LookUp(l) ==
  /\ looker[l].at = "idle" /\ looks < MaxLooks /\ looks' = looks + 1
  /\ \E s \in {t \in Spots : photos[t] = "none"} :      \* the others are answered from the cache
       looker' = [looker EXCEPT ![l] = [at |-> IF paused THEN "unsplash" ELSE "wikipedia", spot |-> s, cold |-> paused]]
  /\ UNCHANGED <<photos, paused>>
\* _cache_put: what was found, or that nothing was; another entry may have to go.
Remember(l, found) ==
  /\ Asks(l, "idle")
  /\ LET kept == [photos EXCEPT ![looker[l].spot] = found]
         full == Cardinality({s \in Spots : kept[s] # "none"}) > PhotoMax
     IN  IF full THEN \E s \in Spots \ {looker[l].spot} : kept[s] # "none" /\ photos' = [kept EXCEPT ![s] = "none"]
         ELSE photos' = kept
\* _safe_wiki: only a wiki that cannot be reached starts the cooldown, and the pause is
\* looked at before every source.
AskWiki(l) ==
  /\ looker[l].at \in {"wikipedia", "commons"}
  /\ LET next == IF looker[l].at = "wikipedia" /\ ~paused THEN "commons" ELSE "unsplash" IN
     \/ Remember(l, "photo") /\ UNCHANGED paused
     \/ Asks(l, next) /\ UNCHANGED <<photos, paused>>
     \/ paused' = TRUE /\ Asks(l, "unsplash") /\ UNCHANGED photos
  /\ UNCHANGED looks
\* Variant: the English name is looked for in any case.
AfterUnsplashAlways == "links"
AfterUnsplash == IF paused THEN "pexels" ELSE "links"
AskUnsplash(l) ==
  /\ looker[l].at = "unsplash"
  /\ \/ Remember(l, "photo")
     \/ Asks(l, AfterUnsplash) /\ UNCHANGED photos
  /\ UNCHANGED <<paused, looks>>
\* english_search_name: two wikis, whose failures are no failures.
AskLinks(l) == looker[l].at = "links" /\ Asks(l, "pexels") /\ UNCHANGED <<photos, paused, looks>>
AskPexels(l) ==
  /\ looker[l].at = "pexels" /\ \E found \in {"photo", "empty"} : Remember(l, found)
  /\ UNCHANGED <<paused, looks>>
\* Five minutes are over.
Resume ==
  /\ paused /\ paused' = FALSE
  /\ looker' = [l \in Lookers |-> [looker[l] EXCEPT !.cold = FALSE]]
  /\ UNCHANGED <<photos, looks>>

PhotoStep ==
  /\ \/ Resume
     \/ \E l \in Lookers : LookUp(l) \/ AskWiki(l) \/ AskUnsplash(l) \/ AskLinks(l) \/ AskPexels(l)
  /\ UNCHANGED coverPart

PictureNext == CoverStep \/ PhotoStep

PictureSpec == PictureInit /\ [][PictureNext]_pictureVars

-----------------------------------------------------------------------------
(* Properties. *)

\* The cover of a trip is a whole file, however the requests overlap, unless the writer of
\* that file failed or is still at it (cover_service.py:257-267).
CoverWhole ==
  cover # "default" =>
    \/ store[cover] = "whole" \/ cover \in torn
    \/ \E p \in Pickers : picker[p].at = "write" /\ picker[p].file = cover

\* Who comes while the wiki is left alone does not ask it, on none of the three ways to it
\* (poi_photo.py:89-103).
WikiSpared == \A l \in Lookers : looker[l].cold => looker[l].at \notin Wiki

\* Both: no cover is a torn file that nobody answers for, and a wiki that is away is not
\* waited for.
PicturesRight == CoverWhole /\ WikiSpared
=============================================================================
