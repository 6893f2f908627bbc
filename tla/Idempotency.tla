---------------------------- MODULE Idempotency ----------------------------
(***************************************************************************)
(* The idempotency key of generate(): a request with a key reserves it,    *)
(* creates its shell, fills the trip's id in and submits the planner; a    *)
(* request that finds the key taken answers with the trip it names, if     *)
(* there is one.  A refusal of the pool frees the key again.  The name in  *)
(* the store carries the user, so that keys of different users are         *)
(* different names; a trip is named after the request that created it.     *)
(***************************************************************************)
EXTENDS CacheStore

CONSTANTS
  Requests,  \* calls of generate, retries included
  NoKey,     \* the key of a request that has none
  Taken,     \* the sentinel: reserved, and no trip yet
  Expiry     \* does the time of a run exceed IDEMPOTENCY_TTL_SECONDS?

ASSUME IdempotencyAssumption ==
  /\ Nothing \notin Requests /\ Taken \notin Requests /\ Taken # Nothing
  /\ NoKey \notin Names
  /\ Expiry \in BOOLEAN

VARIABLES
  pc, key,  \* each request and its key
  found,    \* the trip it read under the key
  trip,     \* the main row of the trip it created
  clean     \* keys of which no two requests overlapped and no entry ran out

request == <<pc, key, found>>
vars == <<store, request, trip, clean>>

Init ==
  /\ InitStore
  /\ pc = [r \in Requests |-> "idle"]
  /\ key = [r \in Requests |-> NoKey]
  /\ found = [r \in Requests |-> Nothing]
  /\ trip = [r \in Requests |-> "none"]
  /\ clean = Names

Goto(r, l) == pc' = [pc EXCEPT ![r] = l]
Ended(r) == pc[r] \in {"done", "replayed", "gone", "refused", "lost", "dead"}
InProgress(r) == pc[r] # "idle" /\ ~Ended(r)
Keyed(r) == key[r] # NoKey

-----------------------------------------------------------------------------
(* The request. *)

Begin(r) ==
  /\ pc[r] = "idle"
  /\ \E k \in Names \cup {NoKey} :
       /\ key' = [key EXCEPT ![r] = k]
       /\ Goto(r, IF k = NoKey THEN "create" ELSE "reserve")
       /\ clean' = IF \E q \in Requests : InProgress(q) /\ key[q] = k THEN clean \ {k} ELSE clean
  /\ UNCHANGED <<store, found, trip>>

\* _reserve_idempotent
ReserveKey(r) ==
  /\ pc[r] = "reserve"
  /\ \E claimed \in BOOLEAN :
       /\ Reserve(key[r], Taken, claimed)
       /\ Goto(r, IF claimed THEN "create" ELSE "read")
  /\ clean' = clean \ GivenUp(key[r])
  /\ UNCHANGED <<key, found, trip>>

\* A key that is only reserved reads as None, and the request goes on as a new one.
ReadKey(r) ==
  /\ pc[r] = "read"
  /\ \E v \in Requests \cup {Nothing, Taken} :
       /\ Get(key[r], v)
       /\ IF v \in Requests
          THEN found' = [found EXCEPT ![r] = v] /\ Goto(r, "check")
          ELSE Goto(r, "create") /\ UNCHANGED found
  /\ UNCHANGED <<key, trip, clean>>

\* _replay_if_known: the trip must still be there ...
CheckTrip(r) ==
  /\ pc[r] = "check"
  /\ Goto(r, IF trip[found[r]] # "deleted" THEN "replay" ELSE "forget")
  /\ UNCHANGED <<store, key, found, trip, clean>>

\* ... its detail is the answer, unless it is deleted now ...
Replay(r) ==
  /\ pc[r] = "replay"
  /\ \/ Goto(r, "replayed")
     \/ trip[found[r]] = "deleted" /\ Goto(r, "gone")
  /\ UNCHANGED <<store, key, found, trip, clean>>

\* ... and else the key is freed and the request goes on without having it.
Forget(r) ==
  /\ pc[r] = "forget"
  /\ Delete(key[r])
  /\ Goto(r, "create")
  /\ found' = [found EXCEPT ![r] = Nothing]
  /\ UNCHANGED <<key, trip, clean>>

\* The transaction of the shell.
CreateShell(r) ==
  /\ pc[r] = "create"
  /\ trip' = [trip EXCEPT ![r] = "live"]
  /\ Goto(r, IF Keyed(r) THEN "fill" ELSE "submit")
  /\ UNCHANGED <<store, key, found, clean>>

\* The trip's id goes under the key.  Variant: it does not.
FillNever(r) ==
  /\ pc[r] = "fill"
  /\ Goto(r, "submit")
  /\ UNCHANGED <<store, key, found, trip, clean>>
Fill(r) ==
  /\ pc[r] = "fill"
  /\ Set(key[r], r)
  /\ clean' = clean \ GivenUp(key[r])
  /\ Goto(r, "submit")
  /\ UNCHANGED <<key, found, trip>>

\* submit_planning: the pool takes the planner or refuses it.
Submit(r) ==
  /\ pc[r] = "submit"
  /\ Goto(r, "done") \/ Goto(r, "refuse")
  /\ UNCHANGED <<store, key, found, trip, clean>>

\* TaskRejected: the shell is failed ...
Refuse(r) ==
  /\ pc[r] = "refuse"
  /\ trip' = [trip EXCEPT ![r] = IF @ = "live" THEN "failed" ELSE @]
  /\ Goto(r, IF Keyed(r) THEN "release" ELSE "refused")
  /\ UNCHANGED <<store, key, found, clean>>

\* ... the key freed, and the caller gets 429.  Variant: the key is kept.
ReleaseNever(r) ==
  /\ pc[r] = "release"
  /\ Goto(r, "refused")
  /\ UNCHANGED <<store, key, found, trip, clean>>
Release(r) ==
  /\ pc[r] = "release"
  /\ Delete(key[r])
  /\ Goto(r, "refused")
  /\ UNCHANGED <<key, found, trip, clean>>

\* A statement of the database raises and the caller gets 500.  Lost are the
\* requests that end so before their trip is under the key.
Broken(r) == Goto(r, IF pc[r] \in {"create", "fill"} THEN "lost" ELSE "dead")
Break(r) ==
  /\ pc[r] \in {"check", "replay", "create", "fill", "refuse", "release"}
  /\ Broken(r)
  /\ UNCHANGED <<store, key, found, trip, clean>>

-----------------------------------------------------------------------------
(* The rest of the world. *)

\* delete_cascade
DeleteTrip(r) ==
  /\ trip[r] \in {"live", "failed"}
  /\ trip' = [trip EXCEPT ![r] = "deleted"]
  /\ UNCHANGED <<store, request, clean>>

Expire(n) ==
  /\ Expiry
  /\ ExpireEntry(n)
  /\ clean' = clean \ {n}
  /\ UNCHANGED <<request, trip>>

RedisFlips == Flip /\ UNCHANGED <<request, trip, clean>>

\* The process dies with its requests and its table.
Crash ==
  /\ \E r \in Requests : InProgress(r)
  /\ pc' = [r \in Requests |-> IF ~InProgress(r) THEN pc[r]
                               ELSE IF pc[r] \in {"submit", "refuse", "release"} THEN "dead" ELSE "lost"]
  /\ local' = Empty
  /\ clean' = clean \ {n \in Names : local[n] # Nothing}
  /\ UNCHANGED <<redis, remote, key, found, trip>>

RequestStep(r) ==
  \/ Begin(r) \/ ReserveKey(r) \/ ReadKey(r) \/ CheckTrip(r) \/ Replay(r) \/ Forget(r)
  \/ CreateShell(r) \/ Fill(r) \/ Submit(r) \/ Refuse(r) \/ Release(r) \/ Break(r)

Next ==
  \/ \E r \in Requests : RequestStep(r) \/ DeleteTrip(r)
  \/ \E n \in Names : Expire(n)
  \/ RedisFlips \/ Crash

Spec == Init /\ [][Next]_vars

-----------------------------------------------------------------------------
(* Properties. *)

Values == Requests \cup {Nothing, Taken}

Kinds ==
  /\ StoreTyped(Values)
  /\ pc \in [Requests -> {"idle", "reserve", "read", "check", "replay", "forget", "create",
       "fill", "submit", "refuse", "release", "done", "replayed", "gone", "refused", "lost", "dead"}]
  /\ key \in [Requests -> Names \cup {NoKey}]
  /\ found \in [Requests -> Requests \cup {Nothing}]
  /\ trip \in [Requests -> {"none", "live", "failed", "deleted"}]
  /\ clean \subseteq Names
  /\ \A r \in Requests : pc[r] \in {"check", "replay", "forget"} => found[r] \in Requests
  /\ \A r \in Requests :
       pc[r] \in {"reserve", "read", "check", "replay", "forget", "fill", "release"} => Keyed(r)

\* Every request, trip and entry is of its kind, and the table keeps its limit.
TypeOK == Kinds /\ Bounded

\* Retries one after the other get one trip, through refusals, deletes, errors and
\* crashes, but for what a lost request left behind (reserve, replay and fill; the
\* last is the window that _replay_if_known speaks of).
RetriesShareTrip ==
  stable => \A q, r \in Requests :
    /\ key[q] = key[r] /\ key[q] \in clean
    /\ trip[q] = "live" /\ trip[r] = "live"
    => q = r \/ pc[q] = "lost" \/ pc[r] = "lost"

\* After a 429 no retry is sent to the failed shell, however the requests of the
\* key overlap (the comment at the release of the key).
RefusedNotReplayed ==
  stable => \A r \in Requests, n \in Names :
    pc[r] = "refused" => remote[n] # r /\ local[n] # r

\* While Redis answers, one key has one trip, also for requests that overlap, as in
\* a double click (the docstring of _reserve_idempotent).
OneTripPerKey ==
  stable /\ up => \A q, r \in Requests :
    /\ key[q] = key[r] /\ Keyed(q)
    /\ trip[q] = "live" /\ trip[r] = "live"
    => q = r \/ pc[q] = "lost" \/ pc[r] = "lost"
=============================================================================
