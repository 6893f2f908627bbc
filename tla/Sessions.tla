------------------------------ MODULE Sessions ------------------------------
(***************************************************************************)
(* Who is signed in, and how often one may ask: the session registry and   *)
(* the revocation list, the sliding windows of the throttles and the       *)
(* quotas.  All of it lives in Redis with a table of the process behind    *)
(* it, and goes through the same client and the same breaker as the marks. *)
(* A rate limit that is hit opens the breaker even though Redis is well:   *)
(* sliding_hit uses an attribute the client does not have.                 *)
(***************************************************************************)
EXTENDS Marks, Integers, Sequences

CONSTANTS
  Scenes,      \* which of the three the process is asked for: "marks", "sessions", "quota"
  Actors,      \* requests of one user's devices
  Tokens,      \* the tokens that can be signed
  Addresses,   \* anonymous callers
  WinCapacity, \* LOCAL_STATE_MAX_ENTRIES, for the windows
  LoginLimit, MinuteLimit, DayLimit,
  Long, Day,   \* a quarter of an hour and a day, in minutes
  Faults,      \* bound: how often, in each scene, Redis comes or goes ("flips") and the process "dies"
  MaxNow,      \* bound: minutes
  MaxAsked     \* bound: requests that are counted somewhere

Buckets == {"fail", "minute", "day"} \cup Addresses
Length(b) == CASE b = "fail" -> Long [] b = "day" -> Day [] OTHER -> 1

ASSUME SessionsAssumption ==
  /\ None \notin Tokens /\ WinCapacity \in Nat \ {0}
  /\ {LoginLimit, MinuteLimit, DayLimit, MaxNow} \subseteq Nat /\ MaxAsked \in [Scenes -> Nat]
  /\ {Long, Day} \subseteq Nat \ {0}

VARIABLES
  scene, now, asked,
  buckets,   \* _windows: [until, hits], absent if there are no hits
  sess,      \* auth:sess:{user}, auth:sess:tok:*, _session_sets
  black,     \* auth:jwt:revoked:*, _local_blacklist
  act,       \* what each actor does
  issued,    \* tokens that were handed out
  seen       \* for the properties: [out, home, crossed, wiped, runs, dropped]

mine == <<scene, now, asked, buckets, sess, black, act, issued, seen>>
all  == <<vars, mine>>

Absent == [until |-> 0, hits |-> <<>>]
Resting == [do |-> "idle", tok |-> None, cur |-> None, left |-> {}, due |-> {}, swept |-> "no"]
SessInit ==
  /\ Init
  /\ scene \in Scenes /\ now = 1 /\ asked = 0
  /\ buckets = [b \in Buckets |-> Absent]
  /\ sess = [set |-> {}, tok |-> {}, local |-> {}]
  /\ black = [redis |-> {}, local |-> {}]
  /\ act = [a \in Actors |-> Resting]
  /\ issued = {}
  /\ seen = [out |-> {}, home |-> [t \in Tokens |-> "none"], crossed |-> {}, wiped |-> FALSE,
             runs |-> <<>>, dropped |-> FALSE]

-----------------------------------------------------------------------------
Do(a, what) == act' = [act EXCEPT ![a].do = what]
Rest(a) == act' = [act EXCEPT ![a] = Resting]
At(a, what) == act[a].do = what

\* A command through _redis(): the breaker lets it through and Redis answers, or
\* the caller goes on with the table of the process.
Through == window = 0 /\ up /\ UNCHANGED window
Kept == (window > 0 \/ ~up \/ ~stable) /\ NoteFailure
\* A command on a client that was taken earlier: the breaker is not asked again.
Answered == up /\ UNCHANGED window
Failed == (~up \/ ~stable) /\ NoteFailure
\* Whether a command whose answer was lost was executed.
Perhaps(x, executed) == {x} \cup IF stable \/ window > 0 THEN {} ELSE {executed}

RestOfMarks == UNCHANGED <<redis, crashes, remote, table, clients>>

-----------------------------------------------------------------------------
(* Sliding windows. *)

Live == {b \in Buckets : buckets[b] # Absent}
\* How many of them are after t; and what is left once the ones at the front that are not
\* after the cutoff have been taken off.
Recent(times, t) == Cardinality({i \in DOMAIN times : times[i] > t})
Unexpired(times, cutoff) ==
  LET gone == CHOOSE k \in 0 .. Len(times) :
                /\ \A i \in 1 .. k : times[i] <= cutoff
                /\ k < Len(times) => times[k + 1] > cutoff
  IN  SubSeq(times, gone + 1, Len(times))
Counting(b) == Recent(buckets[b].hits, now - Length(b))

\* _bound_windows: makes room when the table is full, even for a key that is in it:
\* what has run out goes first, then what runs out soonest.  Variant: everything
\* that was not hit in this minute goes first.
Ripe == {b \in Live : buckets[b].until <= now}
Stale == {b \in Live : buckets[b].hits[Len(buckets[b].hits)] < now}
Soonest(from) ==
  LET n == Cardinality(from) - WinCapacity + 1
  IN {g \in SUBSET from : /\ Cardinality(g) = IF n > 0 THEN n ELSE 0
                          /\ \A b \in g, c \in from \ g : buckets[b].until <= buckets[c].until}
MakeRoomByHit ==
  IF Cardinality(Live) < WinCapacity THEN {{}} ELSE {Stale \cup g : g \in Soonest(Live \ Stale)}
MakeRoom ==
  IF Cardinality(Live) < WinCapacity THEN {{}} ELSE {Ripe \cup g : g \in Soonest(Live \ Ripe)}

\* sliding_hit: never in Redis, always with a failure noted.
Hit(b, given) ==
  LET room == [c \in Buckets |-> IF c \in given THEN Absent ELSE buckets[c]]
      kept == Unexpired(Append(room[b].hits, now), now - Length(b))
  IN /\ buckets' = [room EXCEPT ![b] = [until |-> now + Length(b), hits |-> kept]]
     /\ NoteFailure
\* The day's bucket was given up although it counts, since nothing runs out sooner.
GaveUpDay(given) == "day" \in given \ Ripe /\ \E g \in Soonest(Live \ Ripe) : "day" \in g

\* enforce_llm_budget: the minute first, then the day.
AskRun(a) ==
  /\ scene = "quota" /\ At(a, "idle") /\ asked < MaxAsked[scene]
  /\ asked' = asked + 1
  /\ \E given \in MakeRoom :
       /\ Hit("minute", given)
       /\ seen' = [seen EXCEPT !.dropped = @ \/ GaveUpDay(given)]
  /\ IF Len(buckets'["minute"].hits) > MinuteLimit THEN UNCHANGED act ELSE Do(a, "day")
  /\ RestOfMarks /\ UNCHANGED <<scene, now, sess, black, issued>>
AskDay(a) ==
  /\ At(a, "day")
  /\ \E given \in MakeRoom :
       /\ Hit("day", given)
       /\ seen' = [seen EXCEPT !.dropped = @ \/ GaveUpDay(given),
                               !.runs = IF Len(buckets'["day"].hits) > DayLimit THEN @ ELSE Append(@, now)]
  /\ Rest(a)
  /\ RestOfMarks /\ UNCHANGED <<scene, now, asked, sess, black, issued>>

\* enforce_public_bucket, and the shares' enforce_rate_limit: a window per address.
AskPublic(i) ==
  /\ scene = "quota" /\ asked < MaxAsked[scene]
  /\ asked' = asked + 1
  /\ \E given \in MakeRoom :
       /\ Hit(i, given)
       /\ seen' = [seen EXCEPT !.dropped = @ \/ GaveUpDay(given)]
  /\ RestOfMarks /\ UNCHANGED <<scene, now, sess, black, act, issued>>

Later ==
  /\ scene = "quota" /\ now < MaxNow /\ now' = now + 1
  /\ RestOfMarks /\ UNCHANGED <<window, scene, asked, buckets, sess, black, act, issued, seen>>

-----------------------------------------------------------------------------
(* Signing in and out. *)

\* login: the throttle is read in Redis, where no hit ever is, or in the process;
\* then the password is wrong or right.
Password(a, failures) ==
  IF failures >= LoginLimit THEN UNCHANGED act
  ELSE \/ Do(a, "wrong")
       \/ LET unused == Tokens \ (issued \cup {act[b].tok : b \in Actors}) IN
          /\ unused # {}
          /\ act' = [act EXCEPT ![a].do = "reset", ![a].tok = CHOOSE t \in unused : TRUE]
Login(a) ==
  /\ scene = "sessions" /\ At(a, "idle") /\ asked < MaxAsked[scene]
  /\ asked' = asked + 1
  /\ \/ Through /\ Password(a, 0)
     \/ Kept /\ Password(a, Counting("fail"))
  /\ RestOfMarks /\ UNCHANGED <<scene, now, buckets, sess, black, issued, seen>>
LoginWrong(a) ==
  /\ At(a, "wrong") /\ Rest(a)
  /\ \E given \in MakeRoom : Hit("fail", given)
  /\ RestOfMarks /\ UNCHANGED <<scene, now, asked, sess, black, issued, seen>>
\* reset_counter, then the token is signed.
LoginReset(a) ==
  /\ At(a, "reset") /\ Do(a, "add")
  /\ Through \/ Kept
  /\ buckets' = [buckets EXCEPT !["fail"] = Absent]
  /\ issued' = issued \cup {act[a].tok}
  /\ RestOfMarks /\ UNCHANGED <<scene, now, asked, sess, black, seen>>

\* register_session: the set of the user, then the token itself; the table of the
\* process if either fails.
Sweeping == \E b \in Actors : act[b].do \in {"sweep", "forget", "drop", "sweepLocal"}
Registered(t, where) ==
  seen' = [seen EXCEPT !.home[t] = where, !.crossed = IF Sweeping THEN @ \cup {t} ELSE @]
RegisterAdd(a) ==
  LET t == act[a].tok IN
  /\ At(a, "add")
  /\ \/ /\ Through /\ Do(a, "keep")
        /\ sess' = [sess EXCEPT !.set = @ \cup {t}]
        /\ seen' = [seen EXCEPT !.crossed = IF Sweeping THEN @ \cup {t} ELSE @]
     \/ /\ Kept /\ Rest(a) /\ Registered(t, "local")
        /\ \E set \in Perhaps(sess.set, sess.set \cup {t}) :
             sess' = [sess EXCEPT !.set = set, !.local = @ \cup {t}]
  /\ RestOfMarks /\ UNCHANGED <<scene, now, asked, buckets, black, issued>>
RegisterToken(a) ==
  LET t == act[a].tok IN
  /\ At(a, "keep") /\ Rest(a)
  /\ \/ Answered /\ Registered(t, "redis") /\ sess' = [sess EXCEPT !.tok = @ \cup {t}]
     \/ /\ Failed /\ Registered(t, "local")
        /\ \E tok \in Perhaps(sess.tok, sess.tok \cup {t}) :
             sess' = [sess EXCEPT !.tok = tok, !.local = @ \cup {t}]
  /\ RestOfMarks /\ UNCHANGED <<scene, now, asked, buckets, black, issued>>

\* token_revocation.revoke of a set of tokens.
Revoke(ts) ==
  \/ Through /\ black' = [black EXCEPT !.redis = @ \cup ts]
  \/ /\ Kept
     /\ \E redisList \in Perhaps(black.redis, black.redis \cup ts) :
          black' = [redis |-> redisList, local |-> black.local \cup ts]

\* logout and revoke_current: the list, then the registry.
Logout(a, t) ==
  /\ scene = "sessions" /\ At(a, "idle") /\ t \in issued /\ asked < MaxAsked[scene]
  /\ asked' = asked + 1
  /\ act' = [act EXCEPT ![a].do = "revoke", ![a].tok = t]
  /\ UNCHANGED <<vars, scene, now, buckets, sess, black, issued, seen>>
RevokeCurrent(a) ==
  /\ At(a, "revoke") /\ Do(a, "unlist")
  /\ Revoke({act[a].tok})
  /\ RestOfMarks /\ UNCHANGED <<scene, now, asked, buckets, sess, issued, seen>>
Unlist(a) ==
  LET t == act[a].tok IN
  /\ At(a, "unlist") /\ Rest(a)
  /\ \/ Through /\ sess' = [sess EXCEPT !.set = @ \ {t}, !.tok = @ \ {t}]
     \/ /\ Kept
        /\ \E set \in Perhaps(sess.set, sess.set \ {t}) :
             sess' = [sess EXCEPT !.set = set, !.local = @ \ {t}]
  /\ seen' = [seen EXCEPT !.out = @ \cup {t}]
  /\ RestOfMarks /\ UNCHANGED <<scene, now, asked, buckets, black, issued>>

\* logout_all: revoke_all, then logout with the caller's own token.  revoke_all asks
\* Redis for the members and works through them; at the first error it turns to the
\* table of the process and takes that instead.
Due(where) == {t \in Tokens : seen.home[t] = where} \ seen.crossed
LogoutAll(a, t) ==
  /\ scene = "sessions" /\ At(a, "idle") /\ t \in issued /\ asked < MaxAsked[scene]
  /\ asked' = asked + 1
  /\ \/ /\ Through
        /\ act' = [act EXCEPT ![a] = [@ EXCEPT !.do = "sweep", !.tok = t, !.left = sess.set,
                                             !.due = Due("redis"), !.swept = "redis"]]
     \/ /\ Kept
        /\ act' = [act EXCEPT ![a] = [@ EXCEPT !.do = "sweepLocal", !.tok = t,
                                             !.due = Due("local"), !.swept = "local"]]
  /\ seen' = [seen EXCEPT !.crossed = @ \cup {act[b].tok : b \in {c \in Actors : At(c, "keep")}}]
  /\ RestOfMarks /\ UNCHANGED <<scene, now, buckets, sess, black, issued>>
TurnLocal(a) ==
  act' = [act EXCEPT ![a] = [@ EXCEPT !.do = "sweepLocal", !.left = {}, !.due = {}, !.swept = "no"]]
Sweep(a) ==
  /\ At(a, "sweep") /\ act[a].left # {}
  /\ \/ \E t \in act[a].left :
          /\ up
          /\ act' = [act EXCEPT ![a].do = "forget", ![a].cur = t, ![a].left = @ \ {t}]
          /\ IF t \in sess.tok THEN Revoke({t}) ELSE UNCHANGED <<black, window>>
     \/ Failed /\ TurnLocal(a) /\ UNCHANGED black
  /\ RestOfMarks /\ UNCHANGED <<scene, now, asked, buckets, sess, issued, seen>>
Forget(a) ==
  /\ At(a, "forget")
  /\ \/ /\ Answered /\ Do(a, "sweep")
        /\ sess' = [sess EXCEPT !.tok = @ \ {act[a].cur}]
     \/ Failed /\ TurnLocal(a) /\ UNCHANGED sess
  /\ RestOfMarks /\ UNCHANGED <<scene, now, asked, buckets, black, issued, seen>>
DropSet(a) ==
  /\ At(a, "sweep") /\ act[a].left = {}
  /\ \/ Answered /\ Do(a, "revoke") /\ sess' = [sess EXCEPT !.set = {}]
     \/ Failed /\ TurnLocal(a) /\ UNCHANGED sess
  /\ RestOfMarks /\ UNCHANGED <<scene, now, asked, buckets, black, issued, seen>>
SweepLocal(a) ==
  /\ At(a, "sweepLocal") /\ Do(a, "revoke")
  /\ Revoke(sess.local) /\ sess' = [sess EXCEPT !.local = {}]
  /\ RestOfMarks /\ UNCHANGED <<scene, now, asked, buckets, issued, seen>>

\* is_revoked: Redis if it can be asked, and what the process has noted itself.
\* Variant: an answer of Redis is final.
RefusedFinally(t) == IF window = 0 /\ up THEN t \in black.redis ELSE t \in black.local
Refused(t) == t \in black.local \/ (window = 0 /\ up /\ t \in black.redis)

-----------------------------------------------------------------------------
(* The marks, Redis, time and the process. *)

MarksStep ==
  /\ scene = "marks"
  /\ (\E c \in Clients : ClientStep(c)) \/ (\E k \in Keys : Expire(k))
  /\ UNCHANGED mine
Ticks == Tick /\ UNCHANGED mine
\* Redis goes or comes, with or without what it held.
RedisFlips ==
  /\ flips < Faults[scene].flips /\ Flip
  /\ \/ UNCHANGED <<sess, black, seen>>
     \/ /\ sess' = [sess EXCEPT !.set = {}, !.tok = {}]
        /\ black' = [black EXCEPT !.redis = {}]
        /\ seen' = [seen EXCEPT !.wiped = TRUE]
  /\ UNCHANGED <<scene, now, asked, buckets, act, issued>>
ProcessDies ==
  /\ crashes < Faults[scene].dies /\ Crash
  /\ buckets' = [b \in Buckets |-> Absent]
  /\ sess' = [sess EXCEPT !.local = {}] /\ black' = [black EXCEPT !.local = {}]
  /\ act' = [a \in Actors |-> Resting]
  /\ seen' = [seen EXCEPT !.home = [t \in Tokens |-> IF @[t] = "local" THEN "none" ELSE @[t]]]
  /\ UNCHANGED <<scene, now, asked, issued>>

ActorStep(a) ==
  \/ AskRun(a) \/ AskDay(a)
  \/ Login(a) \/ LoginWrong(a) \/ LoginReset(a) \/ RegisterAdd(a) \/ RegisterToken(a)
  \/ RevokeCurrent(a) \/ Unlist(a)
  \/ \E t \in issued : Logout(a, t) \/ LogoutAll(a, t)
  \/ Sweep(a) \/ Forget(a) \/ DropSet(a) \/ SweepLocal(a)
SessNext ==
  \/ MarksStep \/ Ticks \/ RedisFlips \/ ProcessDies \/ Later
  \/ \E a \in Actors : ActorStep(a)
  \/ \E i \in Addresses : AskPublic(i)

SessSpec == SessInit /\ [][SessNext]_all

-----------------------------------------------------------------------------
(* Properties. *)

\* Who has signed out stays out: whichever store took the revocation, it is honoured
\* once Redis can be asked again, although the two never exchange what they hold; and
\* signing out everywhere reaches every session that was registered, before it started,
\* in the store it looks into, whatever signs in or out or opens the breaker meanwhile
\* (revoke, is_revoked, revoke_all).
LogoutHolds ==
  ~seen.wiped /\ crashes = 0 =>
    /\ window = 0 /\ up => \A t \in seen.out : Refused(t)
    /\ \A a \in Actors : At(a, "revoke") => act[a].due \subseteq black.redis \cup black.local

\* A user's runs of a day stay within the day's limit, whatever the throttles of
\* others put into the table that holds it: the day's bucket is only given up when
\* nothing in it runs out sooner (_bound_windows).
DayQuotaKept ==
  crashes = 0 /\ ~seen.dropped => Recent(seen.runs, now - Day) <= DayLimit
=============================================================================
