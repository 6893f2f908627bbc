---------------------------- MODULE AccessProofs ------------------------------
(***************************************************************************)
(* Who gets a mark, who is signed in, and who may see a trip, for any      *)
(* number of threads, devices, keys, guests and failures.  A Redis that    *)
(* never answers holds nothing, so in such an outage every client that got *)
(* a mark finds itself in the table of the process.  A session that        *)
(* somebody is signing out is on a list, or it still stands where the      *)
(* sweep is going to look.  Who is accepting an invitation holds its lock, *)
(* and the invitation is still to be had.                                  *)
(***************************************************************************)
EXTENDS Sessions, Sharing, SequenceTheorems, FiniteSetTheorems, WellFoundedInduction, TLAPS

-----------------------------------------------------------------------------
(* The marks: Marks. *)

\* What an outage that began with the process keeps true.
Outage ==
  stable /\ ~up =>
    /\ remote = {}
    /\ \A c \in Clients : Holds(c) => table[key[c]] = c

\* The inductive invariant of the module.
IInv == TypeOK /\ LocalMarkHasHolder /\ Outage

\* The invariant holds when the process starts.
LEMMA InitIInv == Init => IInv
<1> SUFFICES ASSUME Init PROVE IInv
  OBVIOUS
<1> USE DEF Init
<1>1. TypeOK
  BY MarksAssumption DEF TypeOK
<1>2. LocalMarkHasHolder
  BY MarksAssumption DEF LocalMarkHasHolder
<1>3. Outage
  BY DEF Outage, Holds
<1> QED
  BY <1>1, <1>2, <1>3 DEF IInv

\* A command that did not come back leaves the window in its range, and in an
\* outage that began with the process it leaves Redis empty.
LEMMA CommandLost ==
  ASSUME IInv, NEW sent \in SUBSET Keys, Blocked \/ Lost(sent)
  PROVE  /\ window' \in 0 .. Cooldown
         /\ remote' \subseteq Keys
         /\ stable => remote' = remote
BY MarksAssumption DEF IInv, TypeOK, Blocked, Lost, NoteFailure

\* The first step of try_mark: at worst it takes a mark in Redis.
LEMMA AskRedisStep ==
  ASSUME IInv, NEW c \in Clients, NEW k \in Keys, AskRedis(c, k)
  PROVE  IInv'
<1> USE DEF IInv
<1>1. window' \in 0 .. Cooldown /\ remote' \subseteq Keys /\ (stable /\ ~up => remote' = remote)
  <2>1. CASE window = 0 /\ up
    BY <2>1, CommandLost DEF AskRedis, TypeOK, Blocked, Lost
  <2>2. CASE ~(window = 0 /\ up)
    <3>1. Blocked \/ Lost(remote \cup {k})
      BY <2>2 DEF AskRedis
    <3>2. remote \cup {k} \in SUBSET Keys
      BY DEF TypeOK
    <3> QED
      BY <3>1, <3>2, CommandLost
  <2> QED
    BY <2>1, <2>2
<1>2. /\ pc[c] = "idle"
      /\ pc' = [pc EXCEPT ![c] = pc'[c]] /\ pc'[c] \in {"holds", "local"}
      /\ key' = [key EXCEPT ![c] = k]
      /\ UNCHANGED <<redis, crashes, table>>
  BY DEF AskRedis, Goto, TypeOK
<1>3. TypeOK'
  BY <1>1, <1>2, MarksAssumption DEF TypeOK, redis
<1>4. LocalMarkHasHolder'
  BY <1>2 DEF LocalMarkHasHolder, Holds, TypeOK
<1>5. Outage'
  <2>1. stable /\ ~up => pc'[c] = "local"
    BY DEF AskRedis, Goto, TypeOK
  <2> QED
    BY <1>1, <1>2, <2>1 DEF Outage, Holds, TypeOK, redis
<1> QED
  BY <1>3, <1>4, <1>5

\* The second step of try_mark: a granted mark is entered for the client.
LEMMA AskLocalStep ==
  ASSUME IInv, NEW c \in Clients, AskLocal(c)
  PROVE  IInv'
<1> USE DEF IInv, AskLocal, Goto, GoIdle, redis
<1>1. key[c] \in Keys
  BY MarksAssumption DEF TypeOK
<1>2. CASE pc' = [pc EXCEPT ![c] = "holds"] /\ table' = [table EXCEPT ![key[c]] = c]
           /\ table[key[c]] = None /\ UNCHANGED key
  <2>1. TypeOK'
    BY <1>1, <1>2 DEF TypeOK
  <2>2. LocalMarkHasHolder'
    BY <1>1, <1>2, MarksAssumption DEF LocalMarkHasHolder, Holds, TypeOK
  <2>3. Outage'
    BY <1>1, <1>2, MarksAssumption DEF Outage, Holds, TypeOK
  <2> QED
    BY <2>1, <2>2, <2>3
<1>3. CASE pc' = [pc EXCEPT ![c] = "idle"] /\ key' = [key EXCEPT ![c] = None] /\ UNCHANGED table
  <2>1. TypeOK'
    BY <1>3 DEF TypeOK
  <2>2. LocalMarkHasHolder'
    BY <1>3 DEF LocalMarkHasHolder, Holds, TypeOK
  <2>3. Outage'
    BY <1>3 DEF Outage, Holds, TypeOK
  <2> QED
    BY <2>1, <2>2, <2>3
<1> QED
  BY <1>2, <1>3

\* The first step of unmark touches Redis alone.
LEMMA DropRemoteStep ==
  ASSUME IInv, NEW c \in Clients, DropRemote(c)
  PROVE  IInv'
<1> USE DEF IInv
<1>1. window' \in 0 .. Cooldown /\ remote' \subseteq Keys /\ (stable /\ ~up => remote' = remote)
  <2>1. CASE window = 0 /\ up /\ remote' = remote \ {key[c]} /\ UNCHANGED window
    BY <2>1 DEF TypeOK
  <2>2. CASE Blocked \/ Lost(remote \ {key[c]})
    <3>1. remote \ {key[c]} \in SUBSET Keys
      BY DEF TypeOK
    <3> QED
      BY <2>2, <3>1, CommandLost
  <2> QED
    BY <2>1, <2>2 DEF DropRemote
<1>2. /\ pc[c] = "holds" /\ pc' = [pc EXCEPT ![c] = "drop"]
      /\ UNCHANGED <<redis, crashes, table, key>>
  BY DEF DropRemote, Goto
<1>3. TypeOK'
  BY <1>1, <1>2 DEF TypeOK, redis
<1>4. LocalMarkHasHolder'
  BY <1>2 DEF LocalMarkHasHolder, Holds, TypeOK
<1>5. Outage'
  BY <1>1, <1>2 DEF Outage, Holds, TypeOK, redis
<1> QED
  BY <1>3, <1>4, <1>5

\* The second step of unmark takes the entry out.
LEMMA DropLocalStep ==
  ASSUME IInv, NEW c \in Clients, DropLocal(c)
  PROVE  IInv'
<1> USE DEF IInv, DropLocal, Goto, GoIdle, redis
<1>1. key[c] \in Keys
  BY MarksAssumption DEF TypeOK
<1>2. TypeOK'
  BY <1>1 DEF TypeOK
<1>3. LocalMarkHasHolder'
  BY <1>1, MarksAssumption DEF LocalMarkHasHolder, Holds, TypeOK
<1>4. Outage'
  BY <1>1, MarksAssumption DEF Outage, Holds, TypeOK
<1> QED
  BY <1>2, <1>3, <1>4

\* A mark that is left: its entry, if it is the client's, is nobody's from now on.
LEMMA LeaveStep ==
  ASSUME IInv, NEW c \in Clients, Leave(c)
  PROVE  IInv'
<1> USE DEF IInv, Leave, Goto, GoIdle, redis
<1>1. key[c] \in Keys \cap Lasting /\ Holds(c)
  BY MarksAssumption DEF Holds, TypeOK
<1>2. TypeOK'
  BY <1>1 DEF TypeOK
<1>3. LocalMarkHasHolder'
  BY <1>1, MarksAssumption DEF LocalMarkHasHolder, Holds, TypeOK
<1>4. Outage'
  BY <1>1, MarksAssumption DEF Outage, Holds, TypeOK
<1> QED
  BY <1>2, <1>3, <1>4

\* Every step keeps the invariant.
LEMMA NextIInv == IInv /\ [Next]_vars => IInv'
<1> SUFFICES ASSUME IInv, [Next]_vars PROVE IInv'
  OBVIOUS
<1> USE DEF IInv
<1>1. CASE \E c \in Clients : ClientStep(c)
  BY <1>1, AskRedisStep, AskLocalStep, DropRemoteStep, DropLocalStep, LeaveStep DEF ClientStep
<1>2. CASE Tick
  <2>1. TypeOK'
    BY <1>2, MarksAssumption DEF Tick, TypeOK, redis, clients
  <2>2. LocalMarkHasHolder' /\ Outage'
    BY <1>2 DEF Tick, LocalMarkHasHolder, Outage, Holds, redis, clients
  <2> QED
    BY <2>1, <2>2
<1>3. CASE Flip
  <2>1. up' \in BOOLEAN /\ stable' \in BOOLEAN
    BY <1>3, Zenon DEF Flip
  <2>2. flips' \in 0 .. MaxFlips
    <3>1. flips \in 0 .. MaxFlips /\ flips < MaxFlips /\ flips' = flips + 1
      BY <1>3, Zenon DEF Flip, TypeOK
    <3> QED
      BY <3>1, MarksAssumption
  <2>3. /\ remote' \subseteq Keys
        /\ UNCHANGED <<crashes, table, window, pc, key>>
    BY <1>3, Zenon DEF Flip, TypeOK, clients
  <2>4. TypeOK'
    BY <2>1, <2>2, <2>3, Zenon DEF TypeOK
  <2>5. LocalMarkHasHolder' /\ Outage'
    BY <1>3 DEF Flip, LocalMarkHasHolder, Outage, Holds, clients
  <2> QED
    BY <2>4, <2>5
<1>4. CASE Crash
  <2>1. TypeOK'
    BY <1>4, MarksAssumption DEF Crash, TypeOK, redis
  <2>2. LocalMarkHasHolder' /\ Outage'
    BY <1>4, MarksAssumption DEF Crash, LocalMarkHasHolder, Outage, Holds, redis
  <2> QED
    BY <2>1, <2>2
<1>5. CASE \E k \in Keys : Expire(k)
  <2>1. TypeOK'
    BY <1>5 DEF Expire, TypeOK, redis, clients
  <2>2. LocalMarkHasHolder' /\ Outage'
    BY <1>5, MarksAssumption DEF Expire, Held, LocalMarkHasHolder, Outage, Holds, TypeOK, redis, clients
  <2> QED
    BY <2>1, <2>2
<1>6. CASE UNCHANGED vars
  BY <1>6 DEF vars, redis, clients, TypeOK, LocalMarkHasHolder, Outage, Holds
<1> QED
  BY <1>1, <1>2, <1>3, <1>4, <1>5, <1>6 DEF Next

\* The invariant holds for ever.
LEMMA Invariant == Spec => []IInv
<1> QED
  BY InitIInv, NextIInv, PTL DEF Spec

\* While Redis is away from the start of the process on, two threads never hold
\* the same mark, whatever the size of the table and however often it is full.
THEOREM OutageExclusion == Spec => []OutageExclusive
<1>1. IInv => OutageExclusive
  BY DEF IInv, Outage, Holds, OutageExclusive, Exclusive
<1> QED
  BY Invariant, <1>1, PTL

\* No client forgets its entry of the local table, whatever Redis, the breaker and the
\* process do: it will remove the entry, or it has left a resume lock to its time.
THEOREM NoOrphanMark == Spec => []LocalMarkHasHolder
<1>1. IInv => LocalMarkHasHolder
  BY DEF IInv
<1> QED
  BY Invariant, <1>1, PTL

-----------------------------------------------------------------------------
(* Signing out: Sessions. *)

\* The shape of the rows and the stores; who owes nothing has nothing due.
IsActor(x) ==
  /\ "do" \in DOMAIN x /\ "tok" \in DOMAIN x /\ "cur" \in DOMAIN x /\ "left" \in DOMAIN x /\ "due" \in DOMAIN x
  /\ x.due \subseteq Tokens
  /\ x.do \in {"idle", "day", "wrong", "reset", "add", "keep"} => x.due = {}
SessTypes ==
  /\ DOMAIN act = Actors /\ \A a \in Actors : IsActor(act[a])
  /\ "out" \in DOMAIN seen /\ "home" \in DOMAIN seen /\ "crossed" \in DOMAIN seen /\ "wiped" \in DOMAIN seen
  /\ DOMAIN seen.home = Tokens /\ seen.wiped \in BOOLEAN
  /\ "set" \in DOMAIN sess /\ "tok" \in DOMAIN sess /\ "local" \in DOMAIN sess
  /\ "redis" \in DOMAIN black /\ "local" \in DOMAIN black
  /\ crashes \in Nat

\* Who is on a list, what a sweep still has to reach, and where that still stands.
Black == black.redis \cup black.local
Sweeps(a) == act[a].do \in {"sweep", "forget"}
Home(t) == seen.home[t] = "redis" /\ t \notin seen.crossed
Owed(t) == Home(t) \/ \E a \in Actors : Sweeps(a) /\ t \in act[a].due
LocalOwed(t) ==
  \/ seen.home[t] = "local" /\ t \notin seen.crossed
  \/ \E a \in Actors : At(a, "sweepLocal") /\ t \in act[a].due

\* Whoever is out is on a list; what is owed is on one too, or still where the sweep
\* will look: in its own set, in the registry, or in the table of the process.
OutIsBlack == seen.out \subseteq Black /\ \A a \in Actors : At(a, "unlist") => act[a].tok \in Black
TokenHeld == \A t \in Tokens : Owed(t) => t \in Black \cup sess.tok
SetHeld == \A t \in Tokens : Home(t) => t \in Black \cup sess.set
LeftHeld == \A a \in Actors, t \in Tokens :
  Sweeps(a) /\ (t \in act[a].due \/ Home(t)) => t \in Black \cup act[a].left
KeepHeld == \A b \in Actors : At(b, "keep") /\ act[b].tok \notin seen.crossed =>
  act[b].tok \in Black \cup sess.set /\ ~Sweeping
CurHeld == \A b \in Actors : At(b, "forget") /\ act[b].cur \in Tokens /\ Owed(act[b].cur) => act[b].cur \in Black
LocalHeld == \A t \in Tokens : LocalOwed(t) => t \in Black \cup sess.local
DueHeld == \A a \in Actors : At(a, "revoke") => act[a].due \subseteq Black
SessHeld == OutIsBlack /\ TokenHeld /\ SetHeld /\ LeftHeld /\ KeepHeld /\ CurHeld /\ LocalHeld /\ DueHeld
SessInv == SessTypes /\ (~seen.wiped /\ crashes = 0 => SessHeld)

\* The row of an actor at rest.
LEMMA RestingRow == IsActor(Resting) /\ Resting.do = "idle" /\ Resting.due = {}
BY DEF IsActor, Resting

\* An actor that moves on within its request keeps its row but for the place.
LEMMA DoRow ==
  ASSUME SessTypes, NEW a \in Actors, NEW what, Do(a, what),
         what \in {"idle", "day", "wrong", "reset", "add", "keep"} => act[a].due = {}
  PROVE  /\ act' = [act EXCEPT ![a] = act'[a]] /\ IsActor(act'[a])
         /\ act'[a].do = what /\ act'[a].tok = act[a].tok /\ act'[a].cur = act[a].cur
         /\ act'[a].left = act[a].left /\ act'[a].due = act[a].due
<1> DEFINE x == [act[a] EXCEPT !.do = what]
<1>0. IsActor(act[a]) /\ DOMAIN act = Actors BY DEF SessTypes
<1>1. IsActor(x) /\ x.do = what /\ x.tok = act[a].tok /\ x.cur = act[a].cur /\ x.left = act[a].left /\ x.due = act[a].due
  BY <1>0 DEF IsActor
<1>2. act' = [act EXCEPT ![a] = x] BY <1>0 DEF Do
<1> HIDE DEF x
<1>3. act'[a] = x BY <1>0, <1>2
<1> QED BY <1>1, <1>2, <1>3

\* An actor that neither sweeps nor registers: nothing is taken from what is held.
LEMMA QuietKeeps ==
  ASSUME SessInv, NEW a \in Actors, NEW x, IsActor(x), act' = [act EXCEPT ![a] = x],
         x.do \notin {"sweep", "forget", "drop", "sweepLocal", "keep", "unlist"}, x.due = {},
         ~Sweeps(a), UNCHANGED <<sess, black, crashes>>, 
         "out" \in DOMAIN seen' /\ "home" \in DOMAIN seen' /\ "crossed" \in DOMAIN seen' /\ "wiped" \in DOMAIN seen',
         seen'.out = seen.out, seen'.home = seen.home, seen'.crossed = seen.crossed, seen'.wiped = seen.wiped
  PROVE  SessInv'
<1>1. DOMAIN act = Actors /\ act'[a] = x /\ \A b \in Actors \ {a} : act'[b] = act[b]
  BY DEF SessInv, SessTypes
<1>2. SessTypes' BY <1>1 DEF SessInv, SessTypes
<1>3. Black' = Black /\ \A t \in Tokens : Home(t)' <=> Home(t) BY DEF Black, Home
<1>4. ASSUME SessHeld PROVE SessHeld'
  <2> USE <1>1, <1>3, <1>4 DEF SessHeld
  <2>1. Sweeping' => Sweeping BY DEF Sweeping
  <2>2. \A t \in Tokens : Owed(t)' => Owed(t) BY DEF Owed, Sweeps
  <2>3. \A t \in Tokens : LocalOwed(t)' => LocalOwed(t) BY DEF LocalOwed, At
  <2>4. OutIsBlack' BY DEF OutIsBlack, At
  <2>5. TokenHeld' /\ SetHeld' BY <2>2 DEF TokenHeld, SetHeld
  <2>6. LeftHeld' BY DEF LeftHeld, Sweeps
  <2>7. KeepHeld' BY <2>1 DEF KeepHeld, At
  <2>8. CurHeld' BY <2>2 DEF CurHeld, At
  <2>9. LocalHeld' BY <2>3 DEF LocalHeld
  <2>10. DueHeld' BY DEF DueHeld, At
  <2> QED BY <2>4, <2>5, <2>6, <2>7, <2>8, <2>9, <2>10
<1> QED BY <1>2, <1>4 DEF SessInv

\* What the marks, the clock and the windows do, is no business of the sessions.
LEMMA StillKeeps ==
  ASSUME SessInv, UNCHANGED <<act, sess, black, crashes>>,
         "out" \in DOMAIN seen' /\ "home" \in DOMAIN seen' /\ "crossed" \in DOMAIN seen' /\ "wiped" \in DOMAIN seen',
         seen'.out = seen.out, seen'.home = seen.home, seen'.crossed = seen.crossed, seen'.wiped = seen.wiped
  PROVE  SessInv'
<1>1. SessTypes' BY DEF SessInv, SessTypes
<1>2. Black' = Black /\ (Sweeping' <=> Sweeping) BY DEF Black, Sweeping
<1>3. \A t \in Tokens : (Home(t)' <=> Home(t)) /\ (Owed(t)' <=> Owed(t)) /\ (LocalOwed(t)' <=> LocalOwed(t))
  BY DEF Home, Owed, LocalOwed, Sweeps, At
<1>4. SessHeld => SessHeld'
  BY <1>2, <1>3 DEF SessHeld, OutIsBlack, TokenHeld, SetHeld, LeftHeld, KeepHeld, CurHeld, LocalHeld,
     DueHeld, At, Sweeps
<1> QED BY <1>1, <1>4 DEF SessInv

\* What the note of a given-up bucket leaves of the history.
LEMMA Unmarked ==
  ASSUME SessTypes, NEW d
  PROVE  LET s == [seen EXCEPT !.dropped = d] IN
         /\ "out" \in DOMAIN s /\ "home" \in DOMAIN s /\ "crossed" \in DOMAIN s /\ "wiped" \in DOMAIN s
         /\ s.out = seen.out /\ s.home = seen.home /\ s.crossed = seen.crossed /\ s.wiped = seen.wiped
BY DEF SessTypes

\* The marks, the clock and the windows of the addresses touch no session.
LEMMA MarksKeep ==
  ASSUME SessInv, MarksStep \/ Ticks \/ Later \/ \E i \in Addresses : AskPublic(i)
  PROVE  SessInv'
<1>t. SessTypes BY DEF SessInv
<1>1. CASE MarksStep \/ Ticks \/ Later
  <2>1. UNCHANGED <<act, sess, black, seen>> BY <1>1 DEF MarksStep, Ticks, Later, mine
  <2>2. crashes' = crashes
    <3>1. CASE MarksStep
      BY <3>1 DEF MarksStep, ClientStep, AskRedis, AskLocal, DropRemote, DropLocal, Leave, Expire, Blocked,
         Lost
    <3>2. CASE Ticks \/ Later BY <3>2 DEF Ticks, Tick, Later, RestOfMarks
    <3> QED BY <1>1, <3>1, <3>2
  <2>3. "out" \in DOMAIN seen' /\ "home" \in DOMAIN seen' /\ "crossed" \in DOMAIN seen' /\ "wiped" \in DOMAIN seen'
    BY <1>t, <2>1 DEF SessTypes
  <2> QED BY <2>1, <2>2, <2>3, StillKeeps
<1>2. ASSUME NEW i \in Addresses, AskPublic(i) PROVE SessInv'
  <2>1. UNCHANGED <<act, sess, black, crashes>> BY <1>2 DEF AskPublic, RestOfMarks
  <2>2. PICK d : seen' = [seen EXCEPT !.dropped = d]
    <3>1. PICK given \in MakeRoom : seen' = [seen EXCEPT !.dropped = @ \/ GaveUpDay(given)]
      BY <1>2 DEF AskPublic
    <3> QED BY <3>1
  <2> QED BY <1>t, <2>1, <2>2, Unmarked, StillKeeps
<1> QED BY <1>1, <1>2

\* Requests that are counted, and signing in up to the signed token.
LEMMA AskKeeps ==
  ASSUME SessInv, NEW a \in Actors,
         AskRun(a) \/ AskDay(a) \/ Login(a) \/ LoginWrong(a) \/ LoginReset(a) \/ \E t \in issued : Logout(a, t)
  PROVE  SessInv'
<1>t. SessTypes /\ IsActor(act[a]) /\ DOMAIN act = Actors BY DEF SessInv, SessTypes
<1>1. UNCHANGED <<sess, black, crashes>>
  BY DEF AskRun, AskDay, Login, LoginWrong, LoginReset, Logout, RestOfMarks, vars
<1>2. act[a].do \in {"idle", "day", "wrong", "reset"} /\ act[a].due = {}
  BY <1>t DEF AskRun, AskDay, Login, LoginWrong, LoginReset, Logout, At, IsActor
<1>3. /\ "out" \in DOMAIN seen' /\ "home" \in DOMAIN seen' /\ "crossed" \in DOMAIN seen' /\ "wiped" \in DOMAIN seen'
      /\ seen'.out = seen.out /\ seen'.home = seen.home /\ seen'.crossed = seen.crossed /\ seen'.wiped = seen.wiped
  <2>1. CASE seen' = seen BY <1>t, <2>1 DEF SessTypes
  <2>2. CASE AskRun(a)
    <3>1. PICK d : seen' = [seen EXCEPT !.dropped = d]
      <4>1. PICK given \in MakeRoom : seen' = [seen EXCEPT !.dropped = @ \/ GaveUpDay(given)]
        BY <2>2 DEF AskRun
      <4> QED BY <4>1
    <3> QED BY <1>t, <3>1, Unmarked
  <2>3. CASE AskDay(a)
    <3>1. PICK d, r : seen' = [seen EXCEPT !.dropped = d, !.runs = r]
      <4>1. PICK given \in MakeRoom :
              seen' = [seen EXCEPT !.dropped = @ \/ GaveUpDay(given),
                                   !.runs = IF Len(buckets'["day"].hits) > DayLimit THEN @ ELSE Append(@, now)]
        BY <2>3 DEF AskDay
      <4> QED BY <4>1
    <3> QED BY <1>t, <3>1 DEF SessTypes
  <2> QED BY <2>1, <2>2, <2>3 DEF Login, LoginWrong, LoginReset, Logout
<1>4. CASE UNCHANGED act BY <1>1, <1>3, <1>4, StillKeeps
<1>5. ASSUME NEW what \in {"day", "wrong", "add"}, Do(a, what) PROVE SessInv'
  <2>1. act' = [act EXCEPT ![a] = act'[a]] /\ IsActor(act'[a]) /\ act'[a].do = what /\ act'[a].due = {}
    BY <1>t, <1>2, <1>5, DoRow
  <2> DEFINE x == act'[a]
  <2>2. /\ IsActor(x) /\ act' = [act EXCEPT ![a] = x] /\ x.due = {} /\ ~Sweeps(a)
        /\ x.do \notin {"sweep", "forget", "drop", "sweepLocal", "keep", "unlist"}
    BY <1>2, <2>1 DEF Sweeps
  <2> HIDE DEF x
  <2> QED BY <1>1, <1>3, <2>2, QuietKeeps
<1>6. ASSUME Rest(a) PROVE SessInv'
  <2>1. act' = [act EXCEPT ![a] = Resting] /\ ~Sweeps(a) BY <1>2, <1>6 DEF Rest, Sweeps
  <2> QED BY <1>1, <1>3, <2>1, RestingRow, QuietKeeps
<1>7. ASSUME NEW what \in {"reset", "revoke"}, NEW t, act' = [act EXCEPT ![a].do = what, ![a].tok = t] PROVE SessInv'
  <2> DEFINE x == [act[a] EXCEPT !.do = what, !.tok = t]
  <2>1. /\ IsActor(x) /\ x.due = {} /\ ~Sweeps(a)
        /\ x.do \notin {"sweep", "forget", "drop", "sweepLocal", "keep", "unlist"}
    BY <1>t, <1>2 DEF Sweeps, IsActor
  <2>2. act' = [act EXCEPT ![a] = x] BY <1>t, <1>7
  <2> HIDE DEF x
  <2> QED BY <1>1, <1>3, <2>1, <2>2, QuietKeeps
<1>8. CASE AskRun(a) BY <1>4, <1>5, <1>8 DEF AskRun
<1>9. CASE AskDay(a) BY <1>6, <1>9 DEF AskDay
<1>10. CASE Login(a)
  <2>1. PICK n : Password(a, n) BY <1>10 DEF Login
  <2> QED BY <1>4, <1>5, <1>7, <2>1 DEF Password
<1>11. CASE LoginWrong(a) BY <1>6, <1>11 DEF LoginWrong
<1>12. CASE LoginReset(a) BY <1>5, <1>12 DEF LoginReset
<1>13. ASSUME NEW t \in issued, Logout(a, t) PROVE SessInv' BY <1>7, <1>13 DEF Logout
<1> QED BY <1>8, <1>9, <1>10, <1>11, <1>12, <1>13

\* A session is registered: what is held grows, and who registers while somebody sweeps
\* has crossed him.
LEMMA Registering ==
  ASSUME SessInv, NEW a \in Actors, NEW x, IsActor(x), act' = [act EXCEPT ![a] = x],
         act[a].do \in {"add", "keep"}, x.do \in {"idle", "keep"},
         UNCHANGED <<black, crashes>>,
         "out" \in DOMAIN seen' /\ "home" \in DOMAIN seen' /\ "crossed" \in DOMAIN seen' /\ "wiped" \in DOMAIN seen',
         DOMAIN seen'.home = Tokens, seen'.wiped = seen.wiped, seen'.out = seen.out,
         seen.crossed \subseteq seen'.crossed,
         "set" \in DOMAIN sess' /\ "tok" \in DOMAIN sess' /\ "local" \in DOMAIN sess',
         sess.set \subseteq sess'.set, sess.tok \subseteq sess'.tok, sess.local \subseteq sess'.local,
         SessHeld /\ x.do = "keep" => x.tok \in seen'.crossed \/ (x.tok \in sess'.set /\ ~Sweeping),
         SessHeld => \A u \in Tokens : Home(u)' => Home(u) \/ (u \in Black \cup sess'.set /\ u \in sess'.tok /\ ~Sweeping),
         \A u \in Tokens : seen'.home[u] = "local" /\ u \notin seen'.crossed =>
           u \in sess'.local \/ (seen.home[u] = "local" /\ u \notin seen.crossed)
  PROVE  SessInv'
<1>1. DOMAIN act = Actors /\ act'[a] = x /\ \A b \in Actors \ {a} : act'[b] = act[b]
  BY DEF SessInv, SessTypes
<1>2. SessTypes' BY <1>1 DEF SessInv, SessTypes
<1>3. Black' = Black BY DEF Black
<1>4. (Sweeping' <=> Sweeping) /\ \A b \in Actors : Sweeps(b)' <=> Sweeps(b)
  BY <1>1 DEF Sweeping, Sweeps
<1>d. \A b \in Actors : Sweeps(b) => act'[b] = act[b] BY <1>1 DEF Sweeps
<1>s. \A b \in Actors : Sweeps(b) => Sweeping BY DEF Sweeps, Sweeping
<1>5. ASSUME SessHeld PROVE SessHeld'
  <2> USE <1>1, <1>3, <1>5
  <2>1. \A u \in Tokens : Home(u)' => Home(u) \/ (u \in Black \cup sess'.set /\ u \in sess'.tok /\ ~Sweeping) OBVIOUS
  <2>2. \A u \in Tokens : Owed(u)' => Owed(u) \/ (u \in sess'.tok /\ ~Sweeping)
    BY <2>1, <1>4, <1>d DEF Owed
  <2>3. OutIsBlack' BY DEF SessHeld, OutIsBlack, At
  <2>4. TokenHeld' BY <2>2 DEF SessHeld, TokenHeld
  <2>5. SetHeld' BY <2>1 DEF SessHeld, SetHeld
  <2>6. LeftHeld' BY <2>1, <1>4, <1>s, <1>d DEF SessHeld, LeftHeld
  <2>7. KeepHeld' BY <1>4 DEF SessHeld, KeepHeld, At
  <2>8. CurHeld'
    <3>1. \A b \in Actors : At(b, "forget")' => At(b, "forget") /\ act'[b] = act[b] /\ Sweeping
      BY DEF At, Sweeping
    <3> QED BY <2>2, <3>1 DEF SessHeld, CurHeld
  <2>9. LocalHeld'
    <3>1. \A u \in Tokens : LocalOwed(u)' => LocalOwed(u) \/ u \in sess'.local BY DEF LocalOwed, At
    <3> QED BY <3>1 DEF SessHeld, LocalHeld
  <2>10. DueHeld' BY DEF SessHeld, DueHeld, At
  <2> QED BY <2>3, <2>4, <2>5, <2>6, <2>7, <2>8, <2>9, <2>10 DEF SessHeld
<1> QED BY <1>2, <1>5 DEF SessInv

\* A sign-in enters the set, then the token; or the table of the process (register_session).
LEMMA RegisterKeeps == ASSUME SessInv, NEW a \in Actors, RegisterAdd(a) \/ RegisterToken(a) PROVE SessInv'
<1> DEFINE t == act[a].tok
<1>t. SessTypes /\ IsActor(act[a]) /\ DOMAIN act = Actors BY DEF SessInv, SessTypes
<1>1. UNCHANGED <<black, crashes>> BY DEF RegisterAdd, RegisterToken, RestOfMarks
<1>2. act[a].do \in {"add", "keep"} /\ act[a].due = {}
  BY <1>t DEF RegisterAdd, RegisterToken, At, IsActor
<1> DEFINE crossing == IF Sweeping THEN seen.crossed \cup {t} ELSE seen.crossed
<1>3. ASSUME NEW where, seen' = [seen EXCEPT !.home[t] = where, !.crossed = crossing]
      PROVE  /\ "out" \in DOMAIN seen' /\ "home" \in DOMAIN seen' /\ "crossed" \in DOMAIN seen' /\ "wiped" \in DOMAIN seen'
             /\ DOMAIN seen'.home = Tokens /\ seen'.wiped = seen.wiped /\ seen'.out = seen.out /\ seen'.crossed = crossing
             /\ \A u \in Tokens : seen'.home[u] = IF u = t THEN where ELSE seen.home[u]
  BY <1>t, <1>3 DEF SessTypes
<1>4. CASE RegisterAdd(a)
  <2>1. CASE Do(a, "keep") /\ sess' = [sess EXCEPT !.set = @ \cup {t}] /\ seen' = [seen EXCEPT !.crossed = crossing]
    <3> DEFINE x == act'[a]
    <3>1. IsActor(x) /\ act' = [act EXCEPT ![a] = x] /\ x.do = "keep" /\ x.tok = t
      BY <1>t, <1>2, <2>1, DoRow
    <3>2. /\ "out" \in DOMAIN seen' /\ "home" \in DOMAIN seen' /\ "crossed" \in DOMAIN seen' /\ "wiped" \in DOMAIN seen'
          /\ DOMAIN seen'.home = Tokens /\ seen'.wiped = seen.wiped /\ seen'.out = seen.out /\ seen'.crossed = crossing
          /\ seen'.home = seen.home
      BY <1>t, <2>1 DEF SessTypes
    <3>3. /\ "set" \in DOMAIN sess' /\ "tok" \in DOMAIN sess' /\ "local" \in DOMAIN sess'
          /\ sess'.set = sess.set \cup {t} /\ sess'.tok = sess.tok /\ sess'.local = sess.local
      BY <1>t, <2>1 DEF SessTypes
    <3>4. \A u \in Tokens : Home(u)' => Home(u) BY <3>2 DEF Home
    <3> HIDE DEF x
    <3> QED BY <1>1, <1>2, <3>1, <3>2, <3>3, <3>4, Registering
  <2>2. CASE Rest(a) /\ Registered(t, "local")
             /\ \E set \in Perhaps(sess.set, sess.set \cup {t}) : sess' = [sess EXCEPT !.set = set, !.local = @ \cup {t}]
    <3>1. act' = [act EXCEPT ![a] = Resting] BY <2>2 DEF Rest
    <3>2. seen' = [seen EXCEPT !.home[t] = "local", !.crossed = crossing] BY <2>2 DEF Registered
    <3>3. PICK set \in Perhaps(sess.set, sess.set \cup {t}) : sess' = [sess EXCEPT !.set = set, !.local = @ \cup {t}]
      BY <2>2
    <3>4. /\ "set" \in DOMAIN sess' /\ "tok" \in DOMAIN sess' /\ "local" \in DOMAIN sess'
          /\ sess.set \subseteq sess'.set /\ sess'.tok = sess.tok /\ sess'.local = sess.local \cup {t}
      BY <1>t, <3>3 DEF SessTypes, Perhaps
    <3>5. \A u \in Tokens : Home(u)' => Home(u) BY <1>3, <3>2 DEF Home
    <3> QED BY <1>1, <1>2, <1>3, <3>1, <3>2, <3>4, <3>5, RestingRow, Registering
  <2> QED BY <1>4, <2>1, <2>2 DEF RegisterAdd
<1>5. CASE RegisterToken(a)
  <2>0. act' = [act EXCEPT ![a] = Resting] /\ At(a, "keep") BY <1>5 DEF RegisterToken, Rest
  <2>1. CASE Registered(t, "redis") /\ sess' = [sess EXCEPT !.tok = @ \cup {t}]
    <3>1. seen' = [seen EXCEPT !.home[t] = "redis", !.crossed = crossing] BY <2>1 DEF Registered
    <3>2. /\ "set" \in DOMAIN sess' /\ "tok" \in DOMAIN sess' /\ "local" \in DOMAIN sess'
          /\ sess'.set = sess.set /\ sess'.tok = sess.tok \cup {t} /\ sess'.local = sess.local
      BY <1>t, <2>1 DEF SessTypes
    <3>5. SessHeld /\ t \notin seen.crossed => t \in Black \cup sess.set /\ ~Sweeping
      BY <2>0 DEF SessHeld, KeepHeld
    <3>6. \A u \in Tokens : Home(u)' => Home(u) \/ (u = t /\ t \notin seen.crossed)
      BY <1>3, <3>1 DEF Home
    <3>3. SessHeld => \A u \in Tokens : Home(u)' => Home(u) \/ (u \in Black \cup sess'.set /\ u \in sess'.tok /\ ~Sweeping)
      BY <3>2, <3>5, <3>6
    <3>4. \A u \in Tokens : seen'.home[u] = "local" /\ u \notin seen'.crossed => seen.home[u] = "local" /\ u \notin seen.crossed
      BY <1>3, <3>1
    <3> QED BY <1>1, <1>2, <1>3, <2>0, <3>1, <3>2, <3>3, <3>4, RestingRow, Registering
  <2>2. CASE Registered(t, "local")
             /\ \E tok \in Perhaps(sess.tok, sess.tok \cup {t}) : sess' = [sess EXCEPT !.tok = tok, !.local = @ \cup {t}]
    <3>1. seen' = [seen EXCEPT !.home[t] = "local", !.crossed = crossing] BY <2>2 DEF Registered
    <3>2. PICK tok \in Perhaps(sess.tok, sess.tok \cup {t}) : sess' = [sess EXCEPT !.tok = tok, !.local = @ \cup {t}]
      BY <2>2
    <3>3. /\ "set" \in DOMAIN sess' /\ "tok" \in DOMAIN sess' /\ "local" \in DOMAIN sess'
          /\ sess'.set = sess.set /\ sess.tok \subseteq sess'.tok /\ sess'.local = sess.local \cup {t}
      BY <1>t, <3>2 DEF SessTypes, Perhaps
    <3>4. \A u \in Tokens : Home(u)' => Home(u) BY <1>3, <3>1 DEF Home
    <3> QED BY <1>1, <1>2, <1>3, <2>0, <3>1, <3>3, <3>4, RestingRow, Registering
  <2> QED BY <1>5, <2>1, <2>2 DEF RegisterToken
<1> QED BY <1>4, <1>5

\* A revocation is in one of the two lists, and takes nothing from either.
LEMMA Revoking ==
  ASSUME SessTypes, NEW ts, Revoke(ts)
  PROVE  /\ "redis" \in DOMAIN black' /\ "local" \in DOMAIN black'
         /\ Black \subseteq Black' /\ ts \subseteq Black'
<1>1. CASE black' = [black EXCEPT !.redis = @ \cup ts] BY <1>1 DEF SessTypes, Black
<1>2. ASSUME NEW redisList \in Perhaps(black.redis, black.redis \cup ts),
             black' = [redis |-> redisList, local |-> black.local \cup ts]
      PROVE  /\ "redis" \in DOMAIN black' /\ "local" \in DOMAIN black'
             /\ Black \subseteq Black' /\ ts \subseteq Black'
  <2>1. black.redis \subseteq redisList BY DEF Perhaps
  <2> QED BY <1>2, <2>1 DEF Black
<1> QED BY <1>1, <1>2 DEF Revoke

\* Signing out takes away what is revoked by then, and sweeping what is not owed.
LEMMA Taking ==
  ASSUME SessInv, NEW a \in Actors, NEW x, IsActor(x), act' = [act EXCEPT ![a] = x],
         act[a].do \notin {"idle", "keep"}, x.do # "keep", crashes' = crashes,
         "redis" \in DOMAIN black' /\ "local" \in DOMAIN black', Black \subseteq Black',
         "out" \in DOMAIN seen' /\ "home" \in DOMAIN seen' /\ "crossed" \in DOMAIN seen' /\ "wiped" \in DOMAIN seen',
         seen'.home = seen.home, seen'.wiped = seen.wiped, seen'.crossed = seen.crossed,
         "set" \in DOMAIN sess' /\ "tok" \in DOMAIN sess' /\ "local" \in DOMAIN sess',
         x.do \in {"sweep", "forget"} => Sweeps(a) /\ x.due = act[a].due,
         x.do = "sweepLocal" => Sweeps(a) /\ x.due = {}, x.do # "drop",
         SessHeld =>
           /\ seen'.out \subseteq Black'
           /\ x.do = "unlist" => x.tok \in Black'
           /\ x.do = "revoke" => x.due \subseteq Black'
           /\ x.do = "forget" /\ x.cur \in Tokens /\ Owed(x.cur) => x.cur \in Black'
           /\ x.do \in {"sweep", "forget"} => \A t \in Tokens :
                t \in act[a].left /\ (t \in act[a].due \/ Home(t)) => t \in x.left \/ t \in Black'
           /\ \A t \in Tokens : t \in sess.tok \ sess'.tok /\ Owed(t) => t \in Black'
           /\ \A t \in sess.set \ sess'.set : t \in Black' \/ (Sweeping /\ ~(t \in Tokens /\ Home(t)))
           /\ \A t \in sess.local \ sess'.local : t \in Black'
  PROVE  SessInv'
<1>1. DOMAIN act = Actors /\ act'[a] = x /\ \A b \in Actors \ {a} : act'[b] = act[b]
  BY DEF SessInv, SessTypes
<1>2. SessTypes' BY <1>1 DEF SessInv, SessTypes
<1>3. Sweeping' => Sweeping BY <1>1 DEF Sweeping, Sweeps
<1>4. \A t \in Tokens : (Home(t)' <=> Home(t)) /\ (Owed(t)' => Owed(t)) /\ (LocalOwed(t)' => LocalOwed(t))
  <2>1. \A t \in Tokens : Home(t)' <=> Home(t) BY DEF Home
  <2>2. \A t \in Tokens : Owed(t)' => Owed(t) BY <1>1, <2>1 DEF Owed, Sweeps
  <2>3. \A t \in Tokens : LocalOwed(t)' => LocalOwed(t) BY <1>1 DEF LocalOwed, At
  <2> QED BY <2>1, <2>2, <2>3
<1>5. ASSUME SessHeld PROVE SessHeld'
  <2>1. OutIsBlack' BY <1>1, <1>5 DEF SessHeld, OutIsBlack, At
  <2>2. TokenHeld' BY <1>4, <1>5 DEF SessHeld, TokenHeld
  <2>3. SetHeld' BY <1>4, <1>5 DEF SessHeld, SetHeld
  <2>4. LeftHeld'
    <3> SUFFICES ASSUME NEW b \in Actors, NEW t \in Tokens, Sweeps(b)', t \in act'[b].due \/ Home(t)'
                 PROVE  t \in Black' \cup act'[b].left
      BY DEF LeftHeld
    <3>1. Sweeps(b) /\ (t \in act[b].due \/ Home(t)) BY <1>1, <1>4 DEF Sweeps
    <3>2. t \in Black \cup act[b].left BY <1>5, <3>1 DEF SessHeld, LeftHeld
    <3>3. CASE b = a BY <1>1, <1>5, <3>1, <3>2, <3>3 DEF Sweeps
    <3>4. CASE b # a BY <1>1, <3>2, <3>4
    <3> QED BY <3>3, <3>4
  <2>5. KeepHeld' BY <1>1, <1>3, <1>5 DEF SessHeld, KeepHeld, At
  <2>6. CurHeld' BY <1>1, <1>4, <1>5 DEF SessHeld, CurHeld, At
  <2>7. LocalHeld' BY <1>4, <1>5 DEF SessHeld, LocalHeld
  <2>8. DueHeld' BY <1>1, <1>5 DEF SessHeld, DueHeld, At
  <2> QED BY <2>1, <2>2, <2>3, <2>4, <2>5, <2>6, <2>7, <2>8 DEF SessHeld
<1> QED BY <1>2, <1>5 DEF SessInv

\* A sign-out: on the list first, then out of the registry (logout, revoke_current).
LEMMA LeaveKeeps == ASSUME SessInv, NEW a \in Actors, RevokeCurrent(a) \/ Unlist(a) PROVE SessInv'
<1>t. SessTypes /\ IsActor(act[a]) /\ DOMAIN act = Actors BY DEF SessInv, SessTypes
<1>c. crashes' = crashes BY DEF RevokeCurrent, Unlist, RestOfMarks
<1>1. CASE RevokeCurrent(a)
  <2>1. Do(a, "unlist") /\ Revoke({act[a].tok}) /\ UNCHANGED <<sess, seen>> /\ act[a].do = "revoke"
    BY <1>1 DEF RevokeCurrent, At
  <2> DEFINE x == act'[a]
  <2>2. IsActor(x) /\ act' = [act EXCEPT ![a] = x] /\ x.do = "unlist" /\ x.tok = act[a].tok
    BY <1>t, <2>1, DoRow
  <2>3. /\ "redis" \in DOMAIN black' /\ "local" \in DOMAIN black'
        /\ Black \subseteq Black' /\ act[a].tok \in Black'
    BY <1>t, <2>1, Revoking
  <2>4. SessHeld => seen'.out \subseteq Black' BY <2>1, <2>3 DEF SessHeld, OutIsBlack
  <2>5. /\ "out" \in DOMAIN seen' /\ "home" \in DOMAIN seen' /\ "crossed" \in DOMAIN seen' /\ "wiped" \in DOMAIN seen'
        /\ "set" \in DOMAIN sess' /\ "tok" \in DOMAIN sess' /\ "local" \in DOMAIN sess'
    BY <1>t, <2>1 DEF SessTypes
  <2> HIDE DEF x
  <2> QED BY <1>c, <2>1, <2>2, <2>3, <2>4, <2>5, Taking
<1>2. CASE Unlist(a)
  <2>1. act' = [act EXCEPT ![a] = Resting] /\ black' = black /\ act[a].do = "unlist"
    BY <1>2 DEF Unlist, Rest, At
  <2>2. /\ "set" \in DOMAIN sess' /\ "tok" \in DOMAIN sess' /\ "local" \in DOMAIN sess'
        /\ sess.set \ sess'.set \subseteq {act[a].tok} /\ sess.tok \ sess'.tok \subseteq {act[a].tok}
        /\ sess.local \ sess'.local \subseteq {act[a].tok}
    <3>1. CASE sess' = [sess EXCEPT !.set = @ \ {act[a].tok}, !.tok = @ \ {act[a].tok}]
      BY <1>t, <3>1 DEF SessTypes
    <3>2. ASSUME NEW set \in Perhaps(sess.set, sess.set \ {act[a].tok}),
                 sess' = [sess EXCEPT !.set = set, !.local = @ \ {act[a].tok}]
          PROVE  /\ "set" \in DOMAIN sess' /\ "tok" \in DOMAIN sess' /\ "local" \in DOMAIN sess'
                 /\ sess.set \ sess'.set \subseteq {act[a].tok} /\ sess.tok \ sess'.tok \subseteq {act[a].tok}
                 /\ sess.local \ sess'.local \subseteq {act[a].tok}
      BY <1>t, <3>2 DEF SessTypes, Perhaps
    <3> QED BY <1>2, <3>1, <3>2 DEF Unlist
  <2>3. seen' = [seen EXCEPT !.out = @ \cup {act[a].tok}] BY <1>2 DEF Unlist
  <2>4. /\ "out" \in DOMAIN seen' /\ "home" \in DOMAIN seen' /\ "crossed" \in DOMAIN seen' /\ "wiped" \in DOMAIN seen'
        /\ seen'.home = seen.home /\ seen'.wiped = seen.wiped /\ seen'.crossed = seen.crossed
        /\ seen'.out = seen.out \cup {act[a].tok}
    BY <1>t, <2>3 DEF SessTypes
  <2>5. Black' = Black /\ "redis" \in DOMAIN black' /\ "local" \in DOMAIN black'
    BY <1>t, <2>1 DEF Black, SessTypes
  <2>6. SessHeld => act[a].tok \in Black /\ seen.out \subseteq Black
    BY <2>1 DEF SessHeld, OutIsBlack, At
  <2> QED BY <1>c, <2>1, <2>2, <2>4, <2>5, <2>6, RestingRow, Taking
<1> QED BY <1>1, <1>2

\* Signing out everywhere: each member is revoked before it is forgotten.
LEMMA SweepKeeps ==
  ASSUME SessInv, NEW a \in Actors, Sweep(a) \/ Forget(a) \/ DropSet(a) \/ SweepLocal(a) PROVE SessInv'
<1>t. SessTypes /\ IsActor(act[a]) /\ DOMAIN act = Actors BY DEF SessInv, SessTypes
<1>c. crashes' = crashes /\ seen' = seen
  BY DEF Sweep, Forget, DropSet, SweepLocal, RestOfMarks
<1>s. /\ "out" \in DOMAIN seen' /\ "home" \in DOMAIN seen' /\ "crossed" \in DOMAIN seen' /\ "wiped" \in DOMAIN seen'
      /\ seen'.home = seen.home /\ seen'.wiped = seen.wiped /\ seen'.crossed = seen.crossed /\ seen'.out = seen.out
  BY <1>t, <1>c DEF SessTypes
<1>o. SessHeld => seen.out \subseteq Black BY DEF SessHeld, OutIsBlack
<1>b. black' = black => Black' = Black /\ "redis" \in DOMAIN black' /\ "local" \in DOMAIN black'
  BY <1>t DEF Black, SessTypes
<1>e. sess' = sess => /\ "set" \in DOMAIN sess' /\ "tok" \in DOMAIN sess' /\ "local" \in DOMAIN sess'
                      /\ sess'.set = sess.set /\ sess'.tok = sess.tok /\ sess'.local = sess.local
  BY <1>t DEF SessTypes
<1>1. ASSUME TurnLocal(a), Sweeps(a), black' = black, sess' = sess PROVE SessInv'
  <2> DEFINE x == [act[a] EXCEPT !.do = "sweepLocal", !.left = {}, !.due = {}, !.swept = "no"]
  <2>1. IsActor(x) /\ x.do = "sweepLocal" /\ x.due = {} BY <1>t DEF IsActor
  <2>2. act' = [act EXCEPT ![a] = x] BY <1>t, <1>1 DEF TurnLocal
  <2>3. act[a].do \notin {"idle", "keep"} BY <1>1 DEF Sweeps
  <2> HIDE DEF x
  <2> QED BY <1>1, <1>c, <1>s, <1>o, <1>b, <1>e, <2>1, <2>2, <2>3, Taking
<1>2. CASE Sweep(a)
  <2>1. Sweeps(a) /\ sess' = sess /\ act[a].do = "sweep" BY <1>2 DEF Sweep, Sweeps, At
  <2>2. CASE TurnLocal(a) /\ UNCHANGED black BY <1>1, <2>1, <2>2
  <2>3. ASSUME NEW t \in act[a].left, act' = [act EXCEPT ![a].do = "forget", ![a].cur = t, ![a].left = @ \ {t}],
               IF t \in sess.tok THEN Revoke({t}) ELSE UNCHANGED <<black, window>>
        PROVE  SessInv'
    <3> DEFINE x == [act[a] EXCEPT !.do = "forget", !.cur = t, !.left = act[a].left \ {t}]
    <3>1. /\ IsActor(x) /\ x.do = "forget" /\ x.due = act[a].due /\ x.cur = t /\ x.left = act[a].left \ {t}
      BY <1>t DEF IsActor
    <3>2. act' = [act EXCEPT ![a] = x] BY <1>t, <2>3
    <3>3. /\ "redis" \in DOMAIN black' /\ "local" \in DOMAIN black' /\ Black \subseteq Black'
          /\ t \in sess.tok => t \in Black'
      BY <1>t, <1>b, <2>3, Revoking
    <3>4. SessHeld /\ t \in Tokens /\ Owed(t) => t \in Black' BY <3>3 DEF SessHeld, TokenHeld
    <3>5. \A u \in Tokens : u \in act[a].due \/ Home(u) => Owed(u) BY <2>1 DEF Owed
    <3> HIDE DEF x
    <3> QED BY <1>c, <1>s, <1>o, <1>e, <2>1, <3>1, <3>2, <3>3, <3>4, <3>5, Taking
  <2> QED BY <1>2, <2>2, <2>3 DEF Sweep
<1>3. CASE Forget(a)
  <2>1. Sweeps(a) /\ black' = black /\ At(a, "forget") /\ act[a].do = "forget"
    BY <1>3 DEF Forget, Sweeps, At
  <2>2. CASE TurnLocal(a) /\ UNCHANGED sess BY <1>1, <2>1, <2>2
  <2>3. CASE Do(a, "sweep") /\ sess' = [sess EXCEPT !.tok = @ \ {act[a].cur}]
    <3> DEFINE x == act'[a]
    <3>1. /\ IsActor(x) /\ act' = [act EXCEPT ![a] = x] /\ x.do = "sweep" /\ x.due = act[a].due /\ x.left = act[a].left
      BY <1>t, <2>3, DoRow
    <3>2. /\ "set" \in DOMAIN sess' /\ "tok" \in DOMAIN sess' /\ "local" \in DOMAIN sess'
          /\ sess'.set = sess.set /\ sess'.local = sess.local /\ sess'.tok = sess.tok \ {act[a].cur}
      BY <1>t, <2>3 DEF SessTypes
    <3>3. SessHeld => \A t \in Tokens : t \in sess.tok \ sess'.tok /\ Owed(t) => t \in Black
      BY <2>1, <3>2 DEF SessHeld, CurHeld
    <3> HIDE DEF x
    <3> QED BY <1>b, <1>c, <1>s, <1>o, <2>1, <3>1, <3>2, <3>3, Taking
  <2> QED BY <1>3, <2>2, <2>3 DEF Forget
<1>4. CASE DropSet(a)
  <2>1. /\ Sweeps(a) /\ black' = black /\ Sweeping /\ act[a].do = "sweep" /\ act[a].left = {}
    BY <1>4 DEF DropSet, Sweeps, At, Sweeping
  <2>2. CASE TurnLocal(a) /\ UNCHANGED sess BY <1>1, <2>1, <2>2
  <2>3. CASE Do(a, "revoke") /\ sess' = [sess EXCEPT !.set = {}]
    <3> DEFINE x == act'[a]
    <3>1. /\ IsActor(x) /\ act' = [act EXCEPT ![a] = x] /\ x.do = "revoke" /\ x.due = act[a].due
      BY <1>t, <2>3, DoRow
    <3>2. /\ "set" \in DOMAIN sess' /\ "tok" \in DOMAIN sess' /\ "local" \in DOMAIN sess'
          /\ sess'.tok = sess.tok /\ sess'.local = sess.local
      BY <1>t, <2>3 DEF SessTypes
    <3>3. SessHeld => \A t \in Tokens : t \in act[a].due \/ Home(t) => t \in Black
      BY <2>1 DEF SessHeld, LeftHeld
    <3>4. SessHeld => x.due \subseteq Black BY <1>t, <3>1, <3>3 DEF IsActor
    <3> HIDE DEF x
    <3> QED BY <1>b, <1>c, <1>s, <1>o, <2>1, <3>1, <3>2, <3>3, <3>4, Taking
  <2> QED BY <1>4, <2>2, <2>3 DEF DropSet
<1>5. CASE SweepLocal(a)
  <2>1. /\ Do(a, "revoke") /\ Revoke(sess.local) /\ sess' = [sess EXCEPT !.local = {}]
        /\ At(a, "sweepLocal") /\ act[a].do = "sweepLocal"
    BY <1>5 DEF SweepLocal, At
  <2> DEFINE x == act'[a]
  <2>2. /\ IsActor(x) /\ act' = [act EXCEPT ![a] = x] /\ x.do = "revoke" /\ x.due = act[a].due
    BY <1>t, <2>1, DoRow
  <2>3. /\ "redis" \in DOMAIN black' /\ "local" \in DOMAIN black'
        /\ Black \subseteq Black' /\ sess.local \subseteq Black'
    BY <1>t, <2>1, Revoking
  <2>4. /\ "set" \in DOMAIN sess' /\ "tok" \in DOMAIN sess' /\ "local" \in DOMAIN sess'
        /\ sess'.set = sess.set /\ sess'.tok = sess.tok
    BY <1>t, <2>1 DEF SessTypes
  <2>5. SessHeld => \A t \in Tokens : t \in act[a].due => t \in Black \cup sess.local
    BY <2>1 DEF SessHeld, LocalHeld, LocalOwed
  <2>6. SessHeld => x.due \subseteq Black' BY <1>t, <2>2, <2>3, <2>5 DEF IsActor
  <2> HIDE DEF x
  <2> QED BY <1>c, <1>s, <1>o, <2>1, <2>2, <2>3, <2>4, <2>6, Taking
<1> QED BY <1>2, <1>3, <1>4, <1>5

\* It starts with what is owed: whatever Redis, or the process, has registered by then.
LEMMA LogoutAllKeeps == ASSUME SessInv, NEW a \in Actors, NEW t \in issued, LogoutAll(a, t) PROVE SessInv'
<1>t. SessTypes /\ IsActor(act[a]) /\ DOMAIN act = Actors BY DEF SessInv, SessTypes
<1>1. At(a, "idle") /\ UNCHANGED <<sess, black, crashes>> BY DEF LogoutAll, RestOfMarks
<1>2. seen' = [seen EXCEPT !.crossed = @ \cup {act[b].tok : b \in {c \in Actors : At(c, "keep")}}]
  BY DEF LogoutAll
<1>3. /\ "out" \in DOMAIN seen' /\ "home" \in DOMAIN seen' /\ "crossed" \in DOMAIN seen' /\ "wiped" \in DOMAIN seen'
      /\ seen'.home = seen.home /\ seen'.wiped = seen.wiped /\ seen'.out = seen.out
      /\ seen.crossed \subseteq seen'.crossed
      /\ \A b \in Actors : At(b, "keep") => act[b].tok \in seen'.crossed
  BY <1>t, <1>2 DEF SessTypes
<1>4. \A where : Due(where) \subseteq Tokens /\ \A u \in Due(where) : seen.home[u] = where /\ u \notin seen.crossed
  BY DEF Due
<1>5. PICK x : /\ IsActor(x) /\ act' = [act EXCEPT ![a] = x]
               /\ \/ x.do = "sweep" /\ x.left = sess.set /\ x.due = Due("redis")
                  \/ x.do = "sweepLocal" /\ x.due = Due("local")
  <2>1. CASE act' = [act EXCEPT ![a] = [@ EXCEPT !.do = "sweep", !.tok = t, !.left = sess.set,
                                             !.due = Due("redis"), !.swept = "redis"]]
    <3> DEFINE x == [act[a] EXCEPT !.do = "sweep", !.tok = t, !.left = sess.set, !.due = Due("redis"), !.swept = "redis"]
    <3>1. IsActor(x) /\ x.do = "sweep" /\ x.left = sess.set /\ x.due = Due("redis")
      BY <1>t, <1>4 DEF IsActor
    <3>2. act' = [act EXCEPT ![a] = x] BY <1>t, <2>1
    <3> HIDE DEF x
    <3> QED BY <3>1, <3>2
  <2>2. CASE act' = [act EXCEPT ![a] = [@ EXCEPT !.do = "sweepLocal", !.tok = t, !.due = Due("local"), !.swept = "local"]]
    <3> DEFINE x == [act[a] EXCEPT !.do = "sweepLocal", !.tok = t, !.due = Due("local"), !.swept = "local"]
    <3>1. IsActor(x) /\ x.do = "sweepLocal" /\ x.due = Due("local") BY <1>t, <1>4 DEF IsActor
    <3>2. act' = [act EXCEPT ![a] = x] BY <1>t, <2>2
    <3> HIDE DEF x
    <3> QED BY <3>1, <3>2
  <2> QED BY <2>1, <2>2 DEF LogoutAll
<1>6. act'[a] = x /\ \A b \in Actors \ {a} : act'[b] = act[b] BY <1>t, <1>5
<1>7. SessTypes' BY <1>t, <1>1, <1>3, <1>5, <1>6 DEF SessTypes
<1>8. Black' = Black BY <1>1 DEF Black
<1>9. \A u \in Tokens : (Home(u)' => Home(u)) /\ (Owed(u)' => Owed(u)) /\ (LocalOwed(u)' => LocalOwed(u))
  <2>1. \A u \in Tokens : Home(u)' => Home(u) BY <1>3 DEF Home
  <2>2. \A u \in Tokens : u \in Due("redis") => Home(u) BY <1>4 DEF Home
  <2>3. \A u \in Tokens : u \in Due("local") => LocalOwed(u) BY <1>4 DEF LocalOwed
  <2>4. \A u \in Tokens : Owed(u)' => Owed(u) BY <1>5, <1>6, <2>1, <2>2 DEF Owed, Sweeps
  <2>5. \A u \in Tokens : LocalOwed(u)' => LocalOwed(u)
    <3> SUFFICES ASSUME NEW u \in Tokens, LocalOwed(u)', ~LocalOwed(u) PROVE FALSE OBVIOUS
    <3>1. PICK b \in Actors : act'[b].do = "sweepLocal" /\ u \in act'[b].due BY <1>3 DEF LocalOwed, At
    <3>2. CASE b = a BY <1>5, <1>6, <2>3, <3>1, <3>2
    <3>3. CASE b # a BY <1>6, <3>1, <3>3 DEF LocalOwed, At
    <3> QED BY <3>2, <3>3
  <2> QED BY <2>1, <2>4, <2>5
<1>10. ASSUME SessHeld PROVE SessHeld'
  <2>1. OutIsBlack' BY <1>3, <1>5, <1>6, <1>8, <1>10 DEF SessHeld, OutIsBlack, At
  <2>2. TokenHeld' /\ SetHeld' BY <1>1, <1>8, <1>9, <1>10 DEF SessHeld, TokenHeld, SetHeld
  <2>3. LeftHeld'
    <3> SUFFICES ASSUME NEW b \in Actors, NEW u \in Tokens, Sweeps(b)', u \in act'[b].due \/ Home(u)'
                 PROVE  u \in Black' \cup act'[b].left
      BY DEF LeftHeld
    <3>1. CASE b = a
      <4>1. Home(u) /\ act'[b].left = sess.set BY <1>4, <1>5, <1>6, <1>9, <3>1 DEF Sweeps, Home
      <4> QED BY <1>8, <1>10, <4>1 DEF SessHeld, SetHeld
    <3>2. CASE b # a BY <1>6, <1>8, <1>9, <1>10, <3>2 DEF SessHeld, LeftHeld, Sweeps
    <3> QED BY <3>1, <3>2
  <2>4. KeepHeld' BY <1>3, <1>5, <1>6 DEF KeepHeld, At
  <2>5. CurHeld' BY <1>5, <1>6, <1>8, <1>9, <1>10 DEF SessHeld, CurHeld, At
  <2>6. LocalHeld' BY <1>1, <1>8, <1>9, <1>10 DEF SessHeld, LocalHeld
  <2>7. DueHeld' BY <1>5, <1>6, <1>8, <1>10 DEF SessHeld, DueHeld, At
  <2> QED BY <2>1, <2>2, <2>3, <2>4, <2>5, <2>6, <2>7 DEF SessHeld
<1> QED BY <1>1, <1>3, <1>7, <1>10 DEF SessInv

\* Redis that loses what it held, and a process that dies, end what is promised.
LEMMA TroubleKeeps == ASSUME SessInv, RedisFlips \/ ProcessDies PROVE SessInv'
<1>t. SessTypes BY DEF SessInv
<1>1. CASE RedisFlips
  <2>1. UNCHANGED <<act, crashes>> BY <1>1 DEF RedisFlips, Flip
  <2>2. CASE UNCHANGED <<sess, black, seen>>
    <3>1. /\ "out" \in DOMAIN seen' /\ "home" \in DOMAIN seen' /\ "crossed" \in DOMAIN seen' /\ "wiped" \in DOMAIN seen'
      BY <1>t, <2>2 DEF SessTypes
    <3> QED BY <2>1, <2>2, <3>1, StillKeeps
  <2>3. CASE /\ sess' = [sess EXCEPT !.set = {}, !.tok = {}]
             /\ black' = [black EXCEPT !.redis = {}]
             /\ seen' = [seen EXCEPT !.wiped = TRUE]
    <3>1. SessTypes' /\ seen'.wiped = TRUE BY <1>t, <2>1, <2>3 DEF SessTypes
    <3> QED BY <3>1 DEF SessInv
  <2> QED BY <1>1, <2>2, <2>3 DEF RedisFlips
<1>2. CASE ProcessDies
  <2>1. crashes \in Nat /\ crashes' = crashes + 1 BY <1>2, <1>t DEF ProcessDies, Crash, SessTypes
  <2>2. /\ act' = [b \in Actors |-> Resting] /\ sess' = [sess EXCEPT !.local = {}] /\ black' = [black EXCEPT !.local = {}]
    BY <1>2 DEF ProcessDies
  <2>3. PICK home \in [Tokens -> UNION {{"none"}, {seen.home[t] : t \in Tokens}}] : seen' = [seen EXCEPT !.home = home]
    <3> DEFINE home == [t \in Tokens |-> IF seen.home[t] = "local" THEN "none" ELSE seen.home[t]]
    <3>1. seen' = [seen EXCEPT !.home = home] BY <1>2 DEF ProcessDies
    <3>2. home \in [Tokens -> UNION {{"none"}, {seen.home[t] : t \in Tokens}}] OBVIOUS
    <3> HIDE DEF home
    <3> QED BY <3>1, <3>2
  <2>4. SessTypes'
    <3>1. "out" \in DOMAIN seen' /\ "home" \in DOMAIN seen' /\ "crossed" \in DOMAIN seen' /\ "wiped" \in DOMAIN seen'
          /\ seen'.home = home /\ seen'.wiped = seen.wiped
      BY <1>t, <2>3 DEF SessTypes
    <3>2. DOMAIN seen'.home = Tokens BY <2>3, <3>1
    <3>3. DOMAIN act' = Actors /\ \A b \in Actors : IsActor(act'[b]) BY <2>2, RestingRow
    <3> QED BY <1>t, <2>1, <2>2, <3>1, <3>2, <3>3 DEF SessTypes
  <2> QED BY <2>1, <2>4 DEF SessInv
<1> QED BY <1>1, <1>2

\* Nobody is signed in when the process starts.
LEMMA SessStart == SessInit => SessInv
<1> SUFFICES ASSUME SessInit PROVE SessInv OBVIOUS
<1>1. /\ act = [b \in Actors |-> Resting] /\ crashes = 0
      /\ sess = [set |-> {}, tok |-> {}, local |-> {}] /\ black = [redis |-> {}, local |-> {}]
      /\ seen.out = {} /\ seen.home = [t \in Tokens |-> "none"] /\ seen.crossed = {} /\ seen.wiped = FALSE
      /\ "out" \in DOMAIN seen /\ "home" \in DOMAIN seen /\ "crossed" \in DOMAIN seen /\ "wiped" \in DOMAIN seen
  BY DEF SessInit, Init
<1>2. \A b \in Actors : IsActor(act[b]) /\ act[b].do = "idle" BY <1>1, RestingRow
<1>3. SessTypes BY <1>1, <1>2 DEF SessTypes
<1>4. \A t \in Tokens : ~Home(t) /\ ~Owed(t) /\ ~LocalOwed(t)
  BY <1>1, <1>2 DEF Home, Owed, LocalOwed, Sweeps, At
<1>5. SessHeld
  BY <1>1, <1>2, <1>4
  DEF SessHeld, OutIsBlack, TokenHeld, SetHeld, LeftHeld, KeepHeld, CurHeld, LocalHeld, DueHeld, At,
      Sweeps
<1> QED BY <1>3, <1>5 DEF SessInv

\* Every step of the sessions, of the windows and of what is around them.
LEMMA SessKeeps == SessInv /\ [SessNext]_all => SessInv'
<1> SUFFICES ASSUME SessInv, [SessNext]_all PROVE SessInv' OBVIOUS
<1>1. CASE UNCHANGED all
  <2>1. UNCHANGED <<act, sess, black, seen, crashes>> BY <1>1 DEF all, mine, vars
  <2>2. "out" \in DOMAIN seen' /\ "home" \in DOMAIN seen' /\ "crossed" \in DOMAIN seen' /\ "wiped" \in DOMAIN seen'
    BY <2>1 DEF SessInv, SessTypes
  <2> QED BY <2>1, <2>2, StillKeeps
<1>2. CASE MarksStep \/ Ticks \/ Later \/ \E i \in Addresses : AskPublic(i) BY <1>2, MarksKeep
<1>3. CASE RedisFlips \/ ProcessDies BY <1>3, TroubleKeeps
<1>4. ASSUME NEW a \in Actors, ActorStep(a) PROVE SessInv'
  BY <1>4, AskKeeps, RegisterKeeps, LeaveKeeps, SweepKeeps, LogoutAllKeeps DEF ActorStep
<1> QED BY <1>1, <1>2, <1>3, <1>4 DEF SessNext

\* For any number of devices, tokens and failures, and a Redis that comes and goes as long
\* as it loses nothing: who has signed out stays out, also everywhere (LogoutHolds).
THEOREM LogoutsHold == SessSpec => []LogoutHolds
<1>1. SessInv => LogoutHolds
  BY DEF SessInv, SessHeld, OutIsBlack, DueHeld, Black, LogoutHolds, Refused
<1> QED BY <1>1, SessStart, SessKeeps, PTL DEF SessSpec

-----------------------------------------------------------------------------
(* What a window counts: Sessions. *)

\* What runs out last of a finite list of candidates: the well-founded order of the
\* library, on the intervals that are left.
LEMMA LastOfThem ==
  ASSUME NEW n \in Nat, NEW K \in SUBSET (0 .. n), 0 \in K
  PROVE  \E k \in K : k = n \/ k + 1 \notin K
<1> DEFINE S == 1 .. n
           T == {(k + 1) .. n : k \in K}
<1>1. IsFiniteSet(S) BY FS_Interval
<1>2. IsWellFoundedOn(StrictSubsetOrdering(S), SUBSET S)
  BY <1>1, FS_StrictSubsetOrderingWellFounded, FS_FiniteSubsetsOfFinite
<1>3. T \subseteq SUBSET S /\ T # {} BY DEF S
<1>4. PICK x \in T : \A y \in T : ~ (<<y, x>> \in StrictSubsetOrdering(S))
  BY <1>2, <1>3, WFMin
<1>5. PICK k \in K : x = (k + 1) .. n BY <1>4
<1>6. k \in 0 .. n OBVIOUS
<1>7. ASSUME k # n, k + 1 \in K PROVE FALSE
  <2>1. k < n BY <1>6, <1>7
  <2> DEFINE y == (k + 2) .. n
  <2>2. y = ((k + 1) + 1) .. n BY <1>6
  <2>3. y \in T BY <1>7, <2>2
  <2>4. y \subseteq x /\ k + 1 \in x /\ k + 1 \notin y BY <1>5, <1>6, <2>1
  <2>5. y \subseteq S /\ x \subseteq S BY <1>5, <1>6 DEF S
  <2> HIDE DEF y, S, T
  <2>6. <<y, x>> \in StrictSubsetOrdering(S) BY <2>4, <2>5 DEF StrictSubsetOrdering
  <2> QED BY <1>4, <2>3, <2>6
<1> QED BY <1>6, <1>7

\* Counting what is recent in a list of times.
LEMMA RecentBounds ==
  ASSUME NEW s \in Seq(Nat), NEW t \in Int
  PROVE  /\ Recent(s, t) \in Nat /\ Recent(s, t) <= Len(s)
         /\ IsFiniteSet({i \in DOMAIN s : s[i] > t})
         /\ \A u \in Int : u >= t => Recent(s, u) <= Recent(s, t)
<1>1. DOMAIN s = 1 .. Len(s) /\ Len(s) \in Nat OBVIOUS
<1>2. IsFiniteSet(1 .. Len(s)) /\ Cardinality(1 .. Len(s)) = Len(s) BY <1>1, FS_Interval
<1> DEFINE A == {i \in DOMAIN s : s[i] > t}
<1>3. A \subseteq 1 .. Len(s) BY <1>1
<1>4. IsFiniteSet(A) /\ Cardinality(A) <= Len(s) BY <1>2, <1>3, FS_Subset
<1>5. Cardinality(A) \in Nat BY <1>4, FS_CardinalityType
<1>6. ASSUME NEW u \in Int, u >= t PROVE Recent(s, u) <= Cardinality(A)
  <2> DEFINE B == {i \in DOMAIN s : s[i] > u}
  <2>1. ASSUME NEW i \in DOMAIN s, s[i] > u PROVE s[i] > t BY <1>6, <2>1
  <2>2. B \subseteq A BY <2>1
  <2> HIDE DEF A, B
  <2>3. Cardinality(B) <= Cardinality(A) BY <1>4, <2>2, FS_Subset
  <2> QED BY <2>3 DEF Recent, B
<1> QED BY <1>4, <1>5, <1>6 DEF Recent

\* One time more counts once, if it is after.
LEMMA RecentAppended ==
  ASSUME NEW s \in Seq(Nat), NEW n \in Nat, NEW t \in Int
  PROVE  Recent(Append(s, n), t) = Recent(s, t) + (IF n > t THEN 1 ELSE 0)
<1> DEFINE A == {i \in DOMAIN s : s[i] > t}
           B == {i \in DOMAIN Append(s, n) : Append(s, n)[i] > t}
<1>1. IsFiniteSet(A) /\ Cardinality(A) \in Nat BY RecentBounds DEF Recent
<1>2. DOMAIN s = 1 .. Len(s) /\ DOMAIN Append(s, n) = 1 .. Len(s) + 1 /\ Len(s) \in Nat OBVIOUS
<1>3. \A i \in 1 .. Len(s) : Append(s, n)[i] = s[i] OBVIOUS
<1>4. Append(s, n)[Len(s) + 1] = n OBVIOUS
<1>5. B = IF n > t THEN A \cup {Len(s) + 1} ELSE A BY <1>2, <1>3, <1>4
<1>6. Len(s) + 1 \notin A BY <1>2
<1>7. Cardinality(A \cup {Len(s) + 1}) = Cardinality(A) + 1 BY <1>1, <1>6, FS_AddElement
<1> HIDE DEF A, B
<1>8. Cardinality(B) = Cardinality(A) + (IF n > t THEN 1 ELSE 0) BY <1>1, <1>5, <1>7
<1> QED BY <1>8 DEF Recent, A, B

\* Taking the outdated ones off the front loses nothing that is recent.
LEMMA RecentLeft ==
  ASSUME NEW s \in Seq(Nat), NEW cutoff \in Int
  PROVE  /\ Unexpired(s, cutoff) \in Seq(Nat)
         /\ \A m \in Int : (\A i \in DOMAIN s : s[i] <= m)
                           => \A i \in DOMAIN Unexpired(s, cutoff) : Unexpired(s, cutoff)[i] <= m
         /\ \A t \in Int : t >= cutoff => Recent(s, t) <= Recent(Unexpired(s, cutoff), t)
<1> DEFINE Front(k) == \A i \in 1 .. k : s[i] <= cutoff
           K == {k \in 0 .. Len(s) : Front(k)}
           Fits(k) == Front(k) /\ (k < Len(s) => s[k + 1] > cutoff)
           gone == CHOOSE k \in 0 .. Len(s) : Fits(k)
           rest == SubSeq(s, gone + 1, Len(s))
<1>1. Len(s) \in Nat /\ DOMAIN s = 1 .. Len(s) /\ \A i \in 1 .. Len(s) : s[i] \in Nat OBVIOUS
<1>2. 0 \in K BY <1>1
<1>3. PICK k \in 0 .. Len(s) : k \in K /\ (k = Len(s) \/ k + 1 \notin K)
  <2> HIDE DEF K
  <2>1. K \in SUBSET (0 .. Len(s)) BY DEF K
  <2> QED BY <1>1, <1>2, <2>1, LastOfThem
<1>4. k \in 0 .. Len(s) /\ Fits(k)
  <2>1. k \in 0 .. Len(s) /\ Front(k) BY <1>3
  <2>2. ASSUME k < Len(s), ~(s[k + 1] > cutoff) PROVE FALSE
    <3>1. k + 1 \in 1 .. Len(s) /\ s[k + 1] \in Nat BY <1>1, <2>1, <2>2
    <3>2. s[k + 1] <= cutoff BY <2>2, <3>1
    <3>3. \A i \in 1 .. (k + 1) : i \in 1 .. k \/ i = k + 1 BY <2>1
    <3>4. Front(k + 1) BY <2>1, <3>2, <3>3
    <3>5. k + 1 \in K BY <1>1, <2>1, <2>2, <3>4
    <3>6. k # Len(s)
      <4>1. k < Len(s) /\ Len(s) \in Nat BY <1>1, <2>2, Zenon
      <4> QED BY <4>1
    <3> HIDE DEF K
    <3> QED BY <1>3, <3>5, <3>6, Zenon
  <2> QED BY <2>1, <2>2
<1>5. gone \in 0 .. Len(s) /\ Fits(gone)
  <2> HIDE DEF Fits
  <2> QED BY <1>4, Zenon
<1>6. Unexpired(s, cutoff) = rest BY Zenon DEF Unexpired
<1> HIDE DEF gone, K
<1>7. /\ rest \in Seq(Nat) /\ Len(rest) = Len(s) - gone /\ DOMAIN rest = 1 .. (Len(s) - gone)
      /\ \A j \in 1 .. (Len(s) - gone) : rest[j] = s[gone + j]
  <2>1. gone + 1 \in 1 .. Len(s) + 1 /\ Len(s) \in (gone + 1) - 1 .. Len(s) BY <1>1, <1>5
  <2>2. \A i \in gone + 1 .. Len(s) : s[i] \in Nat BY <1>1, <1>5
  <2>3. gone + 1 \in Int /\ Len(s) \in Int BY <1>1, <1>5
  <2>4. /\ rest \in Seq(Nat) /\ Len(rest) = IF gone + 1 <= Len(s) THEN Len(s) - (gone + 1) + 1 ELSE 0
        /\ \A j \in 1 .. Len(s) - (gone + 1) + 1 : rest[j] = s[gone + 1 + j - 1]
    BY <2>2, <2>3, SubSeqProperties DEF rest
  <2>5. Len(rest) = Len(s) - gone
    <3>1. Len(s) \in Nat /\ gone \in 0 .. Len(s) BY <1>1, <1>5
    <3> QED BY <2>4, <3>1
  <2>6. DOMAIN rest = 1 .. (Len(s) - gone) BY <2>4, <2>5
  <2>7. Len(s) - (gone + 1) + 1 = Len(s) - gone BY <1>1, <1>5
  <2>8. ASSUME NEW j \in 1 .. (Len(s) - gone) PROVE rest[j] = s[gone + j]
    <3>1. gone + 1 + j - 1 = gone + j BY <1>1, <1>5
    <3> QED BY <2>4, <2>7, <3>1
  <2> QED BY <2>4, <2>5, <2>6, <2>8
<1> HIDE DEF rest
<1>8. ASSUME NEW m \in Int, \A i \in DOMAIN s : s[i] <= m, NEW j \in DOMAIN rest
      PROVE  rest[j] <= m
  <2>1. j \in 1 .. (Len(s) - gone) /\ rest[j] = s[gone + j] BY <1>7
  <2>2. gone + j \in 1 .. Len(s) BY <1>1, <1>5, <2>1
  <2> QED BY <1>1, <1>8, <2>1, <2>2
<1>9. ASSUME NEW t \in Int, t >= cutoff PROVE Recent(s, t) <= Recent(rest, t)
  <2> DEFINE A == {i \in DOMAIN s : s[i] > t}
             B == {j \in DOMAIN rest : rest[j] > t}
             f == [i \in A |-> i - gone]
  <2>1. IsFiniteSet(A) /\ IsFiniteSet(B) BY <1>7, RecentBounds
  <2>2. \A i \in A : i \in gone + 1 .. Len(s)
    <3> TAKE i \in A
    <3>1. i \in 1 .. Len(s) /\ s[i] > t /\ s[i] \in Nat BY <1>1
    <3>2. i \notin 1 .. gone BY <1>5, <1>9, <3>1
    <3> QED BY <1>1, <1>5, <3>1, <3>2
  <2>3. \A i \in A : i - gone \in B
    <3> TAKE i \in A
    <3>1. i \in gone + 1 .. Len(s) /\ s[i] > t BY <2>2
    <3>2. i - gone \in 1 .. (Len(s) - gone) /\ gone + (i - gone) = i BY <1>1, <1>5, <3>1
    <3> QED BY <1>7, <3>1, <3>2
  <2>4. f \in Injection(A, B)
    <3>1. f \in [A -> B] BY <2>3
    <3>2. \A x, y \in A : f[x] = f[y] => x = y BY <1>5, <2>2
    <3> HIDE DEF f, A, B
    <3> QED BY <3>1, <3>2 DEF Injection, IsInjective
  <2>5. Cardinality(A) <= Cardinality(B)
    <3> HIDE DEF f, A, B
    <3> QED BY <2>1, <2>4, FS_Injection
  <2> QED BY <2>5 DEF Recent
<1> QED BY <1>6, <1>7, <1>8, <1>9

-----------------------------------------------------------------------------
(* The day's quota: the day's bucket holds every run that still counts. *)

DayHits == buckets["day"].hits
QuotaTypes ==
  /\ now \in Nat
  /\ buckets \in [Buckets -> [until : Nat, hits : Seq(Nat)]]
  /\ "runs" \in DOMAIN seen /\ "dropped" \in DOMAIN seen /\ seen.runs \in Seq(Nat)
\* Runs are only counted in the scene that is about them.
InScene ==
  /\ scene # "quota" => seen.runs = <<>>
  /\ \A a \in Actors : (At(a, "day") => scene = "quota") /\ (At(a, "wrong") => scene = "sessions")
\* Nothing in the day's bucket is of the future, and it runs out with the last of them.
DayRow == \A i \in DOMAIN DayHits : DayHits[i] <= now /\ DayHits[i] + Day <= buckets["day"].until
RunsCounted ==
  crashes = 0 /\ ~seen.dropped =>
    /\ \A t \in Int : t >= now - Day => Recent(seen.runs, t) <= Recent(DayHits, t)
    /\ Recent(seen.runs, now - Day) <= DayLimit
QuotaInv == QuotaTypes /\ InScene /\ DayRow /\ RunsCounted

\* What making room may do to the day's bucket.
LEMMA RoomMade ==
  ASSUME QuotaTypes, DayRow, NEW given \in MakeRoom, "day" \in given
  PROVE  GaveUpDay(given) \/ \A i \in DOMAIN DayHits : DayHits[i] <= now - Day
<1>1. CASE "day" \in Ripe
  <2>1. buckets["day"].until <= now BY <1>1 DEF Ripe
  <2>2. Day \in Nat /\ "day" \in Buckets BY SessionsAssumption DEF Buckets
  <2>3. buckets["day"].until \in Nat /\ DayHits \in Seq(Nat) /\ now \in Nat BY <2>2 DEF QuotaTypes, DayHits
  <2>4. ASSUME NEW i \in DOMAIN DayHits PROVE DayHits[i] <= now - Day
    <3>1. DayHits[i] \in Nat /\ DayHits[i] + Day <= buckets["day"].until BY <2>3 DEF DayRow
    <3> QED BY <2>1, <2>2, <2>3, <3>1
  <2> QED BY <2>4
<1>2. CASE "day" \notin Ripe
  <2>1. MakeRoom # {{}} BY Zenon
  <2>2. PICK g \in Soonest(Live \ Ripe) : given = Ripe \cup g BY <2>1 DEF MakeRoom
  <2>3. "day" \in g BY <1>2, <2>2
  <2> QED BY <1>2, <2>2, <2>3 DEF GaveUpDay
<1> QED BY <1>1, <1>2

\* A hit in any window: the day's bucket keeps what still counts, unless it was given
\* up; and if it was the one that was hit, it has counted the hit.
LEMMA HitKeepsDay ==
  ASSUME QuotaTypes, DayRow, NEW b \in Buckets, NEW given \in MakeRoom, Hit(b, given), now' = now
  PROVE  /\ buckets' \in [Buckets -> [until : Nat, hits : Seq(Nat)]] /\ DayRow'
         /\ \/ GaveUpDay(given)
            \/ \A t \in Int : t >= now - Day =>
                 /\ Recent(DayHits, t) <= Recent(DayHits', t)
                 /\ b = "day" => Recent(DayHits, t) + (IF now > t THEN 1 ELSE 0) <= Recent(DayHits', t)
<1> DEFINE room == [c \in Buckets |-> IF c \in given THEN Absent ELSE buckets[c]]
           old == room[b].hits
           kept == Unexpired(Append(old, now), now - Length(b))
           new == [until |-> now + Length(b), hits |-> kept]
<1>1. now \in Nat /\ Day \in Nat /\ "day" \in Buckets /\ Length("day") = Day
  BY SessionsAssumption DEF QuotaTypes, Buckets, Length
<1>2. Length(b) \in Nat
  BY SessionsAssumption DEF Length
<1>3. buckets' = [room EXCEPT ![b] = new] BY DEF Hit
<1>4. Absent \in [until : Nat, hits : Seq(Nat)] /\ Absent.hits = <<>> BY DEF Absent
<1>5. room \in [Buckets -> [until : Nat, hits : Seq(Nat)]] BY <1>4 DEF QuotaTypes
<1>6. old \in Seq(Nat) BY <1>5
<1> HIDE DEF old, room
<1>7. Append(old, now) \in Seq(Nat) /\ now - Length(b) \in Int BY <1>1, <1>2, <1>6
<1>8. kept \in Seq(Nat) BY <1>7, RecentLeft
<1> HIDE DEF kept
<1>9. new \in [until : Nat, hits : Seq(Nat)] BY <1>1, <1>2, <1>8
<1>10. buckets' \in [Buckets -> [until : Nat, hits : Seq(Nat)]] BY <1>3, <1>5, <1>9
<1>11. buckets'["day"] = IF b = "day" THEN new ELSE room["day"]
  <2> HIDE DEF new
  <2> QED BY <1>1, <1>3, <1>5
<1>12. room["day"] = IF "day" \in given THEN Absent ELSE buckets["day"] BY <1>1 DEF room
<1> DEFINE was == room["day"].hits
<1>13. was \in Seq(Nat) /\ DayHits \in Seq(Nat) BY <1>1, <1>5 DEF QuotaTypes, DayHits
<1>14. \A i \in DOMAIN was : was[i] <= now /\ was[i] + Day <= room["day"].until
  BY <1>4, <1>12 DEF DayRow, DayHits
<1>15. GaveUpDay(given) \/ \A t \in Int : t >= now - Day => Recent(DayHits, t) <= Recent(was, t)
  <2>1. CASE "day" \notin given
    <3>1. was = DayHits BY <1>12, <2>1 DEF DayHits
    <3>2. \A t \in Int : Recent(DayHits, t) \in Nat BY <1>13, RecentBounds
    <3> HIDE DEF was
    <3> QED BY <3>1, <3>2
  <2>2. CASE "day" \in given
    <3>1. GaveUpDay(given) \/ \A i \in DOMAIN DayHits : DayHits[i] <= now - Day BY <2>2, RoomMade
    <3>2. ASSUME \A i \in DOMAIN DayHits : DayHits[i] <= now - Day, NEW t \in Int, t >= now - Day
          PROVE  Recent(DayHits, t) <= Recent(was, t)
      <4>1. ASSUME NEW i \in DOMAIN DayHits PROVE ~(DayHits[i] > t)
        <5>1. DayHits[i] \in Nat /\ DayHits[i] <= now - Day BY <1>13, <3>2
        <5> QED BY <1>1, <3>2, <5>1
      <4>2. {i \in DOMAIN DayHits : DayHits[i] > t} = {} BY <4>1
      <4>3. Recent(DayHits, t) = 0 BY <4>2, FS_EmptySet DEF Recent
      <4>4. Recent(was, t) \in Nat BY <1>13, RecentBounds
      <4> QED BY <4>3, <4>4
    <3> QED BY <3>1, <3>2
  <2> QED BY <2>1, <2>2
<1> HIDE DEF was
<1>16. CASE b # "day"
  <2>1. buckets'["day"] = room["day"] BY <1>11, <1>16
  <2>2. DayHits' = was BY <2>1 DEF DayHits, was
  <2>3. DayRow' BY <1>14, <2>1, <2>2 DEF DayRow
  <2> QED BY <1>10, <1>15, <1>16, <2>2, <2>3
<1>17. CASE b = "day"
  <2>1. DayHits' = kept /\ (buckets["day"].until)' = now + Day BY <1>1, <1>11, <1>17 DEF DayHits
  <2>2. old = was /\ kept = Unexpired(Append(was, now), now - Day) BY <1>1, <1>17 DEF old, was, kept
  <2>3. Append(was, now) \in Seq(Nat) /\ now - Day \in Int BY <1>1, <1>13
  <2>4. \A i \in DOMAIN kept : kept[i] <= now
    <3>1. \A i \in DOMAIN Append(was, now) : Append(was, now)[i] <= now BY <1>1, <1>13, <1>14
    <3>2. now \in Int BY <1>1
    <3> QED BY <2>2, <2>3, <3>1, <3>2, RecentLeft
  <2>5. DayRow'
    <3>1. \A i \in DOMAIN kept : kept[i] \in Nat BY <1>8
    <3> QED BY <1>1, <2>1, <2>4, <3>1 DEF DayRow
  <2>6. ASSUME NEW t \in Int, t >= now - Day
        PROVE  Recent(was, t) + (IF now > t THEN 1 ELSE 0) <= Recent(kept, t)
    <3>1. Recent(Append(was, now), t) = Recent(was, t) + (IF now > t THEN 1 ELSE 0)
      BY <1>1, <1>13, RecentAppended
    <3>2. Recent(Append(was, now), t) <= Recent(kept, t) BY <2>2, <2>3, <2>6, RecentLeft
    <3> QED BY <3>1, <3>2
  <2>7. \A t \in Int : Recent(was, t) \in Nat /\ Recent(kept, t) \in Nat /\ Recent(DayHits, t) \in Nat
    BY <1>8, <1>13, RecentBounds
  <2>8. ASSUME NEW t \in Int, t >= now - Day, Recent(DayHits, t) <= Recent(was, t)
        PROVE  /\ Recent(DayHits, t) <= Recent(kept, t)
               /\ Recent(DayHits, t) + (IF now > t THEN 1 ELSE 0) <= Recent(kept, t)
    BY <1>1, <2>6, <2>7, <2>8
  <2> QED BY <1>10, <1>15, <2>1, <2>5, <2>8
<1> QED BY <1>16, <1>17

\* Nothing is counted at the start.
LEMMA QuotaStart == SessInit => QuotaInv
<1> SUFFICES ASSUME SessInit PROVE QuotaInv OBVIOUS
<1>1. QuotaTypes
  <2>1. Absent \in [until : Nat, hits : Seq(Nat)] BY DEF Absent
  <2> QED BY <2>1 DEF SessInit, QuotaTypes
<1>2. seen.runs = <<>> /\ now = 1 BY DEF SessInit
<1>3. InScene
  <2>1. \A a \in Actors : act[a].do = "idle" BY DEF SessInit, Resting
  <2> QED BY <1>2, <2>1 DEF InScene, At
<1>4. DayHits = <<>> BY DEF SessInit, DayHits, Absent, Buckets
<1>5. DayRow BY <1>4 DEF DayRow
<1>6. RunsCounted
  <2>1. \A t \in Int : Recent(<<>>, t) = 0
    <3>1. \A t \in Int : {i \in DOMAIN <<>> : <<>>[i] > t} = {} OBVIOUS
    <3> QED BY <3>1, FS_EmptySet DEF Recent
  <2>2. now - Day \in Int /\ DayLimit \in Nat BY <1>2, SessionsAssumption
  <2> QED BY <1>2, <1>4, <2>1, <2>2 DEF RunsCounted
<1> QED BY <1>1, <1>3, <1>5, <1>6 DEF QuotaInv

\* What leaves the day's bucket, the runs and the clock alone.
LEMMA QuotaStill ==
  ASSUME QuotaInv, now' = now, DayHits' = DayHits, (buckets["day"])' = buckets["day"],
         buckets' \in [Buckets -> [until : Nat, hits : Seq(Nat)]],
         "runs" \in DOMAIN seen' /\ "dropped" \in DOMAIN seen', seen'.runs = seen.runs,
         seen.dropped => seen'.dropped, crashes' = 0 => crashes = 0, InScene'
  PROVE  QuotaInv'
<1>1. QuotaTypes' BY DEF QuotaInv, QuotaTypes
<1>2. DayRow' BY DEF QuotaInv, DayRow
<1>3. RunsCounted' BY DEF QuotaInv, RunsCounted
<1> QED BY <1>1, <1>2, <1>3 DEF QuotaInv

\* A hit that is no run: in the scene of the quotas it says when the day's bucket went.
LEMMA QuotaHit ==
  ASSUME QuotaInv, NEW b \in Buckets, NEW given \in MakeRoom, Hit(b, given), now' = now, crashes' = crashes,
         "runs" \in DOMAIN seen' /\ "dropped" \in DOMAIN seen', seen'.runs = seen.runs,
         seen.dropped => seen'.dropped, InScene',
         scene = "quota" /\ GaveUpDay(given) => seen'.dropped
  PROVE  QuotaInv'
<1>1. QuotaTypes /\ DayRow BY DEF QuotaInv
<1>2. /\ buckets' \in [Buckets -> [until : Nat, hits : Seq(Nat)]] /\ DayRow'
      /\ GaveUpDay(given) \/ \A t \in Int : t >= now - Day => Recent(DayHits, t) <= Recent(DayHits', t)
  BY <1>1, HitKeepsDay
<1>3. QuotaTypes' BY <1>1, <1>2 DEF QuotaTypes
<1>4. "day" \in Buckets /\ DayLimit \in Nat /\ Day \in Nat BY SessionsAssumption DEF Buckets
<1>5. DayHits \in Seq(Nat) /\ DayHits' \in Seq(Nat) /\ seen.runs \in Seq(Nat) /\ now \in Nat
  BY <1>1, <1>3, <1>4 DEF QuotaTypes, DayHits
<1>6. \A t \in Int : Recent(DayHits, t) \in Nat /\ Recent(DayHits', t) \in Nat /\ Recent(seen.runs, t) \in Nat
  BY <1>5, RecentBounds
<1>7. RunsCounted'
  <2>1. CASE scene # "quota"
    <3>1. seen'.runs = <<>> BY <2>1 DEF QuotaInv, InScene
    <3>2. \A t \in Int : Recent(<<>>, t) = 0
      <4>1. \A t \in Int : {i \in DOMAIN <<>> : <<>>[i] > t} = {} OBVIOUS
      <4> QED BY <4>1, FS_EmptySet DEF Recent
    <3>3. now' - Day \in Int BY <1>4, <1>5
    <3>4. \A t \in Int : Recent(seen'.runs, t) = 0 BY <3>1, <3>2, Zenon
    <3> QED BY <1>4, <1>6, <3>3, <3>4 DEF RunsCounted
  <2>2. CASE scene = "quota" /\ crashes = 0 /\ ~seen'.dropped
    <3>1. \A t \in Int : t >= now - Day => Recent(DayHits, t) <= Recent(DayHits', t) BY <1>2, <2>2
    <3>2. /\ \A t \in Int : t >= now - Day => Recent(seen.runs, t) <= Recent(DayHits, t)
          /\ Recent(seen.runs, now - Day) <= DayLimit
      BY <2>2 DEF QuotaInv, RunsCounted
    <3>3. \A t \in Int : t >= now - Day => Recent(seen.runs, t) <= Recent(DayHits', t)
      BY <1>6, <3>1, <3>2
    <3> QED BY <3>2, <3>3 DEF RunsCounted
  <2>3. CASE ~(crashes = 0) \/ seen'.dropped BY <2>3 DEF RunsCounted
  <2> QED BY <2>1, <2>2, <2>3
<1> QED BY <1>2, <1>3, <1>7 DEF QuotaInv

\* The run that is counted last.
LEMMA QuotaRun ==
  ASSUME QuotaInv, NEW given \in MakeRoom, Hit("day", given), now' = now, crashes' = crashes,
         "runs" \in DOMAIN seen' /\ "dropped" \in DOMAIN seen',
         seen'.runs = IF Len(DayHits') > DayLimit THEN seen.runs ELSE Append(seen.runs, now),
         seen.dropped => seen'.dropped, InScene', GaveUpDay(given) => seen'.dropped
  PROVE  QuotaInv'
<1>1. QuotaTypes /\ DayRow BY DEF QuotaInv
<1>2. "day" \in Buckets /\ DayLimit \in Nat /\ Day \in Nat BY SessionsAssumption DEF Buckets
<1>3. /\ buckets' \in [Buckets -> [until : Nat, hits : Seq(Nat)]] /\ DayRow'
      /\ GaveUpDay(given) \/ \A t \in Int : t >= now - Day =>
           /\ Recent(DayHits, t) <= Recent(DayHits', t)
           /\ Recent(DayHits, t) + (IF now > t THEN 1 ELSE 0) <= Recent(DayHits', t)
  BY <1>1, <1>2, HitKeepsDay
<1>4. seen.runs \in Seq(Nat) /\ now \in Nat BY <1>1 DEF QuotaTypes
<1>5. seen'.runs \in Seq(Nat) BY <1>4
<1>6. QuotaTypes' BY <1>1, <1>3, <1>5 DEF QuotaTypes
<1>7. DayHits \in Seq(Nat) /\ DayHits' \in Seq(Nat) BY <1>1, <1>2, <1>6 DEF QuotaTypes, DayHits
<1>8. \A t \in Int : /\ Recent(DayHits, t) \in Nat /\ Recent(DayHits', t) \in Nat
                     /\ Recent(seen.runs, t) \in Nat /\ Recent(DayHits', t) <= Len(DayHits')
  BY <1>4, <1>7, RecentBounds
<1>9. \A t \in Int : Recent(Append(seen.runs, now), t) = Recent(seen.runs, t) + (IF now > t THEN 1 ELSE 0)
  BY <1>4, RecentAppended
<1>10. ASSUME crashes = 0, ~seen'.dropped
       PROVE  /\ \A t \in Int : t >= now - Day => Recent(seen'.runs, t) <= Recent(DayHits', t)
              /\ Recent(seen'.runs, now - Day) <= DayLimit
  <2>1. /\ \A t \in Int : t >= now - Day => Recent(seen.runs, t) <= Recent(DayHits, t)
        /\ Recent(seen.runs, now - Day) <= DayLimit
    BY <1>10 DEF QuotaInv, RunsCounted
  <2>2. \A t \in Int : t >= now - Day =>
           /\ Recent(DayHits, t) <= Recent(DayHits', t)
           /\ Recent(DayHits, t) + (IF now > t THEN 1 ELSE 0) <= Recent(DayHits', t)
    BY <1>3, <1>10
  <2>3. now - Day \in Int BY <1>2, <1>4
  <2>4. CASE Len(DayHits') > DayLimit
    <3>1. seen'.runs = seen.runs BY <2>4
    <3>2. \A t \in Int : t >= now - Day => Recent(seen.runs, t) <= Recent(DayHits', t)
      BY <1>8, <2>1, <2>2
    <3> QED BY <2>1, <3>1, <3>2
  <2>5. CASE ~(Len(DayHits') > DayLimit)
    <3>1. seen'.runs = Append(seen.runs, now) /\ Len(DayHits') \in Nat BY <1>7, <2>5
    <3>2. \A t \in Int : t >= now - Day => Recent(Append(seen.runs, now), t) <= Recent(DayHits', t)
      <4> TAKE t \in Int
      <4> HAVE t >= now - Day
      <4>1. Recent(seen.runs, t) <= Recent(DayHits, t) BY <2>1
      <4>2. Recent(DayHits, t) + (IF now > t THEN 1 ELSE 0) <= Recent(DayHits', t) BY <2>2
      <4>3. Recent(Append(seen.runs, now), t) = Recent(seen.runs, t) + (IF now > t THEN 1 ELSE 0) BY <1>9
      <4>4. Recent(DayHits, t) \in Nat /\ Recent(DayHits', t) \in Nat /\ Recent(seen.runs, t) \in Nat BY <1>8
      <4> QED BY <1>4, <4>1, <4>2, <4>3, <4>4
    <3>3. Recent(Append(seen.runs, now), now - Day) \in Nat
      <4>1. Append(seen.runs, now) \in Seq(Nat) BY <1>4
      <4> QED BY <2>3, <4>1, RecentBounds
    <3>4. Recent(Append(seen.runs, now), now - Day) <= DayLimit
      <4>1. Recent(Append(seen.runs, now), now - Day) <= Recent(DayHits', now - Day) BY <1>2, <1>4, <2>3, <3>2
      <4>2. Recent(DayHits', now - Day) \in Nat /\ Recent(DayHits', now - Day) <= Len(DayHits') BY <1>8, <2>3
      <4> QED BY <1>2, <2>5, <3>1, <3>3, <4>1, <4>2
    <3> QED BY <3>1, <3>2, <3>4
  <2> QED BY <2>4, <2>5
<1>11. RunsCounted' BY <1>10 DEF RunsCounted
<1> QED BY <1>3, <1>6, <1>11 DEF QuotaInv

\* A minute later no more of the runs are of the day than before.
LEMMA QuotaLater == ASSUME QuotaInv, Later PROVE QuotaInv'
<1>1. now' = now + 1 /\ UNCHANGED <<crashes, scene, buckets, act, seen>> BY DEF Later, RestOfMarks
<1>2. now \in Nat /\ Day \in Nat /\ DayLimit \in Nat /\ seen.runs \in Seq(Nat) /\ "day" \in Buckets
  BY SessionsAssumption DEF QuotaInv, QuotaTypes, Buckets
<1>3. DayHits \in Seq(Nat) BY <1>2 DEF QuotaInv, QuotaTypes, DayHits
<1>4. QuotaTypes' /\ InScene' BY <1>1, <1>2 DEF QuotaInv, QuotaTypes, InScene, At
<1>5. DayHits' = DayHits /\ (buckets["day"])' = buckets["day"] BY <1>1 DEF DayHits
<1>6. DayRow'
  <2>1. \A i \in DOMAIN DayHits : DayHits[i] \in Nat BY <1>3
  <2> QED BY <1>1, <1>2, <1>5, <2>1 DEF QuotaInv, DayRow
<1>7. RunsCounted'
  <2> SUFFICES ASSUME crashes' = 0 /\ ~seen'.dropped
               PROVE  /\ \A t \in Int : t >= now' - Day => Recent(seen.runs, t) <= Recent(DayHits, t)
                      /\ Recent(seen.runs, now' - Day) <= DayLimit
    BY <1>1, <1>5 DEF RunsCounted
  <2>1. /\ \A t \in Int : t >= now - Day => Recent(seen.runs, t) <= Recent(DayHits, t)
        /\ Recent(seen.runs, now - Day) <= DayLimit
    BY <1>1 DEF QuotaInv, RunsCounted
  <2>2. now - Day \in Int /\ now' - Day \in Int /\ now' - Day >= now - Day BY <1>1, <1>2
  <2>3. /\ Recent(seen.runs, now - Day) \in Nat /\ Recent(seen.runs, now' - Day) \in Nat
        /\ Recent(seen.runs, now' - Day) <= Recent(seen.runs, now - Day)
    BY <1>2, <2>2, RecentBounds
  <2>4. \A t \in Int : t >= now' - Day => t >= now - Day BY <1>2, <2>2
  <2> QED BY <1>2, <2>1, <2>3, <2>4
<1> QED BY <1>4, <1>6, <1>7 DEF QuotaInv

\* What the actors' rows may do to who is where, as far as the quota is about it.
LEMMA SceneKept ==
  ASSUME SessTypes, InScene, NEW a \in Actors, NEW x, act' = [act EXCEPT ![a] = x], scene' = scene,
         x.do = "day" => scene = "quota", x.do = "wrong" => scene = "sessions",
         scene # "quota" => seen'.runs = <<>>
  PROVE  InScene'
<1>1. act'[a] = x /\ \A b \in Actors \ {a} : act'[b] = act[b] BY DEF SessTypes
<1> QED BY <1>1 DEF InScene, At

\* The same when no row moves.
LEMMA SceneStays ==
  ASSUME InScene, UNCHANGED <<act, scene>>, seen'.runs = seen.runs
  PROVE  InScene'
BY DEF InScene, At

\* Asking for a run: first the minute.
LEMMA AskRunQuota == ASSUME SessInv, QuotaInv, NEW a \in Actors, AskRun(a) PROVE QuotaInv'
<1>1. PICK given \in MakeRoom : Hit("minute", given) /\ seen' = [seen EXCEPT !.dropped = @ \/ GaveUpDay(given)]
  BY DEF AskRun
<1>2. QuotaTypes /\ SessTypes /\ InScene BY DEF QuotaInv, SessInv
<1>3. /\ "runs" \in DOMAIN seen' /\ "dropped" \in DOMAIN seen' /\ seen'.runs = seen.runs
      /\ seen.dropped => seen'.dropped
      /\ GaveUpDay(given) => seen'.dropped
  BY <1>1, <1>2 DEF QuotaTypes
<1>4. now' = now /\ crashes' = crashes /\ scene' = scene /\ scene = "quota" BY DEF AskRun, RestOfMarks
<1>5. InScene'
  <2>1. act' = act \/ Do(a, "day") BY DEF AskRun
  <2>2. CASE act' = act BY <1>2, <1>3, <1>4, <2>2, SceneStays
  <2>3. CASE Do(a, "day")
    <3>1. act' = [act EXCEPT ![a] = [act[a] EXCEPT !.do = "day"]] /\ [act[a] EXCEPT !.do = "day"].do = "day"
      BY <1>2, <2>3 DEF Do, SessTypes, IsActor
    <3> QED BY <1>2, <1>4, <3>1, SceneKept
  <2> QED BY <2>1, <2>2, <2>3
<1>6. "minute" \in Buckets BY DEF Buckets
<1> QED BY <1>1, <1>3, <1>4, <1>5, <1>6, QuotaHit

\* The day after the minute: the run that is let through is counted.
LEMMA AskDayQuota == ASSUME SessInv, QuotaInv, NEW a \in Actors, AskDay(a) PROVE QuotaInv'
<1>1. PICK given \in MakeRoom :
        /\ Hit("day", given)
        /\ seen' = [seen EXCEPT !.dropped = @ \/ GaveUpDay(given),
                                !.runs = IF Len(buckets'["day"].hits) > DayLimit THEN @ ELSE Append(@, now)]
  BY DEF AskDay
<1>2. QuotaTypes /\ SessTypes /\ InScene BY DEF QuotaInv, SessInv
<1>3. /\ "runs" \in DOMAIN seen' /\ "dropped" \in DOMAIN seen'
      /\ seen'.runs = IF Len(DayHits') > DayLimit THEN seen.runs ELSE Append(seen.runs, now)
      /\ seen.dropped => seen'.dropped
      /\ GaveUpDay(given) => seen'.dropped
  BY <1>1, <1>2 DEF QuotaTypes, DayHits
<1>4. now' = now /\ crashes' = crashes /\ scene' = scene BY DEF AskDay, RestOfMarks
<1>5. scene = "quota" BY <1>2 DEF AskDay, InScene
<1>6. InScene'
  <2>1. act' = [act EXCEPT ![a] = Resting] /\ Resting.do = "idle" BY DEF AskDay, Rest, Resting
  <2> QED BY <1>2, <1>4, <1>5, <2>1, SceneKept
<1> QED BY <1>1, <1>3, <1>4, <1>6, QuotaRun

\* A caller nobody knows, in a window of his own.
LEMMA AskPublicQuota == ASSUME SessInv, QuotaInv, NEW i \in Addresses, AskPublic(i) PROVE QuotaInv'
<1>1. PICK given \in MakeRoom : Hit(i, given) /\ seen' = [seen EXCEPT !.dropped = @ \/ GaveUpDay(given)]
  BY DEF AskPublic
<1>2. QuotaTypes /\ InScene BY DEF QuotaInv
<1>3. /\ "runs" \in DOMAIN seen' /\ "dropped" \in DOMAIN seen' /\ seen'.runs = seen.runs
      /\ seen.dropped => seen'.dropped
      /\ GaveUpDay(given) => seen'.dropped
  BY <1>1, <1>2 DEF QuotaTypes
<1>4. now' = now /\ crashes' = crashes /\ UNCHANGED <<scene, act>> BY DEF AskPublic, RestOfMarks
<1>5. InScene' BY <1>2, <1>3, <1>4, SceneStays
<1>6. i \in Buckets BY DEF Buckets
<1> QED BY <1>1, <1>3, <1>4, <1>5, <1>6, QuotaHit

\* A password that was wrong, and one that was right: no run is counted there.
LEMMA LoginQuota == ASSUME SessInv, QuotaInv, NEW a \in Actors, LoginWrong(a) \/ LoginReset(a) PROVE QuotaInv'
<1>1. QuotaTypes /\ SessTypes /\ InScene BY DEF QuotaInv, SessInv
<1>2. now' = now /\ crashes' = crashes /\ scene' = scene /\ seen' = seen
  BY DEF LoginWrong, LoginReset, RestOfMarks
<1>3. "runs" \in DOMAIN seen' /\ "dropped" \in DOMAIN seen' BY <1>1, <1>2 DEF QuotaTypes
<1>4. CASE LoginWrong(a)
  <2>1. PICK given \in MakeRoom : Hit("fail", given) BY <1>4 DEF LoginWrong
  <2>2. scene = "sessions" BY <1>1, <1>4 DEF LoginWrong, InScene
  <2>3. act' = [act EXCEPT ![a] = Resting] /\ Resting.do = "idle" BY <1>4 DEF LoginWrong, Rest, Resting
  <2>4. scene # "quota" => seen'.runs = <<>> BY <1>1, <1>2 DEF InScene
  <2>5. InScene' BY <1>1, <1>2, <2>2, <2>3, <2>4, SceneKept
  <2>6. "fail" \in Buckets BY DEF Buckets
  <2>7. scene # "quota" BY <2>2
  <2>8. seen'.runs = seen.runs /\ (seen.dropped => seen'.dropped) BY <1>2
  <2> QED BY <1>2, <1>3, <2>1, <2>5, <2>6, <2>7, <2>8, QuotaHit
<1>5. CASE LoginReset(a)
  <2>1. buckets' = [buckets EXCEPT !["fail"] = Absent] /\ Do(a, "add") BY <1>5 DEF LoginReset
  <2>2. Absent \in [until : Nat, hits : Seq(Nat)] BY DEF Absent
  <2>3. buckets' \in [Buckets -> [until : Nat, hits : Seq(Nat)]] BY <1>1, <2>1, <2>2 DEF QuotaTypes
  <2>4. "day" \in Buckets /\ "day" # "fail" BY DEF Buckets
  <2>5. (buckets["day"])' = buckets["day"] BY <1>1, <2>1, <2>4 DEF QuotaTypes
  <2>6. DayHits' = DayHits BY <2>5 DEF DayHits
  <2>7. act' = [act EXCEPT ![a] = [act[a] EXCEPT !.do = "add"]] /\ [act[a] EXCEPT !.do = "add"].do = "add"
    BY <1>1, <2>1 DEF Do, SessTypes, IsActor
  <2>8. scene # "quota" => seen'.runs = <<>> BY <1>1, <1>2 DEF InScene
  <2>9. InScene' BY <1>1, <1>2, <2>7, <2>8, SceneKept
  <2>10. seen'.runs = seen.runs /\ (seen.dropped => seen'.dropped) BY <1>2
  <2> QED BY <1>2, <1>3, <2>3, <2>5, <2>6, <2>9, <2>10, QuotaStill
<1> QED BY <1>4, <1>5

\* Whoever signs in or out counts nothing.
LEMMA SignQuota ==
  ASSUME SessInv, QuotaInv, NEW a \in Actors,
         \/ Login(a) \/ RegisterAdd(a) \/ RegisterToken(a) \/ RevokeCurrent(a) \/ Unlist(a)
         \/ (\E t \in issued : Logout(a, t) \/ LogoutAll(a, t))
         \/ Sweep(a) \/ Forget(a) \/ DropSet(a) \/ SweepLocal(a)
  PROVE  QuotaInv'
<1>1. QuotaTypes /\ SessTypes /\ InScene BY DEF QuotaInv, SessInv
<1> DEFINE Quiet == now' = now /\ crashes' = crashes /\ scene' = scene /\ buckets' = buckets
           Said == /\ "runs" \in DOMAIN seen' /\ "dropped" \in DOMAIN seen'
                   /\ seen'.runs = seen.runs /\ (seen.dropped => seen'.dropped)
           Moved == act' = act \/ \E x : /\ act' = [act EXCEPT ![a] = x]
                                         /\ x.do # "day" /\ (x.do = "wrong" => scene = "sessions")
<1>2. ASSUME NEW what, Do(a, what), what # "day", what = "wrong" => scene = "sessions" PROVE Moved
  <2>1. act' = [act EXCEPT ![a] = [act[a] EXCEPT !.do = what]] BY <1>2 DEF Do
  <2>2. [act[a] EXCEPT !.do = what].do = what BY <1>1 DEF SessTypes, IsActor
  <2> QED BY <1>2, <2>1, <2>2
<1>3. ASSUME Rest(a) PROVE Moved
  <2>1. act' = [act EXCEPT ![a] = Resting] /\ Resting.do = "idle" BY <1>3 DEF Rest, Resting
  <2> QED BY <2>1
<1>4. ASSUME TurnLocal(a) PROVE Moved
  <2> DEFINE x == [act[a] EXCEPT !.do = "sweepLocal", !.left = {}, !.due = {}, !.swept = "no"]
  <2>1. act' = [act EXCEPT ![a] = x] BY <1>4 DEF TurnLocal
  <2>2. x.do = "sweepLocal" BY <1>1 DEF SessTypes, IsActor
  <2> QED BY <2>1, <2>2
<1>5. Quiet
  <2> USE DEF RestOfMarks
  <2>1. CASE Login(a) BY <2>1 DEF Login
  <2>2. CASE RegisterAdd(a) \/ RegisterToken(a) BY <2>2 DEF RegisterAdd, RegisterToken
  <2>3. CASE RevokeCurrent(a) \/ Unlist(a) BY <2>3 DEF RevokeCurrent, Unlist
  <2>4. CASE \E t \in issued : Logout(a, t) \/ LogoutAll(a, t) BY <2>4 DEF Logout, LogoutAll, vars
  <2>5. CASE Sweep(a) \/ Forget(a) \/ DropSet(a) \/ SweepLocal(a) BY <2>5 DEF Sweep, Forget, DropSet, SweepLocal
  <2> QED BY <2>1, <2>2, <2>3, <2>4, <2>5
<1>6. Said
  <2> USE <1>1 DEF QuotaTypes, SessTypes
  <2>1. CASE seen' = seen BY <2>1
  <2>2. ASSUME NEW t, NEW where, Registered(t, where) PROVE Said BY <2>2 DEF Registered
  <2>3. ASSUME NEW c, seen' = [seen EXCEPT !.crossed = c] PROVE Said BY <2>3
  <2>4. CASE RegisterAdd(a)
    <3>1. seen' = [seen EXCEPT !.crossed = IF Sweeping THEN @ \cup {act[a].tok} ELSE @] \/ Registered(act[a].tok, "local")
      BY <2>4 DEF RegisterAdd
    <3> QED BY <2>2, <2>3, <3>1
  <2>5. CASE RegisterToken(a)
    <3>1. Registered(act[a].tok, "redis") \/ Registered(act[a].tok, "local") BY <2>5 DEF RegisterToken
    <3> QED BY <2>2, <3>1
  <2>6. CASE Unlist(a) BY <2>6 DEF Unlist
  <2>7. CASE \E t \in issued : LogoutAll(a, t) BY <2>3, <2>7 DEF LogoutAll
  <2>8. CASE \/ Login(a) \/ RevokeCurrent(a) \/ (\E t \in issued : Logout(a, t))
             \/ Sweep(a) \/ Forget(a) \/ DropSet(a) \/ SweepLocal(a)
    BY <2>1, <2>8 DEF Login, RevokeCurrent, Logout, Sweep, Forget, DropSet, SweepLocal
  <2> QED BY <2>4, <2>5, <2>6, <2>7, <2>8
<1>7. Moved
  <2>1. CASE Login(a)
    <3>1. scene = "sessions" /\ \E failures : Password(a, failures) BY <2>1 DEF Login
    <3>2. CASE act' = act BY <3>2
    <3>3. CASE Do(a, "wrong") BY <1>2, <3>1, <3>3
    <3>4. CASE \E t : act' = [act EXCEPT ![a].do = "reset", ![a].tok = t]
      <4>1. PICK t : act' = [act EXCEPT ![a].do = "reset", ![a].tok = t] BY <3>4
      <4> DEFINE x == [act[a] EXCEPT !.do = "reset", !.tok = t]
      <4>2. act' = [act EXCEPT ![a] = x] BY <1>1, <4>1, Zenon DEF SessTypes
      <4>3. x.do = "reset" BY <1>1 DEF SessTypes, IsActor
      <4> QED BY <4>2, <4>3
    <3> QED BY <3>1, <3>2, <3>3, <3>4 DEF Password
  <2>2. CASE RegisterAdd(a)
    <3>1. Do(a, "keep") \/ Rest(a) BY <2>2 DEF RegisterAdd
    <3> QED BY <1>2, <1>3, <3>1
  <2>3. CASE RegisterToken(a) BY <1>3, <2>3 DEF RegisterToken
  <2>4. CASE RevokeCurrent(a) BY <1>2, <2>4 DEF RevokeCurrent
  <2>5. CASE Unlist(a) BY <1>3, <2>5 DEF Unlist
  <2>6. CASE \E t \in issued : Logout(a, t)
    <3>1. PICK t : act' = [act EXCEPT ![a].do = "revoke", ![a].tok = t] BY <2>6 DEF Logout
    <3> DEFINE x == [act[a] EXCEPT !.do = "revoke", !.tok = t]
    <3>2. act' = [act EXCEPT ![a] = x] BY <1>1, <3>1, Zenon DEF SessTypes
    <3>3. x.do = "revoke" BY <1>1 DEF SessTypes, IsActor
    <3> QED BY <3>2, <3>3
  <2>7. CASE \E t \in issued : LogoutAll(a, t)
    <3>1. PICK t : LogoutAll(a, t) BY <2>7
    <3> DEFINE x == [act[a] EXCEPT !.do = "sweep", !.tok = t, !.left = sess.set, !.due = Due("redis"), !.swept = "redis"]
               y == [act[a] EXCEPT !.do = "sweepLocal", !.tok = t, !.due = Due("local"), !.swept = "local"]
    <3>2. act' = [act EXCEPT ![a] = x] \/ act' = [act EXCEPT ![a] = y] BY <3>1 DEF LogoutAll
    <3>3. x.do = "sweep" /\ y.do = "sweepLocal" BY <1>1 DEF SessTypes, IsActor
    <3> QED BY <3>2, <3>3
  <2>8. CASE Sweep(a)
    <3>1. CASE TurnLocal(a) BY <1>4, <3>1
    <3>2. CASE \E t : act' = [act EXCEPT ![a].do = "forget", ![a].cur = t, ![a].left = @ \ {t}]
      <4>1. PICK t : act' = [act EXCEPT ![a].do = "forget", ![a].cur = t, ![a].left = @ \ {t}] BY <3>2
      <4> DEFINE x == [act[a] EXCEPT !.do = "forget", !.cur = t, !.left = act[a].left \ {t}]
      <4>2. act' = [act EXCEPT ![a] = x] BY <1>1, <4>1, Zenon DEF SessTypes, IsActor
      <4>3. x.do = "forget" BY <1>1 DEF SessTypes, IsActor
      <4> QED BY <4>2, <4>3
    <3> QED BY <2>8, <3>1, <3>2 DEF Sweep
  <2>9. CASE Forget(a) BY <1>2, <1>4, <2>9 DEF Forget
  <2>10. CASE DropSet(a) BY <1>2, <1>4, <2>10 DEF DropSet
  <2>11. CASE SweepLocal(a) BY <1>2, <2>11 DEF SweepLocal
  <2> QED BY <2>1, <2>2, <2>3, <2>4, <2>5, <2>6, <2>7, <2>8, <2>9, <2>10, <2>11
<1> HIDE DEF Quiet, Said, Moved
<1>8. scene # "quota" => seen'.runs = <<>> BY <1>1, <1>6 DEF InScene, Said
<1>9. InScene'
  <2>1. CASE act' = act BY <1>1, <1>5, <1>6, <2>1, SceneStays DEF Quiet, Said
  <2>2. CASE act' # act BY <1>1, <1>5, <1>7, <1>8, <2>2, SceneKept DEF Quiet, Moved
  <2> QED BY <2>1, <2>2
<1>10. DayHits' = DayHits /\ (buckets["day"])' = buckets["day"] BY <1>5 DEF Quiet, DayHits
<1>11. buckets' \in [Buckets -> [until : Nat, hits : Seq(Nat)]] BY <1>1, <1>5 DEF QuotaTypes, Quiet
<1> QED BY <1>5, <1>6, <1>9, <1>10, <1>11, QuotaStill DEF Quiet, Said


\* What happens to the marks, to Redis and to the process: a process that dies forgets
\* the day, which is why the quota is only kept while none has.
LEMMA TroubleQuota ==
  ASSUME SessInv, QuotaInv, MarksStep \/ Ticks \/ RedisFlips \/ ProcessDies
  PROVE  QuotaInv'
<1>1. QuotaTypes /\ SessTypes /\ InScene BY DEF QuotaInv, SessInv
<1>2. CASE MarksStep \/ Ticks
  <2>1. crashes' = crashes
    <3>1. CASE MarksStep
      BY <3>1 DEF MarksStep, ClientStep, AskRedis, AskLocal, DropRemote, DropLocal, Leave, Expire, Blocked,
         Lost
    <3>2. CASE Ticks BY <3>2 DEF Ticks, Tick
    <3> QED BY <1>2, <3>1, <3>2
  <2>2. UNCHANGED <<scene, now, buckets, act, seen>> BY <1>2 DEF MarksStep, Ticks, mine
  <2>3. InScene' BY <1>1, <2>2, SceneStays
  <2>4. QuotaTypes' /\ DayHits' = DayHits BY <1>1, <2>2 DEF QuotaTypes, DayHits
  <2> QED BY <2>1, <2>2, <2>3, <2>4, QuotaStill DEF QuotaTypes
<1>3. CASE RedisFlips
  <2>1. UNCHANGED <<scene, now, buckets, act, crashes>> BY <1>3 DEF RedisFlips, Flip
  <2>2. "runs" \in DOMAIN seen' /\ "dropped" \in DOMAIN seen' /\ seen'.runs = seen.runs /\ (seen.dropped => seen'.dropped)
    BY <1>1, <1>3 DEF RedisFlips, QuotaTypes
  <2>3. InScene' BY <1>1, <2>1, <2>2, SceneStays
  <2>4. QuotaTypes' /\ DayHits' = DayHits BY <1>1, <2>1, <2>2 DEF QuotaTypes, DayHits
  <2> QED BY <2>1, <2>2, <2>3, <2>4, QuotaStill DEF QuotaTypes
<1>4. CASE ProcessDies
  <2>1. crashes \in Nat /\ crashes' = crashes + 1 BY <1>1, <1>4 DEF ProcessDies, Crash, SessTypes
  <2>2. scene' = scene /\ now' = now /\ act' = [b \in Actors |-> Resting] /\ buckets' = [b \in Buckets |-> Absent]
    BY <1>4 DEF ProcessDies
  <2>3. Absent \in [until : Nat, hits : Seq(Nat)] /\ Absent.hits = <<>> BY DEF Absent
  <2>4. buckets' \in [Buckets -> [until : Nat, hits : Seq(Nat)]] BY <2>2, <2>3
  <2>5. "runs" \in DOMAIN seen' /\ "dropped" \in DOMAIN seen' /\ seen'.runs = seen.runs
    BY <1>1, <1>4 DEF ProcessDies, QuotaTypes
  <2>6. QuotaTypes' BY <1>1, <2>2, <2>4, <2>5 DEF QuotaTypes
  <2>7. \A b \in Actors : (act'[b]).do = "idle" BY <2>2 DEF Resting
  <2>8. InScene' BY <1>1, <2>2, <2>5, <2>7 DEF InScene, At
  <2>9. "day" \in Buckets BY DEF Buckets
  <2>10. DayHits' = <<>> BY <2>2, <2>3, <2>9 DEF DayHits
  <2>11. DayRow' BY <2>10 DEF DayRow
  <2>12. RunsCounted' BY <2>1 DEF RunsCounted
  <2> QED BY <2>6, <2>8, <2>11, <2>12 DEF QuotaInv
<1> QED BY <1>2, <1>3, <1>4

\* For any table, limits and callers: the runs of a day stay within the day's limit, as
\* long as the process lives and its table does not have to give up the day's bucket
\* (DayQuotaKept).
THEOREM DayQuotaHolds == SessSpec => []DayQuotaKept
<1>1. QuotaInv /\ SessInv /\ [SessNext]_all => QuotaInv'
  <2> SUFFICES ASSUME QuotaInv, SessInv, [SessNext]_all PROVE QuotaInv' OBVIOUS
  <2>1. CASE UNCHANGED all
    <3>1. UNCHANGED <<scene, now, buckets, act, seen, crashes>> BY <2>1 DEF all, mine, vars
    <3>2. QuotaTypes' /\ DayHits' = DayHits BY <3>1 DEF QuotaInv, QuotaTypes, DayHits
    <3>3. InScene' BY <3>1, SceneStays DEF QuotaInv
    <3> QED BY <3>1, <3>2, <3>3, QuotaStill DEF QuotaTypes
  <2>2. CASE MarksStep \/ Ticks \/ RedisFlips \/ ProcessDies BY <2>2, TroubleQuota
  <2>3. CASE Later BY <2>3, QuotaLater
  <2>4. ASSUME NEW i \in Addresses, AskPublic(i) PROVE QuotaInv' BY <2>4, AskPublicQuota
  <2>5. ASSUME NEW a \in Actors, ActorStep(a) PROVE QuotaInv'
    BY <2>5, AskRunQuota, AskDayQuota, LoginQuota, SignQuota DEF ActorStep
  <2> QED BY <2>1, <2>2, <2>3, <2>4, <2>5 DEF SessNext
<1>2. QuotaInv => DayQuotaKept BY DEF QuotaInv, RunsCounted, DayQuotaKept
<1> QED BY <1>1, <1>2, SessStart, SessKeeps, QuotaStart, PTL DEF SessSpec

-----------------------------------------------------------------------------
(* The guests of a trip: Sharing. *)

\* The shape of the invitations, the members and the requests under way.
Roles == {"none", "editor", "viewer"}
InviteRow == [role : Roles, revoked : BOOLEAN, by : Guests \cup {Nobody}, late : BOOLEAN]
Request == [for : {"accept", "revoke", "share"}, invite : Invitations \cup {Nobody},
            guest : Guests \cup {Nobody}]
GuestTypes ==
  /\ invites \in [Invitations -> InviteRow] /\ members \in [Guests -> Roles]
  /\ open \subseteq Request
  /\ \A t \in open : t.for # "share" => t.invite \in Invitations

\* Who is accepting holds the lock of the invitation, and it is still to be had.
UnderLock ==
  /\ \A t \in open : t.for = "accept" =>
       t.guest \in Guests /\ invites[t.invite].by = Nobody /\ ~invites[t.invite].revoked
  /\ \A t, u \in open : t.for = "accept" /\ u.for = "accept" /\ t.invite = u.invite => t = u

\* What is public: the template is a summary of one moment.
Listing == Seq(SUBSET {"palace", "lake", "inn"})
PublicTypes ==
  /\ trip \in [there : BOOLEAN, archived : BOOLEAN, rows : Listing, edits : Nat]
  /\ template \in Listing /\ (template # <<>> => template \in published)
  /\ forks \in Seq([days : Nat, list : Listing])

ShareInv == GuestTypes /\ UnderLock /\ PublicTypes

\* At the start nobody is invited and nothing is public.
LEMMA ShareStart == ShareInit => ShareInv
<1> SUFFICES ASSUME ShareInit PROVE ShareInv
  OBVIOUS
<1> USE DEF ShareInit
<1>1. NoInvite \in InviteRow
  BY DEF NoInvite, InviteRow, Roles
<1>2. GuestTypes
  BY <1>1 DEF GuestTypes, Roles
<1>3. UnderLock
  BY DEF UnderLock
<1>4. <<{"palace"}, {"lake"}>> \in Listing /\ <<>> \in Listing
  BY DEF Listing
<1>5. trip \in [there : BOOLEAN, archived : BOOLEAN, rows : Listing, edits : Nat]
  BY <1>4
<1>6. PublicTypes
  BY <1>4, <1>5 DEF PublicTypes
<1> QED
  BY <1>2, <1>3, <1>6 DEF ShareInv

\* A row of an invitation that changes.
LEMMA InviteChanges ==
  ASSUME NEW r \in InviteRow
  PROVE  /\ \A role \in Roles : /\ [r EXCEPT !.role = role] \in InviteRow
                               /\ [r EXCEPT !.role = role].by = r.by
                               /\ ([r EXCEPT !.role = role].revoked => r.revoked)
         /\ \A g \in Guests : [r EXCEPT !.by = g] \in InviteRow /\ [r EXCEPT !.by = g].by = g
<1> USE DEF InviteRow
<1>1. ASSUME NEW role \in Roles
      PROVE  [r EXCEPT !.role = role] \in InviteRow /\ [r EXCEPT !.role = role].by = r.by
  OBVIOUS
<1>2. ASSUME NEW role \in Roles PROVE [r EXCEPT !.role = role].revoked => r.revoked
  OBVIOUS
<1>3. ASSUME NEW g \in Guests
      PROVE  [r EXCEPT !.by = g] \in InviteRow /\ [r EXCEPT !.by = g].by = g
  OBVIOUS
<1> QED
  BY <1>1, <1>2, <1>3

\* A row that runs out, and one that is revoked.
LEMMA InviteMarks ==
  ASSUME NEW r \in InviteRow
  PROVE  /\ [r EXCEPT !.late = TRUE] \in InviteRow /\ [r EXCEPT !.late = TRUE].by = r.by
         /\ ([r EXCEPT !.late = TRUE].revoked => r.revoked)
         /\ [r EXCEPT !.revoked = TRUE] \in InviteRow /\ [r EXCEPT !.revoked = TRUE].by = r.by
<1> DEFINE b == TRUE
<1>1. b \in BOOLEAN
  OBVIOUS
<1> HIDE DEF b
<1>2. [r EXCEPT !.late = b] \in InviteRow /\ [r EXCEPT !.late = b].by = r.by
  BY <1>1 DEF InviteRow
<1>3. [r EXCEPT !.late = b].revoked => r.revoked
  BY <1>1 DEF InviteRow
<1>4. [r EXCEPT !.revoked = b] \in InviteRow /\ [r EXCEPT !.revoked = b].by = r.by
  BY <1>1 DEF InviteRow
<1> QED
  BY <1>2, <1>3, <1>4, Zenon DEF b

\* An invitation is made, or runs out.
LEMMA InviteSteps ==
  ASSUME GuestTypes, UnderLock, NEW i \in Invitations,
         Overdue(i) \/ \E role \in {"editor", "viewer"} : Invite(i, role)
  PROVE  /\ GuestTypes' /\ UnderLock' /\ members' = members
         /\ \A j \in Invitations : invites'[j].by = invites[j].by
<1>1. /\ members' = members /\ open' = open
      /\ \E r \in InviteRow :
           /\ invites' = [invites EXCEPT ![i] = r] /\ r.by = invites[i].by
           /\ (r.revoked => invites[i].revoked)
  <2>0. invites[i] \in InviteRow /\ invites \in [Invitations -> InviteRow]
    BY DEF GuestTypes
  <2>1. CASE Overdue(i)
    <3>1. invites' = [invites EXCEPT ![i] = [invites[i] EXCEPT !.late = TRUE]]
      BY <2>1, Zenon DEF Overdue
    <3>2. members' = members /\ open' = open
      BY <2>1, Zenon DEF Overdue
    <3> QED
      BY <2>0, <3>1, <3>2, InviteMarks
  <2>2. ASSUME NEW role \in {"editor", "viewer"}, Invite(i, role)
        PROVE  /\ members' = members /\ open' = open
               /\ \E r \in InviteRow :
                    /\ invites' = [invites EXCEPT ![i] = r] /\ r.by = invites[i].by
                    /\ (r.revoked => invites[i].revoked)
    <3>1. invites' = [invites EXCEPT ![i] = [invites[i] EXCEPT !.role = role]]
      BY <2>2 DEF Invite
    <3>2. members' = members /\ open' = open /\ role \in Roles
      BY <2>2 DEF Invite, Roles
    <3>3. PICK r : r = [invites[i] EXCEPT !.role = role]
      OBVIOUS
    <3>4. r \in InviteRow /\ r.by = invites[i].by /\ (r.revoked => invites[i].revoked)
      <4>1. PICK x : x = invites[i]
        OBVIOUS
      <4> QED
        BY <2>0, <3>2, <3>3, <4>1, InviteChanges
    <3> QED
      BY <3>1, <3>2, <3>3, <3>4
  <2> QED
    BY <2>1, <2>2
<1>2. PICK r \in InviteRow :
        /\ invites' = [invites EXCEPT ![i] = r] /\ r.by = invites[i].by
        /\ (r.revoked => invites[i].revoked)
  BY <1>1
<1>3. GuestTypes'
  BY <1>1, <1>2 DEF GuestTypes
<1>4. \A j \in Invitations : invites'[j].by = invites[j].by
                           /\ (invites'[j].revoked => invites[j].revoked)
  BY <1>2 DEF GuestTypes
<1>5. UnderLock'
  BY <1>1, <1>4 DEF UnderLock, GuestTypes
<1> QED
  BY <1>1, <1>3, <1>4, <1>5

\* A request begins: an acceptance only where no other holds the row.
LEMMA BeginSteps ==
  ASSUME GuestTypes, UnderLock,
         \/ \E i \in Invitations : RevokeRead(i) \/ \E g \in Guests : AcceptRead(i, g)
         \/ ShareLook
  PROVE  GuestTypes' /\ UnderLock' /\ UNCHANGED guestVars
<1> USE DEF GuestTypes, UnderLock
<1>1. ASSUME NEW i \in Invitations, RevokeRead(i)
      PROVE  GuestTypes' /\ UnderLock' /\ UNCHANGED guestVars
  <2>1. /\ open' = open \cup {[for |-> "revoke", invite |-> i, guest |-> Nobody]}
        /\ UNCHANGED <<invites, members>>
    BY <1>1 DEF RevokeRead, guestVars
  <2>2. [for |-> "revoke", invite |-> i, guest |-> Nobody] \in Request
    BY DEF Request
  <2> QED
    BY <2>1, <2>2 DEF guestVars
<1>2. ASSUME NEW i \in Invitations, NEW g \in Guests, AcceptRead(i, g)
      PROVE  GuestTypes' /\ UnderLock' /\ UNCHANGED guestVars
  <2>1. /\ open' = open \cup {[for |-> "accept", invite |-> i, guest |-> g]}
        /\ UNCHANGED <<invites, members>>
    BY <1>2 DEF AcceptRead, guestVars
  <2>2. [for |-> "accept", invite |-> i, guest |-> g] \in Request
    BY DEF Request
  <2>3. /\ invites[i].by = Nobody /\ ~invites[i].revoked
        /\ \A t \in open : t.for = "accept" => t.invite # i
    BY <1>2 DEF AcceptRead, Acceptable, Accepting
  <2> QED
    BY <2>1, <2>2, <2>3 DEF guestVars
<1>3. CASE ShareLook
  <2>1. /\ open' = open \cup {[for |-> "share", invite |-> Nobody, guest |-> Nobody]}
        /\ UNCHANGED <<invites, members>>
    BY <1>3 DEF ShareLook, guestVars
  <2>2. [for |-> "share", invite |-> Nobody, guest |-> Nobody] \in Request
    BY DEF Request
  <2> QED
    BY <2>1, <2>2 DEF guestVars
<1> QED
  BY <1>1, <1>2, <1>3

\* The owner revokes: nobody is accepting at that moment.
LEMMA RevokeStep ==
  ASSUME GuestTypes, UnderLock, NEW t \in open, RevokeCommit(t)
  PROVE  /\ GuestTypes' /\ UnderLock' /\ members' = members
         /\ \A j \in Invitations : invites'[j].by = invites[j].by
<1>1. /\ t.for = "revoke" /\ \A u \in open : u.for = "accept" => u.invite # t.invite
      /\ members' = members /\ open' = open \ {t}
  BY DEF RevokeCommit, Accepting
<1>2. invites' = [invites EXCEPT ![t.invite] = [invites[t.invite] EXCEPT !.revoked = TRUE]]
  BY Zenon DEF RevokeCommit
<1>3. t.invite \in Invitations
  BY <1>1 DEF GuestTypes
<1>4. [invites[t.invite] EXCEPT !.revoked = TRUE] \in InviteRow
      /\ [invites[t.invite] EXCEPT !.revoked = TRUE].by = invites[t.invite].by
  BY <1>3, InviteMarks DEF GuestTypes
<1>5. PICK r : r = [invites[t.invite] EXCEPT !.revoked = TRUE]
  OBVIOUS
<1>6. /\ invites' = [invites EXCEPT ![t.invite] = r] /\ r \in InviteRow
      /\ r.by = invites[t.invite].by
  BY <1>2, <1>4, <1>5
<1>7. GuestTypes'
  BY <1>1, <1>6 DEF GuestTypes
<1>8. \A j \in Invitations : /\ invites'[j].by = invites[j].by
                             /\ j # t.invite => invites'[j] = invites[j]
  BY <1>3, <1>6 DEF GuestTypes
<1>9. UnderLock'
  BY <1>1, <1>8 DEF UnderLock, GuestTypes
<1> QED
  BY <1>1, <1>7, <1>8, <1>9

\* A guest joins by an invitation that is still to be had, or finds that he is a member.
LEMMA AcceptStep ==
  ASSUME GuestTypes, UnderLock, NEW t \in open, AcceptCommit(t)
  PROVE  /\ GuestTypes' /\ UnderLock'
         /\ t.invite \in Invitations /\ t.guest \in Guests
         /\ invites[t.invite].by = Nobody /\ ~invites[t.invite].revoked
         /\ \/ UNCHANGED guestVars
            \/ /\ members[t.guest] = "none"
               /\ members' = [members EXCEPT ![t.guest] = invites[t.invite].role]
               /\ invites'[t.invite].by = t.guest
               /\ \A j \in Invitations \ {t.invite} : invites'[j] = invites[j]
<1>1. t.for = "accept" /\ open' = open \ {t}
  BY DEF AcceptCommit
<1>2. /\ t.invite \in Invitations /\ t.guest \in Guests
      /\ invites[t.invite].by = Nobody /\ ~invites[t.invite].revoked
      /\ \A u \in open' : u.for = "accept" => u.invite # t.invite
  BY <1>1 DEF GuestTypes, UnderLock
<1>3. CASE members[t.guest] # "none"
  <2>1. UNCHANGED <<invites, members>>
    BY <1>3 DEF AcceptCommit, guestVars
  <2>2. GuestTypes' /\ UnderLock'
    BY <1>1, <2>1 DEF GuestTypes, UnderLock
  <2> QED
    BY <1>2, <2>1, <2>2 DEF guestVars
<1>4. CASE members[t.guest] = "none"
  <2>1. members' = [members EXCEPT ![t.guest] = invites[t.invite].role]
    BY <1>4 DEF AcceptCommit
  <2>2. invites' = [invites EXCEPT ![t.invite] = [invites[t.invite] EXCEPT !.by = t.guest]]
    BY <1>4 DEF AcceptCommit
  <2>3. invites[t.invite] \in InviteRow
    BY <1>2 DEF GuestTypes
  <2>4. [invites[t.invite] EXCEPT !.by = t.guest] \in InviteRow
        /\ [invites[t.invite] EXCEPT !.by = t.guest].by = t.guest
    <3>1. PICK x \in InviteRow, h \in Guests : x = invites[t.invite] /\ h = t.guest
      BY <1>2, <2>3
    <3>2. [x EXCEPT !.by = h] \in InviteRow /\ [x EXCEPT !.by = h].by = h
      BY InviteChanges
    <3> QED
      BY <3>1, <3>2
  <2>5. PICK r : r = [invites[t.invite] EXCEPT !.by = t.guest]
    OBVIOUS
  <2>6. invites' = [invites EXCEPT ![t.invite] = r] /\ r \in InviteRow /\ r.by = t.guest
    BY <2>2, <2>4, <2>5
  <2>7. invites[t.invite].role \in Roles
    BY <2>3 DEF InviteRow
  <2>8. GuestTypes'
    BY <1>1, <2>1, <2>6, <2>7 DEF GuestTypes
  <2>9. /\ invites'[t.invite].by = t.guest
        /\ \A j \in Invitations \ {t.invite} : invites'[j] = invites[j]
    BY <1>2, <2>6 DEF GuestTypes
  <2>10. UnderLock'
    BY <1>1, <1>2, <2>9 DEF UnderLock, GuestTypes
  <2> QED
    BY <1>2, <1>4, <2>1, <2>8, <2>9, <2>10
<1> QED
  BY <1>3, <1>4

\* The owner changes the members: of those who are none of them, none becomes one.
LEMMA MemberSteps ==
  ASSUME GuestTypes, UnderLock, NEW h \in Guests,
         RemoveMember(h) \/ \E role \in {"editor", "viewer"} : UpdateRole(h, role)
  PROVE  /\ GuestTypes' /\ UnderLock' /\ UNCHANGED <<invites, open>>
         /\ \A g \in Guests : members[g] = "none" => members'[g] = "none"
<1>1. PICK role \in Roles :
        /\ members' = [members EXCEPT ![h] = role] /\ members[h] # "none"
        /\ UNCHANGED <<invites, open>>
  BY DEF RemoveMember, UpdateRole, Roles
<1>2. GuestTypes' /\ UnderLock'
  BY <1>1 DEF GuestTypes, UnderLock
<1> QED
  BY <1>1, <1>2 DEF GuestTypes

\* Everything else of Sharing touches no guest, and ends requests at most.
LEMMA OtherSteps ==
  ASSUME GuestTypes, UnderLock,
         \/ ExpenseStep \/ RemoveShare \/ LinkOverdue \/ Publish \/ Unpublish \/ Fork
         \/ Archive \/ Edit \/ DeleteTrip \/ UNCHANGED shareVars
         \/ \E t \in open : ShareWrite(t)
  PROVE  GuestTypes' /\ UnderLock' /\ UNCHANGED guestVars
<1>1. UNCHANGED guestVars /\ open' \subseteq open
  BY DEF ExpenseStep, NoteExpense, ChangeExpense, DropExpense, RemoveShare, LinkOverdue,
         Publish, Unpublish, Fork, Archive, Edit, DeleteTrip, shareVars, ShareWrite
<1> QED
  BY <1>1 DEF GuestTypes, UnderLock, guestVars

\* What an invitation does in one step.
ExactStep ==
  /\ \A i \in Invitations :
       /\ invites[i].by # Nobody \/ invites[i].revoked => invites'[i].by = invites[i].by
       /\ \A g \in Guests : Consumed(i, g) => members[g] = "none" /\ members'[g] = invites[i].role
  /\ \A g \in Guests : members[g] = "none" /\ members'[g] # "none" =>
       Cardinality({i \in Invitations : Consumed(i, g)}) = 1

\* A step that lets nobody in is exact.
LEMMA NobodyJoins ==
  ASSUME \A i \in Invitations : invites'[i].by = invites[i].by,
         \A g \in Guests : members[g] = "none" => members'[g] = "none"
  PROVE  ExactStep
BY SharingAssumption DEF ExactStep, Consumed

\* Of one that lets somebody in, one invitation is the cause.
LEMMA SomebodyJoins ==
  ASSUME GuestTypes, NEW t \in open, t.invite \in Invitations, t.guest \in Guests,
         invites[t.invite].by = Nobody, ~invites[t.invite].revoked,
         members[t.guest] = "none",
         members' = [members EXCEPT ![t.guest] = invites[t.invite].role],
         invites'[t.invite].by = t.guest,
         \A j \in Invitations \ {t.invite} : invites'[j] = invites[j]
  PROVE  ExactStep
<1>1. \A g \in Guests : g # Nobody
  BY SharingAssumption
<1>2. \A i \in Invitations, g \in Guests : Consumed(i, g) <=> i = t.invite /\ g = t.guest
  BY <1>1 DEF Consumed
<1>3. members'[t.guest] = invites[t.invite].role
      /\ \A g \in Guests \ {t.guest} : members'[g] = members[g]
  BY DEF GuestTypes
<1>4. ASSUME NEW g \in Guests, members[g] = "none", members'[g] # "none"
      PROVE  Cardinality({i \in Invitations : Consumed(i, g)}) = 1
  <2>1. g = t.guest
    BY <1>3, <1>4
  <2>2. {i \in Invitations : Consumed(i, g)} = {t.invite}
    BY <1>2, <2>1
  <2> QED
    BY <2>2, FS_Singleton
<1>5. \A i \in Invitations :
        invites[i].by # Nobody \/ invites[i].revoked => invites'[i].by = invites[i].by
  OBVIOUS
<1> QED
  BY <1>2, <1>3, <1>4, <1>5 DEF ExactStep

\* The guests, step by step.
LEMMA GuestsExact ==
  ASSUME GuestTypes, UnderLock, [ShareNext]_shareVars
  PROVE  GuestTypes' /\ UnderLock' /\ ExactStep
<1>1. CASE \/ ExpenseStep \/ RemoveShare \/ LinkOverdue \/ Publish \/ Unpublish \/ Fork
           \/ Archive \/ Edit \/ DeleteTrip \/ UNCHANGED shareVars
           \/ \E t \in open : ShareWrite(t)
  BY <1>1, OtherSteps, NobodyJoins DEF guestVars
<1>2. CASE \/ \E i \in Invitations : RevokeRead(i) \/ \E g \in Guests : AcceptRead(i, g)
           \/ ShareLook
  BY <1>2, BeginSteps, NobodyJoins DEF guestVars
<1>3. ASSUME NEW i \in Invitations,
             Overdue(i) \/ \E role \in {"editor", "viewer"} : Invite(i, role)
      PROVE  GuestTypes' /\ UnderLock' /\ ExactStep
  BY <1>3, InviteSteps, NobodyJoins
<1>4. ASSUME NEW t \in open, RevokeCommit(t)
      PROVE  GuestTypes' /\ UnderLock' /\ ExactStep
  BY <1>4, RevokeStep, NobodyJoins
<1>5. ASSUME NEW t \in open, AcceptCommit(t)
      PROVE  GuestTypes' /\ UnderLock' /\ ExactStep
  BY <1>5, AcceptStep, SomebodyJoins, NobodyJoins DEF guestVars
<1>6. ASSUME NEW h \in Guests,
             RemoveMember(h) \/ \E role \in {"editor", "viewer"} : UpdateRole(h, role)
      PROVE  GuestTypes' /\ UnderLock' /\ ExactStep
  BY <1>6, MemberSteps, NobodyJoins
<1> QED
  BY <1>1, <1>2, <1>3, <1>4, <1>5, <1>6 DEF ShareNext, GuestStep, PublicStep

\* For any number of guests, invitations and requests at once: an invitation makes one
\* member at most, of its own role, and nobody joins without one (InvitationsExact).
THEOREM InvitationsAreExact == ShareSpec => InvitationsExact
<1>1. (GuestTypes /\ UnderLock) /\ [ShareNext]_shareVars => (GuestTypes /\ UnderLock)'
  BY GuestsExact
<1>2. (GuestTypes /\ UnderLock) /\ [ShareNext]_shareVars => [ExactStep]_shareVars
  BY GuestsExact
<1>3. ShareInit => GuestTypes /\ UnderLock
  BY ShareStart DEF ShareInv
<1> QED
  BY <1>1, <1>2, <1>3, PTL DEF ShareSpec, InvitationsExact, ExactStep

\* The rows of the trip when it is edited.
LEMMA TripEdited ==
  ASSUME PublicTypes, Edit
  PROVE  trip' \in [there : BOOLEAN, archived : BOOLEAN, rows : Listing, edits : Nat]
<1>1. trip.rows \in Listing /\ trip.edits + 1 \in Nat /\ trip.edits \in Nat
  BY DEF PublicTypes
<1>2. PICK rows \in Listing : trip' = [trip EXCEPT !.rows = rows, !.edits = trip.edits + 1]
  <2>1. CASE /\ Len(trip.rows) > 1
             /\ trip' = [trip EXCEPT !.rows = SubSeq(@, 1, Len(@) - 1), !.edits = @ + 1]
    <3>1. SubSeq(trip.rows, 1, Len(trip.rows) - 1) \in Listing
      BY <1>1, <2>1, SubSeqProperties DEF Listing
    <3> QED
      BY <2>1, <3>1
  <2>2. ASSUME NEW d \in DOMAIN trip.rows,
               trip' = [trip EXCEPT !.rows[d] = IF "inn" \in @ THEN {"inn"} ELSE @ \cup {"inn"},
                                    !.edits = @ + 1]
        PROVE  \E rows \in Listing : trip' = [trip EXCEPT !.rows = rows, !.edits = trip.edits + 1]
    <3> DEFINE new == IF "inn" \in trip.rows[d] THEN {"inn"} ELSE trip.rows[d] \cup {"inn"}
    <3>1. trip.rows[d] \in SUBSET {"palace", "lake", "inn"}
      BY <1>1 DEF Listing
    <3>2. new \in SUBSET {"palace", "lake", "inn"}
      BY <3>1
    <3>3. [trip.rows EXCEPT ![d] = new] \in Listing
      BY <1>1, <3>2, ExceptSeq DEF Listing
    <3>4. trip' = [trip EXCEPT !.rows = [trip.rows EXCEPT ![d] = new], !.edits = trip.edits + 1]
      BY <2>2
    <3> QED
      BY <3>3, <3>4
  <2> QED
    BY <2>1, <2>2 DEF Edit
<1> QED
  BY <1>1, <1>2 DEF PublicTypes

\* What a copy shows in one step.
ForkStep ==
  /\ \A f \in DOMAIN forks : forks'[f] = forks[f]
  /\ \A f \in DOMAIN forks' \ DOMAIN forks : forks'[f].list \in published

\* The template and its copies, step by step.
LEMMA PublicKeeps ==
  ASSUME PublicTypes, [ShareNext]_shareVars
  PROVE  PublicTypes' /\ ForkStep
<1> USE DEF PublicTypes
<1>1. CASE UNCHANGED tripVars
  BY <1>1 DEF tripVars, ForkStep
<1>2. CASE Publish
  BY <1>2 DEF Publish, Summary, ForkStep
<1>3. CASE Unpublish
  BY <1>3 DEF Unpublish, ForkStep, Listing
<1>4. CASE Fork
  <2>1. Copied(template) = template
    BY DEF Copied, Listing
  <2>2. ForkOf = [days |-> Len(trip.rows), list |-> template] /\ template \in published
    BY <1>4, <2>1 DEF ForkOf, Fork
  <2>3. ForkOf \in [days : Nat, list : Listing] /\ ForkOf.list = template
    BY <2>2 DEF Listing
  <2>4. forks' = Append(forks, ForkOf) /\ UNCHANGED <<trip, template, published>>
    BY <1>4 DEF Fork
  <2>5. /\ forks' \in Seq([days : Nat, list : Listing]) /\ Len(forks') = Len(forks) + 1
        /\ \A f \in 1 .. Len(forks) : forks'[f] = forks[f]
        /\ forks'[Len(forks) + 1] = ForkOf
    BY <2>3, <2>4, AppendProperties
  <2> QED
    BY <2>2, <2>3, <2>4, <2>5 DEF ForkStep
<1>5. CASE Archive
  <2>1. trip' = [trip EXCEPT !.archived = ~@] /\ UNCHANGED <<template, published, forks>>
    BY <1>5 DEF Archive
  <2>2. trip' \in [there : BOOLEAN, archived : BOOLEAN, rows : Listing, edits : Nat]
    BY <2>1
  <2> QED
    BY <2>1, <2>2 DEF ForkStep
<1>6. CASE Edit
  BY <1>6, TripEdited DEF Edit, ForkStep
<1>7. CASE DeleteTrip
  <2>1. PICK b \in BOOLEAN : trip' = [trip EXCEPT !.there = b]
    BY <1>7, Zenon DEF DeleteTrip
  <2>2. trip' \in [there : BOOLEAN, archived : BOOLEAN, rows : Listing, edits : Nat]
    BY <2>1
  <2> QED
    BY <1>7, <2>2 DEF DeleteTrip, ForkStep
<1>8. CASE ShareLook \/ RemoveShare \/ LinkOverdue \/ \E t \in open : ShareWrite(t)
  BY <1>8 DEF ShareLook, RemoveShare, LinkOverdue, ShareWrite, tripVars, ForkStep
<1>9. CASE GuestStep \/ ExpenseStep \/ UNCHANGED shareVars
  <2>1. UNCHANGED tripVars
    BY <1>9 DEF GuestStep, Invite, Overdue, RevokeRead, AcceptRead, RevokeCommit, AcceptCommit,
                RemoveMember, UpdateRole, ExpenseStep, NoteExpense, ChangeExpense, DropExpense,
                shareVars
  <2> QED
    BY <1>1, <2>1
<1> QED
  BY <1>2, <1>3, <1>4, <1>5, <1>6, <1>7, <1>8, <1>9 DEF ShareNext, PublicStep

\* For any number of copies and edits: the days and items of a copy are those that were
\* published at one moment, and stay as they were made (ForkShowsTemplate); nothing is
\* said of its heading, which is taken from the row as it is.
THEOREM ForksShowTemplates == ShareSpec => ForkShowsTemplate
<1>1. PublicTypes /\ [ShareNext]_shareVars => PublicTypes'
  BY PublicKeeps
<1>2. PublicTypes /\ [ShareNext]_shareVars => [ForkStep]_shareVars
  BY PublicKeeps
<1>3. ShareInit => PublicTypes
  BY ShareStart DEF ShareInv
<1> QED
  BY <1>1, <1>2, <1>3, PTL DEF ShareSpec, ForkShowsTemplate, ForkStep
=============================================================================
