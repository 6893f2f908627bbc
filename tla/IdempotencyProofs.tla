-------------------------- MODULE IdempotencyProofs --------------------------
(***************************************************************************)
(* What holds of the idempotency keys for any number of requests and keys, *)
(* as long as Redis does not change sides.  Then one of the two stores has *)
(* every entry, and the argument is about what that store has under a key: *)
(* the request that is under way, or the one trip the retries get.         *)
(***************************************************************************)
EXTENDS Idempotency, TLAPS

\* The entry of a key in the store that answers.
At(n) == IF up THEN remote[n] ELSE local[n]

\* A request without a trip of its own, and one that has failed its trip.
Early == {"idle", "reserve", "read", "check", "replay", "forget", "create"}
Rows ==
  \A r \in Requests :
    /\ pc[r] \in Early => trip[r] = "none"
    /\ pc[r] = "fill" => trip[r] # "none"
    /\ pc[r] \in {"release", "refused"} => trip[r] # "live"

\* On a clean key one request at a time is under way.
Alone ==
  \A q, r \in Requests :
    InProgress(q) /\ InProgress(r) /\ key[q] = key[r] /\ key[r] \in clean => q = r

\* Between fill and release, and as long as its trip lives, a request's trip is
\* under its key.
Filled(r) ==
  pc[r] \in {"submit", "refuse", "release"} \/ (trip[r] = "live" /\ pc[r] \notin {"fill", "lost"})
Kept == \A r \in Requests : key[r] \in clean /\ Filled(r) => At(key[r]) = r

\* What a request read is still there when it checks the trip.
Current == \A r \in Requests : key[r] \in clean /\ pc[r] = "check" => At(key[r]) = found[r]

\* A request that is about to create or to fill in a trip is the first.
First ==
  \A r \in Requests : key[r] \in clean /\ pc[r] \in {"forget", "create", "fill"} =>
    \A q \in Requests : q # r /\ key[q] = key[r] /\ trip[q] = "live" => pc[q] = "lost"

\* A trip is stored under its own key only, and not after its refusal.
Stored ==
  \A r \in Requests, n \in Names :
    remote[n] = r \/ local[n] = r => key[r] = n /\ trip[r] # "none" /\ pc[r] # "refused"

\* A Redis that never answered has nothing.
NeverUp == ~up => remote = Empty

Orderly == Alone /\ Kept /\ Current /\ First /\ Stored /\ NeverUp

\* The inductive invariant of the module.
IInv == Kinds /\ Rows /\ (stable => Orderly)

\* The invariant holds when the process starts.
LEMMA InitIInv == Init => IInv
<1> SUFFICES ASSUME Init PROVE IInv
  OBVIOUS
<1> USE CacheStoreAssumption, IdempotencyAssumption DEF Init, InitStore, Empty
<1>1. Kinds
  BY DEF Kinds, StoreTyped, Values
<1>2. Rows
  BY DEF Rows, Early
<1>3. Alone /\ Kept /\ Current /\ First
  BY DEF Alone, Kept, Current, First, InProgress, Filled
<1>4. Stored /\ NeverUp
  BY DEF Stored, NeverUp
<1> QED
  BY <1>1, <1>2, <1>3, <1>4 DEF IInv, Orderly

-----------------------------------------------------------------------------
(* The store. *)

\* A store of the right kind stays so, whatever is put into it or taken out.
LEMMA PutTyped ==
  ASSUME NEW n \in Names, NEW v \in Values, StoreTyped(Values), LocalPut(n, v)
  PROVE  local' \in [Names -> Values]
  BY DEF StoreTyped, LocalPut, Values

LEMMA ReserveTyped ==
  ASSUME NEW n \in Names, NEW c \in BOOLEAN, StoreTyped(Values), Reserve(n, Taken, c)
  PROVE  StoreTyped(Values)'
<1>1. Taken \in Values
  BY DEF Values
<1> QED
  BY <1>1, PutTyped DEF Reserve, StoreTyped, Lost, redis

LEMMA SetTyped ==
  ASSUME NEW n \in Names, NEW v \in Values, StoreTyped(Values), Set(n, v)
  PROVE  StoreTyped(Values)'
  BY PutTyped DEF Set, StoreTyped, Lost, redis

LEMMA DeleteTyped ==
  ASSUME NEW n \in Names, StoreTyped(Values), Delete(n)
  PROVE  StoreTyped(Values)'
<1>1. Nothing \in Values
  BY DEF Values
<1> QED
  BY <1>1 DEF Delete, StoreTyped, Lost, redis

\* While Redis does not change sides, a call changes what is under its own key in
\* the store that answers, and under those that the table gives up.
Others(n) == \A m \in Names \ {n} : m \notin GivenUp(n) => At(m)' = At(m)
\* What a call leaves in either store was there or is what it puts there.
Adds(n, v) ==
  \A m \in Names :
    /\ remote'[m] \in {remote[m], Nothing} \/ (m = n /\ remote'[m] = v)
    /\ local'[m] \in {local[m], Nothing} \/ (m = n /\ local'[m] = v)
Sides == UNCHANGED <<up, stable>> /\ (~up => remote' = remote)

LEMMA PutMoves ==
  ASSUME NEW n \in Names, NEW v \in Values, StoreTyped(Values), LocalPut(n, v), v # Nothing
  PROVE  /\ local'[n] = v
         /\ \A m \in Names \ {n} : m \notin GivenUp(n) => local'[m] = local[m]
         /\ \A m \in Names : local'[m] \in {local[m], Nothing} \/ (m = n /\ local'[m] = v)
  BY DEF StoreTyped, LocalPut, GivenUp

LEMMA ReserveMoves ==
  ASSUME NEW n \in Names, NEW c \in BOOLEAN, StoreTyped(Values), stable, Reserve(n, Taken, c)
  PROVE  /\ c = (At(n) = Nothing)
         /\ At(n)' = IF c THEN Taken ELSE At(n)
         /\ Others(n) /\ Adds(n, Taken) /\ Sides
<1> USE DEF Reserve, StoreTyped, Away, Lost, redis, At, Others, Adds, Sides
<1>1. Taken \in Values /\ Taken # Nothing
  BY IdempotencyAssumption DEF Values
<1>2. CASE up
  BY <1>1, <1>2
<1>3. CASE ~up
  BY <1>1, <1>3, PutMoves
<1> QED
  BY <1>2, <1>3

LEMMA SetMoves ==
  ASSUME NEW n \in Names, NEW v \in Values, StoreTyped(Values), stable, Set(n, v), v # Nothing
  PROVE  At(n)' = v /\ Others(n) /\ Adds(n, v) /\ Sides
<1> USE DEF Set, StoreTyped, Away, Lost, redis, At, Others, Adds, Sides
<1>1. CASE up
  BY <1>1
<1>2. CASE ~up
  BY <1>2, PutMoves
<1> QED
  BY <1>1, <1>2

LEMMA DeleteMoves ==
  ASSUME NEW n \in Names, StoreTyped(Values), stable, Delete(n)
  PROVE  /\ \A m \in Names \ {n} : At(m)' = At(m)
         /\ local'[n] = Nothing /\ (up => remote'[n] = Nothing)
         /\ Adds(n, Nothing) /\ Sides
<1> USE DEF Delete, StoreTyped, Away, Lost, redis, At, Adds, Sides
<1>1. CASE up
  BY <1>1
<1>2. CASE ~up
  BY <1>2
<1> QED
  BY <1>1, <1>2

-----------------------------------------------------------------------------
(* The steps. *)

\* Requests, trips and entries stay of their kind.
LEMMA KindsStep == Kinds /\ Rows /\ [Next]_vars => Kinds' /\ Rows'
<1> SUFFICES ASSUME Kinds, Rows, [Next]_vars PROVE Kinds' /\ Rows'
  OBVIOUS
<1> USE IdempotencyAssumption DEF Kinds, Rows, Early, Goto, Keyed
<1>a. \A r \in Requests : r \in Values
  BY DEF Values
<1>1. ASSUME NEW r \in Requests, Begin(r) PROVE Kinds' /\ Rows'
  BY <1>1 DEF Begin, store, redis, StoreTyped
<1>2. ASSUME NEW r \in Requests, ReserveKey(r) PROVE Kinds' /\ Rows'
  <2>1. key[r] \in Names
    BY <1>2 DEF ReserveKey
  <2>2. StoreTyped(Values)'
    BY <1>2, <2>1, ReserveTyped DEF ReserveKey
  <2> QED
    BY <1>2, <2>2 DEF ReserveKey
<1>3. ASSUME NEW r \in Requests, ReadKey(r) PROVE Kinds' /\ Rows'
  BY <1>3 DEF ReadKey, Get, store, redis, StoreTyped
<1>4. ASSUME NEW r \in Requests, CheckTrip(r) \/ Replay(r) PROVE Kinds' /\ Rows'
  BY <1>4 DEF CheckTrip, Replay, store, redis, StoreTyped
<1>5. ASSUME NEW r \in Requests, Forget(r) PROVE Kinds' /\ Rows'
  <2>1. key[r] \in Names
    BY <1>5 DEF Forget
  <2>2. StoreTyped(Values)'
    BY <1>5, <2>1, DeleteTyped DEF Forget
  <2> QED
    BY <1>5, <2>2 DEF Forget
<1>6. ASSUME NEW r \in Requests, CreateShell(r) PROVE Kinds' /\ Rows'
  BY <1>6 DEF CreateShell, store, redis, StoreTyped
<1>7. ASSUME NEW r \in Requests, Fill(r) PROVE Kinds' /\ Rows'
  <2>1. key[r] \in Names
    BY <1>7 DEF Fill
  <2>2. StoreTyped(Values)'
    BY <1>7, <1>a, <2>1, SetTyped DEF Fill
  <2> QED
    BY <1>7, <2>2 DEF Fill
<1>8. ASSUME NEW r \in Requests, Submit(r) \/ Refuse(r) PROVE Kinds' /\ Rows'
  BY <1>8 DEF Submit, Refuse, store, redis, StoreTyped
<1>9. ASSUME NEW r \in Requests, Release(r) PROVE Kinds' /\ Rows'
  <2>1. key[r] \in Names
    BY <1>9 DEF Release
  <2>2. StoreTyped(Values)'
    BY <1>9, <2>1, DeleteTyped DEF Release
  <2> QED
    BY <1>9, <2>2 DEF Release
<1>10. ASSUME NEW r \in Requests, Break(r) PROVE Kinds' /\ Rows'
  BY <1>10 DEF Break, Broken, store, redis, StoreTyped
<1>11. ASSUME NEW r \in Requests, DeleteTrip(r) PROVE Kinds' /\ Rows'
  BY <1>11 DEF DeleteTrip, store, redis, request, StoreTyped
<1>12. ASSUME NEW n \in Names, Expire(n) PROVE Kinds' /\ Rows'
  BY <1>12 DEF Expire, ExpireEntry, redis, request, StoreTyped, Values
<1>13. CASE RedisFlips
  <2>1. up' \in BOOLEAN /\ stable' \in BOOLEAN
    BY <1>13, Zenon DEF RedisFlips, Flip, StoreTyped
  <2>2. flips' \in 0 .. MaxFlips
    <3>1. flips < MaxFlips /\ flips' = flips + 1 /\ flips \in 0 .. MaxFlips
      BY <1>13 DEF RedisFlips, Flip, StoreTyped
    <3> QED
      BY <3>1, CacheStoreAssumption
  <2>3. Empty \in [Names -> Values]
    BY DEF Empty, Values
  <2>4. remote' \in [Names -> Values] /\ local' \in [Names -> Values]
    BY <1>13, <2>3 DEF RedisFlips, Flip, StoreTyped
  <2>5. StoreTyped(Values)'
    BY <2>1, <2>2, <2>4 DEF StoreTyped
  <2> QED
    BY <1>13, <2>5 DEF RedisFlips, request
<1>14. CASE Crash
  BY <1>14 DEF Crash, InProgress, Ended, Empty, redis, StoreTyped, Values
<1>15. CASE UNCHANGED vars
  BY <1>15 DEF vars, store, redis, request, StoreTyped
<1> QED
  BY <1>1, <1>2, <1>3, <1>4, <1>5, <1>6, <1>7, <1>8, <1>9, <1>10, <1>11, <1>12, <1>13, <1>14, <1>15
  DEF Next, RequestStep

\* A request that goes on does not overlap with another of a clean key.
LEMMA AloneStep ==
  ASSUME Kinds, Alone, NEW r \in Requests, InProgress(r), UNCHANGED key, clean' \subseteq clean,
         \A q \in Requests \ {r} : pc'[q] = pc[q]
  PROVE  Alone'
  BY DEF Alone, InProgress, Ended, Kinds

\* The steps of a request that neither call the store nor write its trip.
LEMMA PlainStep ==
  ASSUME Kinds, Rows, Orderly, NEW r \in Requests,
         CheckTrip(r) \/ Replay(r) \/ Submit(r) \/ Break(r)
  PROVE  Orderly'
<1> USE DEF Kinds, Orderly, CheckTrip, Replay, Submit, Break, Broken, Goto, Rows, Early
<1>1. /\ UNCHANGED <<up, remote, local, key, found, trip, clean>>
      /\ \A q \in Requests \ {r} : pc'[q] = pc[q]
      /\ InProgress(r)
  BY DEF store, redis, InProgress, Ended
<1>2. \A n : At(n)' = At(n)
  BY <1>1 DEF At
<1>3. Alone'
  BY <1>1, AloneStep
<1>4. Kept'
  BY <1>1, <1>2 DEF Kept, Filled
<1>5. Current'
  BY <1>1, <1>2 DEF Current
<1>6. First'
  <2>1. ASSUME NEW q \in Requests, NEW p \in Requests, q # p, key[q] = key[p], key[p] \in clean,
               pc'[p] \in {"forget", "create", "fill"}, trip[q] = "live"
        PROVE  pc'[q] = "lost"
    <3>1. CASE pc[p] \in {"forget", "create", "fill"}
      BY <1>1, <2>1, <3>1 DEF First
    <3>2. CASE pc[p] \notin {"forget", "create", "fill"}
      <4>1. p = r /\ pc[p] = "check" /\ trip[found[p]] = "deleted"
        BY <1>1, <2>1, <3>2
      <4>2. At(key[p]) = found[p]
        BY <2>1, <4>1 DEF Current
      <4>3. pc[q] # "fill"
        BY <1>1, <2>1, <4>1 DEF Alone, InProgress, Ended
      <4> QED
        BY <1>1, <2>1, <4>1, <4>2, <4>3 DEF Kept, Filled
    <3> QED
      BY <3>1, <3>2
  <2> QED
    BY <1>1, <2>1 DEF First
<1>7. Stored'
  BY <1>1 DEF Stored
<1>8. NeverUp'
  BY <1>1 DEF NeverUp
<1> QED
  BY <1>3, <1>4, <1>5, <1>6, <1>7, <1>8

\* The steps that write a trip.
LEMMA TripStep ==
  ASSUME Kinds, Rows, Orderly, NEW r \in Requests,
         CreateShell(r) \/ Refuse(r) \/ DeleteTrip(r)
  PROVE  Orderly'
<1> USE DEF Kinds, Orderly
<1>1. /\ UNCHANGED <<up, remote, local, key, found, clean>>
      /\ \A q \in Requests \ {r} : pc'[q] = pc[q] /\ trip'[q] = trip[q]
  BY DEF CreateShell, Refuse, DeleteTrip, Goto, store, redis, request
<1>2. \/ /\ pc[r] = "create" /\ trip[r] = "none" /\ trip'[r] = "live"
         /\ pc'[r] = IF key[r] \in Names THEN "fill" ELSE "submit"
      \/ /\ pc[r] = "refuse" /\ trip'[r] # "live" /\ (trip'[r] = "none" => trip[r] = "none")
         /\ pc'[r] = IF key[r] \in Names THEN "release" ELSE "refused"
      \/ pc'[r] = pc[r] /\ trip[r] \in {"live", "failed"} /\ trip'[r] = "deleted"
  BY IdempotencyAssumption DEF CreateShell, Refuse, DeleteTrip, Goto, Keyed, Rows, Early, request
<1>3. \A n : At(n)' = At(n)
  BY <1>1 DEF At
<1>4. Alone'
  BY <1>1, <1>2 DEF Alone, InProgress, Ended
<1>5. Kept'
  <2>1. ASSUME NEW q \in Requests, key[q] \in clean, Filled(q)' PROVE Filled(q)
    BY <1>1, <1>2, <2>1 DEF Filled
  <2> QED
    BY <1>1, <1>3, <2>1 DEF Kept
<1>6. Current'
  <2>1. ASSUME NEW q \in Requests, pc'[q] = "check" PROVE pc[q] = "check"
    BY <1>1, <1>2, <2>1
  <2> QED
    BY <1>1, <1>3, <2>1 DEF Current
<1>7. First'
  <2>1. ASSUME NEW q \in Requests, NEW p \in Requests, q # p, key[q] = key[p], key[p] \in clean,
               pc'[p] \in {"forget", "create", "fill"}, trip'[q] = "live"
        PROVE  pc'[q] = "lost"
    <3>1. pc[p] \in {"forget", "create", "fill"}
      BY <1>1, <1>2, <2>1
    <3>2. pc[q] # "create"
      BY <2>1, <3>1 DEF Alone, InProgress, Ended
    <3>3. trip[q] = "live" /\ (q # r \/ pc'[q] = pc[q])
      BY <1>1, <1>2, <2>1, <3>2
    <3>4. pc[q] = "lost"
      BY <2>1, <3>1, <3>3 DEF First
    <3> QED
      BY <1>1, <3>3, <3>4
  <2> QED
    BY <1>1, <2>1 DEF First
<1>8. Stored'
  <2>1. ASSUME NEW q \in Requests, NEW n \in Names, remote[n] = q \/ local[n] = q
        PROVE  trip'[q] # "none" /\ pc'[q] # "refused"
    <3>1. key[q] = n /\ trip[q] # "none" /\ pc[q] # "refused"
      BY <2>1 DEF Stored
    <3> QED
      BY <1>1, <1>2, <3>1
  <2>2. UNCHANGED <<remote, local, key>>
    BY <1>1
  <2> QED
    BY <2>1, <2>2 DEF Stored
<1>9. NeverUp'
  BY <1>1 DEF NeverUp
<1> QED
  BY <1>4, <1>5, <1>6, <1>7, <1>8, <1>9

LEMMA BeginStep ==
  ASSUME Kinds, Rows, Orderly, NEW r \in Requests, Begin(r)
  PROVE  Orderly'
<1> USE DEF Kinds, Orderly
<1>0. PICK k \in Names \cup {NoKey} :
        /\ key' = [key EXCEPT ![r] = k]
        /\ Goto(r, IF k = NoKey THEN "create" ELSE "reserve")
        /\ clean' = IF \E q \in Requests : InProgress(q) /\ key[q] = k THEN clean \ {k} ELSE clean
  BY DEF Begin
<1>1. /\ UNCHANGED <<up, remote, local, found, trip>>
      /\ \A q \in Requests \ {r} : pc'[q] = pc[q] /\ key'[q] = key[q]
      /\ trip[r] = "none" /\ pc[r] = "idle" /\ key'[r] = k
      /\ pc'[r] = IF k = NoKey THEN "create" ELSE "reserve"
      /\ clean' \subseteq clean
      /\ k \in clean' => \A q \in Requests : InProgress(q) => key[q] # k
      /\ NoKey \notin clean
  BY <1>0, IdempotencyAssumption DEF Begin, Goto, Rows, Early, store, redis
<1>2. \A n : At(n)' = At(n)
  BY <1>1 DEF At
<1>3. Alone'
  BY <1>1 DEF Alone, InProgress, Ended
<1>4. Kept'
  BY <1>1, <1>2 DEF Kept, Filled
<1>5. Current'
  BY <1>1, <1>2 DEF Current
<1>6. First'
  BY <1>1 DEF First
<1>7. Stored'
  BY <1>1 DEF Stored
<1>8. NeverUp'
  BY <1>1 DEF NeverUp
<1> QED
  BY <1>3, <1>4, <1>5, <1>6, <1>7, <1>8

LEMMA ReserveStep ==
  ASSUME Kinds, Rows, Orderly, stable, NEW r \in Requests, ReserveKey(r)
  PROVE  Orderly'
<1> USE DEF Kinds, Orderly
<1>0. PICK n \in Names : n = key[r]
  BY DEF ReserveKey, Keyed
<1>1. n = key[r] /\ InProgress(r) /\ trip[r] = "none"
  BY <1>0 DEF ReserveKey, InProgress, Ended, Rows, Early
<1>2. PICK c \in BOOLEAN : Reserve(n, Taken, c) /\ Goto(r, IF c THEN "create" ELSE "read")
  BY <1>1 DEF ReserveKey
<1>3. /\ c = (At(n) = Nothing) /\ At(n)' = IF c THEN Taken ELSE At(n)
      /\ Others(n) /\ Adds(n, Taken) /\ Sides
  BY <1>1, <1>2, ReserveMoves
<1>4. /\ UNCHANGED <<key, found, trip>> /\ clean' = clean \ GivenUp(n)
      /\ \A q \in Requests \ {r} : pc'[q] = pc[q]
      /\ pc'[r] = IF c THEN "create" ELSE "read"
  BY <1>1, <1>2 DEF ReserveKey, Goto
<1>5. \A m \in clean' : m \in Names /\ (At(m)' = At(m) \/ (m = n /\ At(m) = Nothing))
  BY <1>1, <1>3, <1>4 DEF Others
<1>6. Alone'
  BY <1>1, <1>4, AloneStep
<1>7. Kept'
  BY <1>1, <1>4, <1>5, IdempotencyAssumption DEF Kept, Filled
<1>8. Current'
  <2>1. ASSUME NEW q \in Requests, key[q] \in clean', pc'[q] = "check"
        PROVE  At(key[q])' = found[q]
    <3>1. q # r /\ pc[q] = "check"
      BY <1>4, <2>1
    <3>2. key[q] \in clean /\ At(key[q]) = found[q]
      BY <1>4, <2>1, <3>1 DEF Current
    <3> QED
      BY <1>4, <1>5, <2>1, <3>1, <3>2, IdempotencyAssumption DEF At
  <2> QED
    BY <1>4, <2>1 DEF Current
<1>9. First'
  <2>1. ASSUME NEW q \in Requests, c, key[r] \in clean, q # r, key[q] = key[r], trip[q] = "live"
        PROVE  pc[q] = "lost"
    <3>1. pc[q] # "fill"
      BY <1>1, <2>1 DEF Alone, InProgress, Ended
    <3>2. At(n) = Nothing
      BY <1>3, <2>1
    <3> QED
      BY <1>1, <2>1, <3>1, <3>2, IdempotencyAssumption DEF Kept, Filled
  <2>2. ASSUME NEW p \in Requests, pc'[p] \in {"forget", "create", "fill"}
        PROVE  IF p = r THEN c ELSE pc[p] \in {"forget", "create", "fill"}
    <3>1. CASE p = r
      BY <1>4, <2>2, <3>1
    <3>2. CASE p # r
      BY <1>4, <2>2, <3>2
    <3> QED
      BY <3>1, <3>2
  <2>3. clean' \subseteq clean /\ pc[r] # "lost"
    BY <1>1, <1>4 DEF InProgress, Ended
  <2> QED
    BY <1>4, <2>1, <2>2, <2>3 DEF First
<1>10. Stored'
  BY <1>1, <1>3, <1>4, IdempotencyAssumption DEF Stored, Adds
<1>11. NeverUp'
  BY <1>3 DEF NeverUp, Sides, Empty
<1> QED
  BY <1>6, <1>7, <1>8, <1>9, <1>10, <1>11

LEMMA ReadStep ==
  ASSUME Kinds, Rows, Orderly, stable, NEW r \in Requests, ReadKey(r)
  PROVE  Orderly'
<1> USE DEF Kinds, Orderly
<1>1. key[r] \in Names /\ InProgress(r) /\ trip[r] = "none"
  BY DEF ReadKey, InProgress, Ended, Rows, Early, Keyed
<1>2. PICK v \in Requests \cup {Nothing, Taken} :
        /\ Get(key[r], v)
        /\ IF v \in Requests
           THEN found' = [found EXCEPT ![r] = v] /\ Goto(r, "check")
           ELSE Goto(r, "create") /\ UNCHANGED found
  BY DEF ReadKey
<1>3. /\ UNCHANGED <<up, remote, local, key, trip, clean>>
      /\ \A q \in Requests \ {r} : pc'[q] = pc[q] /\ found'[q] = found[q]
      /\ IF v \in Requests THEN pc'[r] = "check" /\ found'[r] = v ELSE pc'[r] = "create"
  BY <1>2 DEF ReadKey, Get, Goto, store, redis
<1>4. v = At(key[r]) /\ \A n : At(n)' = At(n)
  BY <1>2, <1>3 DEF Get, At, Away
<1>5. Alone'
  BY <1>1, <1>3, AloneStep
<1>6. Kept'
  BY <1>1, <1>3, <1>4 DEF Kept, Filled
<1>7. Current'
  BY <1>3, <1>4 DEF Current
<1>8. First'
  <2>1. ASSUME NEW q \in Requests, v \notin Requests, key[r] \in clean, q # r, key[q] = key[r],
               trip[q] = "live"
        PROVE  pc[q] = "lost"
    <3>1. pc[q] # "fill"
      BY <1>1, <2>1 DEF Alone, InProgress, Ended
    <3> QED
      BY <1>4, <2>1, <3>1 DEF Kept, Filled
  <2>2. ASSUME NEW p \in Requests, pc'[p] \in {"forget", "create", "fill"}
        PROVE  IF p = r THEN v \notin Requests ELSE pc[p] \in {"forget", "create", "fill"}
    <3>1. CASE p = r
      BY <1>3, <2>2, <3>1
    <3>2. CASE p # r
      BY <1>3, <2>2, <3>2
    <3> QED
      BY <3>1, <3>2
  <2>3. pc[r] # "lost"
    BY <1>1 DEF InProgress, Ended
  <2> QED
    BY <1>3, <2>1, <2>2, <2>3 DEF First
<1>9. Stored'
  BY <1>3 DEF Stored
<1>10. NeverUp'
  BY <1>3 DEF NeverUp
<1> QED
  BY <1>5, <1>6, <1>7, <1>8, <1>9, <1>10

LEMMA FillStep ==
  ASSUME Kinds, Rows, Orderly, stable, NEW r \in Requests, Fill(r)
  PROVE  Orderly'
<1> USE DEF Kinds, Orderly
<1>0. PICK n \in Names : n = key[r]
  BY DEF Fill, Keyed
<1>1. /\ n = key[r] /\ InProgress(r) /\ pc[r] = "fill" /\ r \in Values /\ r # Nothing
      /\ trip[r] # "none"
  BY <1>0, IdempotencyAssumption DEF Fill, InProgress, Ended, Values, Rows
<1>2. At(n)' = r /\ Others(n) /\ Adds(n, r) /\ Sides
  BY <1>1, SetMoves DEF Fill
<1>3. /\ UNCHANGED <<key, found, trip>> /\ clean' = clean \ GivenUp(n)
      /\ \A q \in Requests \ {r} : pc'[q] = pc[q]
      /\ pc'[r] = "submit"
  BY <1>1 DEF Fill, Goto
<1>4. \A m \in clean' : m \in Names /\ (m # n => At(m)' = At(m))
  BY <1>2, <1>3 DEF Others
<1>5. \A q \in Requests : q # r /\ key[q] = n /\ InProgress(q) => n \notin clean
  BY <1>1 DEF Alone
<1>6. Alone'
  BY <1>1, <1>3, AloneStep
<1>7. Kept'
  <2>1. ASSUME NEW q \in Requests, q # r, key[q] \in clean', Filled(q)'
        PROVE  At(key[q])' = q
    <3>1. Filled(q) /\ key[q] \in clean
      BY <1>3, <2>1 DEF Filled
    <3>2. key[q] # n
      BY <1>1, <1>5, <2>1, <3>1 DEF First, Filled, InProgress, Ended
    <3> QED
      BY <1>3, <1>4, <2>1, <3>1, <3>2 DEF Kept, At
  <2>2. At(n)' = r /\ n = key'[r]
    BY <1>1, <1>2, <1>3
  <2> QED
    BY <1>3, <2>1, <2>2 DEF Kept, At
<1>8. Current'
  <2>1. ASSUME NEW q \in Requests, key[q] \in clean', pc'[q] = "check"
        PROVE  At(key[q])' = found[q]
    <3>1. q # r /\ pc[q] = "check" /\ key[q] \in clean
      BY <1>3, <2>1
    <3>2. key[q] # n
      BY <1>5, <3>1 DEF InProgress, Ended
    <3> QED
      BY <1>3, <1>4, <2>1, <3>1, <3>2 DEF Current, At
  <2> QED
    BY <1>3, <2>1 DEF Current
<1>9. First'
  BY <1>1, <1>3 DEF First
<1>10. Stored'
  <2>1. ASSUME NEW q \in Requests, NEW m \in Names, remote'[m] = q \/ local'[m] = q
        PROVE  key[q] = m /\ trip[q] # "none" /\ pc'[q] # "refused"
    <3>1. (remote[m] = q \/ local[m] = q) \/ (m = n /\ q = r)
      BY <1>2, <2>1, IdempotencyAssumption DEF Adds
    <3>2. CASE remote[m] = q \/ local[m] = q
      BY <1>3, <3>2 DEF Stored
    <3>3. CASE m = n /\ q = r
      BY <1>1, <1>3, <3>3
    <3> QED
      BY <3>1, <3>2, <3>3
  <2> QED
    BY <1>3, <2>1 DEF Stored
<1>11. NeverUp'
  BY <1>2 DEF NeverUp, Sides, Empty
<1> QED
  BY <1>6, <1>7, <1>8, <1>9, <1>10, <1>11

\* The two places that free a key.
LEMMA DeleteStep ==
  ASSUME Kinds, Rows, Orderly, stable, NEW r \in Requests, Forget(r) \/ Release(r)
  PROVE  Orderly'
<1> USE DEF Kinds, Orderly
<1>0. PICK n \in Names : n = key[r]
  BY DEF Forget, Release, Keyed
<1>1. /\ n = key[r] /\ InProgress(r) /\ trip[r] # "live"
      /\ \/ pc[r] = "forget" /\ pc'[r] = "create"
         \/ pc[r] = "release" /\ pc'[r] = "refused"
      /\ Delete(n)
  BY <1>0 DEF Forget, Release, InProgress, Ended, Rows, Early, Goto
<1>2. /\ \A m \in Names \ {n} : At(m)' = At(m)
      /\ local'[n] = Nothing /\ (up => remote'[n] = Nothing)
      /\ Adds(n, Nothing) /\ Sides
  BY <1>1, DeleteMoves
<1>3. /\ UNCHANGED <<key, trip, clean>>
      /\ \A q \in Requests \ {r} : pc'[q] = pc[q] /\ found'[q] = found[q]
  BY DEF Forget, Release, Goto
<1>4. \A q \in Requests : q # r /\ key[q] = n /\ InProgress(q) => n \notin clean
  BY <1>1 DEF Alone
<1>5. Alone'
  BY <1>1, <1>3, AloneStep
<1>6. Kept'
  <2>1. ASSUME NEW q \in Requests, key[q] \in clean, Filled(q)'
        PROVE  At(key[q])' = q
    <3>1. q # r /\ Filled(q)
      BY <1>1, <1>3, <2>1 DEF Filled
    <3>2. key[q] # n
      <4>1. ASSUME key[q] = n PROVE FALSE
        <5>1. ~InProgress(q)
          BY <1>4, <2>1, <3>1, <4>1
        <5>2. trip[q] = "live" /\ pc[q] # "lost" /\ At(n) = q
          BY <2>1, <3>1, <4>1, <5>1 DEF Filled, InProgress, Ended, Kept
        <5>3. CASE pc[r] = "forget"
          BY <1>1, <2>1, <3>1, <4>1, <5>2, <5>3 DEF First
        <5>4. CASE pc[r] = "release"
          BY <1>1, <2>1, <3>1, <4>1, <5>2, <5>4 DEF Kept, Filled
        <5> QED
          BY <1>1, <5>3, <5>4
      <4> QED
        BY <4>1
    <3> QED
      BY <1>2, <1>3, <2>1, <3>1, <3>2 DEF Kept, At
  <2> QED
    BY <1>3, <2>1 DEF Kept
<1>7. Current'
  <2>1. ASSUME NEW q \in Requests, key[q] \in clean, pc'[q] = "check"
        PROVE  At(key[q])' = found'[q]
    <3>1. q # r /\ pc[q] = "check"
      BY <1>1, <1>3, <2>1
    <3>2. key[q] # n
      BY <1>4, <2>1, <3>1 DEF InProgress, Ended
    <3> QED
      BY <1>2, <1>3, <2>1, <3>1, <3>2 DEF Current
  <2> QED
    BY <1>3, <2>1 DEF Current
<1>8. First'
  BY <1>1, <1>3 DEF First
<1>9. Stored'
  <2>1. ASSUME NEW q \in Requests, NEW m \in Names, remote'[m] = q \/ local'[m] = q
        PROVE  key[q] = m /\ trip[q] # "none" /\ pc'[q] # "refused"
    <3>1. remote[m] = q \/ local[m] = q
      BY <1>2, <2>1, IdempotencyAssumption DEF Adds
    <3>2. key[q] = m /\ trip[q] # "none" /\ pc[q] # "refused"
      BY <3>1 DEF Stored
    <3>3. q # r
      <4>1. ASSUME q = r PROVE FALSE
        <5>1. m = n /\ remote'[n] = r /\ ~up
          BY <1>1, <1>2, <2>1, <3>2, <4>1, IdempotencyAssumption
        <5> QED
          BY <1>1, <1>2, <5>1, IdempotencyAssumption DEF Sides, NeverUp, Empty
      <4> QED
        BY <4>1
    <3> QED
      BY <1>3, <3>2, <3>3
  <2> QED
    BY <1>3, <2>1 DEF Stored
<1>10. NeverUp'
  BY <1>2 DEF NeverUp, Sides, Empty
<1> QED
  BY <1>5, <1>6, <1>7, <1>8, <1>9, <1>10

LEMMA ExpireStep ==
  ASSUME Kinds, Rows, Orderly, stable, NEW n \in Names, Expire(n)
  PROVE  Orderly'
<1> USE DEF Kinds, StoreTyped, Orderly, Expire, ExpireEntry
<1>1. /\ UNCHANGED <<up, pc, key, found, trip>> /\ clean' = clean \ {n}
      /\ \A m \in Names \ {n} : remote'[m] = remote[m] /\ local'[m] = local[m]
      /\ \A m \in Names : remote'[m] \in {remote[m], Nothing} /\ local'[m] \in {local[m], Nothing}
      /\ ~up => remote' = remote \/ remote # Empty
  BY DEF redis, request, Empty
<1>2. \A m \in clean' : At(m)' = At(m)
  BY <1>1 DEF At
<1>3. Alone' /\ First'
  BY <1>1 DEF Alone, First, InProgress, Ended
<1>4. Kept' /\ Current'
  BY <1>1, <1>2 DEF Kept, Current, Filled
<1>5. Stored'
  BY <1>1, IdempotencyAssumption DEF Stored
<1>6. NeverUp'
  BY <1>1 DEF NeverUp, Empty
<1> QED
  BY <1>3, <1>4, <1>5, <1>6

LEMMA CrashStep ==
  ASSUME Kinds, Rows, Orderly, stable, Crash
  PROVE  Orderly'
<1> USE DEF Kinds, StoreTyped, Orderly, Crash
<1>1. /\ UNCHANGED <<up, remote, key, found, trip>> /\ local' = Empty
      /\ clean' = clean \ {n \in Names : local[n] # Nothing}
      /\ \A r \in Requests :
           IF ~InProgress(r) THEN pc'[r] = pc[r]
           ELSE pc'[r] = IF pc[r] \in {"submit", "refuse", "release"} THEN "dead" ELSE "lost"
  BY DEF redis
<1>2. \A m \in clean' : At(m)' = At(m)
  BY <1>1 DEF At, Empty
<1>3. \A r \in Requests : ~InProgress(r)'
  BY <1>1 DEF InProgress, Ended
<1>4. Alone'
  BY <1>3 DEF Alone
<1>5. Kept'
  <2>1. ASSUME NEW r \in Requests, Filled(r)' PROVE Filled(r)
    BY <1>1, <1>3, <2>1 DEF Filled, InProgress, Ended, Rows, Early
  <2> QED
    BY <1>1, <1>2, <2>1 DEF Kept
<1>6. Current' /\ First'
  BY <1>1, <1>3 DEF Current, First, InProgress, Ended
<1>7. Stored'
  BY <1>1, IdempotencyAssumption DEF Stored, Empty, InProgress, Ended
<1>8. NeverUp'
  BY <1>1 DEF NeverUp, Empty
<1> QED
  BY <1>4, <1>5, <1>6, <1>7, <1>8

\* The invariant survives every step; when Redis changes sides it promises nothing
\* more.
LEMMA StepIInv == IInv /\ [Next]_vars => IInv'
<1> SUFFICES ASSUME IInv, [Next]_vars, stable' PROVE Orderly'
  BY KindsStep DEF IInv
<1>1. Kinds /\ Rows /\ (stable => Orderly)
  BY DEF IInv
<1>2. CASE RedisFlips
  BY <1>2 DEF RedisFlips, Flip
<1>3. ASSUME NEW r \in Requests, RequestStep(r) PROVE Orderly'
  <2>1. stable
    BY <1>3 DEF RequestStep, Begin, ReserveKey, ReadKey, CheckTrip, Replay, Forget, CreateShell,
      Fill, Submit, Refuse, Release, Break, Reserve, Get, Set, Delete, store, redis
  <2> QED
    BY <1>1, <1>3, <2>1, PlainStep, TripStep, BeginStep, ReserveStep, ReadStep, FillStep, DeleteStep
    DEF RequestStep
<1>4. ASSUME NEW r \in Requests, DeleteTrip(r) PROVE Orderly'
  BY <1>1, <1>4, TripStep DEF DeleteTrip, store, redis
<1>5. ASSUME NEW n \in Names, Expire(n) PROVE Orderly'
  BY <1>1, <1>5, ExpireStep DEF Expire, ExpireEntry, redis
<1>6. CASE Crash
  BY <1>1, <1>6, CrashStep DEF Crash, redis
<1>7. CASE UNCHANGED vars
  BY <1>1, <1>7 DEF vars, store, redis, request, Orderly, Alone, Kept, Current, First, Stored,
    NeverUp, At, Filled, InProgress, Ended
<1> QED
  BY <1>2, <1>3, <1>4, <1>5, <1>6, <1>7 DEF Next

LEMMA Invariance == Spec => []IInv
  BY InitIInv, StepIInv, PTL DEF Spec

\* Retries one after the other get one trip, for any number of requests and keys,
\* and whatever refusals, deletes, errors and crashes come between them.
THEOREM RetriesOneTrip == Spec => []RetriesShareTrip
<1>1. IInv => RetriesShareTrip
  <2> SUFFICES ASSUME IInv, stable, NEW q \in Requests, NEW r \in Requests,
                      key[q] = key[r], key[q] \in clean, trip[q] = "live", trip[r] = "live",
                      q # r, pc[q] # "lost", pc[r] # "lost"
               PROVE  FALSE
    BY DEF RetriesShareTrip
  <2>1. pc[q] # "fill" /\ pc[r] # "fill"
    BY DEF IInv, Orderly, First
  <2> QED
    BY <2>1 DEF IInv, Orderly, Kept, Filled
<1> QED
  BY <1>1, Invariance, PTL

\* A refused trip is under no key, for any number of overlapping requests.
THEOREM RefusalFreesKey == Spec => []RefusedNotReplayed
<1>1. IInv => RefusedNotReplayed
  BY DEF IInv, Orderly, Stored, RefusedNotReplayed
<1> QED
  BY <1>1, Invariance, PTL
=============================================================================
