------------------------------ MODULE EventSeq ------------------------------
(***************************************************************************)
(* publish_event: a frame of a trip is numbered, handed to the hub of the  *)
(* process and then, as well as it goes, published in Redis.  The number   *)
(* comes from a counter in Redis; a table of the process remembers the     *)
(* last number of each trip, so that it does not fall when Redis is away,  *)
(* comes back, or has forgotten the counter.  Publishers are threads.      *)
(***************************************************************************)
EXTENDS Naturals, FiniteSets, Sequences

CONSTANTS
  Publishers, Rooms, \* threads, and trips
  FloorMax,             \* _LAST_SEQ_MAX
  MaxPublished,         \* bound: frames
  MaxTroubles           \* bound: outages, returns, lost counters

ASSUME EventSeqAssumption == {FloorMax, MaxPublished, MaxTroubles} \subseteq Nat

VARIABLES
  counter,   \* gen:seq:{id} in Redis; 0: no such key
  reachable, \* does Redis answer?
  broken,    \* the window of the breaker is open
  floor,     \* _last_seq; 0: no entry
  author,    \* each publisher: [at, of, number]
  skipped,   \* _redis_skip_publish_count
  amount,    \* bounds: [frames, troubles]
  given      \* for the properties: the numbers of each trip since the table was cleared

seqVars == <<counter, reachable, broken, floor, author, skipped, amount, given>>

Unwritten == [at |-> "idle", of |-> "none", number |-> 0]
SeqInit ==
  /\ counter = [t \in Rooms |-> 0] /\ reachable = TRUE /\ broken = FALSE
  /\ floor = [t \in Rooms |-> 0]
  /\ author = [p \in Publishers |-> Unwritten]
  /\ skipped = 0
  /\ amount = [frames |-> 0, troubles |-> 0]
  /\ given = [t \in Rooms |-> << >>]

-----------------------------------------------------------------------------
Writing(p, where) == author[p].at = where
Candidate(p, n) == author' = [author EXCEPT ![p].at = "advance", ![p].number = n]

Compose(p, t) ==
  /\ Writing(p, "idle") /\ amount.frames < MaxPublished
  /\ author' = [author EXCEPT ![p] = [at |-> "number", of |-> t, number |-> 0]]
  /\ amount' = [amount EXCEPT !.frames = @ + 1]
  /\ UNCHANGED <<counter, reachable, broken, floor, skipped, given>>

\* _next_seq: an open window asks nobody; otherwise INCR and EXPIRE, either of which may
\* fail, the second one after the counter has moved.
NextSeq(p) ==
  LET t == author[p].of IN
  /\ Writing(p, "number")
  /\ \/ broken /\ Candidate(p, 1) /\ UNCHANGED <<counter, broken>>
     \/ ~broken /\ reachable /\ counter' = [counter EXCEPT ![t] = @ + 1]
        /\ Candidate(p, counter[t] + 1) /\ UNCHANGED broken
     \/ ~broken /\ broken' = TRUE /\ Candidate(p, 1)
        /\ \/ ~reachable /\ UNCHANGED counter
           \/ reachable /\ amount.troubles > 0 /\ counter' = [counter EXCEPT ![t] = @ + 1]
  /\ UNCHANGED <<reachable, floor, skipped, amount, given>>

\* _advance_seq, under the lock; a table that grew too large is cleared first.
\* Variant: the answer of Redis is taken as it is.
Cleared == Cardinality({t \in Rooms : floor[t] > 0}) > FloorMax
Floor(t) == IF Cleared THEN 0 ELSE floor[t]
AdvancedTrusting(t, n) == IF n > 1 THEN n ELSE Floor(t) + 1
Advanced(t, n) == IF n > Floor(t) THEN n ELSE Floor(t) + 1
AdvanceSeq(p) ==
  LET t == author[p].of
      n == Advanced(t, author[p].number)
  IN /\ Writing(p, "advance")
     /\ author' = [author EXCEPT ![p].at = "broadcast", ![p].number = n]
     /\ floor' = [u \in Rooms |-> IF u = t THEN n ELSE Floor(u)]
     /\ given' = [u \in Rooms |->
          (IF Cleared THEN << >> ELSE given[u]) \o (IF u = t THEN <<n>> ELSE << >>)]
     /\ UNCHANGED <<counter, reachable, broken, skipped, amount>>

\* publish_event: the hub first.  Nothing holds what was numbered and what is handed
\* over together, so that frames may overtake each other here.
HandOver(p) ==
  /\ Writing(p, "broadcast")
  /\ author' = [author EXCEPT ![p].at = "redis", ![p].number = 0]
  /\ UNCHANGED <<counter, reachable, broken, floor, skipped, amount, given>>

\* _publish_to_redis; whatever happens is swallowed.
PublishToRedis(p) ==
  /\ Writing(p, "redis")
  /\ author' = [author EXCEPT ![p] = Unwritten]
  /\ skipped' = IF broken THEN skipped + 1 ELSE skipped
  /\ broken' = (broken \/ ~reachable)
  /\ UNCHANGED <<counter, reachable, floor, amount, given>>

-----------------------------------------------------------------------------
\* Redis goes, comes back, with or without its counters; a counter outlives its TTL;
\* the window of the breaker ends.
Trouble ==
  /\ amount.troubles < MaxTroubles /\ amount' = [amount EXCEPT !.troubles = @ + 1]
  /\ \/ reachable' = ~reachable /\ UNCHANGED counter
     \/ \E t \in Rooms : counter[t] > 0 /\ counter' = [counter EXCEPT ![t] = 0] /\ UNCHANGED reachable
  /\ UNCHANGED <<broken, floor, author, skipped, given>>
WindowEnds ==
  /\ broken /\ broken' = FALSE
  /\ UNCHANGED <<counter, reachable, floor, author, skipped, amount, given>>

PublisherStep(p) ==
  \/ \E t \in Rooms : Compose(p, t)
  \/ NextSeq(p) \/ AdvanceSeq(p) \/ HandOver(p) \/ PublishToRedis(p)
SeqNext == Trouble \/ WindowEnds \/ \E p \in Publishers : PublisherStep(p)

SeqSpec == SeqInit /\ [][SeqNext]_seqVars

-----------------------------------------------------------------------------
(* Properties. *)

\* Through outages, returns, late answers and lost counters, the frames of a trip are
\* numbered upwards, none twice, until the table is cleared (_advance_seq).
NumbersRise ==
  \A t \in Rooms : \A i, j \in DOMAIN given[t] : i < j => given[t][i] < given[t][j]
=============================================================================
