--------------------------- MODULE ExternalCalls ---------------------------
(***************************************************************************)
(* ExternalClient: what every call to a map, image or price service goes   *)
(* through.  Cache, breaker, a lane that spaces the calls, the loader with *)
(* its retries, then the outcome and the result.  Each of these takes the  *)
(* lock for itself, so other threads come in between; the waiting and the  *)
(* calls are outside of it.                                                *)
(***************************************************************************)
EXTENDS Integers, Sequences, FiniteSets

CONSTANTS
  Callers, Topics,  \* threads, and cache keys
  Known,            \* the keys the provider has something for
  Lanes, Interval,  \* [Lanes -> Nat]: _LANE_MIN_INTERVAL, or min_interval_seconds
  MaxWait,          \* max_wait_seconds
  Attempts, Backoff,
  Threshold, OpenFor, \* circuit_failure_threshold, circuit_cooldown_seconds
  GoodTtl, BadTtl,
  MaxEntries,
  Horizon,          \* bound: the last tick of the clock
  MaxCalls,         \* bound: calls
  MaxTurns          \* bound: how often the provider goes or comes back

ASSUME ExternalAssumption ==
  /\ Known \subseteq Topics /\ Interval \in [Lanes -> Nat \ {0}]
  /\ {MaxWait, Backoff, GoodTtl, BadTtl, Horizon, MaxCalls, MaxTurns} \subseteq Nat
  /\ {Attempts, Threshold, OpenFor, MaxEntries} \subseteq Nat \ {0}
  /\ IsFiniteSet(Callers)

VARIABLES
  clock, healthy,
  memory,    \* _cache: [value, until]; value "none" if the key is not in it
  lastSlot,  \* _lane_last
  streak,    \* _consecutive_failures
  openUntil, \* _breaker_open_until
  caller,    \* what each thread does: [at, key, lane, attempt, slot, got]
  made,      \* calls and turns so far: [calls, turns]
  pace,      \* for the properties: [Lanes -> [first, sent]]
  outage     \* for the properties: [since, sent, spare], of the outage that lasts

outVars == <<clock, healthy, memory, lastSlot, streak, openUntil, caller, made, pace, outage>>

Nothing == [value |-> "none", until |-> 0]
Away == [at |-> "idle", key |-> "none", lane |-> "none", attempt |-> 0, slot |-> 0, got |-> "none"]
OutInit ==
  /\ clock = 0 /\ healthy \in BOOLEAN
  /\ memory = [k \in Topics |-> Nothing]
  /\ lastSlot = [l \in Lanes |-> 0 - Interval[l]]
  /\ streak = 0 /\ openUntil = 0
  /\ caller = [c \in Callers |-> Away]
  /\ made = [calls |-> 0, turns |-> 0]
  /\ pace = [l \in Lanes |-> [first |-> 0, sent |-> 0]]
  /\ outage = [since |-> 0, sent |-> 0, spare |-> 0]

-----------------------------------------------------------------------------
Now(c, at) == caller[c].at = at
Goes(c, at) == caller' = [caller EXCEPT ![c].at = at]
Leaves(c) == caller' = [caller EXCEPT ![c] = Away]
Gets(c, value) ==
  caller' = [caller EXCEPT ![c] = [Away EXCEPT !.at = "record", !.key = caller[c].key, !.got = value]]

\* call: the cache.  An entry that ran out is taken away.
Fresh(k) == memory[k].value # "none" /\ memory[k].until > clock
Look(c, k, l) ==
  /\ Now(c, "idle") /\ made.calls < MaxCalls /\ made' = [made EXCEPT !.calls = @ + 1]
  /\ IF Fresh(k)
     THEN UNCHANGED <<caller, memory>>
     ELSE /\ memory' = [memory EXCEPT ![k] = Nothing]
          /\ caller' = [caller EXCEPT ![c] = [Away EXCEPT !.at = "check", !.key = k, !.lane = l, !.attempt = 1]]
  /\ UNCHANGED <<clock, healthy, lastSlot, streak, openUntil, pace, outage>>

\* call: the breaker.
Check(c) ==
  /\ Now(c, "check")
  /\ IF clock < openUntil THEN Leaves(c) ELSE Goes(c, "slot")
  /\ UNCHANGED <<clock, healthy, memory, lastSlot, streak, openUntil, made, pace, outage>>

\* _acquire_slot: a time of one's own, or none if it is too far away.  Variant: the
\* lane remembers when it was asked, not what it gave.
LaterOf(a, b) == IF a > b THEN a ELSE b
Scheduled(l) == LaterOf(clock, lastSlot[l] + Interval[l])
RememberedAsked(l) == clock
Remembered(l) == Scheduled(l)
AcquireSlot(c) ==
  LET l == caller[c].lane IN
  /\ Now(c, "slot") /\ caller[c].slot <= clock
  /\ IF Scheduled(l) - clock > MaxWait
     THEN /\ IF caller[c].attempt = 1 THEN Leaves(c) ELSE Gets(c, "failure")
          /\ UNCHANGED <<lastSlot, pace>>
     ELSE /\ caller' = [caller EXCEPT ![c].at = "wait", ![c].slot = Scheduled(l)]
          /\ lastSlot' = [lastSlot EXCEPT ![l] = Remembered(l)]
          /\ pace' = IF lastSlot[l] < 0 THEN [pace EXCEPT ![l].first = Scheduled(l)] ELSE pace
  /\ UNCHANGED <<clock, healthy, memory, streak, openUntil, made, outage>>

\* The thread wakes, at its time or later, and the loader asks the provider.
Send(c) ==
  /\ Now(c, "wait") /\ caller[c].slot <= clock
  /\ caller' = [caller EXCEPT ![c].at = "asked", ![c].slot = 0]
  /\ pace' = [pace EXCEPT ![caller[c].lane].sent = @ + 1]
  /\ outage' = [outage EXCEPT !.sent = IF healthy THEN 0 ELSE @ + 1]
  /\ UNCHANGED <<clock, healthy, memory, lastSlot, streak, openUntil, made>>

\* _call_with_retry: an answer, or an exception and perhaps another attempt.
Answer(c) ==
  /\ Now(c, "asked")
  /\ IF healthy THEN Gets(c, IF caller[c].key \in Known THEN "good" ELSE "empty")
     ELSE IF caller[c].attempt = Attempts THEN Gets(c, "failure")
     ELSE caller' = [caller EXCEPT ![c].at = "slot", ![c].attempt = @ + 1, ![c].slot = clock + Backoff]
  /\ UNCHANGED <<clock, healthy, memory, lastSlot, streak, openUntil, made, pace, outage>>

\* _record_outcome: a window that is open is not prolonged.
Opens == streak + 1 >= Threshold
RecordOutcome(c) ==
  /\ Now(c, "record") /\ Goes(c, "store")
  /\ IF caller[c].got # "failure" THEN streak' = 0 /\ UNCHANGED openUntil
     ELSE IF Opens /\ clock >= openUntil THEN streak' = 0 /\ openUntil' = clock + OpenFor
     ELSE streak' = streak + 1 /\ UNCHANGED openUntil
  /\ UNCHANGED <<clock, healthy, memory, lastSlot, made, pace, outage>>

\* _store: what failed is kept like an empty answer, for a shorter time, and even over
\* a good one; then what is too much is given up, never what was just written.
Written(k, got) ==
  [memory EXCEPT ![k] = [value |-> IF got = "good" THEN "good" ELSE "bad",
                         until |-> clock + (IF got = "good" THEN GoodTtl ELSE BadTtl)]]
Trimmed(m, k) ==
  LET held == {j \in Topics : m[j].value # "none"}
      live == {j \in held : m[j].until > clock}
  IN IF Cardinality(held) <= MaxEntries THEN {held}
     ELSE IF Cardinality(live) <= MaxEntries THEN {live}
     ELSE {s \in SUBSET live : /\ k \in s /\ Cardinality(s) = MaxEntries
                               /\ \A i \in s \ {k}, j \in live \ s : m[j].until <= m[i].until}
Store(c) ==
  LET k == caller[c].key
      m == Written(k, caller[c].got)
  IN /\ Now(c, "store") /\ Leaves(c)
     /\ IF (IF caller[c].got = "good" THEN GoodTtl ELSE BadTtl) = 0 THEN UNCHANGED memory
        ELSE \E s \in Trimmed(m, k) : memory' = [j \in Topics |-> IF j \in s THEN m[j] ELSE Nothing]
     /\ UNCHANGED <<clock, healthy, lastSlot, streak, openUntil, made, pace, outage>>

-----------------------------------------------------------------------------
ClockTicks ==
  /\ clock < Horizon /\ clock' = clock + 1
  /\ UNCHANGED <<healthy, memory, lastSlot, streak, openUntil, caller, made, pace, outage>>
\* What an outage finds: calls that are past the breaker, of which the ones with an answer
\* in their hands will tell the breaker that all is well.
Failing(c) == caller[c].at = "record" /\ caller[c].got = "failure"
PastBreaker == {c \in Callers : caller[c].at \in {"slot", "wait", "asked"} \/ Failing(c)}
Assured == {c \in Callers : caller[c].at = "record" /\ caller[c].got # "failure"}
Spare == (IF clock < openUntil THEN Cardinality(PastBreaker) ELSE 0) + (Threshold - 1) * Cardinality(Assured)
ProviderTurns ==
  /\ made.turns < MaxTurns /\ made' = [made EXCEPT !.turns = @ + 1]
  /\ healthy' = ~healthy /\ outage' = [since |-> clock, sent |-> 0, spare |-> Spare]
  /\ UNCHANGED <<clock, memory, lastSlot, streak, openUntil, caller, pace>>

CallStep(c) ==
  \/ \E k \in Topics, l \in Lanes : Look(c, k, l)
  \/ Check(c) \/ AcquireSlot(c) \/ Send(c) \/ Answer(c) \/ RecordOutcome(c) \/ Store(c)
OutNext == ClockTicks \/ ProviderTurns \/ \E c \in Callers : CallStep(c)

OutSpec == OutInit /\ [][OutNext]_outVars

-----------------------------------------------------------------------------
(* Properties. *)

\* However many threads call on a lane and however late they wake, the provider never
\* has more calls of it than the interval allows since the first (_acquire_slot); and
\* an outage costs it a bounded number of calls: Threshold failing ones before each
\* opening of the breaker and those that had looked before it, with their retries, with
\* one opening in a cooldown at most; and what it finds: the calls past a breaker that is
\* open already, and the answers of before, each of which makes the breaker begin to count
\* anew (_breaker_open, _record_outcome).
Openings == 1 + (clock - outage.since) \div OpenFor
Charged == Openings * (Threshold + Cardinality(Callers) - 1) + outage.spare
ProviderSpared ==
  /\ \A l \in Lanes :
       pace[l].sent > 0 => (pace[l].sent - 1) * Interval[l] <= clock - pace[l].first
  /\ ~healthy => outage.sent <= Charged * Attempts
=============================================================================
