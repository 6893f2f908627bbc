----------------------------- MODULE CacheStore -----------------------------
(***************************************************************************)
(* The key-value store of app/common/cache_store.py: Redis, and a bounded  *)
(* table of the process for the calls that Redis does not answer.  This    *)
(* module has the store and its four calls; the modules that use them      *)
(* bring the callers.  A call is one step: as long as Redis does not       *)
(* change sides only one of its two halves has an effect.                  *)
(***************************************************************************)
EXTENDS Naturals, FiniteSets

CONSTANTS
  Names,     \* the keys in use
  Nothing,   \* the content of a key that is absent
  Capacity,  \* LOCAL_CACHE_MAX_ENTRIES
  MaxFlips   \* bound on the times Redis comes and goes

ASSUME CacheStoreAssumption ==
  /\ Capacity \in Nat \ {0}
  /\ MaxFlips \in Nat

VARIABLES
  up,      \* does Redis answer?
  stable,  \* has it been so from the start?
  flips,
  remote,  \* what Redis holds
  local    \* _local, the table of the process

redis == <<up, stable, flips>>
store == <<redis, remote, local>>

Empty == [n \in Names |-> Nothing]

InitStore ==
  /\ up \in BOOLEAN /\ stable = TRUE /\ flips = 0
  /\ remote = Empty /\ local = Empty

\* A call that Redis does not answer: it is away, or, after it came and went, the
\* breaker is still open or the answer is lost, and with it perhaps the effect.
Away == ~up \/ ~stable
Lost(effect) == remote' = remote \/ (~stable /\ remote' = effect)

\* _local_put: over the limit the table gives up another entry.
\* Variant: the table as it was before it had a limit.
LocalPutUnbounded(n, v) == local' = [local EXCEPT ![n] = v]
LocalPut(n, v) ==
  LET with == [local EXCEPT ![n] = v] IN
  IF Cardinality({m \in Names : with[m] # Nothing}) <= Capacity
  THEN local' = with
  ELSE \E m \in Names \ {n} : local[m] # Nothing /\ local' = [with EXCEPT ![m] = Nothing]
\* The entries that a step takes out of the table unasked.
GivenUp(n) == {m \in Names \ {n} : local[m] # Nothing /\ local'[m] = Nothing}

\* reserve: set what is absent, and say whether it was.
Reserve(n, v, claimed) ==
  LET claim == IF remote[n] = Nothing THEN [remote EXCEPT ![n] = v] ELSE remote IN
  /\ \/ /\ up /\ claimed = (remote[n] = Nothing)
        /\ remote' = claim
        /\ UNCHANGED local
     \/ /\ Away /\ claimed = (local[n] = Nothing)
        /\ Lost(claim)
        /\ IF claimed THEN LocalPut(n, v) ELSE UNCHANGED local
  /\ UNCHANGED redis

\* get_json
Get(n, v) ==
  /\ \/ up /\ v = remote[n]
     \/ Away /\ v = local[n]
  /\ UNCHANGED store

\* set_json: what Redis takes leaves the table alone.
Set(n, v) ==
  /\ \/ up /\ remote' = [remote EXCEPT ![n] = v] /\ UNCHANGED local
     \/ Away /\ Lost([remote EXCEPT ![n] = v]) /\ LocalPut(n, v)
  /\ UNCHANGED redis

\* delete: in the table too, whatever Redis says.
Delete(n) ==
  /\ \/ up /\ remote' = [remote EXCEPT ![n] = Nothing]
     \/ Away /\ Lost([remote EXCEPT ![n] = Nothing])
  /\ local' = [local EXCEPT ![n] = Nothing]
  /\ UNCHANGED redis

\* The TTL of an entry runs out.
ExpireEntry(n) ==
  /\ \/ remote[n] # Nothing /\ remote' = [remote EXCEPT ![n] = Nothing] /\ UNCHANGED local
     \/ local[n] # Nothing /\ local' = [local EXCEPT ![n] = Nothing] /\ UNCHANGED remote
  /\ UNCHANGED redis

\* Redis goes or comes, with or without what it held.
Flip ==
  /\ flips < MaxFlips
  /\ flips' = flips + 1 /\ up' = ~up /\ stable' = FALSE
  /\ remote' = remote \/ remote' = Empty
  /\ UNCHANGED local

StoreTyped(Values) ==
  /\ up \in BOOLEAN /\ stable \in BOOLEAN /\ flips \in 0 .. MaxFlips
  /\ remote \in [Names -> Values] /\ local \in [Names -> Values]
\* The table keeps its limit.
Bounded == Cardinality({n \in Names : local[n] # Nothing}) <= Capacity
=============================================================================
