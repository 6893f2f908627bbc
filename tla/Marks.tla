------------------------------- MODULE Marks -------------------------------
(***************************************************************************)
(* The one-shot marks the process uses as locks (try_mark and unmark of    *)
(* state_and_sessions): a SET NX in Redis, with a bounded table of the     *)
(* process behind it, and the circuit breaker of redis_client in front.    *)
(* Generation and recovery take their day and resume locks from here;      *)
(* Generation assumes a Redis that answers, this module looks at the rest. *)
(***************************************************************************)
EXTENDS Naturals, FiniteSets

CONSTANTS
  Clients,    \* threads that take and release marks
  Keys,       \* the names of the marks
  Lasting,    \* those a holder may leave to their time: the resume locks
  None,       \* no client, no key
  Left,       \* who has an entry that was left to its time
  Capacity,   \* entries of the local table
  Cooldown,   \* length of the breaker's window, in ticks of the clock
  MaxFlips,   \* bound on the times Redis comes and goes
  MaxCrashes  \* bound on the deaths of the process

ASSUME MarksAssumption ==
  /\ Lasting \subseteq Keys
  /\ None \notin Clients \cup Keys /\ Left \notin Clients \cup {None}
  /\ Capacity \in Nat \ {0}
  /\ Cooldown \in Nat \ {0}
  /\ MaxFlips \in Nat
  /\ MaxCrashes \in Nat

VARIABLES
  up,       \* does Redis answer?
  stable,   \* has it been so from the start?
  flips, crashes,
  remote,   \* the keys Redis holds
  table,    \* _marks: who has the local entry of a key: a client, Left, or None
  window,   \* ticks until the breaker closes
  pc,       \* what each client does
  key       \* the key it is about

redis   == <<up, stable, flips>>
clients == <<pc, key>>
vars    == <<redis, crashes, remote, table, window, clients>>

Init ==
  /\ up \in BOOLEAN /\ stable = TRUE /\ flips = 0 /\ crashes = 0
  /\ remote = {}
  /\ table = [k \in Keys |-> None]
  /\ window = 0
  /\ pc = [c \in Clients |-> "idle"]
  /\ key = [c \in Clients |-> None]

-----------------------------------------------------------------------------
Goto(c, l) == pc' = [pc EXCEPT ![c] = l]
GoIdle(c) == Goto(c, "idle") /\ key' = [key EXCEPT ![c] = None]

\* note_failure: a failure inside an open window does not prolong it.
NoteFailure == window' = IF window > 0 THEN window ELSE Cooldown

\* What becomes of a command, sent with the effect `sent` on Redis: the open
\* breaker keeps it back; Redis answers; or the call fails, and a Redis that
\* comes and goes may have executed it before the answer was lost.
Blocked == window > 0 /\ NoteFailure /\ UNCHANGED remote
Lost(sent) ==
  /\ window = 0
  /\ ~up \/ ~stable
  /\ remote' = remote \/ remote' = sent
  /\ stable => remote' = remote
  /\ NoteFailure

\* try_mark, its call to Redis.  Of a key that is already there, the client says
\* None, which is taken for "no answer".
AskRedis(c, k) ==
  /\ pc[c] = "idle"
  /\ \/ /\ window = 0 /\ up /\ k \notin remote
        /\ remote' = remote \cup {k}
        /\ Goto(c, "holds")
        /\ UNCHANGED window
     \/ /\ window = 0 /\ up /\ k \in remote
        /\ Goto(c, "local")
        /\ UNCHANGED <<remote, window>>
     \/ Blocked /\ Goto(c, "local")
     \/ Lost(remote \cup {k}) /\ Goto(c, "local")
  /\ key' = [key EXCEPT ![c] = k]
  /\ UNCHANGED <<redis, crashes, table>>

\* _try_mark_local, under the lock.  A full table refuses: its entries are locks.
\* Variant: a full table gives up one of its entries, as the window table does.
Entries == {k \in Keys : table[k] # None}
AskLocalEvicting(c) ==
  /\ pc[c] = "local"
  /\ \/ table[key[c]] # None /\ GoIdle(c) /\ UNCHANGED table
     \/ /\ table[key[c]] = None
        /\ IF Cardinality(Entries) < Capacity
           THEN table' = [table EXCEPT ![key[c]] = c]
           ELSE \E k \in Entries : table' = [table EXCEPT ![k] = None, ![key[c]] = c]
        /\ Goto(c, "holds") /\ UNCHANGED key
  /\ UNCHANGED <<redis, crashes, remote, window>>
AskLocal(c) ==
  /\ pc[c] = "local"
  /\ IF table[key[c]] = None /\ Cardinality(Entries) < Capacity
     THEN /\ table' = [table EXCEPT ![key[c]] = c]
          /\ Goto(c, "holds") /\ UNCHANGED key
     ELSE GoIdle(c) /\ UNCHANGED table
  /\ UNCHANGED <<redis, crashes, remote, window>>

\* unmark, its call to Redis: whoever set the key, it is deleted.
\* Variant: the local entry is left alone when Redis has answered.
DropRemoteOnly(c) ==
  /\ pc[c] = "holds"
  /\ \/ /\ window = 0 /\ up /\ remote' = remote \ {key[c]} /\ UNCHANGED window
        /\ GoIdle(c)
     \/ (Blocked \/ Lost(remote \ {key[c]})) /\ Goto(c, "drop") /\ UNCHANGED key
  /\ UNCHANGED <<redis, crashes, table>>
DropRemote(c) ==
  /\ pc[c] = "holds"
  /\ \/ window = 0 /\ up /\ remote' = remote \ {key[c]} /\ UNCHANGED window
     \/ Blocked
     \/ Lost(remote \ {key[c]})
  /\ Goto(c, "drop")
  /\ UNCHANGED <<redis, crashes, table, key>>

\* unmark, the local table: always, and whoever set the entry.
DropLocal(c) ==
  /\ pc[c] = "drop"
  /\ table' = [table EXCEPT ![key[c]] = None]
  /\ GoIdle(c)
  /\ UNCHANGED <<redis, crashes, remote, window>>

\* The recovery leaves the resume lock of a trip where it is, in Redis or in the
\* table, when the new planner is queued and when a resumed run raises.
Leave(c) ==
  /\ pc[c] = "holds" /\ key[c] \in Lasting
  /\ table' = [table EXCEPT ![key[c]] = IF @ = c THEN Left ELSE @]
  /\ GoIdle(c)
  /\ UNCHANGED <<redis, crashes, remote, window>>

-----------------------------------------------------------------------------
(* Time, Redis and the process. *)

Tick ==
  /\ window > 0
  /\ window' = window - 1
  /\ UNCHANGED <<redis, crashes, remote, table, clients>>

\* The TTL of a mark is longer than the work done under it, so it runs out only
\* for a mark that nobody holds.
Holds(c) == pc[c] \in {"holds", "drop"}
Held(k) == \E c \in Clients : key[c] = k /\ Holds(c)
Expire(k) ==
  /\ ~Held(k)
  /\ \/ k \in remote /\ remote' = remote \ {k} /\ UNCHANGED table
     \/ table[k] = Left /\ table' = [table EXCEPT ![k] = None] /\ UNCHANGED remote
  /\ UNCHANGED <<redis, crashes, window, clients>>

\* Redis goes or comes, with or without what it held.
Flip ==
  /\ flips < MaxFlips
  /\ flips' = flips + 1 /\ up' = ~up /\ stable' = FALSE
  /\ remote' = remote \/ remote' = {}
  /\ UNCHANGED <<crashes, table, window, clients>>

\* The process dies: its table, its breaker and its threads are gone.
Crash ==
  /\ crashes < MaxCrashes
  /\ crashes' = crashes + 1
  /\ table' = [k \in Keys |-> None]
  /\ window' = 0
  /\ pc' = [c \in Clients |-> "idle"]
  /\ key' = [c \in Clients |-> None]
  /\ UNCHANGED <<redis, remote>>

ClientStep(c) ==
  \/ \E k \in Keys : AskRedis(c, k)
  \/ AskLocal(c) \/ DropRemote(c) \/ DropLocal(c) \/ Leave(c)

Next ==
  \/ \E c \in Clients : ClientStep(c)
  \/ Tick \/ Flip \/ Crash
  \/ \E k \in Keys : Expire(k)

Spec == Init /\ [][Next]_vars

-----------------------------------------------------------------------------
(* Properties. *)

\* Every store and every client holds a value of its kind.
TypeOK ==
  /\ up \in BOOLEAN /\ stable \in BOOLEAN
  /\ flips \in 0 .. MaxFlips /\ crashes \in 0 .. MaxCrashes
  /\ remote \subseteq Keys
  /\ table \in [Keys -> Clients \cup {Left, None}]
  /\ window \in 0 .. Cooldown
  /\ pc \in [Clients -> {"idle", "local", "holds", "drop"}]
  /\ key \in [Clients -> Keys \cup {None}]
  /\ \A c \in Clients : pc[c] = "idle" <=> key[c] = None

Exclusive ==
  \A c1, c2 \in Clients :
    pc[c1] = "holds" /\ pc[c2] = "holds" /\ key[c1] = key[c2] => c1 = c2

\* While Redis is away the local table is a lock for the threads of the process,
\* even when it is full: an entry is never given up for another (the rule that
\* _bound_marks states).
OutageExclusive == stable /\ ~up => Exclusive

\* Who puts an entry into the local table takes it out again, whatever Redis did in
\* between, or leaves it there on purpose, which the recovery does with a resume lock
\* and nobody with the lock of a day: no entry of another kind is left behind to
\* block its key until the TTL (the comment in unmark).
LocalMarkHasHolder ==
  \A k \in Keys :
    /\ table[k] \in Clients => key[table[k]] = k /\ Holds(table[k])
    /\ table[k] = Left => k \in Lasting

\* While Redis answers, its answer is final: a key that is taken is refused.
RedisExclusive == stable /\ up => Exclusive
=============================================================================
