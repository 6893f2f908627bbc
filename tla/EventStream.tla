----------------------------- MODULE EventStream -----------------------------
(***************************************************************************)
(* The progress stream of one trip: the events route reads the row,        *)
(* registers a subscription, may answer with the terminal state at once,   *)
(* and else relays what the hub broadcasts.  The publishers are threads of *)
(* the pools; a frame reaches a subscription through a callback of the     *)
(* event loop and waits in its bounded queue until the client takes it.    *)
(***************************************************************************)
EXTENDS Naturals, Sequences, FiniteSets

CONSTANTS
  Clients,    \* SSE connections to the trip
  Limit,      \* MAX_SUBSCRIBERS_PER_ITINERARY
  Buffer,     \* SINK_BUFFER
  MaxFrames,  \* bound on the progress frames
  Enders      \* who may end the trip: a planner, the recovery scan

ASSUME EventStreamAssumption ==
  /\ Limit \in Nat \ {0}
  /\ Buffer \in Nat \ {0}
  /\ MaxFrames \in Nat
  /\ Enders \subseteq {"planner", "recovery"}

VARIABLES
  gen,       \* has the row a terminal gen_state?
  pub,       \* who ends the trip: "run", then "announce" or "failing", then "over";
             \* "silent" if nobody is told
  sent,      \* progress frames published
  sinks,     \* _subscribers of the trip
  pc,        \* what each connection does
  row,       \* had the trip ended in the row it read?
  since,     \* the value of pub when it was registered
  rejected,  \* was it over the limit?
  open,      \* Subscription.open
  pending,   \* callbacks handed to the event loop
  queue,     \* Subscription._queue
  due, took, \* frames offered to a registered client, and frames it took
  told       \* kinds of frame it was sent

trip  == <<gen, pub, sent>>
route == <<row, since, rejected>>
bus   == <<open, pending, queue, due>>
vars  == <<trip, sinks, pc, route, bus, took, told>>

Init ==
  /\ gen \in BOOLEAN /\ pub = (IF gen THEN "over" ELSE "run") /\ sent = 0
  /\ sinks = {}
  /\ pc = [c \in Clients |-> "idle"]
  /\ row = [c \in Clients |-> FALSE]
  /\ since = [c \in Clients |-> "run"]
  /\ rejected = [c \in Clients |-> FALSE]
  /\ open = [c \in Clients |-> TRUE]
  /\ pending = [c \in Clients |-> << >>]
  /\ queue = [c \in Clients |-> << >>]
  /\ due = [c \in Clients |-> 0]
  /\ took = [c \in Clients |-> 0]
  /\ told = [c \in Clients |-> {}]

Goto(c, l) == pc' = [pc EXCEPT ![c] = l]

-----------------------------------------------------------------------------
(* The publishers. *)

\* broadcast: offer the frame to every sink, and take the dead ones out.
Broadcast(frame) ==
  LET live == {c \in sinks : open[c]} IN
  /\ pending' = [c \in Clients |-> IF c \in live THEN Append(pending[c], frame) ELSE pending[c]]
  /\ due' = [c \in Clients |-> IF c \in live THEN due[c] + 1 ELSE due[c]]
  /\ sinks' = live
  /\ UNCHANGED <<open, queue>>

\* Day events, and what enrichment and export publish after the end.
Progress ==
  /\ sent < MaxFrames
  /\ sent' = sent + 1
  /\ Broadcast("progress")
  /\ UNCHANGED <<gen, pub, pc, route, took, told>>

\* A trip that finishes is committed first and announced then.  The recovery
\* tells nobody.
End ==
  /\ pub = "run"
  /\ gen' = TRUE
  /\ \E e \in Enders : pub' = IF e = "planner" THEN "announce" ELSE "silent"
  /\ UNCHANGED <<sent, sinks, pc, route, bus, took, told>>

Announce ==
  /\ pub = "announce"
  /\ pub' = "over"
  /\ Broadcast("end")
  /\ UNCHANGED <<gen, sent, pc, route, took, told>>

\* A trip that fails is announced first and committed then.
AnnounceFailure ==
  /\ pub = "run" /\ "planner" \in Enders
  /\ pub' = "failing"
  /\ Broadcast("end")
  /\ UNCHANGED <<gen, sent, pc, route, took, told>>

FailTrip ==
  /\ pub = "failing"
  /\ gen' = TRUE
  /\ pub' = "over"
  /\ UNCHANGED <<sent, sinks, pc, route, bus, took, told>>

-----------------------------------------------------------------------------
(* The events route of connection c. *)

\* find_readable_main, in a thread.
ReadRow(c) ==
  /\ pc[c] = "idle"
  /\ Goto(c, "read")
  /\ row' = [row EXCEPT ![c] = gen]
  /\ UNCHANGED <<trip, sinks, since, rejected, bus, took, told>>

\* subscribe: one more than the limit gets a frame that says so, and is closed.
Subscribe(c) ==
  /\ pc[c] = "read"
  /\ IF Cardinality(sinks) < Limit
     THEN /\ sinks' = sinks \cup {c}
          /\ UNCHANGED <<rejected, open, pending>>
     ELSE /\ rejected' = [rejected EXCEPT ![c] = TRUE]
          /\ pending' = [pending EXCEPT ![c] = Append(@, "limit")]
          /\ open' = [open EXCEPT ![c] = FALSE]
          /\ UNCHANGED sinks
  /\ since' = [since EXCEPT ![c] = pub]
  /\ Goto(c, "snapshot")
  /\ UNCHANGED <<trip, row, queue, due, took, told>>

\* unsubscribe, at the end of a connection.
Unsubscribe(c) ==
  /\ sinks' = sinks \ {c}
  /\ open' = [open EXCEPT ![c] = FALSE]
  /\ pending' = [pending EXCEPT ![c] = << >>]
  /\ queue' = [queue EXCEPT ![c] = << >>]
  /\ UNCHANGED due

\* terminal_snapshot, from the row read before the registration.
\* Variant: the stream as it was without the snapshot.
SnapshotNever(c) == FALSE
SnapshotDue(c) == row[c]
Snapshot(c) ==
  /\ pc[c] = "snapshot"
  /\ Goto(c, IF SnapshotDue(c) THEN "tell" ELSE "stream")
  /\ UNCHANGED <<trip, sinks, route, bus, took, told>>

\* The read of the unfinished days raises, or the client goes meanwhile.
\* Variant: nobody takes the subscription out.
AbortLeaking(c) ==
  /\ pc[c] = "snapshot"
  /\ Goto(c, "gone")
  /\ UNCHANGED <<trip, sinks, route, bus, took, told>>
Abort(c) ==
  /\ pc[c] = "snapshot"
  /\ Unsubscribe(c)
  /\ Goto(c, "gone")
  /\ UNCHANGED <<trip, route, took, told>>

\* event_frames with a snapshot: one frame, and the connection is over.
Tell(c) ==
  /\ pc[c] = "tell"
  /\ told' = [told EXCEPT ![c] = @ \cup {"end"}]
  /\ Unsubscribe(c)
  /\ Goto(c, "closed")
  /\ UNCHANGED <<trip, route, took>>

\* event_frames without: take what the queue has ...
Take(c) ==
  /\ pc[c] = "stream" /\ queue[c] # << >>
  /\ told' = [told EXCEPT ![c] = @ \cup {Head(queue[c])}]
  /\ queue' = [queue EXCEPT ![c] = Tail(@)]
  /\ took' = [took EXCEPT ![c] = @ + 1]
  /\ UNCHANGED <<trip, sinks, pc, route, open, pending, due>>

\* ... and after an idle interval end a closed connection.  An open one gets a
\* heartbeat, which changes nothing.
Timeout(c) ==
  /\ pc[c] = "stream" /\ queue[c] = << >> /\ pending[c] = << >>
  /\ ~open[c]
  /\ Unsubscribe(c)
  /\ Goto(c, "closed")
  /\ UNCHANGED <<trip, route, took, told>>

\* The client goes; the finally of event_frames runs.
Leave(c) ==
  /\ pc[c] \in {"tell", "stream"}
  /\ Unsubscribe(c)
  /\ Goto(c, "gone")
  /\ UNCHANGED <<trip, route, took, told>>

\* EventSource connects again.
Reconnect(c) ==
  /\ pc[c] \in {"closed", "gone"}
  /\ Goto(c, "idle")
  /\ row' = [row EXCEPT ![c] = FALSE]
  /\ since' = [since EXCEPT ![c] = "run"]
  /\ rejected' = [rejected EXCEPT ![c] = FALSE]
  /\ open' = [open EXCEPT ![c] = TRUE]
  /\ due' = [due EXCEPT ![c] = 0]
  /\ took' = [took EXCEPT ![c] = 0]
  /\ told' = [told EXCEPT ![c] = {}]
  /\ UNCHANGED <<trip, sinks, pending, queue>>

\* _put, on the event loop: a full queue is the death of the connection.  It does
\* not look at `open`.
\* Variants: it does; a full queue loses the frame and nothing else.
PutIfOpen(c) ==
  /\ pending[c] # << >>
  /\ pending' = [pending EXCEPT ![c] = Tail(@)]
  /\ IF ~open[c] THEN UNCHANGED <<queue, open>>
     ELSE IF Len(queue[c]) < Buffer
     THEN queue' = [queue EXCEPT ![c] = Append(@, Head(pending[c]))] /\ UNCHANGED open
     ELSE open' = [open EXCEPT ![c] = FALSE] /\ UNCHANGED queue
  /\ UNCHANGED <<trip, sinks, pc, route, due, took, told>>
PutLosing(c) ==
  /\ pending[c] # << >>
  /\ pending' = [pending EXCEPT ![c] = Tail(@)]
  /\ queue' = [queue EXCEPT ![c] = IF Len(@) < Buffer THEN Append(@, Head(pending[c])) ELSE @]
  /\ UNCHANGED <<trip, sinks, pc, route, open, due, took, told>>
Put(c) ==
  /\ pending[c] # << >>
  /\ pending' = [pending EXCEPT ![c] = Tail(@)]
  /\ IF Len(queue[c]) < Buffer
     THEN queue' = [queue EXCEPT ![c] = Append(@, Head(pending[c]))] /\ UNCHANGED open
     ELSE open' = [open EXCEPT ![c] = FALSE] /\ UNCHANGED queue
  /\ UNCHANGED <<trip, sinks, pc, route, due, took, told>>

-----------------------------------------------------------------------------
Connection(c) ==
  \/ Subscribe(c) \/ Snapshot(c) \/ Tell(c) \/ Take(c) \/ Timeout(c)

Next ==
  \/ Progress \/ End \/ Announce \/ AnnounceFailure \/ FailTrip
  \/ \E c \in Clients :
       \/ ReadRow(c) \/ Connection(c) \/ Abort(c) \/ Leave(c) \/ Put(c)
       \/ Reconnect(c)

Spec == Init /\ [][Next]_vars

\* The planner goes on from its commit to the frame, or from the frame to the
\* commit; the event loop runs its callbacks, and a
\* client that stays reads.
Fairness ==
  /\ WF_vars(Announce) /\ WF_vars(FailTrip)
  /\ \A c \in Clients : WF_vars(Connection(c)) /\ WF_vars(Put(c))

FairSpec == Spec /\ Fairness

-----------------------------------------------------------------------------
(* Properties. *)

Phases == {"run", "announce", "failing", "over", "silent"}
Frames == {"progress", "end", "limit"}
Over(c) == pc[c] \in {"closed", "gone"}

\* Every connection and every frame is of its kind.
TypeOK ==
  /\ gen \in BOOLEAN /\ pub \in Phases /\ sent \in 0 .. MaxFrames
  /\ sinks \subseteq Clients
  /\ pc \in [Clients -> {"idle", "read", "snapshot", "tell", "stream", "closed", "gone"}]
  /\ row \in [Clients -> BOOLEAN]
  /\ since \in [Clients -> Phases]
  /\ rejected \in [Clients -> BOOLEAN]
  /\ open \in [Clients -> BOOLEAN]
  /\ pending \in [Clients -> Seq(Frames)]
  /\ queue \in [Clients -> Seq(Frames)]
  /\ \A c \in Clients : Len(queue[c]) <= Buffer
  /\ due \in [Clients -> Nat]
  /\ took \in [Clients -> Nat]
  /\ told \in [Clients -> SUBSET Frames]

\* No slot of the trip is lost: whoever is registered has a connection that will
\* take it out (the except branch of the route and the finally of event_frames).
NoLeakedSlot == \A c \in sinks : pc[c] \in {"snapshot", "tell", "stream"}

\* A connection that is still open has missed no frame: what was offered to it
\* has been taken, is queued, or is on its way (offer and _put).
OpenMissesNothing ==
  \A c \in Clients : open[c] => due[c] = took[c] + Len(queue[c]) + Len(pending[c])

\* A rejected connection is told why before the server closes it, unless it was
\* told that the trip has ended (the comment in _put).
RejectedTold ==
  \A c \in Clients : rejected[c] /\ pc[c] = "closed" => told[c] \cap {"limit", "end"} # {}

\* A connection that is dead does not occupy its slot for ever, also when nothing
\* is broadcast any more (take reports CLOSED); and who was registered when a planner
\* sent the terminal frame, or read the row after the end, gets that frame, unless
\* the connection ends.
ConnectionsEnd ==
  \A c \in Clients :
    /\ pc[c] = "stream" /\ ~open[c] ~> Over(c)
    /\ pc[c] = "stream" /\ (row[c] \/ (since[c] \in {"run", "announce"} /\ pub \in {"failing", "over"}))
         ~> "end" \in told[c] \/ Over(c)
=============================================================================
