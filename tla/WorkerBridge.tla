---------------------------- MODULE WorkerBridge ----------------------------
(***************************************************************************)
(* A trip streamed to one caller of the agent's own interface              *)
(* (api/agent.py, generate_trip_stream).  The branch of the graph writes   *)
(* its events from a thread of the graph; a worker thread iterates over    *)
(* them and puts each into a bounded queue (_bridge_worker_events); the    *)
(* response takes them out, or is cancelled when the caller goes away,     *)
(* which it tells the others by an event they look at now and then.        *)
(***************************************************************************)
EXTENDS Naturals, Sequences

CONSTANTS
  StreamDays,  \* days of the request
  QueueMax     \* _STREAM_QUEUE_MAXSIZE

ASSUME WorkerBridgeAssumption == StreamDays \in Nat \ {0} /\ QueueMax \in Nat \ {0}

VARIABLES
  node,      \* stream_generate: [at, day, emitted]
  feed,      \* events written by the node, not yet iterated over
  worker,    \* _run with _producer: "new", "opened", "streams", "ends", "gone"
  hand,      \* what the worker is about to put: NoLine, an event or the Sentinel
  lines,     \* the queue
  cancelled, \* the cancel event
  reader,    \* the response: "reads", "ended", "left"; "away" once its last get has returned
  taken,     \* lines sent to the caller
  yielded    \* events the producer has yielded so far

bridgeVars == <<node, feed, worker, hand, lines, cancelled, reader, taken, yielded>>

Days == 1 .. StreamDays
Event(kind, days) == [no |-> 0, kind |-> kind, days |-> days]
NoLine == Event("nothing", {})
Sentinel == Event("sentinel", {})
\* The n-th event of the producer; the number is there for the property only.
Numbered(event, n) == [event EXCEPT !.no = n]

BridgeInit ==
  /\ node = [at |-> "waits", day |-> 1, emitted |-> {}] /\ feed = <<>>
  /\ worker = "new" /\ hand = NoLine /\ lines = <<>> /\ cancelled = FALSE
  /\ reader = "reads" /\ taken = <<>> /\ yielded = 0

-----------------------------------------------------------------------------
(* stream_generate, in a thread of the graph *)

Reach(where) == node' = [node EXCEPT !.at = where]
Writes(kind, days) == feed' = Append(feed, Event(kind, days))

\* A day is planned and landed: one without places is passed over, before the look at the
\* cancel event (on_day); a failure of the whole plan ends the days (generate_open_plans).
\* A day is counted before it is written: one that the writer refuses is such a failure,
\* and stays counted.
PlanDay ==
  /\ node.at = "days"
  /\ \/ node.day > StreamDays /\ node' = [node EXCEPT !.at = "patches", !.day = 1] /\ UNCHANGED feed
     \/ Reach("counts") /\ UNCHANGED feed
     \/ node.day <= StreamDays /\ node' = [node EXCEPT !.day = @ + 1] /\ UNCHANGED feed
     \/ /\ node.day <= StreamDays /\ cancelled
        /\ Reach("counts") /\ UNCHANGED feed
     \/ /\ node.day <= StreamDays /\ ~cancelled
        /\ node' = [node EXCEPT !.day = @ + 1, !.emitted = @ \cup {node.day}]
        /\ Writes("day", {node.day})
     \/ /\ node.day <= StreamDays /\ ~cancelled
        /\ node' = [node EXCEPT !.at = "counts", !.emitted = @ \cup {node.day}]
        /\ UNCHANGED feed
\* spread_hotels changes days; those of them that were sent are sent again (on_patch).
Patch ==
  /\ node.at = "patches"
  /\ \/ \E d \in node.emitted :
          d >= node.day /\ node' = [node EXCEPT !.day = d + 1] /\ Writes("day_patch", {d})
     \/ Reach("counts") /\ UNCHANGED feed
\* A cancelled run ends here without a word; a cancel between the two looks is an exception.
Count ==
  /\ node.at = "counts" /\ UNCHANGED feed
  /\ Reach(IF cancelled THEN "over" ELSE "pool")
Suggest ==
  /\ node.at = "pool"
  /\ \/ Reach("raised") /\ UNCHANGED feed
     \/ ~cancelled /\ Reach("ends") /\ Writes("suggestions", {})
SendDone == node.at = "ends" /\ Reach("over") /\ Writes("done", node.emitted)

NodeStep ==
  /\ PlanDay \/ Patch \/ Count \/ Suggest \/ SendDone
  /\ UNCHANGED <<worker, hand, lines, cancelled, reader, taken, yielded>>

-----------------------------------------------------------------------------
(* The worker: _producer iterated over by _run *)

Yield(event) == hand' = Numbered(event, yielded + 1) /\ yielded' = yielded + 1

\* The first event, of the trace; then a request that was given up ends without a word, and
\* one that cannot be planned ends with the error event.
OpenRun == worker = "new" /\ worker' = "opened" /\ Yield(Event("start", {})) /\ UNCHANGED <<node, feed>>
Launch ==
  /\ worker = "opened"
  /\ \/ /\ cancelled /\ worker' = "ends" /\ hand' = Sentinel /\ UNCHANGED <<node, feed, yielded>>
     \/ /\ ~cancelled /\ worker' = "streams" /\ Reach("days") /\ UNCHANGED <<feed, hand, yielded>>
     \/ /\ ~cancelled /\ worker' = "fails" /\ Yield(Event("error", {})) /\ UNCHANGED <<node, feed>>
Forward ==
  /\ worker = "streams" /\ feed # <<>>
  /\ Yield(Head(feed)) /\ feed' = Tail(feed) /\ UNCHANGED <<node, worker>>
\* The node is over and all of its events were iterated over; or it raised, and the events
\* that had not been are lost.
FinishRun ==
  /\ worker = "streams"
  /\ \/ /\ node.at = "over" /\ feed = <<>>
        /\ worker' = "ends" /\ hand' = Sentinel /\ UNCHANGED <<feed, yielded>>
     \/ /\ node.at = "raised"
        /\ worker' = "fails" /\ Yield(Event("error", {})) /\ feed' = <<>>
  /\ UNCHANGED node
FailRun == worker = "fails" /\ worker' = "ends" /\ hand' = Sentinel /\ UNCHANGED <<node, feed, yielded>>
Iterate ==
  /\ hand = NoLine /\ (OpenRun \/ Launch \/ Forward \/ FinishRun \/ FailRun)
  /\ UNCHANGED <<lines, cancelled, reader, taken>>

\* _put: waits for room in the queue, looking at the cancel event in between.
\* Variants: gives up when the queue is full; never gives up.
GivesUpNever == FALSE
GivesUpFull == cancelled \/ Len(lines) >= QueueMax
GivesUp == cancelled
PutLine ==
  /\ hand # NoLine /\ hand' = NoLine
  /\ \/ Len(lines) < QueueMax /\ lines' = Append(lines, hand)
     \/ GivesUp /\ UNCHANGED lines
  /\ worker' = IF hand = Sentinel THEN "gone" ELSE worker
  /\ UNCHANGED <<node, feed, cancelled, reader, taken, yielded>>

-----------------------------------------------------------------------------
(* The response *)

ReadLine ==
  /\ reader = "reads" /\ lines # <<>> /\ lines' = Tail(lines)
  /\ IF Head(lines) = Sentinel
       THEN reader' = "ended" /\ cancelled' = TRUE /\ UNCHANGED taken
       ELSE taken' = Append(taken, Head(lines)) /\ UNCHANGED <<reader, cancelled>>
  /\ UNCHANGED <<node, feed, worker, hand, yielded>>
\* The caller goes away; a get that is under way may still take a line.
CallerLeaves ==
  /\ reader = "reads" /\ reader' = "left" /\ cancelled' = TRUE
  /\ UNCHANGED <<node, feed, worker, hand, lines, taken, yielded>>
LastGet ==
  /\ reader = "left" /\ reader' = "away"
  /\ lines' = IF lines = <<>> THEN lines ELSE Tail(lines)
  /\ UNCHANGED <<node, feed, worker, hand, cancelled, taken, yielded>>

WorkerStep == Iterate \/ PutLine
BridgeNext == NodeStep \/ WorkerStep \/ ReadLine \/ CallerLeaves \/ LastGet

BridgeSpec == BridgeInit /\ [][BridgeNext]_bridgeVars

-----------------------------------------------------------------------------
(* Properties. *)

\* What the caller gets is what the producer yielded, each once and in order, however slow it
\* reads; a response that ends by itself has all of it, the last line says how it ended, and
\* a "done" counts every day that was sent, and at most one more: the day whose line could
\* not be written (agent.py:99-110, stream_branch.py:147-155).
InOrder == \A i \in 1 .. Len(taken) : taken[i].no = i
Sent(d) == \E i \in 1 .. Len(taken) : taken[i].kind = "day" /\ taken[i].days = {d}
Complete ==
  reader = "ended" =>
    /\ Len(taken) = yielded /\ taken # <<>>
    /\ taken[Len(taken)].kind \in {"done", "error"}
HonestDone ==
  \A i \in 1 .. Len(taken) : taken[i].kind = "done" =>
    /\ \A d \in Days : Sent(d) => d \in taken[i].days
    /\ \A d, e \in taken[i].days : ~Sent(d) /\ ~Sent(e) => d = e
LinesInOrder == InOrder /\ Complete /\ HonestDone

\* The worker ends after its caller has gone, whatever the queue holds (agent.py:106-110).
BridgeReturns == (reader # "reads") ~> (worker = "gone")
=============================================================================
