--------------------------- MODULE DeliveryProofs -----------------------------
(***************************************************************************)
(* What reaches a client in order, for any number of frames, days, drafts, *)
(* publishers and attempts: the numbers of the progress events, the lines  *)
(* of a whole-trip stream, the drafts of the conversation, and what the    *)
(* two pages that show a trip ask for and keep.  The stream needs the      *)
(* history of the producer, put together from where its events are         *)
(* (Produced); the card needs that only the last draft waits, and that     *)
(* nobody asks but its own turn; the page of a trip needs that one that is *)
(* made changes by the page's own writes only; the home page needs that    *)
(* one attempt is live, in the place that is kept for it, with its         *)
(* sentence unsaid.                                                        *)
(***************************************************************************)
EXTENDS EventStream, EventSeq, WorkerBridge, ChatPanel, DetailPage, HomePage, SequenceTheorems, TLAPS

-----------------------------------------------------------------------------
(* Numbers of the frames: EventSeq. *)

\* The last number of a trip is in the table, and it is the largest.
Rising(s) == \A i, j \in DOMAIN s : i < j => s[i] < s[j]
AuthorRows ==
  [at : {"idle", "number", "advance", "broadcast", "redis"}, of : Rooms \cup {"none"}, number : Nat]
SeqTypes ==
  /\ floor \in [Rooms -> Nat] /\ counter \in [Rooms -> Nat]
  /\ author \in [Publishers -> AuthorRows]
  /\ \A p \in Publishers : author[p].at \in {"number", "advance"} => author[p].of \in Rooms
  /\ given \in [Rooms -> Seq(Nat)]
\* The floor of a trip is above every number it has given.
FloorCovers == \A t \in Rooms : \A i \in DOMAIN given[t] : given[t][i] <= floor[t]
SeqInv == SeqTypes /\ FloorCovers /\ NumbersRise

\* A number above all of them goes on a rising list.
LEMMA RisesOn ==
  ASSUME NEW s \in Seq(Nat), NEW n \in Nat, Rising(s), \A i \in DOMAIN s : s[i] < n
  PROVE  /\ s \o <<n>> \in Seq(Nat) /\ Rising(s \o <<n>>)
         /\ \A i \in DOMAIN (s \o <<n>>) : (s \o <<n>>)[i] <= n
<1> DEFINE r == s \o <<n>>
<1>1. /\ r \in Seq(Nat) /\ DOMAIN r = 1 .. (Len(s) + 1) /\ DOMAIN s = 1 .. Len(s) /\ Len(s) \in Nat
      /\ \A i \in 1 .. Len(s) : r[i] = s[i] /\ s[i] \in Nat
      /\ r[Len(s) + 1] = n
  OBVIOUS
<1> HIDE DEF r
<1>2. Rising(r) BY <1>1 DEF Rising
<1>3. \A i \in DOMAIN r : r[i] <= n BY <1>1
<1> QED BY <1>1, <1>2, <1>3 DEF r

\* _advance_seq gives a number above the floor of its trip, and makes it the floor.
LEMMA AdvanceKeeps == ASSUME SeqInv, NEW p \in Publishers, AdvanceSeq(p) PROVE SeqInv'
<1> DEFINE t == author[p].of
           n == Advanced(t, author[p].number)
<1>1. t \in Rooms /\ author[p].number \in Nat BY DEF AdvanceSeq, Writing, SeqInv, AuthorRows, SeqTypes
<1>2. \A u \in Rooms : Floor(u) \in Nat BY DEF SeqInv, AuthorRows, SeqTypes, Floor
<1>3. n \in Nat /\ n > Floor(t) BY <1>1, <1>2 DEF Advanced
<1> DEFINE kept == [u \in Rooms |-> IF Cleared THEN << >> ELSE given[u]]
<1>4. \A u \in Rooms : /\ kept[u] \in Seq(Nat) /\ Rising(kept[u])
                       /\ \A i \in DOMAIN kept[u] : kept[u][i] <= Floor(u) /\ kept[u][i] \in Nat
  <2>1. CASE Cleared BY <2>1 DEF Rising
  <2>2. CASE ~Cleared BY <2>2 DEF SeqInv, AuthorRows, SeqTypes, FloorCovers, NumbersRise, Rising, Floor
  <2> QED BY <2>1, <2>2
<1>5. /\ floor' = [u \in Rooms |-> IF u = t THEN n ELSE Floor(u)]
      /\ given' = [u \in Rooms |-> kept[u] \o (IF u = t THEN <<n>> ELSE << >>)]
      /\ author' = [author EXCEPT ![p].at = "broadcast", ![p].number = n]
      /\ UNCHANGED counter
  BY DEF AdvanceSeq
<1> HIDE DEF t, n, kept
<1>6. \A u \in Rooms : /\ given'[u] \in Seq(Nat) /\ Rising(given'[u])
                       /\ \A i \in DOMAIN given'[u] : given'[u][i] <= floor'[u]
  <2> TAKE u \in Rooms
  <2>1. CASE u = t
    <3>1. \A i \in DOMAIN kept[u] : kept[u][i] < n BY <1>2, <1>3, <1>4, <2>1
    <3>2. given'[u] = kept[u] \o <<n>> /\ floor'[u] = n BY <1>5, <2>1
    <3> QED BY <1>3, <1>4, <3>1, <3>2, RisesOn
  <2>2. CASE u # t
    <3>1. given'[u] = kept[u] /\ floor'[u] = Floor(u) BY <1>4, <1>5, <2>2
    <3> QED BY <1>4, <3>1
  <2> QED BY <2>1, <2>2
<1>7. SeqTypes'
  <2>1. floor' \in [Rooms -> Nat] BY <1>2, <1>3, <1>5
  <2>2. given' \in [Rooms -> Seq(Nat)] BY <1>5, <1>6
  <2> QED BY <1>3, <1>5, <2>1, <2>2 DEF SeqInv, AuthorRows, SeqTypes
<1> QED BY <1>6, <1>7 DEF SeqInv, FloorCovers, NumbersRise, Rising

\* No other step touches the floors or gives a number.
LEMMA OthersKeep ==
  ASSUME SeqInv,
         Trouble \/ WindowEnds \/ \E p \in Publishers : \/ \E t \in Rooms : Compose(p, t)
                                                       \/ NextSeq(p) \/ HandOver(p) \/ PublishToRedis(p)
  PROVE  SeqInv'
<1>1. UNCHANGED <<floor, given>> BY DEF Trouble, WindowEnds, Compose, NextSeq, HandOver, PublishToRedis
<1>2. SeqTypes'
  <2>1. CASE Trouble \/ WindowEnds BY <2>1 DEF Trouble, WindowEnds, SeqInv, AuthorRows, SeqTypes
  <2>2. ASSUME NEW p \in Publishers, NEW t \in Rooms, Compose(p, t) PROVE SeqTypes'
    BY <2>2 DEF Compose, SeqInv, AuthorRows, SeqTypes
  <2>3. ASSUME NEW p \in Publishers, NextSeq(p) PROVE SeqTypes'
    <3>1. author[p].of \in Rooms /\ counter[author[p].of] + 1 \in Nat
      BY <2>3 DEF NextSeq, Writing, SeqInv, AuthorRows, SeqTypes
    <3>2. counter' \in [Rooms -> Nat] BY <2>3, <3>1 DEF NextSeq, SeqInv, AuthorRows, SeqTypes
    <3>3. \E n \in Nat : author' = [author EXCEPT ![p].at = "advance", ![p].number = n]
      BY <2>3, <3>1 DEF NextSeq, Candidate
    <3>4. PICK n \in Nat : author' = [author EXCEPT ![p].at = "advance", ![p].number = n] BY <3>3
    <3>5. /\ author' \in [Publishers -> AuthorRows]
          /\ \A q \in Publishers : author'[q].of = author[q].of
          /\ \A q \in Publishers \ {p} : author'[q] = author[q]
      BY <3>1, <3>4 DEF SeqInv, AuthorRows, SeqTypes
    <3> QED BY <1>1, <3>1, <3>2, <3>5 DEF SeqInv, AuthorRows, SeqTypes
  <2>4. ASSUME NEW p \in Publishers, HandOver(p) PROVE SeqTypes'
    BY <2>4 DEF HandOver, SeqInv, AuthorRows, SeqTypes
  <2>5. ASSUME NEW p \in Publishers, PublishToRedis(p) PROVE SeqTypes'
    BY <2>5 DEF PublishToRedis, Unwritten, SeqInv, AuthorRows, SeqTypes
  <2> QED BY <2>1, <2>2, <2>3, <2>4, <2>5
<1> QED BY <1>1, <1>2 DEF SeqInv, FloorCovers, NumbersRise

\* For any number of publishers and trips, whatever Redis does: the numbers of a trip
\* rise (NumbersRise).
THEOREM NumbersAlwaysRise == SeqSpec => []NumbersRise
<1>1. SeqInit => SeqInv
  BY DEF SeqInit, SeqInv, AuthorRows, SeqTypes, FloorCovers, NumbersRise, Unwritten
<1>2. SeqInv /\ [SeqNext]_seqVars => SeqInv'
  <2> SUFFICES ASSUME SeqInv, [SeqNext]_seqVars PROVE SeqInv' OBVIOUS
  <2>1. CASE UNCHANGED seqVars
    BY <2>1 DEF seqVars, SeqInv, AuthorRows, SeqTypes, FloorCovers, NumbersRise
  <2> QED BY <2>1, AdvanceKeeps, OthersKeep DEF SeqNext, PublisherStep
<1>3. SeqInv => NumbersRise BY DEF SeqInv
<1> QED BY <1>1, <1>2, <1>3, PTL DEF SeqSpec

-----------------------------------------------------------------------------
(* Lines of a stream: WorkerBridge. *)

\* The shape of the lines and of the two threads.
EventKinds == {"start", "day", "day_patch", "suggestions", "done", "error"}
Events == [no : Nat, kind : EventKinds, days : SUBSET Days]
NodeRows == [at : {"waits", "days", "patches", "counts", "pool", "ends", "over", "raised"}, day : Nat \ {0}, emitted : SUBSET Days]
BridgeTypes ==
  /\ node \in NodeRows
  /\ feed \in Seq(Events) /\ lines \in Seq(Events \cup {Sentinel}) /\ taken \in Seq(Events)
  /\ hand \in Events \cup {NoLine, Sentinel} /\ yielded \in Nat
  /\ worker \in {"new", "opened", "streams", "fails", "ends", "gone"}
  /\ worker = "ends" <=> hand = Sentinel
  /\ worker = "gone" => hand = NoLine
  /\ cancelled = (reader # "reads") /\ reader \in {"reads", "ended", "left", "away"}

\* The i-th event of the producer, wherever it is by now.
Produced(i) ==
  IF i <= Len(taken) THEN taken[i]
  ELSE IF i <= Len(taken) + Len(lines) THEN lines[i - Len(taken)] ELSE hand
IsDay(event, d) == event.kind = "day" /\ event.days = {d}

\* While the caller reads no line is lost: all that was yielded is with the caller, in the
\* queue or in the worker's hand, and the sentinel is behind all of it.
NothingLost ==
  /\ worker = "gone" => /\ Len(lines) > 0 /\ lines[Len(lines)] = Sentinel /\ hand = NoLine
                        /\ yielded = Len(taken) + Len(lines) - 1
  /\ worker # "gone" /\ hand \notin Events => yielded = Len(taken) + Len(lines)
  /\ worker # "gone" /\ hand \in Events => yielded = Len(taken) + Len(lines) + 1
  /\ \A i \in 1 .. yielded : Produced(i) \in Events /\ Produced(i).no = i
\* A "done" is the last event, and counts the days that were written, and at most one more:
\* the one whose line the writer refused, after which no day is planned.
Feeds == \A j \in 1 .. Len(feed) :
  /\ feed[j].kind = "day" => \E d \in node.emitted : feed[j].days = {d}
  /\ feed[j].kind = "done" => j = Len(feed) /\ node.at = "over" /\ feed[j].days = node.emitted
Yields == \A i \in 1 .. yielded :
  /\ Produced(i).kind = "day" => \E d \in node.emitted : Produced(i).days = {d}
  /\ Produced(i).kind = "done" =>
       i = yielded /\ feed = <<>> /\ node.at = "over" /\ Produced(i).days = node.emitted
Written(d) ==
  \/ \E i \in 1 .. yielded : IsDay(Produced(i), d)
  \/ \E j \in 1 .. Len(feed) : IsDay(feed[j], d)
DaysWritten == node.at # "raised" =>
  /\ node.at = "days" => \A d \in node.emitted : Written(d)
  /\ \A d, e \in node.emitted : Written(d) \/ Written(e) \/ d = e
OverIsDone == node.at = "over" =>
  IF feed = <<>> THEN yielded > 0 /\ Produced(yielded).kind = "done" ELSE feed[Len(feed)].kind = "done"
NodePhases ==
  /\ worker \in {"new", "opened"} => node.at = "waits"
  /\ worker = "new" => yielded = 0
  /\ worker = "streams" => node.at # "waits"
  /\ node.at = "waits" => feed = <<>> /\ node.emitted = {}
  /\ worker \in {"fails", "ends", "gone"} =>
       /\ feed = <<>> /\ node.at \in {"waits", "raised", "over"}
       /\ yielded > 0 /\ Produced(yielded).kind \in {"done", "error"}
Reading == NothingLost /\ Feeds /\ Yields /\ DaysWritten /\ OverIsDone /\ NodePhases
BridgeInv ==
  /\ BridgeTypes /\ LinesInOrder
  /\ reader = "reads" => Reading
  /\ reader = "ended" => worker = "gone"

\* No event is the sentinel, or nothing.
LEMMA Kinds ==
  /\ NoLine.kind = "nothing" /\ Sentinel.kind = "sentinel" /\ NoLine # Sentinel
  /\ NoLine \notin Events /\ Sentinel \notin Events
BY DEF NoLine, Sentinel, Event, Events, EventKinds

\* What is written stays written: the days of the node are as they were.
LEMMA WrittenStays ==
  ASSUME DaysWritten, \A d \in node.emitted : Written(d) => Written(d)',
         node'.emitted = node.emitted, node'.at = "days" => node.at = "days",
         node.at = "raised" => node'.at = "raised"
  PROVE  DaysWritten'
BY DEF DaysWritten

\* As long as the caller has the same lines, they are as good as they were.
LEMMA SameLines ==
  ASSUME BridgeInv, UNCHANGED taken, reader' = "ended" => reader = "ended" /\ UNCHANGED yielded
  PROVE  LinesInOrder'
<1>1. InOrder' BY DEF BridgeInv, LinesInOrder, InOrder
<1>2. Complete' BY DEF BridgeInv, LinesInOrder, Complete
<1>3. \A d : Sent(d)' <=> Sent(d) BY DEF Sent
<1>4. HonestDone
  BY DEF BridgeInv, LinesInOrder
<1>5. HonestDone' BY <1>3, <1>4 DEF HonestDone
<1> QED BY <1>1, <1>2, <1>5 DEF LinesInOrder

\* The thread of the graph writes: what was yielded is where it was.
LEMMA NodeShapes ==
  ASSUME BridgeInv, NodeStep
  PROVE  /\ node' \in NodeRows /\ node.at \in {"days", "patches", "counts", "pool", "ends"}
         /\ node'.at = "days" => node.at = "days"
         /\ \/ /\ feed' = feed /\ node'.emitted = node.emitted
               /\ reader = "reads" => node'.at \in {"days", "patches", "counts", "pool", "raised"}
            \/ \E d \in Days : /\ feed' = feed /\ node.at = "days"
                               /\ node'.emitted = node.emitted \cup {d} /\ node'.at = "counts"
            \/ \E d \in Days : /\ feed' = Append(feed, Event("day", {d})) /\ node.at = "days"
                               /\ node'.emitted = node.emitted \cup {d} /\ node'.at = "days"
            \/ \E k \in {"day_patch", "suggestions"}, D \in SUBSET Days :
                 /\ feed' = Append(feed, Event(k, D))
                 /\ node'.emitted = node.emitted /\ node'.at \in {"patches", "ends"}
            \/ /\ feed' = Append(feed, Event("done", node.emitted))
               /\ node'.emitted = node.emitted /\ node'.at = "over"
<1>1. node \in NodeRows /\ cancelled = (reader # "reads") BY DEF BridgeInv, BridgeTypes
<1>2. CASE PlanDay
  <2> DEFINE AllPlanned == [node EXCEPT !.at = "patches", !.day = 1]
             Stopped == [node EXCEPT !.at = "counts"]
             Passed == [node EXCEPT !.day = node.day + 1]
             Told == [node EXCEPT !.day = node.day + 1, !.emitted = node.emitted \cup {node.day}]
             Refused == [node EXCEPT !.at = "counts", !.emitted = node.emitted \cup {node.day}]
  <2>1. /\ node.at = "days"
        /\ \/ node' = AllPlanned /\ feed' = feed
           \/ node' = Stopped /\ feed' = feed
           \/ node' = Passed /\ feed' = feed
           \/ node.day <= StreamDays /\ node' = Told /\ feed' = Append(feed, Event("day", {node.day}))
           \/ node.day <= StreamDays /\ node' = Refused /\ feed' = feed
    BY <1>2 DEF PlanDay, Reach, Writes
  <2>2. /\ node.day <= StreamDays => node.day \in Days /\ node.emitted \cup {node.day} \in SUBSET Days
        /\ node.day + 1 \in Nat \ {0}
    BY <1>1, WorkerBridgeAssumption DEF NodeRows, Days
  <2>3. AllPlanned \in NodeRows /\ AllPlanned.emitted = node.emitted /\ AllPlanned.at = "patches"
    <3> SUFFICES ASSUME NEW n, n = AllPlanned PROVE n \in NodeRows /\ n.emitted = node.emitted /\ n.at = "patches"
      OBVIOUS
    <3>2. n = [at |-> "patches", day |-> 1, emitted |-> node.emitted] BY <1>1 DEF NodeRows
    <3> QED BY <1>1, <3>2 DEF NodeRows
  <2>4. Stopped \in NodeRows /\ Stopped.emitted = node.emitted /\ Stopped.at = "counts" BY <1>1 DEF NodeRows
  <2>5. node.at = "days" => Passed \in NodeRows /\ Passed.emitted = node.emitted /\ Passed.at = "days"
    BY <1>1, <2>2 DEF NodeRows
  <2>6. node.at = "days" /\ node.day <= StreamDays =>
          Told \in NodeRows /\ Told.emitted = node.emitted \cup {node.day} /\ Told.at = "days"
    BY <1>1, <2>2 DEF NodeRows
  <2>7. node.day <= StreamDays =>
          Refused \in NodeRows /\ Refused.emitted = node.emitted \cup {node.day} /\ Refused.at = "counts"
    BY <1>1, <2>2 DEF NodeRows
  <2> HIDE DEF AllPlanned, Stopped, Passed, Told, Refused
  <2>8. CASE node' = AllPlanned /\ feed' = feed BY <2>1, <2>3, <2>8
  <2>9. CASE node' = Stopped /\ feed' = feed BY <2>1, <2>4, <2>9
  <2>10. CASE node' = Passed /\ feed' = feed BY <2>1, <2>5, <2>10
  <2>11. CASE node.day <= StreamDays /\ node' = Told /\ feed' = Append(feed, Event("day", {node.day}))
    BY <2>1, <2>2, <2>6, <2>11
  <2>12. CASE node.day <= StreamDays /\ node' = Refused /\ feed' = feed BY <2>1, <2>2, <2>7, <2>12
  <2> QED BY <2>1, <2>8, <2>9, <2>10, <2>11, <2>12
<1>3. CASE Patch
  <2>1. /\ node.at = "patches"
        /\ \/ \E d \in node.emitted : node' = [node EXCEPT !.day = d + 1] /\ feed' = Append(feed, Event("day_patch", {d}))
           \/ node' = [node EXCEPT !.at = "counts"] /\ feed' = feed
    BY <1>3 DEF Patch, Reach, Writes
  <2>2. \A d \in node.emitted : d + 1 \in Nat \ {0} /\ {d} \in SUBSET Days
    BY <1>1 DEF NodeRows, Days
  <2>3. CASE node' = [node EXCEPT !.at = "counts"] /\ feed' = feed BY <1>1, <2>1, <2>3 DEF NodeRows
  <2>4. ASSUME NEW d \in node.emitted, node' = [node EXCEPT !.day = d + 1], feed' = Append(feed, Event("day_patch", {d}))
        PROVE  /\ node' \in NodeRows /\ node'.emitted = node.emitted /\ node'.at = "patches"
               /\ \E D \in SUBSET Days : feed' = Append(feed, Event("day_patch", D))
    BY <1>1, <2>1, <2>2, <2>4 DEF NodeRows
  <2> QED BY <2>1, <2>3, <2>4
<1>4. CASE Count BY <1>1, <1>4 DEF Count, Reach, NodeRows
<1>5. CASE Suggest BY <1>1, <1>5 DEF Suggest, Reach, Writes, NodeRows
<1>6. CASE SendDone BY <1>1, <1>6 DEF SendDone, Reach, Writes, NodeRows
<1> QED BY <1>2, <1>3, <1>4, <1>5, <1>6 DEF NodeStep

\* An event is put behind those of the feed.
LEMMA FeedGrows ==
  ASSUME NEW f \in Seq(Events), NEW e \in Events
  PROVE  /\ Append(f, e) \in Seq(Events) /\ Append(f, e) # <<>> /\ Len(f) \in Nat /\ Len(Append(f, e)) = Len(f) + 1
         /\ \A j \in 1 .. Len(f) : Append(f, e)[j] = f[j]
         /\ Append(f, e)[Len(f) + 1] = e
OBVIOUS

\* The thread of the graph adds to the feed only what its days say.
LEMMA NodeKeeps == ASSUME BridgeInv, NodeStep PROVE BridgeInv'
<1>1. UNCHANGED <<worker, hand, lines, cancelled, reader, taken, yielded>> BY DEF NodeStep
<1>2. /\ node' \in NodeRows /\ node.at \in {"days", "patches", "counts", "pool", "ends"}
      /\ node'.at = "days" => node.at = "days"
  BY NodeShapes
<1>3. \A i : Produced(i)' = Produced(i) BY <1>1 DEF Produced
<1>4. feed \in Seq(Events) /\ node \in NodeRows BY DEF BridgeInv, BridgeTypes
<1>5. LinesInOrder' BY <1>1, SameLines
<1> DEFINE Kept == feed' \in Seq(Events) /\ (reader = "reads" => Reading')
<1>6. ASSUME reader = "reads" PROVE Reading /\ NothingLost' /\ worker = "streams"
  <2>1. Reading BY <1>6 DEF BridgeInv
  <2>2. NothingLost' BY <1>1, <1>3, <2>1 DEF Reading, NothingLost
  <2>3. worker = "streams" BY <1>2, <2>1 DEF Reading, NodePhases, BridgeInv, BridgeTypes
  <2> QED BY <2>1, <2>2, <2>3
<1>7. ASSUME feed' = feed, node'.emitted = node.emitted,
             reader = "reads" => node'.at \in {"days", "patches", "counts", "pool", "raised"}
      PROVE  Kept
  <2>1. ASSUME reader = "reads" PROVE Reading'
    <3>0. \A d : Written(d)' <=> Written(d) BY <1>1, <1>3, <1>7 DEF Written, IsDay
    <3>1. Feeds' /\ Yields' BY <1>1, <1>2, <1>3, <1>6, <1>7, <2>1 DEF Reading, Feeds, Yields
    <3>3. DaysWritten' BY <1>2, <1>6, <1>7, <2>1, <3>0, WrittenStays DEF Reading
    <3>2. OverIsDone' /\ NodePhases' BY <1>1, <1>2, <1>3, <1>6, <1>7, <2>1 DEF Reading, OverIsDone, NodePhases
    <3> QED BY <1>6, <2>1, <3>1, <3>2, <3>3 DEF Reading
  <2> QED BY <1>4, <1>7, <2>1
<1>10. ASSUME NEW d \in Days, feed' = feed, node.at = "days",
              node'.emitted = node.emitted \cup {d}, node'.at = "counts"
       PROVE  Kept
  <2>1. ASSUME reader = "reads" PROVE Reading'
    <3>0. \A e : Written(e)' <=> Written(e) BY <1>1, <1>3, <1>10 DEF Written, IsDay
    <3>1. Feeds' /\ Yields' BY <1>1, <1>3, <1>6, <1>10, <2>1 DEF Reading, Feeds, Yields
    <3>2. DaysWritten' BY <1>6, <1>10, <2>1, <3>0 DEF Reading, DaysWritten
    <3>3. OverIsDone' /\ NodePhases' BY <1>1, <1>3, <1>6, <1>10, <2>1 DEF Reading, OverIsDone, NodePhases
    <3> QED BY <1>6, <2>1, <3>1, <3>2, <3>3 DEF Reading
  <2> QED BY <1>4, <1>10, <2>1
<1>8. ASSUME NEW e \in Events, feed' = Append(feed, e),
             e.kind \in {"day", "day_patch", "suggestions", "done"},
             node.emitted \subseteq node'.emitted, node'.at \in {"days", "patches", "ends", "over"},
             e.kind = "day" => \E d \in Days : /\ e.days = {d} /\ node.at = "days"
                                               /\ node'.emitted = node.emitted \cup {d},
             e.kind # "day" => node'.emitted = node.emitted,
             (e.kind = "done") <=> (node'.at = "over"),
             e.kind = "done" => e.days = node.emitted
      PROVE  Kept
  <2>1. /\ feed' \in Seq(Events) /\ feed' # <<>> /\ Len(feed) \in Nat /\ Len(feed') = Len(feed) + 1
        /\ \A j \in 1 .. Len(feed) : feed'[j] = feed[j]
        /\ feed'[Len(feed) + 1] = e
    BY <1>4, <1>8, FeedGrows
  <2>2. ASSUME reader = "reads" PROVE Reading'
    <3>1. Feeds'
      <4>1. ASSUME NEW j \in 1 .. Len(feed) PROVE feed'[j].kind # "done" /\ (feed'[j].kind = "day" => \E d \in node'.emitted : feed'[j].days = {d})
        BY <1>2, <1>6, <1>8, <2>1, <2>2 DEF Reading, Feeds
      <4>2. e.kind = "day" => \E d \in node'.emitted : e.days = {d} BY <1>8
      <4> QED BY <1>8, <2>1, <4>1, <4>2 DEF Feeds
    <3>2. Yields'
      <4>1. \A i \in 1 .. yielded : Produced(i).kind # "done" BY <1>2, <1>6, <2>2 DEF Reading, Yields
      <4> QED BY <1>1, <1>3, <1>6, <1>8, <2>2, <4>1 DEF Reading, Yields
    <3>3. DaysWritten'
      <4>1. \A d : Written(d) => Written(d)' BY <1>1, <1>3, <2>1 DEF Written, IsDay
      <4>2. \A d \in node'.emitted : d \in node.emitted \/ Written(d)'
        <5>1. Len(feed') \in 1 .. Len(feed') BY <2>1
        <5> QED BY <1>8, <2>1, <5>1 DEF Written, IsDay
      <4>3. CASE e.kind # "day" BY <1>2, <1>6, <1>8, <2>2, <4>1, <4>3, WrittenStays DEF Reading
      <4>4. CASE e.kind = "day"
        <5>1. \A d \in node.emitted : Written(d) BY <1>6, <1>8, <2>2, <4>4 DEF Reading, DaysWritten
        <5>2. \A d \in node'.emitted : Written(d)' BY <4>1, <4>2, <5>1
        <5> QED BY <5>2 DEF DaysWritten
      <4> QED BY <4>3, <4>4
    <3>4. OverIsDone' BY <1>8, <2>1 DEF OverIsDone
    <3>5. NodePhases' BY <1>1, <1>2, <1>6, <1>8, <2>2 DEF Reading, NodePhases
    <3> QED BY <1>6, <2>2, <3>1, <3>2, <3>3, <3>4, <3>5 DEF Reading
  <2> QED BY <2>1, <2>2
<1>9. Kept
  <2>1. \A k \in EventKinds, D \in SUBSET Days : /\ Event(k, D) \in Events
                                                /\ Event(k, D).kind = k /\ Event(k, D).days = D
    BY DEF Event, Events
  <2>2. node.emitted \in SUBSET Days BY <1>4 DEF NodeRows
  <2>3. ASSUME NEW d \in Days, feed' = Append(feed, Event("day", {d})), node.at = "days",
               node'.emitted = node.emitted \cup {d}, node'.at = "days"
        PROVE  Kept
    <3>1. Event("day", {d}) \in Events /\ Event("day", {d}).kind = "day" /\ Event("day", {d}).days = {d}
      BY <2>1 DEF EventKinds
    <3> QED BY <1>8, <2>3, <3>1
  <2>4. ASSUME NEW k \in {"day_patch", "suggestions"}, NEW D \in SUBSET Days, feed' = Append(feed, Event(k, D)),
               node'.emitted = node.emitted, node'.at \in {"patches", "ends"}
        PROVE  Kept
    <3>1. Event(k, D) \in Events /\ Event(k, D).kind = k BY <2>1 DEF EventKinds
    <3> QED BY <1>8, <2>4, <3>1
  <2>5. CASE /\ feed' = Append(feed, Event("done", node.emitted))
             /\ node'.emitted = node.emitted /\ node'.at = "over"
    <3>1. LET e == Event("done", node.emitted) IN e \in Events /\ e.kind = "done" /\ e.days = node.emitted
      BY <2>1, <2>2 DEF EventKinds
    <3> QED BY <1>8, <2>5, <3>1
  <2> HIDE DEF Kept
  <2> QED BY <1>7, <1>10, <2>3, <2>4, <2>5, NodeShapes
<1> QED BY <1>1, <1>2, <1>5, <1>9 DEF BridgeInv, BridgeTypes

\* The worker: what it yields next is numbered next, and is the last of what was produced.
LEMMA Yielding ==
  ASSUME BridgeInv, reader = "reads", worker # "gone", hand = NoLine, NEW e \in Events, Yield(e),
         UNCHANGED <<lines, reader, taken, cancelled>>, worker' \in {"opened", "streams", "fails"},
         NEW n \in Nat, n = yielded + 1
  PROVE  /\ yielded' = n /\ yielded \in Nat /\ hand' \in Events /\ NothingLost'
         /\ \A i \in 1 .. yielded : Produced(i)' = Produced(i)
         /\ Produced(n)'.kind = e.kind /\ Produced(n)'.days = e.days
<1>1. /\ Len(taken) \in Nat /\ Len(lines) \in Nat /\ yielded \in Nat BY DEF BridgeInv, BridgeTypes
<1>2. yielded = Len(taken) + Len(lines) /\ \A i \in 1 .. yielded : Produced(i) \in Events /\ Produced(i).no = i
  BY Kinds DEF BridgeInv, Reading, NothingLost
<1>3. hand' \in Events /\ hand'.no = n /\ hand'.kind = e.kind /\ hand'.days = e.days /\ yielded' = n
  BY <1>1 DEF Yield, Numbered, Events
<1>4. \A i \in 1 .. yielded : Produced(i)' = Produced(i) BY <1>1, <1>2 DEF Produced
<1>5. Produced(n)' = hand' BY <1>1, <1>2, <1>3 DEF Produced
<1>6. NothingLost'
  <2>1. \A i \in 1 .. yielded' : Produced(i)' \in Events /\ Produced(i)'.no = i
    BY <1>1, <1>2, <1>3, <1>4, <1>5
  <2> QED BY <1>1, <1>2, <1>3, <2>1 DEF NothingLost
<1> QED BY <1>1, <1>3, <1>4, <1>5, <1>6

\* The worker takes the next event of the producer, or finds it ended or broken.
LEMMA IterateKeeps == ASSUME BridgeInv, Iterate PROVE BridgeInv'
<1>1. hand = NoLine /\ UNCHANGED <<lines, cancelled, reader, taken>> BY DEF Iterate
<1>2. worker # "ends" BY <1>1, Kinds DEF BridgeInv, BridgeTypes
<1>3. Len(feed) \in Nat /\ feed \in Seq(Events) /\ node \in NodeRows BY DEF BridgeInv, BridgeTypes
<1>4. \A k \in EventKinds : Event(k, {}) \in Events /\ Event(k, {}).kind = k BY DEF Event, Events
<1>5. \A e \in Events, n \in Nat : Numbered(e, n) \in Events BY DEF Numbered, Events
<1>6. BridgeTypes'
  <2>1. yielded \in Nat BY DEF BridgeInv, BridgeTypes
  <2>2. CASE OpenRun
    BY <1>1, <1>2, <1>4, <1>5, <2>1, <2>2, Kinds DEF OpenRun, Yield, BridgeInv, BridgeTypes, EventKinds
  <2>3. CASE Launch
    <3>1. node' \in NodeRows BY <1>3, <2>3 DEF Launch, Reach, NodeRows
    <3> QED BY <1>1, <1>2, <1>4, <1>5, <2>1, <2>3, <3>1, Kinds
            DEF Launch, Yield, BridgeInv, BridgeTypes, EventKinds
  <2>4. CASE Forward
    <3>1. Head(feed) \in Events /\ Tail(feed) \in Seq(Events) BY <1>3, <2>4 DEF Forward
    <3> QED BY <1>1, <1>2, <1>5, <2>1, <2>4, <3>1, Kinds DEF Forward, Yield, BridgeInv, BridgeTypes
  <2>5. CASE FinishRun
    <3>1. <<>> \in Seq(Events) OBVIOUS
    <3>2. CASE /\ worker' = "ends" /\ hand' = Sentinel /\ UNCHANGED <<feed, yielded>> /\ node' = node
      BY <1>1, <1>2, <2>1, <3>2, Kinds DEF BridgeInv, BridgeTypes
    <3>3. CASE /\ worker' = "fails" /\ Yield(Event("error", {})) /\ feed' = <<>> /\ node' = node
      <4>1. hand' \in Events /\ yielded' \in Nat BY <1>4, <1>5, <2>1, <3>3 DEF Yield, EventKinds
      <4> QED BY <1>1, <1>2, <3>1, <3>3, <4>1, Kinds DEF BridgeInv, BridgeTypes
    <3> QED BY <2>5, <3>2, <3>3 DEF FinishRun
  <2>6. CASE FailRun
    BY <1>1, <1>2, <2>1, <2>6, Kinds DEF FailRun, BridgeInv, BridgeTypes
  <2> QED BY <2>2, <2>3, <2>4, <2>5, <2>6 DEF Iterate
<1>7. worker # "gone" BY <1>2 DEF Iterate, OpenRun, Launch, Forward, FinishRun, FailRun
<1>8. LinesInOrder' BY <1>1, <1>7, SameLines DEF BridgeInv
<1>9. ASSUME reader = "reads" PROVE Reading'
  <2>1. Reading /\ yielded \in Nat /\ ~cancelled BY <1>9 DEF BridgeInv, BridgeTypes
  <2>0. PICK n \in Nat : n = yielded + 1 BY <2>1
  <2>2. CASE OpenRun
    <3>1. Yield(Event("start", {})) /\ worker' = "opened" /\ UNCHANGED <<node, feed>> /\ worker = "new"
      BY <2>2 DEF OpenRun
    <3>2. Event("start", {}) \in Events /\ Event("start", {}).kind = "start" BY <1>4 DEF EventKinds
    <3>3. /\ yielded' = n /\ NothingLost'
          /\ \A i \in 1 .. yielded : Produced(i)' = Produced(i)
          /\ Produced(n)'.kind = "start"
      BY <1>1, <1>7, <1>9, <2>0, <3>1, <3>2, Yielding
    <3>4. node.at = "waits" /\ feed = <<>> /\ node.emitted = {} /\ yielded = 0
      BY <2>1, <3>1 DEF Reading, NodePhases
    <3>5. Feeds' /\ DaysWritten' /\ OverIsDone' /\ NodePhases'
      BY <3>1, <3>4 DEF Feeds, DaysWritten, OverIsDone, NodePhases
    <3>6. Yields' BY <2>0, <3>1, <3>3, <3>4 DEF Yields
    <3> QED BY <3>3, <3>5, <3>6 DEF Reading
  <2>3. CASE Launch /\ worker' = "streams"
    <3>1. node' = [node EXCEPT !.at = "days"] /\ UNCHANGED <<feed, hand, yielded>> /\ worker = "opened"
      BY <2>1, <2>3 DEF Launch, Reach
    <3>2. \A i : Produced(i)' = Produced(i) BY <1>1, <3>1 DEF Produced
    <3>3. node'.at = "days" /\ node'.emitted = node.emitted BY <1>3, <3>1 DEF NodeRows
    <3>4. node.at = "waits" /\ feed = <<>> /\ node.emitted = {} BY <2>1, <3>1 DEF Reading, NodePhases
    <3>5. NothingLost' BY <1>1, <2>1, <2>3, <3>1, <3>2 DEF Reading, NothingLost
    <3>6. Yields' BY <2>1, <3>1, <3>2, <3>3, <3>4 DEF Reading, Yields
    <3>7. Feeds' /\ DaysWritten' /\ OverIsDone' BY <3>1, <3>3, <3>4 DEF Feeds, DaysWritten, OverIsDone
    <3>8. NodePhases' BY <2>3, <3>3, <3>4 DEF NodePhases
    <3> QED BY <3>5, <3>6, <3>7, <3>8 DEF Reading
  <2>4. CASE (Launch /\ worker' = "fails") \/ (FinishRun /\ node.at = "raised")
    <3>1. /\ Yield(Event("error", {})) /\ worker' = "fails" /\ feed' = <<>> /\ node' = node
          /\ node.at \in {"waits", "raised"}
      BY <2>1, <2>4 DEF Launch, FinishRun, Reading, NodePhases
    <3>2. Event("error", {}) \in Events /\ Event("error", {}).kind = "error" BY <1>4 DEF EventKinds
    <3>3. /\ yielded' = n /\ NothingLost'
          /\ \A i \in 1 .. yielded : Produced(i)' = Produced(i)
          /\ Produced(n)'.kind = "error"
      BY <1>1, <1>7, <1>9, <2>0, <3>1, <3>2, Yielding
    <3>4. Feeds' /\ OverIsDone' BY <3>1 DEF Feeds, OverIsDone
    <3>5. Yields'
      <4>1. \A i \in 1 .. yielded : Produced(i).kind # "done" BY <2>1, <3>1 DEF Reading, Yields
      <4> QED BY <2>0, <2>1, <3>1, <3>3, <4>1 DEF Reading, Yields
    <3>6. DaysWritten' /\ NodePhases'
      <4>1. node.at = "waits" => node.emitted = {} BY <2>1 DEF Reading, NodePhases
      <4> QED BY <2>0, <2>1, <3>1, <3>3, <4>1 DEF DaysWritten, NodePhases
    <3> QED BY <3>3, <3>4, <3>5, <3>6 DEF Reading
  <2>5. CASE Forward
    <3> DEFINE e == Head(feed)
    <3>1. Yield(e) /\ worker' = "streams" /\ worker = "streams" /\ feed' = Tail(feed) /\ node' = node
      BY <2>5 DEF Forward
    <3>2. /\ e \in Events /\ e = feed[1] /\ Len(feed) > 0 /\ Len(feed') = Len(feed) - 1
          /\ \A j \in 1 .. Len(feed') : feed'[j] = feed[j + 1]
          /\ (feed' = <<>>) <=> (Len(feed) = 1)
      <4>1. feed # <<>> /\ feed' = Tail(feed) BY <2>5 DEF Forward
      <4>2. Len(feed) > 0 /\ e = feed[1] /\ e \in Events BY <1>3, <4>1
      <4>3. Tail(feed) \in Seq(Events) /\ Len(Tail(feed)) = Len(feed) - 1 BY <1>3, <4>1
      <4>4. \A j \in 1 .. Len(Tail(feed)) : Tail(feed)[j] = feed[j + 1] BY <1>3, <4>1
      <4>5. (Tail(feed) = <<>>) <=> (Len(Tail(feed)) = 0) BY <4>3, EmptySeq
      <4> QED BY <1>3, <4>1, <4>2, <4>3, <4>4, <4>5
    <3> HIDE DEF e
    <3>3. /\ yielded' = n /\ NothingLost'
          /\ \A i \in 1 .. yielded : Produced(i)' = Produced(i)
          /\ Produced(n)'.kind = e.kind /\ Produced(n)'.days = e.days
      BY <1>1, <1>7, <1>9, <2>0, <3>1, <3>2, Yielding
    <3>4. Feeds'
      <4>1. \A j \in 1 .. Len(feed') : j + 1 \in 1 .. Len(feed) /\ feed'[j] = feed[j + 1] /\ (j + 1 = Len(feed) => j = Len(feed'))
        BY <1>3, <3>2
      <4> QED BY <2>1, <3>1, <4>1 DEF Reading, Feeds
    <3>5. Yields'
      <4>1. \A i \in 1 .. yielded : Produced(i).kind # "done" BY <2>1, <2>5 DEF Forward, Reading, Yields
      <4>2. /\ e.kind = "day" => \E d \in node.emitted : e.days = {d}
            /\ e.kind = "done" => feed' = <<>> /\ node.at = "over" /\ e.days = node.emitted
        BY <1>3, <2>1, <3>2 DEF Reading, Feeds
      <4> QED BY <2>0, <2>1, <3>1, <3>3, <4>1, <4>2 DEF Reading, Yields
    <3>6. DaysWritten'
      <4>1. ASSUME NEW d, Written(d) PROVE Written(d)'
        <5>1. CASE \E i \in 1 .. yielded : IsDay(Produced(i), d)
          BY <2>0, <2>1, <3>3, <5>1 DEF Written, IsDay
        <5>2. ASSUME NEW j \in 1 .. Len(feed), IsDay(feed[j], d) PROVE Written(d)'
          <6>1. CASE j = 1
            <7>1. n \in 1 .. yielded' /\ IsDay(Produced(n), d)'
              BY <2>0, <2>1, <3>2, <3>3, <5>2, <6>1 DEF IsDay
            <7> QED BY <7>1 DEF Written
          <6>2. CASE j # 1
            <7>1. j - 1 \in 1 .. Len(feed') /\ feed'[j - 1] = feed[j] BY <1>3, <3>2, <6>2
            <7> QED BY <5>2, <7>1 DEF Written, IsDay
          <6> QED BY <6>1, <6>2
        <5> QED BY <4>1, <5>1, <5>2 DEF Written
      <4> QED BY <2>1, <3>1, <4>1, WrittenStays DEF Reading
    <3>7. OverIsDone'
      <4>1. node.at = "over" => feed[Len(feed)].kind = "done"
        BY <2>1, <2>5 DEF Forward, Reading, OverIsDone
      <4>2. CASE Len(feed) = 1 BY <2>0, <2>1, <3>1, <3>2, <3>3, <4>1, <4>2 DEF OverIsDone
      <4>3. CASE Len(feed) # 1
        <5>1. Len(feed') \in 1 .. Len(feed') /\ feed'[Len(feed')] = feed[Len(feed)] BY <1>3, <3>2, <4>3
        <5> QED BY <3>1, <3>2, <4>1, <4>3, <5>1 DEF OverIsDone
      <4> QED BY <4>2, <4>3
    <3>8. NodePhases' BY <2>1, <2>5, <3>1 DEF Forward, Reading, NodePhases
    <3> QED BY <3>3, <3>4, <3>5, <3>6, <3>7, <3>8 DEF Reading
  <2>6. CASE FailRun \/ (FinishRun /\ node.at = "over")
    <3>1. worker' = "ends" /\ hand' = Sentinel /\ UNCHANGED <<node, feed, yielded>> /\ feed = <<>>
          /\ node.at \in {"waits", "raised", "over"}
      BY <2>1, <2>6 DEF FailRun, FinishRun, Reading, NodePhases
    <3>2. yielded > 0 /\ Produced(yielded).kind \in {"done", "error"}
      BY <2>1, <2>6 DEF FailRun, FinishRun, Reading, NodePhases, OverIsDone
    <3>3. yielded = Len(taken) + Len(lines) /\ Len(taken) \in Nat /\ Len(lines) \in Nat
      BY <1>1, <1>7, <2>1, Kinds DEF Reading, NothingLost, BridgeInv, BridgeTypes
    <3>4. \A i \in 1 .. yielded : Produced(i)' = Produced(i) BY <1>1, <3>1, <3>3 DEF Produced
    <3>5. NothingLost' BY <1>1, <1>7, <2>1, <3>1, <3>3, <3>4, Kinds DEF Reading, NothingLost
    <3>6. Yields' /\ Feeds' BY <2>1, <3>1, <3>4 DEF Reading, Yields, Feeds
    <3>7. DaysWritten'
      <4>1. \A d : Written(d) => Written(d)' BY <3>1, <3>4 DEF Written, IsDay
      <4> QED BY <2>1, <3>1, <4>1, WrittenStays DEF Reading
    <3>8. OverIsDone' /\ NodePhases' BY <2>1, <3>1, <3>2, <3>3, <3>4 DEF Reading, OverIsDone, NodePhases
    <3> QED BY <3>5, <3>6, <3>7, <3>8 DEF Reading
  <2> QED BY <2>1, <2>2, <2>3, <2>4, <2>5, <2>6 DEF Iterate, Launch, FinishRun
<1> QED BY <1>1, <1>6, <1>7, <1>8, <1>9 DEF BridgeInv

\* Putting and taking a line move it, and what was produced stays as it was.
LEMMA PutKeeps == ASSUME BridgeInv, PutLine PROVE BridgeInv'
<1>1. /\ hand # NoLine /\ hand' = NoLine /\ UNCHANGED <<node, feed, cancelled, reader, taken, yielded>>
      /\ worker' = IF hand = Sentinel THEN "gone" ELSE worker
      /\ \/ lines' = Append(lines, hand)
         \/ cancelled /\ lines' = lines
  BY DEF PutLine, GivesUp
<1>2. /\ Len(taken) \in Nat /\ Len(lines) \in Nat /\ yielded \in Nat /\ lines \in Seq(Events \cup {Sentinel})
      /\ hand \in Events \cup {Sentinel}
  BY <1>1, Kinds DEF BridgeInv, BridgeTypes
<1>3. /\ Append(lines, hand) \in Seq(Events \cup {Sentinel}) /\ Len(Append(lines, hand)) = Len(lines) + 1
      /\ Append(lines, hand)[Len(lines) + 1] = hand
      /\ \A j \in 1 .. Len(lines) : Append(lines, hand)[j] = lines[j]
  BY <1>2
<1>4. BridgeTypes'
  <2>1. lines' \in Seq(Events \cup {Sentinel}) BY <1>1, <1>2, <1>3
  <2>2. (worker' = "ends") <=> (hand' = Sentinel) BY <1>1, Kinds DEF BridgeInv, BridgeTypes
  <2> QED BY <1>1, <2>1, <2>2 DEF BridgeInv, BridgeTypes
<1>5. worker # "gone" \/ reader # "reads" BY <1>1 DEF BridgeInv, Reading, NothingLost
<1>6. reader # "ended" BY <1>1, Kinds DEF BridgeInv, BridgeTypes, LinesInOrder
<1>7. LinesInOrder' BY <1>1, <1>6, SameLines
<1>8. ASSUME reader = "reads" PROVE Reading'
  <2>1. Reading /\ lines' = Append(lines, hand) /\ worker # "gone"
    BY <1>1, <1>5, <1>8 DEF BridgeInv, BridgeTypes
  <2>2. yielded = IF hand = Sentinel THEN Len(taken) + Len(lines) ELSE Len(taken) + Len(lines) + 1
    BY <1>2, <2>1, Kinds DEF Reading, NothingLost
  <2>3. \A i \in 1 .. yielded : Produced(i)' = Produced(i)
    BY <1>1, <1>2, <1>3, <2>1, <2>2 DEF Produced
  <2>4. NothingLost' BY <1>1, <1>2, <1>3, <2>1, <2>2, <2>3, Kinds DEF Reading, NothingLost
  <2>5. Feeds' /\ Yields' BY <1>1, <2>1, <2>3 DEF Reading, Feeds, Yields
  <2>6. DaysWritten'
    <3>1. \A d : Written(d) => Written(d)' BY <1>1, <2>3 DEF Written, IsDay
    <3> QED BY <1>1, <2>1, <3>1, WrittenStays DEF Reading
  <2>7. OverIsDone' BY <1>1, <1>2, <2>1, <2>3 DEF Reading, OverIsDone
  <2>8. NodePhases'
    <3>1. worker' = worker \/ (worker = "ends" /\ worker' = "gone") BY <1>1 DEF BridgeInv, BridgeTypes
    <3> QED BY <1>1, <1>2, <2>1, <2>3, <3>1 DEF Reading, NodePhases
  <2> QED BY <2>4, <2>5, <2>6, <2>7, <2>8 DEF Reading
<1> QED BY <1>1, <1>4, <1>6, <1>7, <1>8 DEF BridgeInv

\* The caller takes the first line, and stops at the sentinel.
LEMMA ReadKeeps == ASSUME BridgeInv, ReadLine PROVE BridgeInv'
<1>1. /\ reader = "reads" /\ lines # <<>> /\ lines' = Tail(lines) /\ UNCHANGED <<node, feed, worker, hand, yielded>>
      /\ IF Head(lines) = Sentinel THEN reader' = "ended" /\ cancelled' = TRUE /\ UNCHANGED taken
         ELSE taken' = Append(taken, Head(lines)) /\ UNCHANGED <<reader, cancelled>>
  BY DEF ReadLine
<1>2. /\ Len(taken) \in Nat /\ Len(lines) \in Nat /\ yielded \in Nat /\ lines \in Seq(Events \cup {Sentinel})
      /\ taken \in Seq(Events)
  BY DEF BridgeInv, BridgeTypes
<1>3. /\ Len(lines) > 0 /\ Head(lines) = lines[1] /\ Tail(lines) \in Seq(Events \cup {Sentinel})
      /\ Len(Tail(lines)) = Len(lines) - 1
      /\ \A j \in 1 .. Len(lines) - 1 : Tail(lines)[j] = lines[j + 1]
  BY <1>1, <1>2
<1>4. Reading BY <1>1 DEF BridgeInv
<1>5. CASE Head(lines) = Sentinel
  <2>1. yielded = Len(taken)
    <3>1. Len(taken) + 1 \notin 1 .. yielded
      <4>1. SUFFICES ASSUME Len(taken) + 1 \in 1 .. yielded PROVE FALSE OBVIOUS
      <4>2. Produced(Len(taken) + 1) = Sentinel BY <1>2, <1>3, <1>5 DEF Produced
      <4> QED BY <1>4, <4>1, <4>2, Kinds DEF Reading, NothingLost
    <3> QED BY <1>2, <1>3, <1>4, <3>1 DEF Reading, NothingLost
  <2>2. worker = "gone"
    <3>1. worker # "gone" => yielded >= Len(taken) + Len(lines) BY <1>2, <1>4 DEF Reading, NothingLost
    <3> QED BY <1>2, <1>3, <2>1, <3>1
  <2>3. \A i \in 1 .. yielded : Produced(i) = taken[i] BY <1>2, <2>1 DEF Produced
  <2>4. Complete'
    <3>1. yielded > 0 /\ Produced(yielded).kind \in {"done", "error"} BY <1>4, <2>2 DEF Reading, NodePhases
    <3> QED BY <1>1, <1>2, <1>5, <2>1, <2>3, <3>1 DEF Complete
  <2>9. taken' = taken BY <1>1, <1>5
  <2>10. \A d : Sent(d)' <=> Sent(d) BY <2>9 DEF Sent
  <2>11. InOrder /\ HonestDone BY DEF BridgeInv, LinesInOrder
  <2>5. InOrder' /\ HonestDone' BY <2>9, <2>10, <2>11 DEF InOrder, HonestDone
  <2>6. BridgeTypes' BY <1>1, <1>3, <1>5 DEF BridgeInv, BridgeTypes
  <2> QED BY <1>1, <1>5, <2>2, <2>4, <2>5, <2>6 DEF BridgeInv, LinesInOrder
<1>6. CASE Head(lines) # Sentinel
  <2> DEFINE e == Head(lines)
  <2>1. e \in Events BY <1>2, <1>3, <1>6
  <2>2. /\ taken' = Append(taken, e) /\ reader' = "reads" /\ UNCHANGED <<reader, cancelled>> /\ e = lines[1]
    BY <1>1, <1>3, <1>6
  <2> HIDE DEF e
  <2>3. /\ taken' \in Seq(Events) /\ Len(taken') = Len(taken) + 1 /\ taken'[Len(taken) + 1] = e
        /\ \A j \in 1 .. Len(taken) : taken'[j] = taken[j]
    BY <1>2, <2>1, <2>2
  <2>4. Len(lines') = Len(lines) - 1 /\ \A j \in 1 .. Len(lines') : lines'[j] = lines[j + 1]
    BY <1>1, <1>2, <1>3
  <2>5. \A i \in 1 .. yielded : Produced(i)' = Produced(i)
    BY <1>1, <1>2, <1>3, <2>2, <2>3, <2>4 DEF Produced
  <2>6. worker = "gone" => Len(lines) > 1
    <3>1. Len(lines) = 1 => lines[Len(lines)] = e BY <2>2
    <3> QED BY <1>2, <1>3, <1>4, <2>1, <3>1, Kinds DEF Reading, NothingLost
  <2>7. NothingLost'
    <3>1. worker = "gone" => lines'[Len(lines')] = lines[Len(lines)] BY <1>2, <2>4, <2>6
    <3>2. \A i \in 1 .. yielded' : Produced(i)' \in Events /\ Produced(i)'.no = i
      BY <1>1, <1>4, <2>5 DEF Reading, NothingLost
    <3>3. worker' = "gone" => /\ Len(lines') > 0 /\ lines'[Len(lines')] = Sentinel /\ hand' = NoLine
                             /\ yielded' = Len(taken') + Len(lines') - 1
      <4>1. worker = "gone" => /\ lines[Len(lines)] = Sentinel /\ hand = NoLine
                               /\ yielded = Len(taken) + Len(lines) - 1
        BY <1>4 DEF Reading, NothingLost
      <4>2. worker = "gone" => Len(lines') > 0 /\ yielded = Len(taken') + Len(lines') - 1
        <5>1. Len(taken') = Len(taken) + 1 /\ Len(lines') = Len(lines) - 1 BY <2>3, <2>4
        <5>2. Len(taken) \in Nat /\ Len(lines) \in Nat BY <1>2
        <5> QED BY <2>6, <4>1, <5>1, <5>2
      <4>3. worker' = worker /\ hand' = hand /\ yielded' = yielded BY <1>1
      <4> QED BY <3>1, <4>1, <4>2, <4>3
    <3>4. Len(taken') + Len(lines') = Len(taken) + Len(lines) BY <1>2, <1>3, <2>3, <2>4
    <3> QED BY <1>1, <1>4, <3>2, <3>3, <3>4 DEF Reading, NothingLost
  <2>8. Feeds' /\ Yields' BY <1>1, <1>4, <2>5 DEF Reading, Feeds, Yields
  <2>9. DaysWritten'
    <3>1. \A d : Written(d) => Written(d)' BY <1>1, <2>5 DEF Written, IsDay
    <3> QED BY <1>1, <1>4, <3>1, WrittenStays DEF Reading
  <2>10. OverIsDone' /\ NodePhases' BY <1>1, <1>2, <1>4, <2>5 DEF Reading, OverIsDone, NodePhases
  <2>11. BridgeTypes' BY <1>1, <1>3, <2>2, <2>3 DEF BridgeInv, BridgeTypes
  <2>12. Len(taken') <= yielded /\ \A i \in 1 .. Len(taken') : taken'[i] = Produced(i)
    <3>1. Len(taken) + 1 <= yielded
      <4>1. worker # "gone" => yielded >= Len(taken) + Len(lines) BY <1>2, <1>4 DEF Reading, NothingLost
      <4>2. worker = "gone" => yielded = Len(taken) + Len(lines) - 1 BY <1>4 DEF Reading, NothingLost
      <4> QED BY <1>2, <1>3, <2>6, <4>1, <4>2
    <3>2. \A i \in 1 .. Len(taken') : Produced(i)' = taken'[i] BY <1>2, <2>3 DEF Produced
    <3> QED BY <1>2, <2>3, <2>5, <3>1, <3>2
  <2>13. InOrder'
    <3>1. \A i \in 1 .. Len(taken') : taken'[i].no = i
      BY <1>2, <1>4, <2>3, <2>12 DEF Reading, NothingLost
    <3> QED BY <3>1 DEF InOrder
  <2>14. HonestDone'
    <3>1. ASSUME NEW i \in 1 .. Len(taken'), taken'[i].kind = "done"
          PROVE  /\ \A d \in Days : Sent(d)' => d \in taken'[i].days
                 /\ \A d, f \in taken'[i].days : Sent(d)' \/ Sent(f)' \/ d = f
      <4>1. i \in 1 .. yielded /\ Produced(i).kind = "done" BY <1>2, <2>3, <2>12, <3>1
      <4>2. i = yielded /\ feed = <<>> /\ node.at = "over" /\ Produced(i).days = node.emitted
        BY <1>4, <4>1 DEF Reading, Yields
      <4>3. Len(taken') = yielded BY <1>2, <2>3, <2>12, <4>2
      <4>4. \A d : Written(d) <=> Sent(d)'
        <5>1. \A d : ~\E j \in 1 .. Len(feed) : IsDay(feed[j], d) BY <4>2
        <5>2. \A d : Sent(d)' <=> \E k \in 1 .. yielded : IsDay(Produced(k), d)
          BY <2>12, <4>3 DEF Sent, IsDay
        <5> QED BY <5>1, <5>2 DEF Written
      <4>5. \A d : Sent(d)' => d \in node.emitted
        <5>1. \A k \in 1 .. yielded : \A d : Produced(k).kind = "day" /\ Produced(k).days = {d} => d \in node.emitted
          BY <1>4 DEF Reading, Yields
        <5> QED BY <2>12, <4>3, <5>1 DEF Sent
      <4>6. \A d, f \in node.emitted : Written(d) \/ Written(f) \/ d = f
        BY <1>4, <4>2 DEF Reading, DaysWritten
      <4>7. taken'[i].days = node.emitted BY <2>12, <4>2
      <4> QED BY <4>4, <4>5, <4>6, <4>7
    <3> QED BY <3>1 DEF HonestDone
  <2>15. Complete' BY <2>2 DEF Complete
  <2> QED BY <2>2, <2>7, <2>8, <2>9, <2>10, <2>11, <2>13, <2>14, <2>15
          DEF BridgeInv, LinesInOrder, Reading
<1> QED BY <1>5, <1>6

\* A caller that leaves reads nothing any more.
LEMMA LeaveKeeps == ASSUME BridgeInv, CallerLeaves \/ LastGet PROVE BridgeInv'
<1>1. UNCHANGED <<node, feed, worker, hand, taken, yielded>> /\ reader' \in {"left", "away"} /\ cancelled' = TRUE
  BY DEF CallerLeaves, LastGet, BridgeInv, BridgeTypes
<1>2. lines' \in Seq(Events \cup {Sentinel})
  <2>1. lines \in Seq(Events \cup {Sentinel}) BY DEF BridgeInv, BridgeTypes
  <2>2. lines # <<>> => Tail(lines) \in Seq(Events \cup {Sentinel}) BY <2>1
  <2> QED BY <2>1, <2>2 DEF CallerLeaves, LastGet
<1>3. LinesInOrder' BY <1>1, SameLines
<1> QED BY <1>1, <1>2, <1>3 DEF BridgeInv, BridgeTypes

\* For any number of days and any size of the queue: the caller reads what was yielded,
\* in order and to its end (LinesInOrder).
THEOREM LinesArriveInOrder == BridgeSpec => []LinesInOrder
<1>1. BridgeInit => BridgeInv
  <2> SUFFICES ASSUME BridgeInit PROVE BridgeInv OBVIOUS
  <2>1. BridgeTypes
    <3>1. <<>> \in Seq(Events) /\ <<>> \in Seq(Events \cup {Sentinel}) OBVIOUS
    <3>2. [at |-> "waits", day |-> 1, emitted |-> {}] \in NodeRows BY DEF NodeRows
    <3> QED BY <3>1, <3>2, Kinds DEF BridgeInit, BridgeTypes
  <2>2. LinesInOrder BY DEF BridgeInit, LinesInOrder, InOrder, Complete, HonestDone
  <2>3. Reading
    BY Kinds DEF BridgeInit, Reading, NothingLost, Feeds, Yields, DaysWritten, OverIsDone, NodePhases
  <2> QED BY <2>1, <2>2, <2>3 DEF BridgeInit, BridgeInv
<1>2. BridgeInv /\ [BridgeNext]_bridgeVars => BridgeInv'
  <2> SUFFICES ASSUME BridgeInv, [BridgeNext]_bridgeVars PROVE BridgeInv' OBVIOUS
  <2>1. CASE UNCHANGED bridgeVars
    <3>1. UNCHANGED <<node, feed, worker, hand, lines, cancelled, reader, taken, yielded>>
      BY <2>1 DEF bridgeVars
    <3>2. LinesInOrder' BY <3>1, SameLines
    <3>3. BridgeTypes' <=> BridgeTypes BY <3>1 DEF BridgeTypes
    <3>4. \A i : Produced(i)' = Produced(i) BY <3>1 DEF Produced
    <3>5. (NothingLost' <=> NothingLost) /\ (Feeds' <=> Feeds) /\ (Yields' <=> Yields)
      BY <3>1, <3>4 DEF NothingLost, Feeds, Yields
    <3>8. \A d : Written(d)' <=> Written(d) BY <3>1, <3>4 DEF Written, IsDay
    <3>6. (DaysWritten' <=> DaysWritten) BY <3>1, <3>8 DEF DaysWritten
    <3>7. (OverIsDone' <=> OverIsDone) /\ (NodePhases' <=> NodePhases) BY <3>1, <3>4 DEF OverIsDone, NodePhases
    <3> QED BY <3>1, <3>2, <3>3, <3>5, <3>6, <3>7 DEF BridgeInv, Reading
  <2> QED BY <2>1, NodeKeeps, IterateKeeps, PutKeeps, ReadKeeps, LeaveKeeps DEF BridgeNext, WorkerStep
<1>3. BridgeInv => LinesInOrder BY DEF BridgeInv
<1> QED BY <1>1, <1>2, <1>3, PTL DEF BridgeSpec

-----------------------------------------------------------------------------
(* Cards of the panel: ChatPanel. *)

\* The shape of the turns, the drafts and the panel.
IsTurn(x) ==
  "at" \in DOMAIN x /\ "result" \in DOMAIN x /\ "base" \in DOMAIN x /\ x.result \in Int /\ x.base \in Nat
DraftRows == [base : Nat, fate : {"open", "replaced", "edited", "applied", "unheard"}]
Panels ==
  [doing : {"idle", "stream", "block"}, turn : Nat, card : Nat, placed : BOOLEAN,
   confirm : {"no", "applied", "read"}, seen : Nat]
ChatTypes ==
  /\ DOMAIN turns = Turns /\ (\A t \in Turns : IsTurn(turns[t])) /\ drafts \in Seq(DraftRows) /\ revision \in Nat
  /\ panel \in Panels /\ panel.turn <= MaxTurns /\ panel.card <= Len(drafts) /\ panel.seen <= Len(drafts)
  /\ panel.doing = "idle" <=> panel.turn = 0
  /\ \A t \in Turns : turns[t].result <= Len(drafts)
\* Only the last draft may wait.
OneWaits == \A i \in 1 .. Len(drafts) : drafts[i].fate = "open" => i = Len(drafts)
\* Neither replaced nor applied, as far as the panel has heard.
Stands(i) == drafts[i].fate \in {"open", "edited", "unheard"}
Ended(t) == turns[t].at \in {"offer", "over"} /\ turns[t].result > 0
\* Nobody else is asking.
OwnTurn == deserted = {} => \A t \in Turns : turns[t].at \in {"new", "over"} \/ t = panel.turn
\* What the panel has still to hear stands, and so does what it shows, and what it has read
\* was not applied since: nothing is confirmed in between.
HeardWaits ==
  deserted = {} /\ panel.confirm = "no" /\ panel.placed /\ panel.turn # 0 /\ Ended(panel.turn)
    => Stands(turns[panel.turn].result)
CardWaits ==
  deserted = {} /\ panel.confirm = "no" /\ panel.card # 0 /\ ~(panel.turn # 0 /\ Ended(panel.turn))
    => Stands(panel.card)
SeenWaits == panel.confirm = "read" /\ panel.seen # 0 => drafts[panel.seen].fate # "applied"
ChatInv == ChatTypes /\ OneWaits /\ OwnTurn /\ HeardWaits /\ CardWaits /\ SeenWaits

\* A new turn: only where nobody else is asking, unless somebody was deserted.
LEMMA NewTurn ==
  ASSUME ChatInv, NEW t \in Fresh, NEW via \in {"stream", "block"}, Ask(t, via),
         panel.turn # 0 => turns[panel.turn].at = "over" \/ deserted' # {},
         NEW placed \in BOOLEAN, panel' = [panel EXCEPT !.doing = via, !.turn = t, !.placed = placed],
         UNCHANGED <<drafts, revision>>, deserted \subseteq deserted',
         panel.card # 0 /\ deserted' = {} /\ panel.confirm = "no" => Stands(panel.card)
  PROVE ChatInv'
<1>1. t \in Turns /\ turns[t].at = "new" BY DEF Fresh
<1>2. turns' = [turns EXCEPT ![t].via = via, ![t].at = "asked"] BY DEF Ask
<1>3. t \in 1 .. MaxTurns /\ 0 \notin Turns BY <1>1 DEF Turns
<1>4. /\ turns'[t].at = "asked" /\ turns'[t].result = turns[t].result
      /\ \A u \in Turns \ {t} : turns'[u] = turns[u]
  BY <1>1, <1>2 DEF ChatInv, ChatTypes, IsTurn
<1>5. ChatTypes'
  <2>a. IsTurn(turns[t]) BY <1>1 DEF ChatInv, ChatTypes
  <2>b. IsTurn([turns[t] EXCEPT !.via = via, !.at = "asked"]) BY <2>a DEF IsTurn
  <2>c. turns' = [turns EXCEPT ![t] = [turns[t] EXCEPT !.via = via, !.at = "asked"]]
    BY <1>1, <1>2 DEF ChatInv, ChatTypes
  <2>1. DOMAIN turns' = Turns /\ (\A u \in Turns : IsTurn(turns'[u]))
    BY <1>1, <2>b, <2>c DEF ChatInv, ChatTypes
  <2>2. \A u \in Turns : turns'[u].result <= Len(drafts) BY <1>4 DEF ChatInv, ChatTypes
  <2>3. panel' \in Panels
    <3>1. t \in Nat /\ panel \in Panels BY <1>3 DEF ChatInv, ChatTypes
    <3> QED BY <3>1 DEF Panels
  <2>4. /\ panel'.doing # "idle" /\ panel'.turn = t /\ panel'.card = panel.card /\ panel'.seen = panel.seen
    BY DEF ChatInv, ChatTypes, Panels
  <2>5. t # 0 /\ t <= MaxTurns BY <1>3, ChatAssumption
  <2> QED BY <2>1, <2>2, <2>3, <2>4, <2>5 DEF ChatInv, ChatTypes
<1>6. panel'.turn = t /\ panel'.card = panel.card /\ panel'.confirm = panel.confirm /\ panel'.seen = panel.seen
  BY DEF ChatInv, ChatTypes, Panels
<1>7. OwnTurn'
  <2>1. ASSUME deserted' = {}, NEW u \in Turns, u # t PROVE turns'[u].at \in {"new", "over"}
    <3>1. deserted = {} BY <2>1
    <3>2. turns[u].at \in {"new", "over"} \/ u = panel.turn BY <3>1 DEF ChatInv, OwnTurn
    <3> QED BY <1>3, <1>4, <2>1, <3>2
  <2> QED BY <1>6, <2>1 DEF OwnTurn
<1>8. HeardWaits' /\ CardWaits' /\ SeenWaits'
  BY <1>4, <1>6 DEF ChatInv, HeardWaits, CardWaits, SeenWaits, Ended, Stands
<1>9. OneWaits' BY DEF ChatInv, OneWaits
<1> QED BY <1>5, <1>7, <1>8, <1>9 DEF ChatInv

\* A step of a turn at the server, other than the one that may bring a draft.
LEMMA TurnMoves ==
  ASSUME ChatInv, NEW t \in Turns, NEW entry, IsTurn(entry), turns' = [turns EXCEPT ![t] = entry],
         turns[t].at \notin {"new", "over"}, entry.at # "new", entry.result <= 0 \/ entry.result = turns[t].result,
         entry.result <= Len(drafts), entry.at \in {"offer", "over"} => entry.result <= 0 \/ Ended(t),
         turns[t].at = "offer" => entry.at = "over" /\ entry.result = turns[t].result,
         UNCHANGED <<drafts, revision, panel, deserted>>
  PROVE ChatInv'
<1>1. turns'[t] = entry /\ \A u \in Turns \ {t} : turns'[u] = turns[u] BY DEF ChatInv, ChatTypes
<1>2. ChatTypes' BY <1>1 DEF ChatInv, ChatTypes
<1>3. OwnTurn' BY <1>1 DEF ChatInv, OwnTurn
<1>4. entry.result \in Int /\ turns[t].result \in Int BY DEF ChatInv, ChatTypes, IsTurn
<1>5. \A u \in Turns : Ended(u)' => Ended(u) /\ turns'[u].result = turns[u].result
  BY <1>1, <1>4 DEF Ended
<1>6. panel.turn # 0 => panel.turn \in Turns BY ChatAssumption DEF ChatInv, ChatTypes, Panels, Turns
<1>7. HeardWaits' /\ SeenWaits' BY <1>5, <1>6 DEF ChatInv, HeardWaits, SeenWaits, Stands, Ended
<1>8. CardWaits'
  <2>1. CASE panel.turn = t /\ Ended(t) /\ ~Ended(t)'
    <3>1. turns[t].result > 0 /\ turns[t].at = "offer" BY <2>1 DEF Ended
    <3> QED BY <1>1, <1>4, <2>1, <3>1 DEF Ended, ChatInv, CardWaits, Stands
  <2>2. CASE ~(panel.turn = t /\ Ended(t) /\ ~Ended(t)')
    BY <1>1, <1>5, <1>6, <2>2 DEF ChatInv, CardWaits, Ended, Stands
  <2> QED BY <2>1, <2>2
<1>9. OneWaits' BY DEF ChatInv, OneWaits
<1> QED BY <1>2, <1>3, <1>7, <1>8, <1>9 DEF ChatInv

\* A draft that was open is taken, and the others stay as they are.
LEMMA TakenDrafts ==
  ASSUME ChatInv, NEW by \in {"replaced", "edited"}
  PROVE  /\ Taken(by) \in Seq(DraftRows) /\ Len(Taken(by)) = Len(drafts)
         /\ \A i \in 1 .. Len(drafts) :
               Taken(by)[i].fate = IF drafts[i].fate = "open" THEN by ELSE drafts[i].fate
<1>0. Len(drafts) \in Nat /\ DOMAIN drafts = 1 .. Len(drafts) /\ drafts \in Seq(DraftRows)
  <2>1. drafts \in Seq(DraftRows) BY DEF ChatInv, ChatTypes
  <2> QED BY <2>1, LenProperties
<1> DEFINE Left(i) == IF drafts[i].fate = "open" THEN [drafts[i] EXCEPT !.fate = by] ELSE drafts[i]
<1>1. \A i \in 1 .. Len(drafts) : drafts[i] \in DraftRows BY <1>0, ElementOfSeq
<1>2. \A i \in 1 .. Len(drafts) :
        /\ Left(i) \in DraftRows
        /\ Left(i).fate = IF drafts[i].fate = "open" THEN by ELSE drafts[i].fate
  BY <1>1 DEF DraftRows
<1>3. Taken(by) = [i \in 1 .. Len(drafts) |-> Left(i)] BY <1>0 DEF Taken
<1> HIDE DEF Left
<1>4. Taken(by) \in [1 .. Len(drafts) -> DraftRows] /\ \A i \in 1 .. Len(drafts) : Taken(by)[i] = Left(i)
  BY <1>2, <1>3
<1>5. Taken(by) \in Seq(DraftRows) BY <1>0, <1>4, SeqDef
<1>6. Len(Taken(by)) = Len(drafts) BY <1>0, <1>4, <1>5, LenProperties
<1> QED BY <1>2, <1>4, <1>5, <1>6

\* finalize_chat_turn with a draft: whatever waited does so no more, and the turn has the last one.
LEMMA DraftArrives ==
  ASSUME ChatInv, NEW t \in Turns, turns[t].at = "working", Answer(t, Len(drafts) + 1),
         drafts' = Append(Taken("replaced"), [base |-> turns[t].base, fate |-> "open"]),
         UNCHANGED <<revision, slots, panel, deserted>>
  PROVE ChatInv'
<1> DEFINE n == Len(drafts) + 1
<1>0. n \in Nat /\ Len(drafts) \in Nat /\ DOMAIN drafts = 1 .. Len(drafts) /\ drafts \in Seq(DraftRows)
  <2>1. drafts \in Seq(DraftRows) BY DEF ChatInv, ChatTypes
  <2> QED BY <2>1, LenProperties
<1>1. /\ Taken("replaced") \in Seq(DraftRows) /\ Len(Taken("replaced")) = Len(drafts)
      /\ \A i \in 1 .. Len(drafts) :
           Taken("replaced")[i].fate = IF drafts[i].fate = "open" THEN "replaced" ELSE drafts[i].fate
  BY TakenDrafts
<1>2. /\ drafts' \in Seq(DraftRows) /\ Len(drafts') = n /\ drafts'[n].fate = "open"
      /\ \A i \in 1 .. Len(drafts) :
           drafts'[i].fate = IF drafts[i].fate = "open" THEN "replaced" ELSE drafts[i].fate
  <2>1. turns[t].base \in Nat BY DEF ChatInv, ChatTypes, IsTurn
  <2>2. [base |-> turns[t].base, fate |-> "open"] \in DraftRows BY <2>1 DEF DraftRows
  <2> QED BY <1>0, <1>1, <2>2, AppendProperties
<1>3. PICK at \in {"offer", "over"} : turns' = [turns EXCEPT ![t].result = n, ![t].at = at]
  BY DEF Answer
<1>4. /\ DOMAIN turns' = Turns /\ (\A u \in Turns : IsTurn(turns'[u])) /\ turns'[t].result = n /\ turns'[t].at = at
      /\ \A u \in Turns \ {t} : turns'[u] = turns[u]
  <2>1. IsTurn(turns[t]) BY DEF ChatInv, ChatTypes
  <2>2. IsTurn([turns[t] EXCEPT !.result = n, !.at = at]) BY <1>0, <2>1 DEF IsTurn
  <2>3. turns' = [turns EXCEPT ![t] = [turns[t] EXCEPT !.result = n, !.at = at]]
    BY <1>3 DEF ChatInv, ChatTypes
  <2> QED BY <2>1, <2>2, <2>3 DEF ChatInv, ChatTypes, IsTurn
<1> HIDE DEF n
<1>5. ChatTypes'
  <2>1. Len(drafts) <= Len(drafts') /\ n <= Len(drafts') BY <1>0, <1>2 DEF n
  <2>2. \A u \in Turns : turns[u].result \in Int /\ turns[u].result <= Len(drafts)
    BY DEF ChatInv, ChatTypes, IsTurn
  <2>3. \A u \in Turns : turns'[u].result <= Len(drafts') BY <1>0, <1>2, <1>4, <2>1, <2>2
  <2>4. panel.card <= Len(drafts') /\ panel.seen <= Len(drafts')
    BY <1>0, <1>2, <2>1 DEF ChatInv, ChatTypes, Panels
  <2> QED BY <1>2, <1>4, <2>3, <2>4 DEF ChatInv, ChatTypes
<1>6. OneWaits'
  <2>1. \A i \in 1 .. n : i = n \/ i \in 1 .. Len(drafts) BY <1>0 DEF n
  <2> QED BY <1>2, <2>1 DEF OneWaits
<1>7. OwnTurn' BY <1>4 DEF ChatInv, OwnTurn
<1>8. deserted = {} => panel.turn = t BY DEF ChatInv, OwnTurn
<1>9. n > 0 BY <1>0 DEF n
<1>10. HeardWaits' BY <1>2, <1>4, <1>8 DEF HeardWaits, Stands
<1>12. SeenWaits'
  <2>1. panel.seen # 0 => panel.seen \in 1 .. Len(drafts) BY <1>0 DEF ChatInv, ChatTypes, Panels
  <2> QED BY <1>2, <2>1 DEF ChatInv, SeenWaits
<1>11. CardWaits'
  <2>1. t # 0 BY DEF Turns
  <2> QED BY <1>4, <1>8, <1>9, <2>1 DEF CardWaits, Ended
<1> QED BY <1>5, <1>6, <1>7, <1>10, <1>11, <1>12 DEF ChatInv

\* The server serves a turn; only its answer may bring a draft.
LEMMA ServerKeeps == ASSUME ChatInv, NEW t \in Turns, ServeTurn(t) PROVE ChatInv'
<1>r. IsTurn(turns[t]) /\ turns[t].result <= Len(drafts) /\ Len(drafts) \in Nat /\ revision \in Nat
      /\ DOMAIN turns = Turns
  <2>1. drafts \in Seq(DraftRows) BY DEF ChatInv, ChatTypes
  <2> QED BY <2>1, LenProperties DEF ChatInv, ChatTypes
<1>1. CASE Arrive(t)
  <2>0. turns[t].at = "asked" /\ UNCHANGED <<drafts, revision, panel, deserted>> BY <1>1 DEF Arrive
  <2>1. CASE turns' = [turns EXCEPT ![t].at = "over", ![t].result = 0 - 1]
    <3> DEFINE entry == [turns[t] EXCEPT !.at = "over", !.result = 0 - 1]
    <3>1. IsTurn(entry) /\ entry.at = "over" /\ entry.result = 0 - 1 BY <1>r DEF IsTurn
    <3>2. turns' = [turns EXCEPT ![t] = entry] BY <1>r, <2>1
    <3>3. entry.result <= 0 /\ entry.result <= Len(drafts) BY <1>r, <3>1
    <3> HIDE DEF entry
    <3> QED BY <2>0, <3>1, <3>2, <3>3, TurnMoves
  <2>2. ASSUME NEW at \in {"working", "queued"}, turns' = [turns EXCEPT ![t].at = at, ![t].base = revision]
        PROVE ChatInv'
    <3> DEFINE entry == [turns[t] EXCEPT !.at = at, !.base = revision]
    <3>1. IsTurn(entry) /\ entry.at = at /\ entry.result = turns[t].result BY <1>r DEF IsTurn
    <3>2. turns' = [turns EXCEPT ![t] = entry] BY <1>r, <2>2
    <3> HIDE DEF entry
    <3> QED BY <1>r, <2>0, <3>1, <3>2, TurnMoves
  <2> QED BY <1>1, <2>1, <2>2 DEF Arrive
<1>2. CASE Start(t)
  <2> DEFINE entry == [turns[t] EXCEPT !.at = "working"]
  <2>1. IsTurn(entry) /\ entry.at = "working" /\ entry.result = turns[t].result BY <1>r DEF IsTurn
  <2>2. turns' = [turns EXCEPT ![t] = entry] BY <1>2, <1>r DEF Start, At
  <2>3. turns[t].at = "queued" /\ UNCHANGED <<drafts, revision, panel, deserted>> BY <1>2 DEF Start
  <2> HIDE DEF entry
  <2> QED BY <1>r, <2>1, <2>2, <2>3, TurnMoves
<1>3. CASE Finalize(t)
  <2>0. turns[t].at = "working" /\ UNCHANGED <<revision, panel, deserted, slots>> BY <1>3 DEF Finalize
  <2>1. ASSUME NEW r \in {0, 0 - 1}, Answer(t, r), UNCHANGED drafts PROVE ChatInv'
    <3>1. PICK at \in {"offer", "over"} : turns' = [turns EXCEPT ![t].result = r, ![t].at = at]
      BY <2>1 DEF Answer
    <3> DEFINE entry == [turns[t] EXCEPT !.result = r, !.at = at]
    <3>2. IsTurn(entry) /\ entry.at = at /\ entry.result = r BY <1>r DEF IsTurn
    <3>3. turns' = [turns EXCEPT ![t] = entry] BY <1>r, <3>1
    <3>4. entry.result <= 0 /\ entry.result <= Len(drafts) BY <1>r, <3>2
    <3> HIDE DEF entry
    <3> QED BY <2>0, <2>1, <3>2, <3>3, <3>4, TurnMoves
  <2> QED BY <1>3, <2>0, <2>1, DraftArrives DEF Finalize
<1>4. CASE Offer(t)
  <2> DEFINE entry == [turns[t] EXCEPT !.at = "over"]
  <2>1. IsTurn(entry) /\ entry.at = "over" /\ entry.result = turns[t].result BY <1>r DEF IsTurn
  <2>2. turns' = [turns EXCEPT ![t] = entry] BY <1>4, <1>r DEF Offer, At
  <2>3. turns[t].at = "offer" /\ UNCHANGED <<drafts, revision, panel, deserted>> BY <1>4 DEF Offer
  <2>4. entry.result <= 0 \/ Ended(t) BY <1>r, <2>1, <2>3 DEF Ended, IsTurn
  <2> HIDE DEF entry
  <2> QED BY <1>r, <2>1, <2>2, <2>3, <2>4, TurnMoves
<1> QED BY <1>1, <1>2, <1>3, <1>4 DEF ServeTurn

\* What the panel does without asking anew.
LEMMA PanelMoves ==
  ASSUME ChatInv, NEW doing \in {"idle", "stream", "block"}, NEW turn \in Nat, NEW card \in 0 .. Len(drafts),
         NEW placed \in BOOLEAN,
         panel' = [panel EXCEPT !.doing = doing, !.turn = turn, !.card = card, !.placed = placed],
         turn <= MaxTurns, doing = "idle" <=> turn = 0,
         UNCHANGED <<turns, drafts, revision>>, deserted \subseteq deserted',
         turn = 0, deserted' = {} => panel.turn # 0 /\ turns[panel.turn].at = "over",
         deserted' = {} /\ panel.confirm = "no" /\ card # 0 => Stands(card)
  PROVE ChatInv'
<1>1. /\ panel' \in Panels /\ panel'.turn = turn /\ panel'.card = card /\ panel'.confirm = panel.confirm
      /\ panel'.seen = panel.seen /\ panel'.doing = doing
  <2>1. card \in Nat BY DEF ChatInv
  <2> QED BY <2>1 DEF ChatInv, ChatTypes, Panels
<1>2. card <= Len(drafts) BY DEF ChatInv
<1>3. ChatTypes' BY <1>1, <1>2 DEF ChatInv, ChatTypes
<1>4. OwnTurn' BY <1>1 DEF ChatInv, OwnTurn
<1>5. HeardWaits' /\ CardWaits' /\ SeenWaits' BY <1>1 DEF ChatInv, HeardWaits, CardWaits, SeenWaits, Stands
<1>6. OneWaits' BY DEF ChatInv, OneWaits
<1> QED BY <1>3, <1>4, <1>5, <1>6 DEF ChatInv

\* The panel falls back to the blocking request after a stream that failed.
LEMMA AsksAgain ==
  ASSUME ChatInv, Fallback, UNCHANGED <<drafts, revision, slots>>, panel.doing = "stream", deserted \subseteq deserted',
         deserted' = {} => turns[panel.turn].at = "over" /\ turns[panel.turn].result < 0
  PROVE ChatInv'
<1>1. PICK t \in Fresh : Ask(t, "block") /\ panel' = [panel EXCEPT !.doing = "block", !.turn = t]
  BY DEF Fallback
<1>2. panel \in Panels BY DEF ChatInv, ChatTypes
<1>3. panel' = [panel EXCEPT !.doing = "block", !.turn = t, !.placed = panel.placed]
  BY <1>1, <1>2 DEF Panels
<1>4. panel.card # 0 /\ deserted' = {} /\ panel.confirm = "no" => Stands(panel.card)
  <2> SUFFICES ASSUME panel.card # 0, deserted' = {}, panel.confirm = "no" PROVE Stands(panel.card) OBVIOUS
  <2>1. deserted = {} /\ turns[panel.turn].result < 0 OBVIOUS
  <2>2. panel.turn # 0 BY DEF ChatInv, ChatTypes
  <2>3. panel.turn \in Turns BY <1>2, <2>2, ChatAssumption DEF ChatInv, ChatTypes, Panels, Turns
  <2>4. turns[panel.turn].result \in Int BY <2>3 DEF ChatInv, ChatTypes, IsTurn
  <2>5. ~Ended(panel.turn) BY <2>1, <2>4 DEF Ended
  <2> QED BY <2>1, <2>5 DEF ChatInv, CardWaits
<1>5. panel.placed \in BOOLEAN /\ "block" \in {"stream", "block"} BY <1>2 DEF Panels
<1>6. panel.turn # 0 => turns[panel.turn].at = "over" \/ deserted' # {} OBVIOUS
<1> QED BY <1>1, <1>3, <1>4, <1>5, <1>6, NewTurn

\* The panel sends, hears, gives up or breaks off.
LEMMA PanelKeeps ==
  ASSUME ChatInv, Send \/ HearStream \/ Break \/ GiveUp \/ HearBlock PROVE ChatInv'
<1>p. panel \in Panels /\ Len(drafts) \in Nat /\ panel.card \in 0 .. Len(drafts) /\ MaxTurns \in Nat
  <2>1. drafts \in Seq(DraftRows) BY DEF ChatInv, ChatTypes
  <2>2. Len(drafts) \in Nat BY <2>1, LenProperties
  <2> QED BY <2>2, ChatAssumption DEF ChatInv, ChatTypes, Panels
<1>q. panel.turn # 0 => panel.turn \in Turns BY <1>p DEF ChatInv, ChatTypes, Panels, Turns
<1>1. CASE Send
  <2>1. PICK t \in Fresh : Ask(t, "stream") /\ panel' = [panel EXCEPT !.doing = "stream", !.turn = t, !.placed = TRUE]
    BY <1>1 DEF Send
  <2>2. UNCHANGED <<drafts, revision, deserted>> /\ panel.turn = 0 BY <1>1 DEF Send, ChatInv, ChatTypes
  <2>3. panel.card # 0 /\ deserted' = {} /\ panel.confirm = "no" => Stands(panel.card)
    BY <2>2 DEF ChatInv, CardWaits
  <2>4. "stream" \in {"stream", "block"} /\ TRUE \in BOOLEAN OBVIOUS
  <2> QED BY <2>1, <2>2, <2>3, <2>4, NewTurn
\* A turn is over: it gets the panel to show what it brought.
<1>2. ASSUME panel.turn # 0, turns[panel.turn].at = "over", turns[panel.turn].result >= 0,
             panel' = [panel EXCEPT !.doing = "idle", !.turn = 0, !.card = Shown(turns[panel.turn].result), !.placed = FALSE],
             UNCHANGED <<turns, drafts, revision, deserted>>
      PROVE ChatInv'
  <2> DEFINE r == turns[panel.turn].result
  <2>1. r \in Int /\ r <= Len(drafts) BY <1>2, <1>q DEF ChatInv, ChatTypes, IsTurn
  <2>2. Shown(r) \in 0 .. Len(drafts) BY <1>p, <2>1 DEF Shown
  <2>3. ASSUME deserted' = {}, panel.confirm = "no", Shown(r) # 0 PROVE Stands(Shown(r))
    <3>1. panel.placed /\ r > 0 /\ Shown(r) = r BY <2>3 DEF Shown
    <3>2. Ended(panel.turn) BY <1>2, <3>1 DEF Ended
    <3> QED BY <1>2, <2>3, <3>1, <3>2 DEF ChatInv, HeardWaits
  <2> DEFINE s == Shown(r)
  <2>4. panel' = [panel EXCEPT !.doing = "idle", !.turn = 0, !.card = s, !.placed = FALSE] BY <1>2
  <2>5. /\ "idle" \in {"idle", "stream", "block"} /\ 0 \in Nat /\ FALSE \in BOOLEAN /\ 0 <= MaxTurns
    BY <1>p
  <2> HIDE DEF s, r
  <2> QED BY <1>2, <2>2, <2>3, <2>4, <2>5, PanelMoves DEF s
\* The panel gives a turn up.
<1>3. ASSUME panel.turn # 0, Give, UNCHANGED <<turns, drafts, revision>>, deserted \subseteq deserted',
             deserted' = {} => turns[panel.turn].at = "over" /\ turns[panel.turn].result < 0
      PROVE ChatInv'
  <2>1. panel' = [panel EXCEPT !.doing = "idle", !.turn = 0, !.card = panel.card, !.placed = FALSE]
    BY <1>3, <1>p DEF Give, Panels
  <2>2. ASSUME deserted' = {}, panel.confirm = "no", panel.card # 0 PROVE Stands(panel.card)
    <3>1. deserted = {} /\ turns[panel.turn].result < 0 BY <1>3, <2>2
    <3>2. turns[panel.turn].result \in Int BY <1>3, <1>q DEF ChatInv, ChatTypes, IsTurn
    <3>3. ~Ended(panel.turn) BY <3>1, <3>2 DEF Ended
    <3> QED BY <2>2, <3>1, <3>3 DEF ChatInv, CardWaits
  <2>3. /\ "idle" \in {"idle", "stream", "block"} /\ 0 \in Nat /\ FALSE \in BOOLEAN /\ 0 <= MaxTurns
    BY <1>p
  <2> QED BY <1>p, <1>3, <2>1, <2>2, <2>3, PanelMoves
<1>4. CASE HearStream
  <2>1. /\ panel.doing = "stream" /\ panel.turn # 0 /\ turns[panel.turn].at = "over"
        /\ UNCHANGED <<drafts, revision, slots, deserted>>
    BY <1>4 DEF HearStream, ChatInv, ChatTypes
  <2>2. turns[panel.turn].result \in Int BY <1>q, <2>1 DEF ChatInv, ChatTypes, IsTurn
  <2>3. CASE turns[panel.turn].result < 0 BY <1>4, <2>1, <2>3, AsksAgain DEF HearStream
  <2>4. CASE ~(turns[panel.turn].result < 0) BY <1>2, <1>4, <2>1, <2>2, <2>4 DEF HearStream
  <2> QED BY <2>3, <2>4
<1>5. CASE Break
  <2>1. deserted' # {} /\ deserted \subseteq deserted' BY <1>5 DEF Break
  <2> QED BY <1>5, <2>1, AsksAgain DEF Break
<1>6. CASE GiveUp
  <2>1. deserted' # {} /\ deserted \subseteq deserted' BY <1>6 DEF GiveUp
  <2>2. panel.turn # 0 BY <1>6 DEF GiveUp, ChatInv, ChatTypes
  <2> QED BY <1>3, <1>6, <2>1, <2>2 DEF GiveUp
<1>7. CASE HearBlock
  <2>1. panel.turn # 0 /\ UNCHANGED <<turns, drafts, revision>>
    BY <1>7 DEF HearBlock, ChatInv, ChatTypes
  <2>2. CASE Give /\ deserted' = deserted \cup {panel.turn} BY <1>3, <2>1, <2>2
  <2>3. CASE turns[panel.turn].at = "over" /\ turns[panel.turn].result < 0 /\ Give /\ UNCHANGED deserted
    BY <1>3, <2>1, <2>3
  <2> QED BY <1>2, <1>7, <2>1, <2>2, <2>3 DEF HearBlock
<1> QED BY <1>1, <1>4, <1>5, <1>6, <1>7

\* A confirmation applies the draft of the card when it is the open one, heard or unheard.
LEMMA ConfirmKeeps == ASSUME ChatInv, Confirm PROVE ChatInv'
<1>0. panel.confirm = "no" /\ panel.card # 0 /\ UNCHANGED <<turns, deserted>> BY DEF Confirm
<1>1. CASE UNCHANGED <<drafts, revision, panel>>
  BY <1>0, <1>1 DEF ChatInv, ChatTypes, OneWaits, OwnTurn, HeardWaits, CardWaits, SeenWaits, Ended, Stands
<1>2. ASSUME NEW fate \in {"applied", "unheard"},
             drafts' = [drafts EXCEPT ![panel.card].fate = fate], revision' = revision + 1,
             drafts[panel.card].fate = "open",
             panel' = IF fate = "applied" THEN [panel EXCEPT !.confirm = "applied"] ELSE panel
      PROVE  ChatInv'
  <2>1. drafts \in Seq(DraftRows) /\ panel \in Panels /\ panel.card <= Len(drafts)
    BY DEF ChatInv, ChatTypes
  <2>2. Len(drafts) \in Nat /\ panel.card \in 1 .. Len(drafts) BY <1>0, <2>1, LenProperties DEF Panels
  <2>3. drafts[panel.card] \in DraftRows BY <2>1, <2>2, ElementOfSeq
  <2> DEFINE x == [drafts[panel.card] EXCEPT !.fate = fate]
  <2>5. drafts' = [drafts EXCEPT ![panel.card] = x] BY <1>2
  <2>6. x \in DraftRows /\ x.fate = fate BY <2>3 DEF DraftRows
  <2> HIDE DEF x
  <2>7. drafts' \in Seq(DraftRows) /\ Len(drafts') = Len(drafts)
        /\ \A i \in 1 .. Len(drafts) : drafts'[i] = IF i = panel.card THEN x ELSE drafts[i]
    BY <2>1, <2>2, <2>5, <2>6, ExceptSeq
  <2>8. OneWaits' BY <2>6, <2>7 DEF ChatInv, OneWaits
  <2>9. panel' \in Panels /\ panel'.confirm = (IF fate = "applied" THEN "applied" ELSE "no")
        /\ panel'.doing = panel.doing /\ panel'.turn = panel.turn
        /\ panel'.card = panel.card /\ panel'.seen = panel.seen /\ panel'.placed = panel.placed
    BY <1>0, <1>2, <2>1 DEF Panels
  <2>10. ChatTypes' BY <1>0, <1>2, <2>7, <2>9 DEF ChatInv, ChatTypes
  <2>11. OwnTurn' /\ SeenWaits' BY <1>0, <2>9 DEF ChatInv, OwnTurn, SeenWaits
  <2>12. fate = "unheard" => \A i \in 1 .. Len(drafts) : Stands(i) => Stands(i)'
    BY <2>6, <2>7 DEF Stands
  <2>13. panel.turn # 0 /\ Ended(panel.turn) =>
           /\ turns[panel.turn].result \in 1 .. Len(drafts) /\ Ended(panel.turn)'
    <3>1. panel.turn # 0 => panel.turn \in Turns BY <2>1, ChatAssumption DEF ChatInv, ChatTypes, Panels, Turns
    <3>2. panel.turn # 0 => turns[panel.turn].result \in Int /\ turns[panel.turn].result <= Len(drafts)
      BY <3>1 DEF ChatInv, ChatTypes, IsTurn
    <3> QED BY <1>0, <2>2, <2>9, <3>2 DEF Ended
  <2>14. HeardWaits'
    BY <1>0, <2>9, <2>12, <2>13 DEF ChatInv, HeardWaits, Ended
  <2>15. CardWaits' BY <1>0, <2>2, <2>6, <2>7, <2>9 DEF CardWaits, Stands
  <2> QED BY <2>8, <2>10, <2>11, <2>14, <2>15 DEF ChatInv
<1>3. Acceptable(panel.card) => drafts[panel.card].fate = "open" BY DEF Acceptable, Pending
<1> QED BY <1>0, <1>1, <1>2, <1>3 DEF Confirm

\* An edit by hand takes the open draft, or leaves it and makes it outdated.
LEMMA EditKeeps == ASSUME ChatInv, EditTrip PROVE ChatInv'
<1>1. UNCHANGED <<turns, panel, deserted>> /\ revision' \in Nat /\ (drafts' = drafts \/ drafts' = Taken("edited"))
  BY DEF EditTrip, ChatInv, ChatTypes
<1>2. drafts \in Seq(DraftRows) BY DEF ChatInv, ChatTypes
<1>3. Len(drafts) \in Nat BY <1>2, LenProperties
<1>4. drafts' \in Seq(DraftRows) /\ Len(drafts') = Len(drafts)
      /\ \A i \in 1 .. Len(drafts) :
           drafts'[i].fate \in {drafts[i].fate, "edited"} /\ (drafts'[i].fate = "open" => drafts[i].fate = "open")
  BY <1>1, <1>2, TakenDrafts
<1>5. ChatTypes' BY <1>1, <1>4 DEF ChatInv, ChatTypes
<1>6. OneWaits' /\ OwnTurn' BY <1>1, <1>4 DEF ChatInv, OneWaits, OwnTurn
<1>7. \A i \in 1 .. Len(drafts) : Stands(i) => Stands(i)' BY <1>4 DEF Stands
<1>8. /\ panel.card # 0 => panel.card \in 1 .. Len(drafts)
      /\ panel.seen # 0 => panel.seen \in 1 .. Len(drafts)
  BY <1>3 DEF ChatInv, ChatTypes, Panels
<1>9. panel.turn # 0 /\ Ended(panel.turn) => turns[panel.turn].result \in 1 .. Len(drafts)
  <2>1. panel.turn # 0 => panel.turn \in Turns BY ChatAssumption DEF ChatInv, ChatTypes, Panels, Turns
  <2>2. panel.turn # 0 => turns[panel.turn].result \in Int /\ turns[panel.turn].result <= Len(drafts)
    BY <2>1 DEF ChatInv, ChatTypes, IsTurn
  <2> QED BY <1>3, <2>2 DEF Ended
<1>10. HeardWaits' BY <1>1, <1>7, <1>9 DEF ChatInv, HeardWaits, Ended
<1>11. CardWaits' /\ SeenWaits' BY <1>1, <1>4, <1>7, <1>8 DEF ChatInv, CardWaits, SeenWaits, Ended
<1> QED BY <1>5, <1>6, <1>10, <1>11 DEF ChatInv

\* The latest pending draft waits, and is the last of all.
LEMMA LatestWaits ==
  ASSUME ChatInv PROVE Latest \in 0 .. Len(drafts) /\ (Latest # 0 => drafts[Latest].fate = "open")
<1>1. drafts \in Seq(DraftRows) BY DEF ChatInv, ChatTypes
<1>2. Len(drafts) \in Nat /\ DOMAIN drafts = 1 .. Len(drafts) BY <1>1, LenProperties
<1>3. CASE Pending = {} BY <1>2, <1>3 DEF Latest
<1>4. CASE Pending # {}
  <2>1. PICK i : i \in Pending BY <1>4
  <2>2. \A j \in Pending : j = Len(drafts) BY <1>2 DEF Pending, ChatInv, OneWaits
  <2>3. Len(drafts) \in Pending /\ \A j \in Pending : j <= Len(drafts) BY <1>2, <2>1, <2>2
  <2>4. Latest \in Pending BY <1>4, <2>3 DEF Latest
  <2> QED BY <1>2, <2>4 DEF Pending
<1> QED BY <1>3, <1>4

\* The panel reads the history anew, and shows its latest pending draft.
LEMMA HistoryKeeps == ASSUME ChatInv, ReadHistory \/ ShowHistory PROVE ChatInv'
<1>1. drafts \in Seq(DraftRows) /\ panel \in Panels /\ panel.seen <= Len(drafts)
  BY DEF ChatInv, ChatTypes
<1>2. Len(drafts) \in Nat BY <1>1, LenProperties
<1>3. CASE ReadHistory
  <2>1. PICK i \in {Latest, 0} : panel' = [panel EXCEPT !.confirm = "read", !.seen = i]
    BY <1>3 DEF ReadHistory
  <2>2. i \in 0 .. Len(drafts) BY <1>2, LatestWaits
  <2>3. i \in Nat /\ i <= Len(drafts) BY <1>2, <2>2
  <2>4. panel' \in Panels /\ panel'.confirm = "read" /\ panel'.doing = panel.doing /\ panel'.turn = panel.turn
        /\ panel'.card = panel.card /\ panel'.seen = i
    BY <1>1, <2>1, <2>3 DEF Panels
  <2>5. UNCHANGED <<turns, drafts, revision, deserted>> BY <1>3 DEF ReadHistory
  <2>6. ChatTypes' BY <2>3, <2>4, <2>5 DEF ChatInv, ChatTypes
  <2>7. OwnTurn' /\ HeardWaits' /\ CardWaits' BY <2>4, <2>5 DEF ChatInv, OwnTurn, HeardWaits, CardWaits
  <2>9. SeenWaits' BY <2>1, <2>4, <2>5, LatestWaits DEF SeenWaits
  <2>8. OneWaits' BY <2>5 DEF ChatInv, OneWaits
  <2> QED BY <2>6, <2>7, <2>8, <2>9 DEF ChatInv
<1>4. CASE ShowHistory
  <2>1. panel' = [panel EXCEPT !.confirm = "no", !.seen = 0, !.card = panel.seen, !.placed = FALSE]
    BY <1>4 DEF ShowHistory, ListAfter
  <2>2. UNCHANGED <<turns, drafts, revision>> BY <1>4 DEF ShowHistory
  <2>3. panel' \in Panels /\ panel'.confirm = "no" /\ panel'.doing = panel.doing /\ panel'.turn = panel.turn
        /\ panel'.card = panel.seen /\ panel'.seen = 0 /\ ~panel'.placed
    BY <1>1, <2>1 DEF Panels
  <2>4. ChatTypes' BY <1>1, <1>2, <2>2, <2>3 DEF ChatInv, ChatTypes
  <2>5. deserted' = {} => deserted = {} /\ (panel.seen # 0 => drafts[panel.seen].fate # "replaced")
    BY <1>4 DEF ShowHistory
  <2>10. panel.seen # 0 => drafts[panel.seen] \in DraftRows
    BY <1>1, <1>2, ElementOfSeq DEF Panels
  <2>6. OwnTurn' BY <2>2, <2>3, <2>5 DEF ChatInv, OwnTurn
  <2>7. HeardWaits' BY <2>3 DEF HeardWaits
  <2>8. CardWaits' /\ SeenWaits'
    BY <1>4, <2>2, <2>3, <2>5, <2>10 DEF ShowHistory, ChatInv, CardWaits, SeenWaits, Stands, DraftRows
  <2>9. OneWaits' BY <2>2 DEF ChatInv, OneWaits
  <2> QED BY <2>4, <2>6, <2>7, <2>8, <2>9 DEF ChatInv
<1> QED BY <1>3, <1>4

\* No turn and no draft at the start.
LEMMA ChatStart == ChatInit => ChatInv
<1> SUFFICES ASSUME ChatInit PROVE ChatInv OBVIOUS
<1>1. drafts \in Seq(DraftRows) /\ Len(drafts) = 0 BY EmptySeq DEF ChatInit
<1>2. \A t \in Turns : IsTurn(turns[t]) /\ turns[t].at = "new" /\ turns[t].result = 0
  BY DEF ChatInit, Unsent, IsTurn
<1>3. panel \in Panels /\ panel.turn = 0 /\ panel.card = 0 /\ panel.seen = 0 /\ panel.doing = "idle"
  BY DEF ChatInit, Panels
<1>4. ChatTypes BY <1>1, <1>2, <1>3, ChatAssumption DEF ChatTypes, ChatInit
<1>5. OneWaits BY <1>1 DEF OneWaits
<1>6. OwnTurn /\ HeardWaits /\ CardWaits /\ SeenWaits BY <1>2, <1>3 DEF OwnTurn, HeardWaits, CardWaits, SeenWaits
<1> QED BY <1>4, <1>5, <1>6 DEF ChatInv

\* For any number of turns, drafts and edits: the draft of the card is neither replaced nor
\* one whose confirmation was heard (CardIsPending).
THEOREM CardsWait == ChatSpec => []CardIsPending
<1>1. ASSUME ChatInv, [ChatNext]_chatVars PROVE ChatInv'
  <2>1. CASE UNCHANGED chatVars
    BY <1>1, <2>1
    DEF chatVars, ChatInv, ChatTypes, OneWaits, OwnTurn, HeardWaits, CardWaits, SeenWaits, Ended, Stands
  <2> QED BY <1>1, <2>1, ServerKeeps, EditKeeps, PanelKeeps, ConfirmKeeps, HistoryKeeps DEF ChatNext
<1>2. ChatInv => CardIsPending BY DEF ChatInv, CardWaits, CardIsPending, Ended, Stands
<1> QED BY <1>1, <1>2, ChatStart, PTL DEF ChatSpec

-----------------------------------------------------------------------------
(* The page of a trip: DetailPage. *)

\* What the server may answer, and the shape of the page and of its calls.
Answers == [status : {"none", "generating", "ready"}, version : Nat, items : Nat]
Asked == [at : {"free", "asked", "served", "gone"},
          kind : {"none", "load", "poll", "write", "feedback", "refresh"},
          poller : Nat, got : Answers]
PageTypes ==
  /\ served \in Answers /\ served.version > 0
  /\ view \in [at : {"new", "loading", "open", "error", "sample"}, shown : Answers]
  /\ poller \in Nat
  /\ calls \in [Calls -> Asked]
  /\ heard \in Nat /\ heard <= served.version
  /\ astray \in BOOLEAN

\* What was answered once is not newer than the trip, and never less finished.
Past(g) ==
  /\ g.version <= served.version
  /\ g.version = served.version => g = served
  /\ g.status = "ready" => served.status = "ready"

\* A finished trip only changes by the writes of the page, and its last one is still to be
\* answered, or the page has heard of it: it is shown, or the page went astray.
WriteOnItsWay == \E c \in Calls :
  calls[c].at = "served" /\ calls[c].kind = "write" /\ calls[c].got = served
Excused(g) ==
  g.status = "ready" /\ g.version < served.version =>
    \/ WriteOnItsWay
    \/ heard = served.version /\ (astray \/ view.shown = served)

\* The poller that lives is one of a trip that is being generated.
PollersInTime == \A c \in Calls :
  /\ calls[c].poller <= poller
  /\ calls[c].kind = "poll" /\ calls[c].poller = poller => view.shown.status = "generating"

PageInv ==
  /\ PageTypes /\ PollersInTime
  /\ Past(view.shown) /\ Excused(view.shown)
  /\ \A c \in Calls : Past(calls[c].got) /\ Excused(calls[c].got)

\* At the start nothing is shown, and nothing is asked.
LEMMA PageStart == DetailInit => PageInv
<1> SUFFICES ASSUME DetailInit PROVE PageInv
  OBVIOUS
<1> USE DEF DetailInit, Empty, FreeCall
<1>1. /\ served \in Answers /\ served.version = 1
      /\ Empty \in Answers /\ FreeCall \in Asked
  BY DEF Answers, Asked
<1>2. view \in [at : {"new", "loading", "open", "error", "sample"}, shown : Answers]
  BY <1>1
<1>3. PageTypes
  <2>1. calls \in [Calls -> Asked]
    BY <1>1
  <2>2. poller = 0 /\ heard = 0
    OBVIOUS
  <2>3. heard <= served.version
    BY <1>1, <2>2
  <2>4. astray \in BOOLEAN
    BY Zenon
  <2> QED
    BY <1>1, <1>2, <2>1, <2>2, <2>3, <2>4 DEF PageTypes
<1> QED
  BY <1>3 DEF PageInv, PollersInTime, Past, Excused

\* The rows of the calls: one that is free again, and one that was just asked.
LEMMA CallRows ==
  /\ FreeCall \in Asked /\ Empty \in Answers
  /\ \A kind \in {"load", "poll", "write", "feedback", "refresh"}, n \in Nat, g \in Answers :
       [at |-> "asked", kind |-> kind, poller |-> n, got |-> g] \in Asked
  /\ [FreeCall EXCEPT !.at = "asked", !.kind = "refresh"] \in Asked
BY DEF FreeCall, Empty, Asked, Answers

\* The generation goes on: a trip that is not finished changes, so nobody has heard of a
\* finished one.
LEMMA DaysArriveKeeps ==
  ASSUME PageInv, DaysArrive
  PROVE  PageInv'
<1> USE DEF PageInv, DaysArrive
<1>1. PageTypes'
  BY DEF PageTypes, Answers
<1>2. served' \in Answers /\ served.version \in Nat /\ served'.version = served.version + 1
  BY DEF PageTypes, Answers
<1>3. ASSUME NEW g \in Answers, Past(g)
      PROVE  /\ g.version < served'.version /\ g.status # "ready"
             /\ g.version <= served'.version
  BY <1>2, <1>3 DEF PageTypes, Answers, Past
<1>4. PollersInTime'
  BY DEF PollersInTime
<1>5. \A c \in Calls : calls[c].got \in Answers
  BY DEF PageTypes, Asked
<1>6. view.shown \in Answers
  BY DEF PageTypes
<1>7. Past(view.shown)' /\ Excused(view.shown)'
  BY <1>2, <1>3, <1>6 DEF Past, Excused, Answers
<1>8. ASSUME NEW c \in Calls PROVE Past(calls[c].got)' /\ Excused(calls[c].got)'
  BY <1>2, <1>3, <1>5 DEF Past, Excused, Answers
<1> QED
  BY <1>1, <1>4, <1>7, <1>8

\* What the page asks: nothing it knows changes by that.
LEMMA AskKeeps ==
  ASSUME PageInv, NEW c \in Calls,
         OpenTrip(c) \/ PollTrip(c) \/ WriteTrip(c) \/ RefreshTrip(c)
  PROVE  PageInv'
<1>1. PICK kind \in {"load", "poll", "write", "feedback", "refresh"} :
        /\ AskFor(c, kind)
        /\ kind = "poll" => view.shown.status = "generating"
  BY DEF OpenTrip, PollTrip, WriteTrip, RefreshTrip
<1>2. /\ view'.shown = view.shown
      /\ view' \in [at : {"new", "loading", "open", "error", "sample"}, shown : Answers]
  BY DEF OpenTrip, PollTrip, WriteTrip, RefreshTrip, PageInv, PageTypes
<1>3. PICK g \in {view.shown, Empty} :
        /\ calls[c].at = "free"
        /\ calls' = [calls EXCEPT ![c] = [at |-> "asked", kind |-> kind, poller |-> poller, got |-> g]]
        /\ UNCHANGED <<served, poller, heard, astray>>
  BY <1>1 DEF AskFor
<1> USE DEF PageInv
<1>4. g \in Answers /\ Past(g) /\ Excused(g)
  BY CallRows DEF PageTypes, Past, Excused, Empty, Answers
<1>5. PageTypes'
  BY <1>2, <1>3, <1>4, CallRows DEF PageTypes
<1>6. PollersInTime'
  BY <1>1, <1>2, <1>3 DEF PollersInTime, PageTypes
<1>7. WriteOnItsWay => WriteOnItsWay'
  BY <1>3 DEF WriteOnItsWay, PageTypes
<1>8. Past(view.shown)' /\ Excused(view.shown)'
  BY <1>2, <1>3, <1>7 DEF Past, Excused
<1>9. ASSUME NEW d \in Calls PROVE Past(calls[d].got)' /\ Excused(calls[d].got)'
  BY <1>2, <1>3, <1>4, <1>7 DEF Past, Excused, PageTypes
<1> QED
  BY <1>5, <1>6, <1>8, <1>9

\* The server takes a call.  A write makes everything else old, and is itself on its way.
LEMMA ServeKeeps ==
  ASSUME PageInv, NEW c \in Calls, ServeCall(c)
  PROVE  PageInv'
<1> USE DEF PageInv
<1>1. PICK at \in {"served", "gone"} :
        /\ calls[c].at = "asked"
        /\ calls' = [calls EXCEPT ![c].at = at, ![c].got = served']
        /\ calls[c].kind # "feedback" => at = "served"
        /\ UNCHANGED <<view, poller, heard, astray>>
  BY DEF ServeCall
<1>2. \/ served' = served
      \/ calls[c].kind = "write" /\ served' = [served EXCEPT !.version = @ + 1]
  BY DEF ServeCall
<1>3. /\ served' \in Answers /\ served'.version >= served.version /\ served'.version > 0
      /\ served.status = "ready" => served'.status = "ready"
  BY <1>2 DEF PageTypes, Answers
<1>4. calls' = [calls EXCEPT ![c] = [calls[c] EXCEPT !.at = at, !.got = served']]
  BY <1>1, Zenon
<1>5. [calls[c] EXCEPT !.at = at, !.got = served'] \in Asked
  BY <1>3 DEF PageTypes, Asked
<1>6. PageTypes'
  BY <1>1, <1>3, <1>4, <1>5 DEF PageTypes, Answers
<1>7. \A d \in Calls : calls'[d].poller = calls[d].poller /\ calls'[d].kind = calls[d].kind
  BY <1>4 DEF PageTypes, Asked
<1>8. PollersInTime'
  BY <1>1, <1>7 DEF PollersInTime
<1>9. \A d \in Calls \ {c} : calls'[d] = calls[d]
  BY <1>4 DEF PageTypes
<1>10. calls'[c].at = at /\ calls'[c].got = served' /\ calls'[c].kind = calls[c].kind
  BY <1>4 DEF PageTypes, Asked
<1>11. served' # served => WriteOnItsWay'
  BY <1>1, <1>2, <1>10 DEF WriteOnItsWay
<1>12. served' = served /\ WriteOnItsWay => WriteOnItsWay'
  BY <1>1, <1>9 DEF WriteOnItsWay
<1>13. ASSUME NEW g \in Answers, Past(g), Excused(g)
       PROVE  /\ g.version <= served'.version
              /\ g.version = served'.version => g = served'
              /\ g.status = "ready" => served'.status = "ready"
              /\ g.status = "ready" /\ g.version < served'.version =>
                   \/ WriteOnItsWay'
                   \/ heard' = served'.version /\ (astray' \/ view'.shown = served')
  <2>1. CASE served' = served
    BY <2>1, <1>1, <1>12, <1>13 DEF Past, Excused
  <2>2. CASE served' # served
    BY <2>2, <1>2, <1>3, <1>11, <1>13 DEF Past, PageTypes, Answers
  <2> QED
    BY <2>1, <2>2
<1>14. Past(view.shown)' /\ Excused(view.shown)'
  BY <1>1, <1>13 DEF Past, Excused, PageTypes
<1>15. ASSUME NEW d \in Calls PROVE Past(calls[d].got)' /\ Excused(calls[d].got)'
  <2>1. CASE d = c
    BY <2>1, <1>3, <1>10 DEF Past, Excused, Answers
  <2>2. CASE d # c
    <3>1. calls[d].got \in Answers
      BY DEF PageTypes, Asked
    <3> QED
      BY <2>2, <3>1, <1>9, <1>13 DEF Past, Excused
  <2> QED
    BY <2>1, <2>2
<1> QED
  BY <1>6, <1>8, <1>14, <1>15

\* An answer that the page hears: it knows of what it brings, and of nothing newer.
LEMMA Hears ==
  ASSUME PageInv, NEW c \in Calls, CloseCall(c)
  PROVE  /\ served' = served /\ heard' \in Nat
         /\ heard <= heard' /\ heard' <= served.version
         /\ calls[c].got.version <= heard'
BY DEF PageInv, PageTypes, Asked, Answers, Past, CloseCall

\* An answer is shown.  One that is older than what was heard is a poll's, and then a
\* finished trip was not on the page, or it leads astray.
LEMMA ShowKeeps ==
  ASSUME PageInv, NEW c \in Calls, ShowAnswer(c)
  PROVE  PageInv'
<1> DEFINE got == calls[c].got
<1> USE DEF PageInv
<1>1. /\ calls[c].at = "served" /\ StillWanted(c)
      /\ view' = [at |-> "open", shown |-> got]
      /\ poller' = IF got.status # view.shown.status THEN poller + 1 ELSE poller
      /\ astray' = (got.version < heard /\ (astray \/ calls[c].kind # "poll"))
      /\ calls' = [calls EXCEPT ![c] = FreeCall]
      /\ CloseCall(c)
  BY DEF ShowAnswer, FreeIt
<1>2. /\ served' = served /\ heard' \in Nat /\ heard <= heard' /\ heard' <= served.version
      /\ got.version <= heard'
      /\ heard' = IF got.version > heard THEN got.version ELSE heard
  BY <1>1, Hears DEF CloseCall
<1>3. got \in Answers /\ Past(got) /\ Excused(got)
  BY DEF PageTypes, Asked
<1>4. PageTypes'
  BY <1>1, <1>2, <1>3, CallRows DEF PageTypes
<1>5. PollersInTime'
  <2> SUFFICES ASSUME NEW d \in Calls
               PROVE  /\ calls'[d].poller <= poller'
                      /\ calls'[d].kind = "poll" /\ calls'[d].poller = poller'
                           => got.status = "generating"
    BY <1>1 DEF PollersInTime
  <2>1. CASE d = c
    BY <2>1, <1>1 DEF PageTypes, FreeCall
  <2>2. CASE d # c
    BY <2>2, <1>1 DEF PageTypes, Asked, PollersInTime
  <2> QED
    BY <2>1, <2>2
<1>6. \A d \in Calls : calls'[d] = calls[d] \/ (d = c /\ calls'[d] = FreeCall)
  BY <1>1 DEF PageTypes
<1>7. ASSUME NEW g \in Answers, Past(g), Excused(g), g.status = "ready", g.version < served.version
      PROVE  \/ WriteOnItsWay'
             \/ heard' = served'.version /\ (astray' \/ view'.shown = served')
  <2>1. CASE got = served
    BY <2>1, <1>1, <1>2 DEF PageTypes, Answers
  <2>2. CASE got # served
    <3>1. got.version < served.version
      BY <2>2, <1>3 DEF Past, PageTypes, Answers
    <3>2. CASE WriteOnItsWay
      <4>1. PICK d \in Calls :
              calls[d].at = "served" /\ calls[d].kind = "write" /\ calls[d].got = served
        BY <3>2 DEF WriteOnItsWay
      <4>2. d # c
        BY <4>1, <2>2
      <4>3. calls'[d] = calls[d]
        BY <4>2, <1>6
      <4> QED
        BY <4>1, <4>3, <1>2 DEF WriteOnItsWay
    <3>3. CASE heard = served.version /\ (astray \/ view.shown = served)
      <4>1. heard' = served'.version /\ got.version < heard
        BY <3>1, <3>3, <1>2 DEF PageTypes, Answers
      <4>2. CASE astray \/ calls[c].kind # "poll"
        BY <4>1, <4>2, <1>1
      <4>3. CASE ~astray /\ calls[c].kind = "poll"
        <5>1. view.shown.status = "generating"
          BY <4>3, <1>1 DEF StillWanted, PollersInTime
        <5>2. served.status = "ready"
          BY <1>7 DEF Past
        <5> QED
          BY <4>3, <3>3, <5>1, <5>2
      <4> QED
        BY <4>1, <4>2, <4>3
    <3> QED
      BY <3>2, <3>3, <1>7 DEF Excused
  <2> QED
    BY <2>1, <2>2
<1>8. \A g \in Answers : Past(g) =>
        /\ g.version <= served'.version
        /\ g.version = served'.version => g = served'
        /\ g.status = "ready" => served'.status = "ready"
  BY <1>2 DEF Past
<1>9. Past(view.shown)' /\ Excused(view.shown)'
  BY <1>1, <1>2, <1>3, <1>7, <1>8 DEF Past, Excused
<1>10. ASSUME NEW d \in Calls PROVE Past(calls[d].got)' /\ Excused(calls[d].got)'
  <2>1. calls[d].got \in Answers /\ Past(calls[d].got) /\ Excused(calls[d].got)
    BY DEF PageTypes, Asked
  <2>2. CASE calls'[d] = calls[d]
    BY <2>1, <2>2, <1>2, <1>7, <1>8 DEF Past, Excused
  <2>3. CASE calls'[d] = FreeCall
    BY <2>3, <1>2 DEF Past, Excused, FreeCall, Empty, PageTypes, Answers
  <2> QED
    BY <2>2, <2>3, <1>6
<1> QED
  BY <1>4, <1>5, <1>9, <1>10

\* Answers that nobody waits for, and calls that failed: the page shows what it showed.
LEMMA DropKeeps ==
  ASSUME PageInv, NEW c \in Calls, IgnoreAnswer(c) \/ FailCall(c)
  PROVE  PageInv'
<1> USE DEF PageInv
<1>1. /\ calls' = [calls EXCEPT ![c] = FreeCall] /\ CloseCall(c)
      /\ poller' = poller /\ view'.shown = view.shown
      /\ view' \in [at : {"new", "loading", "open", "error", "sample"}, shown : Answers]
      /\ astray' = (astray \/ (calls[c].kind = "write" /\ calls[c].at = "served"))
  <2>1. CASE IgnoreAnswer(c)
    BY <2>1 DEF IgnoreAnswer, StillWanted, FreeIt, PageTypes
  <2>2. CASE FailCall(c)
    BY <2>2 DEF FailCall, FreeIt, PageTypes
  <2> QED
    BY <2>1, <2>2
<1>2. /\ served' = served /\ heard' \in Nat /\ heard <= heard' /\ heard' <= served.version
      /\ calls[c].got.version <= heard'
  BY <1>1, Hears
<1>3. PageTypes'
  BY <1>1, <1>2, CallRows DEF PageTypes
<1>4. \A d \in Calls : calls'[d] = calls[d] \/ (d = c /\ calls'[d] = FreeCall)
  BY <1>1 DEF PageTypes
<1>5. PollersInTime'
  BY <1>1, <1>4 DEF PollersInTime, FreeCall, PageTypes
<1>6. ASSUME NEW g \in Answers, Excused(g), g.status = "ready", g.version < served.version
      PROVE  \/ WriteOnItsWay'
             \/ heard' = served'.version /\ (astray' \/ view'.shown = served')
  <2>1. CASE WriteOnItsWay
    <3>1. PICK d \in Calls : calls[d].at = "served" /\ calls[d].kind = "write" /\ calls[d].got = served
      BY <2>1 DEF WriteOnItsWay
    <3>2. CASE d = c
      <4>1. heard' = served'.version
        BY <3>1, <3>2, <1>2 DEF PageTypes, Answers
      <4>2. astray'
        BY <3>1, <3>2, <1>1
      <4> QED
        BY <4>1, <4>2
    <3>3. CASE d # c
      BY <3>1, <3>3, <1>2, <1>4 DEF WriteOnItsWay
    <3> QED
      BY <3>2, <3>3
  <2>2. CASE heard = served.version /\ (astray \/ view.shown = served)
    BY <2>2, <1>1, <1>2 DEF PageTypes, Answers
  <2> QED
    BY <2>1, <2>2, <1>6 DEF Excused
<1>7. Past(view.shown)' /\ Excused(view.shown)'
  BY <1>1, <1>2, <1>6 DEF Past, Excused, PageTypes
<1>8. ASSUME NEW d \in Calls PROVE Past(calls[d].got)' /\ Excused(calls[d].got)'
  <2>1. calls[d].got \in Answers /\ Past(calls[d].got) /\ Excused(calls[d].got)
    BY DEF PageTypes, Asked
  <2>2. CASE calls'[d] = calls[d]
    BY <2>1, <2>2, <1>2, <1>6 DEF Past, Excused
  <2>3. CASE calls'[d] = FreeCall
    BY <2>3, <1>2 DEF Past, Excused, FreeCall, Empty, PageTypes, Answers
  <2> QED
    BY <2>2, <2>3, <1>4
<1> QED
  BY <1>3, <1>5, <1>7, <1>8

\* A feedback that was taken, or that makes the page ask for the trip again.
LEMMA FeedbackKeeps ==
  ASSUME PageInv, NEW c \in Calls, FeedbackAnswer(c)
  PROVE  PageInv'
<1> USE DEF PageInv
<1>1. PICK r \in Asked :
        /\ r.got = Empty /\ r.kind # "poll" /\ r.poller = 0
        /\ calls' = [calls EXCEPT ![c] = r]
  BY CallRows DEF FeedbackAnswer, FreeCall
<1>2. calls[c].kind = "feedback" /\ UNCHANGED <<served, view, poller, heard, astray>>
  BY DEF FeedbackAnswer
<1>3. PageTypes'
  BY <1>1, <1>2 DEF PageTypes
<1>4. \A d \in Calls : calls'[d] = calls[d] \/ (d = c /\ calls'[d] = r)
  BY <1>1 DEF PageTypes
<1>5. PollersInTime'
  BY <1>1, <1>2, <1>4 DEF PollersInTime, PageTypes
<1>6. WriteOnItsWay => WriteOnItsWay'
  BY <1>2, <1>4 DEF WriteOnItsWay
<1>7. Past(view.shown)' /\ Excused(view.shown)'
  BY <1>2, <1>6 DEF Past, Excused
<1>8. ASSUME NEW d \in Calls PROVE Past(calls[d].got)' /\ Excused(calls[d].got)'
  <2>1. CASE calls'[d] = calls[d]
    BY <2>1, <1>2, <1>6 DEF Past, Excused
  <2>2. CASE calls'[d] = r
    BY <2>2, <1>1, <1>2 DEF Past, Excused, Empty, PageTypes, Answers
  <2> QED
    BY <2>1, <2>2, <1>4
<1> QED
  BY <1>3, <1>5, <1>7, <1>8

\* For any number of calls in flight, answered in any order: a page that waits for nothing
\* shows the trip as it is, unless it went astray (PageSettles).
THEOREM PagesSettle == PageSpec => []PageSettles
<1>1. PageInv => PageSettles
  BY DEF PageInv, PageTypes, PageSettles, Past, Excused, WriteOnItsWay, Answers
<1>2. PageInv /\ [PageNext]_pageVars => PageInv'
  <2> SUFFICES ASSUME PageInv, [PageNext]_pageVars PROVE PageInv'
    OBVIOUS
  <2>1. CASE DaysArrive
    BY <2>1, DaysArriveKeeps
  <2>2. CASE \E c \in Calls : OpenTrip(c) \/ PollTrip(c) \/ WriteTrip(c) \/ RefreshTrip(c)
    BY <2>2, AskKeeps
  <2>3. CASE \E c \in Calls : ServeCall(c)
    BY <2>3, ServeKeeps
  <2>4. CASE \E c \in Calls : ShowAnswer(c)
    BY <2>4, ShowKeeps
  <2>5. CASE \E c \in Calls : IgnoreAnswer(c) \/ FailCall(c)
    BY <2>5, DropKeeps
  <2>6. CASE \E c \in Calls : FeedbackAnswer(c)
    BY <2>6, FeedbackKeeps
  <2>7. CASE UNCHANGED pageVars
    BY <2>7 DEF pageVars, PageInv, PageTypes, PollersInTime, Past, Excused, WriteOnItsWay
  <2> QED
    BY <2>1, <2>2, <2>3, <2>4, <2>5, <2>6, <2>7 DEF PageNext
<1> QED
  BY <1>1, <1>2, PageStart, PTL DEF PageSpec

-----------------------------------------------------------------------------
(* The home page: HomePage. *)

\* The shape of the attempts and of what the tab keeps.  Only a submit is ever aborted, and
\* only a resume goes on after its page.
AttemptRow ==
  [by : {"none", "submit", "resume"}, at : {"none", "asking", "watching", "draining", "over"},
   trip : Nat, aborted : BOOLEAN, detached : BOOLEAN, stream : Int]
HomeTypes ==
  /\ attempts \in [Tries -> AttemptRow]
  /\ storage \in [trip : Nat, sentence : 0 .. MaxSentences, archive : Nat]
  /\ page \in [status : {"idle", "creating", "planning", "ready", "pending", "error", "login"},
               draft : Nat, request : 0 .. MaxAttempts]
  /\ intake \in [ready : BOOLEAN, asking : 0 .. MaxSentences, spoken : 0 .. MaxSentences]
  /\ \A a \in Tries :
       /\ attempts[a].at \in {"asking", "watching"} => attempts[a].by # "none"
       /\ attempts[a].aborted => attempts[a].by = "submit"
       /\ attempts[a].detached => attempts[a].by = "resume"
  /\ page.request # 0 => attempts[page.request].by = "submit"
  /\ ghosts \in [crossed : BOOLEAN, fresh : BOOLEAN, lost : BOOLEAN]

\* What is being asked, or waits in the storage for a login, was not answered; and the
\* two are never the same sentence.
Unsaid ==
  /\ answered \in [Sentences -> {0, 1}]
  /\ intake.asking # 0 => answered[intake.asking] = 0
  /\ storage.sentence # 0 => answered[storage.sentence] = 0 /\ storage.sentence # intake.asking
  /\ intake.asking <= intake.spoken /\ storage.sentence <= intake.spoken
  /\ \A s \in Sentences : s > intake.spoken => answered[s] = 0

\* A submit that is alive is the one in place.
Owned == \A a \in Tries : Alive(a) /\ attempts[a].by = "submit" => page.request = a

\* What an attempt of the page that is shown has to do with it.
InView(a) == Alive(a) /\ ~attempts[a].detached
InPlace(a) ==
  /\ attempts[a].by = "submit" /\ attempts[a].at = "asking" => page.status = "creating"
  /\ attempts[a].by = "resume" /\ attempts[a].at = "asking" =>
       page.status = "idle" /\ (~ghosts.lost => storage.trip = attempts[a].trip)
  /\ attempts[a].at = "watching" => page.status = "planning" /\ page.draft = attempts[a].trip
\* What a resume has to do with the storage, and with a page that is not its own.
Follows(a) ==
  /\ attempts[a].by = "resume" => storage.trip \in {0, attempts[a].trip}
  /\ attempts[a].detached /\ page.status \in {"planning", "ready"} => page.draft = attempts[a].trip
\* One that outlived its page shares its trip with all that are alive.
Shares(a, b) == attempts[b].by = "resume" /\ attempts[b].trip = attempts[a].trip
Stored == page.status \in {"planning", "ready"} /\ ~ghosts.lost => storage.trip = page.draft

\* As long as nothing has crossed: one attempt at most is in view, and all follow one trip.
Settled ==
  ~ghosts.crossed =>
    /\ \A a, b \in Tries : InView(a) /\ InView(b) => a = b
    /\ \A a \in Tries : InView(a) => InPlace(a)
    /\ \A a \in Tries : Alive(a) => Follows(a)
    /\ \A a, b \in Tries : Alive(a) /\ Alive(b) /\ attempts[a].detached => Shares(a, b)
    /\ Stored

HomeInv == HomeTypes /\ Unsaid /\ Owned /\ Settled

\* Rows of the attempts: one that has just begun, one that is over, and one that changes.
LEMMA RowsOfAttempts ==
  /\ Unused \in AttemptRow /\ Unused.by = "none" /\ Unused.at = "none"
  /\ ~Unused.aborted /\ ~Unused.detached
  /\ \A a \in Tries : HomeTypes =>
       /\ Closed(a) \in AttemptRow /\ Closed(a).by = attempts[a].by
       /\ Closed(a).at = "over" /\ ~Closed(a).aborted /\ ~Closed(a).detached
<1>1. Unused \in AttemptRow
  BY DEF Unused, AttemptRow
<1>2. Unused.by = "none" /\ Unused.at = "none" /\ ~Unused.aborted /\ ~Unused.detached
  BY DEF Unused
<1>3. ASSUME NEW a \in Tries, HomeTypes
      PROVE  /\ Closed(a) \in AttemptRow /\ Closed(a).by = attempts[a].by
             /\ Closed(a).at = "over" /\ ~Closed(a).aborted /\ ~Closed(a).detached
  <2>1. attempts[a].by \in {"none", "submit", "resume"}
    BY <1>3 DEF HomeTypes, AttemptRow
  <2> QED
    BY <1>1, <1>2, <2>1 DEF Closed, AttemptRow
<1> QED
  BY <1>1, <1>2, <1>3

\* A submit begins; a monitor drains.
LEMMA RowChanges ==
  ASSUME NEW r \in AttemptRow
  PROVE  /\ [r EXCEPT !.at = "draining"] \in AttemptRow
         /\ [r EXCEPT !.by = "submit", !.at = "asking"] \in AttemptRow
         /\ [r EXCEPT !.by = "submit", !.at = "asking"].by = "submit"
         /\ [r EXCEPT !.by = "submit", !.at = "asking"].at = "asking"
         /\ ([r EXCEPT !.by = "submit", !.at = "asking"].aborted => r.aborted)
         /\ ([r EXCEPT !.by = "submit", !.at = "asking"].detached => r.detached)
<1> USE DEF AttemptRow
<1>1. [r EXCEPT !.at = "draining"] \in AttemptRow
  OBVIOUS
<1>2. [r EXCEPT !.by = "submit", !.at = "asking"] \in AttemptRow
  OBVIOUS
<1>3. /\ [r EXCEPT !.by = "submit", !.at = "asking"].by = "submit"
      /\ [r EXCEPT !.by = "submit", !.at = "asking"].at = "asking"
      /\ ([r EXCEPT !.by = "submit", !.at = "asking"].aborted => r.aborted)
      /\ ([r EXCEPT !.by = "submit", !.at = "asking"].detached => r.detached)
  OBVIOUS
<1> QED
  BY <1>1, <1>2, <1>3

\* A resume begins.
LEMMA ResumeRow ==
  ASSUME NEW n \in Nat
  PROVE  LET entry == [Unused EXCEPT !.by = "resume", !.at = "asking", !.trip = n]
         IN /\ entry \in AttemptRow /\ entry.by = "resume" /\ entry.at = "asking" /\ entry.trip = n
            /\ ~entry.aborted /\ ~entry.detached
<1>1. ASSUME NEW r \in AttemptRow
      PROVE  /\ [r EXCEPT !.by = "resume", !.at = "asking", !.trip = n] \in AttemptRow
             /\ [r EXCEPT !.by = "resume", !.at = "asking", !.trip = n].by = "resume"
             /\ [r EXCEPT !.by = "resume", !.at = "asking", !.trip = n].at = "asking"
             /\ [r EXCEPT !.by = "resume", !.at = "asking", !.trip = n].trip = n
             /\ ([r EXCEPT !.by = "resume", !.at = "asking", !.trip = n].aborted => r.aborted)
             /\ ([r EXCEPT !.by = "resume", !.at = "asking", !.trip = n].detached => r.detached)
  <2> USE DEF AttemptRow
  <2>1. [r EXCEPT !.by = "resume", !.at = "asking", !.trip = n] \in AttemptRow
    OBVIOUS
  <2>2. /\ [r EXCEPT !.by = "resume", !.at = "asking", !.trip = n].by = "resume"
        /\ [r EXCEPT !.by = "resume", !.at = "asking", !.trip = n].at = "asking"
        /\ [r EXCEPT !.by = "resume", !.at = "asking", !.trip = n].trip = n
        /\ ([r EXCEPT !.by = "resume", !.at = "asking", !.trip = n].aborted => r.aborted)
        /\ ([r EXCEPT !.by = "resume", !.at = "asking", !.trip = n].detached => r.detached)
    OBVIOUS
  <2> QED
    BY <2>1, <2>2
<1>2. Unused \in AttemptRow /\ ~Unused.aborted /\ ~Unused.detached
  BY RowsOfAttempts
<1> QED
  BY <1>1, <1>2

\* What was asked is watched from now on.
LEMMA WatchRows ==
  ASSUME NEW r \in AttemptRow
  PROVE  /\ [r EXCEPT !.at = "watching", !.stream = 0] \in AttemptRow
         /\ [r EXCEPT !.at = "watching", !.stream = 0].at = "watching"
         /\ [r EXCEPT !.at = "watching", !.stream = 0].by = r.by
         /\ [r EXCEPT !.at = "watching", !.stream = 0].trip = r.trip
         /\ ([r EXCEPT !.at = "watching", !.stream = 0].aborted => r.aborted)
         /\ ([r EXCEPT !.at = "watching", !.stream = 0].detached <=> r.detached)
<1> DEFINE w == "watching"
           z == 0
<1>1. w \in {"none", "asking", "watching", "draining", "over"} /\ z \in Int
  OBVIOUS
<1> HIDE DEF w, z
<1>2. [r EXCEPT !.at = w, !.stream = z] \in AttemptRow
  BY <1>1 DEF AttemptRow
<1>3. /\ [r EXCEPT !.at = w, !.stream = z].at = w
      /\ [r EXCEPT !.at = w, !.stream = z].by = r.by
      /\ [r EXCEPT !.at = w, !.stream = z].trip = r.trip
      /\ ([r EXCEPT !.at = w, !.stream = z].aborted => r.aborted)
      /\ ([r EXCEPT !.at = w, !.stream = z].detached <=> r.detached)
  BY DEF AttemptRow
<1> QED
  BY <1>2, <1>3, Zenon DEF w, z

\* The attempts when one of them is watched from now on.
LEMMA WatchRow ==
  ASSUME HomeTypes, NEW a \in Tries,
         attempts' = [attempts EXCEPT ![a].at = "watching", ![a].stream = 0]
  PROVE  /\ attempts'[a].at = "watching" /\ attempts'[a].by = attempts[a].by
         /\ attempts'[a].trip = attempts[a].trip
         /\ attempts'[a].detached <=> attempts[a].detached
         /\ \A b \in Tries \ {a} : attempts'[b] = attempts[b]
<1>1. attempts[a] \in AttemptRow /\ attempts \in [Tries -> AttemptRow]
  BY DEF HomeTypes
<1>2. attempts'[a] = [attempts[a] EXCEPT !.at = "watching", !.stream = 0]
      /\ \A b \in Tries \ {a} : attempts'[b] = attempts[b]
  BY <1>1
<1> QED
  BY <1>1, <1>2, WatchRows

\* An attempt that is aborted stays what it was otherwise.
LEMMA RowAborted ==
  ASSUME NEW r \in AttemptRow
  PROVE  /\ [r EXCEPT !.aborted = TRUE] \in AttemptRow
         /\ [r EXCEPT !.aborted = TRUE].by = r.by
         /\ [r EXCEPT !.aborted = TRUE].at = r.at
         /\ [r EXCEPT !.aborted = TRUE].trip = r.trip
         /\ [r EXCEPT !.aborted = TRUE].aborted
         /\ ([r EXCEPT !.aborted = TRUE].detached <=> r.detached)
<1> DEFINE b == TRUE
<1>1. b \in BOOLEAN /\ b
  OBVIOUS
<1> HIDE DEF b
<1>2. /\ [r EXCEPT !.aborted = b] \in AttemptRow /\ [r EXCEPT !.aborted = b].by = r.by
      /\ [r EXCEPT !.aborted = b].at = r.at /\ [r EXCEPT !.aborted = b].trip = r.trip
      /\ [r EXCEPT !.aborted = b].aborted = b
      /\ ([r EXCEPT !.aborted = b].detached <=> r.detached)
  BY <1>1 DEF AttemptRow
<1> QED
  BY <1>1, <1>2, Zenon DEF b

\* One that goes on after its page stays what it was otherwise.
LEMMA RowDetached ==
  ASSUME NEW r \in AttemptRow
  PROVE  /\ [r EXCEPT !.detached = TRUE] \in AttemptRow
         /\ [r EXCEPT !.detached = TRUE].by = r.by
         /\ [r EXCEPT !.detached = TRUE].at = r.at
         /\ [r EXCEPT !.detached = TRUE].trip = r.trip
         /\ [r EXCEPT !.detached = TRUE].detached
         /\ ([r EXCEPT !.detached = TRUE].aborted <=> r.aborted)
<1> DEFINE b == TRUE
<1>1. b \in BOOLEAN /\ b
  OBVIOUS
<1> HIDE DEF b
<1>2. /\ [r EXCEPT !.detached = b] \in AttemptRow /\ [r EXCEPT !.detached = b].by = r.by
      /\ [r EXCEPT !.detached = b].at = r.at /\ [r EXCEPT !.detached = b].trip = r.trip
      /\ [r EXCEPT !.detached = b].detached = b
      /\ ([r EXCEPT !.detached = b].aborted <=> r.aborted)
  BY <1>1 DEF AttemptRow
<1> QED
  BY <1>1, <1>2, Zenon DEF b

\* What is left of an attempt when its page goes.
LEMMA LeftRows ==
  ASSUME HomeTypes, NEW a \in Tries
  PROVE  /\ Unmounted(a) \in AttemptRow /\ Unmounted(a).by = attempts[a].by
         /\ Unmounted(a).at = attempts[a].at /\ Unmounted(a).trip = attempts[a].trip
         /\ Unmounted(a).aborted <=> (attempts[a].aborted \/ a = page.request)
         /\ attempts[a].detached => Unmounted(a).detached
         /\ a # page.request /\ attempts[a].by = "resume" /\ Alive(a) => Unmounted(a).detached
         /\ Unmounted(a).detached => attempts[a].detached \/ attempts[a].by = "resume"
<1>1. attempts[a] \in AttemptRow
  BY DEF HomeTypes
<1> QED
  BY <1>1, RowAborted, RowDetached DEF Unmounted

\* What the conversation keeps while something is asked or answered.
LEMMA IntakeChanges ==
  ASSUME HomeTypes, NEW n \in 0 .. MaxSentences, NEW r \in BOOLEAN,
         \/ intake' = [intake EXCEPT !.asking = n]
         \/ intake' = [intake EXCEPT !.asking = n, !.ready = r]
         \/ intake' = [intake EXCEPT !.ready = r, !.asking = n]
  PROVE  /\ intake' \in [ready : BOOLEAN, asking : 0 .. MaxSentences, spoken : 0 .. MaxSentences]
         /\ intake'.asking = n /\ intake'.spoken = intake.spoken
BY DEF HomeTypes

\* At the start nothing is under way.
LEMMA HomeStart == HomeInit => HomeInv
<1> SUFFICES ASSUME HomeInit PROVE HomeInv
  OBVIOUS
<1> USE HomeAssumption DEF HomeInit, Blank, Unused, Tries, Sentences
<1>1. HomeTypes
  <2>1. attempts \in [Tries -> AttemptRow] /\ \A a \in Tries : attempts[a] = Unused
    BY RowsOfAttempts
  <2>2. \A a \in Tries : attempts[a].at = "none" /\ ~attempts[a].aborted /\ ~attempts[a].detached
    BY <2>1, RowsOfAttempts
  <2>3. intake \in [ready : BOOLEAN, asking : 0 .. MaxSentences, spoken : 0 .. MaxSentences]
    OBVIOUS
  <2> QED
    BY <2>1, <2>2, <2>3 DEF HomeTypes
<1>2. Unsaid
  BY DEF Unsaid
<1>3. Owned /\ Settled
  BY DEF Owned, Settled, Stored, InView, Alive
<1> QED
  BY <1>1, <1>2, <1>3 DEF HomeInv

\* What is said, heard, and sent again after a reload: an answer counts once.
LEMMA SayHeard ==
  ASSUME HomeTypes, Unsaid, Say \/ Heard
  PROVE  Unsaid'
<1> USE HomeAssumption DEF HomeTypes, Unsaid, Sentences
<1>1. CASE Say
  BY <1>1 DEF Say
<1>2. CASE Heard
  <2>1. intake.asking # 0
    BY <1>2, Zenon DEF Heard
  <2>2. intake'.asking = 0 /\ intake'.spoken = intake.spoken
    <3>1. PICK r \in BOOLEAN :
            \/ intake' = [intake EXCEPT !.asking = 0, !.ready = r]
            \/ intake' = [intake EXCEPT !.asking = 0]
      BY <1>2, Zenon DEF Heard
    <3> QED
      BY <3>1, IntakeChanges
  <2>3. CASE answered' = [answered EXCEPT ![intake.asking] = @ + 1] /\ storage' = storage
    <3>1. answered' \in [Sentences -> {0, 1}]
      BY <2>1, <2>3
    <3> QED
      BY <3>1, <2>1, <2>2, <2>3
  <2>4. CASE answered' = answered /\ storage' = [storage EXCEPT !.sentence = intake.asking]
    BY <2>1, <2>2, <2>4
  <2>5. CASE answered' = answered /\ storage' = storage
    BY <2>1, <2>2, <2>5
  <2> QED
    BY <1>2, <2>3, <2>4, <2>5 DEF Heard
<1> QED
  BY <1>1, <1>2

\* A mount sends the sentence that waited, and takes it out of the storage first.
LEMMA MountAgain ==
  ASSUME HomeTypes, Unsaid, Load \/ Remount
  PROVE  Unsaid'
<1> USE HomeAssumption DEF HomeTypes, Unsaid, Sentences
<1>1. PICK gone \in BOOLEAN :
        /\ gone => intake.asking # 0
        /\ answered' = IF gone THEN [answered EXCEPT ![intake.asking] = @ + 1] ELSE answered
  BY DEF Load, Remount, Mount
<1>2. /\ storage'.sentence = SentenceLeft
      /\ intake'.asking = (IF user.known THEN storage.sentence ELSE 0)
      /\ intake'.spoken = intake.spoken
  BY DEF Load, Remount, Mount
<1>3. answered' \in [Sentences -> {0, 1}]
  BY <1>1
<1>4. \A s \in Sentences : s # intake.asking => answered'[s] = answered[s]
  BY <1>1
<1> QED
  BY <1>2, <1>3, <1>4 DEF SentenceLeft

\* An attempt in place that goes on, or ends, without the page.
LEMMA QuietStep ==
  ASSUME HomeTypes, Owned, Settled,
         page'.status = page.status, page'.draft = page.draft,
         storage'.trip = storage.trip, ghosts' = ghosts,
         \A a \in Tries : Alive(a)' =>
           /\ Alive(a) /\ attempts'[a].by = attempts[a].by /\ attempts'[a].at = attempts[a].at
           /\ attempts'[a].detached <=> attempts[a].detached
           /\ attempts'[a].at # "asking" \/ attempts'[a].by # "submit" =>
                attempts'[a].trip = attempts[a].trip
           /\ attempts'[a].by = "submit" /\ page.request = a => page'.request = a
  PROVE  Owned' /\ Settled'
<1>1. Owned'
  BY DEF Owned
<1> SUFFICES ASSUME ~ghosts.crossed PROVE Settled'
  BY <1>1 DEF Settled
<1>2. \A a \in Tries : InView(a)' => InView(a)
  BY DEF InView
<1>3. \A a \in Tries : InView(a)' => InPlace(a)'
  BY <1>2 DEF Settled, InPlace, InView
<1>4. \A a \in Tries : Alive(a)' => Follows(a)'
  BY DEF Settled, Follows, HomeTypes
<1>5. ASSUME NEW a \in Tries, NEW b \in Tries, Alive(a)', Alive(b)', attempts'[a].detached
      PROVE  Shares(a, b)'
  <2>1. Shares(a, b) /\ attempts[a].by = "resume"
    BY <1>5 DEF Settled, HomeTypes
  <2> QED
    BY <1>5, <2>1 DEF Shares
<1>6. Stored'
  BY DEF Settled, Stored
<1> QED
  BY <1>2, <1>3, <1>4, <1>5, <1>6 DEF Settled

\* The other steps leave the sentences alone, or forget them.
LEMMA UnsaidKeeps ==
  ASSUME HomeTypes, Unsaid, HomeNext \/ UNCHANGED homeVars
  PROVE  Unsaid'
<1>1. CASE Say \/ Heard
  BY <1>1, SayHeard
<1>2. CASE Load \/ Remount
  BY <1>2, MountAgain
<1>3. CASE Reset
  BY <1>3 DEF Reset, Unsaid, HomeTypes
<1>4. CASE RestoreSession
  BY <1>4 DEF RestoreSession, Unsaid, HomeTypes
<1>5. CASE SubmitRequest \/ SignIn \/ SessionEnds \/ UNCHANGED homeVars
  BY <1>5 DEF SubmitRequest, SignIn, SessionEnds, Unsaid, homeVars
<1>6. ASSUME NEW a \in Tries,
             Created(a) \/ StreamEnds(a) \/ MonitorEnds(a) \/ TripEnds(a)
      PROVE  Unsaid'
  BY <1>6 DEF Created, StreamEnds, MonitorEnds, TripEnds, Unsaid
<1>7. ASSUME NEW a \in Tries, SubmitAnswered(a) \/ ResumeAnswered(a) \/ Poll(a)
      PROVE  Unsaid'
  <2>1. storage'.sentence = storage.sentence /\ UNCHANGED <<intake, answered>>
    BY <1>7 DEF SubmitAnswered, ResumeAnswered, Poll, ReadyStore, Remember, ForgetTrip, HomeTypes
  <2> QED
    BY <2>1 DEF Unsaid
<1> QED
  BY <1>1, <1>2, <1>3, <1>4, <1>5, <1>6, <1>7 DEF HomeNext

\* The shape of the rows after a mount, with what is left of the attempts.
LEMMA MountTypes ==
  ASSUME HomeTypes, NEW left \in [Tries -> AttemptRow], NEW stored \in Nat, Mount(left, stored),
         \A a \in Tries : /\ left[a].at \in {"asking", "watching"} => left[a].by # "none"
                          /\ left[a].aborted => left[a].by = "submit"
                          /\ left[a].detached => left[a].by = "resume",
         ghosts' \in [crossed : BOOLEAN, fresh : BOOLEAN, lost : BOOLEAN]
  PROVE  HomeTypes'
<1> USE HomeAssumption
<1> DEFINE entry == [Unused EXCEPT !.by = "resume", !.at = "asking", !.trip = stored]
<1>1. entry \in AttemptRow /\ entry.by = "resume" /\ ~entry.aborted /\ ~entry.detached
  BY ResumeRow
<1>2. attempts' = left \/ \E a \in Tries : attempts' = [left EXCEPT ![a] = entry]
  BY DEF Mount, Next1
<1> HIDE DEF entry
<1>3. /\ attempts' \in [Tries -> AttemptRow]
      /\ \A a \in Tries : attempts'[a] = entry \/ attempts'[a] = left[a]
  BY <1>1, <1>2
<1>4. \A a \in Tries :
        /\ attempts'[a].at \in {"asking", "watching"} => attempts'[a].by # "none"
        /\ attempts'[a].aborted => attempts'[a].by = "submit"
        /\ attempts'[a].detached => attempts'[a].by = "resume"
  BY <1>1, <1>3
<1>5. page' = Blank /\ storage' \in [trip : Nat, sentence : 0 .. MaxSentences, archive : Nat]
  <2> DEFINE n == SentenceLeft
  <2>1. n \in 0 .. MaxSentences
    BY DEF SentenceLeft, HomeTypes
  <2>2. storage' = [storage EXCEPT !.trip = stored, !.sentence = n] /\ page' = Blank
    BY DEF Mount
  <2> HIDE DEF n
  <2> QED
    BY <2>1, <2>2 DEF HomeTypes
<1>6. intake' \in [ready : BOOLEAN, asking : 0 .. MaxSentences, spoken : 0 .. MaxSentences]
  <2>1. intake' = [intake EXCEPT !.asking = IF user.known THEN storage.sentence ELSE 0]
    BY Zenon DEF Mount
  <2>2. (IF user.known THEN storage.sentence ELSE 0) \in 0 .. MaxSentences
    BY DEF HomeTypes
  <2> QED
    BY <2>1, <2>2, IntakeChanges
<1> QED
  BY <1>3, <1>4, <1>5, <1>6 DEF HomeTypes, Blank

\* The shape of the rows, action by action.
LEMMA TypesOfPage ==
  ASSUME HomeTypes, SubmitRequest \/ Say \/ Heard \/ Load \/ Remount \/ Reset \/ RestoreSession
  PROVE  HomeTypes'
<1> USE HomeAssumption DEF HomeTypes
<1>0. 0 \in 0 .. MaxSentences /\ HomeTypes
  OBVIOUS
<1>1. CASE SubmitRequest
  <2>1. PICK a \in Next1 :
          /\ attempts' = [attempts EXCEPT ![a] = [Unused EXCEPT !.by = "submit", !.at = "asking"]]
          /\ page' = [page EXCEPT !.status = "creating", !.draft = 0, !.request = a]
    BY <1>1 DEF SubmitRequest
  <2>2. a \in Tries /\ a \in 0 .. MaxAttempts
    BY DEF Next1, Tries
  <2>3. DEFINE entry == [Unused EXCEPT !.by = "submit", !.at = "asking"]
  <2>4. entry \in AttemptRow /\ entry.by = "submit" /\ ~entry.aborted /\ ~entry.detached
    BY RowsOfAttempts, RowChanges
  <2>5. /\ attempts' \in [Tries -> AttemptRow]
        /\ attempts'[a] = entry /\ \A b \in Tries : b # a => attempts'[b] = attempts[b]
    BY <2>1, <2>2, <2>4
  <2>6. page'.request = a /\ page' \in
          [status : {"idle", "creating", "planning", "ready", "pending", "error", "login"},
           draft : Nat, request : 0 .. MaxAttempts]
    BY <2>1, <2>2
  <2>7. UNCHANGED <<storage, intake>> /\ ghosts' = [ghosts EXCEPT !.crossed = @ \/ Resuming, !.fresh = FALSE]
    BY <1>1 DEF SubmitRequest
  <2>8. (ghosts.crossed \/ Resuming) \in BOOLEAN
    OBVIOUS
  <2>9. ghosts' \in [crossed : BOOLEAN, fresh : BOOLEAN, lost : BOOLEAN]
    BY <2>7, <2>8
  <2> HIDE DEF entry
  <2>10. \A b \in Tries :
           /\ attempts'[b].at \in {"asking", "watching"} => attempts'[b].by # "none"
           /\ attempts'[b].aborted => attempts'[b].by = "submit"
           /\ attempts'[b].detached => attempts'[b].by = "resume"
    BY <2>2, <2>4, <2>5
  <2>11. page'.request # 0 => attempts'[page'.request].by = "submit"
    BY <2>4, <2>5, <2>6
  <2>12. UNCHANGED <<storage, intake>>
    BY <2>7
  <2> QED
    BY <2>5, <2>6, <2>9, <2>10, <2>11, <2>12
<1>2. CASE Say
  <2>1. intake' = [intake EXCEPT !.asking = intake.spoken + 1, !.spoken = @ + 1]
        /\ intake.spoken < MaxSentences /\ UNCHANGED <<storage, page, attempts, ghosts>>
    BY <1>2, Zenon DEF Say
  <2>2. intake.spoken + 1 \in 0 .. MaxSentences
    BY <2>1
  <2>3. intake' \in [ready : BOOLEAN, asking : 0 .. MaxSentences, spoken : 0 .. MaxSentences]
    BY <2>1, <2>2
  <2> QED
    BY <2>1, <2>3
<1>3. CASE Heard
  <2>1. PICK r \in BOOLEAN :
          intake' = [intake EXCEPT !.asking = 0, !.ready = r] \/ intake' = [intake EXCEPT !.asking = 0]
    BY <1>3, Zenon DEF Heard
  <2>2. /\ storage' \in {storage, [storage EXCEPT !.sentence = intake.asking]}
        /\ UNCHANGED <<page, attempts, ghosts>>
    BY <1>3, Zenon DEF Heard
  <2>3. intake' \in [ready : BOOLEAN, asking : 0 .. MaxSentences, spoken : 0 .. MaxSentences]
    BY <1>0, <2>1, IntakeChanges
  <2> QED
    BY <2>2, <2>3
<1>4. CASE Load
  <2> DEFINE left == [a \in Tries |-> IF attempts[a].by = "none" THEN Unused ELSE Closed(a)]
  <2>1. \A a \in Tries : /\ left[a] \in AttemptRow /\ ~left[a].aborted /\ ~left[a].detached
                         /\ left[a].at \notin {"asking", "watching"}
    BY RowsOfAttempts
  <2>2. left \in [Tries -> AttemptRow]
    BY <2>1
  <2>3. Mount(left, storage.trip) /\ storage.trip \in Nat
        /\ ghosts' \in [crossed : BOOLEAN, fresh : BOOLEAN, lost : BOOLEAN]
    BY <1>4 DEF Load
  <2> HIDE DEF left
  <2> QED
    BY <1>0, <2>1, <2>2, <2>3, MountTypes
<1>7. CASE Remount
  <2> DEFINE left == [a \in Tries |-> Unmounted(a)]
  <2>1. \A a \in Tries : /\ left[a] \in AttemptRow
                         /\ left[a].at \in {"asking", "watching"} => left[a].by # "none"
                         /\ left[a].aborted => left[a].by = "submit"
                         /\ left[a].detached => left[a].by = "resume"
    BY <1>0, LeftRows DEF Tries
  <2>2. left \in [Tries -> AttemptRow]
    BY <2>1
  <2>3. PICK stored \in {storage.trip, 0} : Mount(left, stored)
    BY <1>7 DEF Remount
  <2>4. stored \in Nat /\ (ghosts.crossed /\ Resuming) \in BOOLEAN
    OBVIOUS
  <2>5. ghosts' \in [crossed : BOOLEAN, fresh : BOOLEAN, lost : BOOLEAN]
    BY <1>7, <2>4 DEF Remount
  <2> HIDE DEF left
  <2> QED
    BY <1>0, <2>1, <2>2, <2>3, <2>4, <2>5, MountTypes
<1>5. CASE Reset
  <2>1. \A a \in Tries : /\ [attempts[a] EXCEPT !.aborted = TRUE] \in AttemptRow
                         /\ [attempts[a] EXCEPT !.aborted = TRUE].by = attempts[a].by
                         /\ [attempts[a] EXCEPT !.aborted = TRUE].at = attempts[a].at
    BY RowAborted
  <2>2. /\ attempts' \in [Tries -> AttemptRow]
        /\ \A a \in Tries : attempts'[a].by = attempts[a].by /\ attempts'[a].at = attempts[a].at
             /\ (attempts'[a].aborted => attempts[a].aborted \/ a = page.request)
             /\ (attempts'[a].detached => attempts[a].detached)
    BY <1>5, <2>1, RowAborted DEF Reset
  <2>3. \A a \in Tries : a # 0
    BY DEF Tries
  <2>4. \A a \in Tries : /\ attempts'[a].aborted => attempts'[a].by = "submit"
                         /\ attempts'[a].detached => attempts'[a].by = "resume"
    BY <2>2, <2>3
  <2>7. ghosts' \in [crossed : BOOLEAN, fresh : BOOLEAN, lost : BOOLEAN]
    <3>1. (ghosts.crossed \/ Resuming) \in BOOLEAN
      OBVIOUS
    <3> QED
      BY <1>5, <3>1 DEF Reset
  <2>5. page' = Blank /\ storage' \in [trip : Nat, sentence : 0 .. MaxSentences, archive : Nat]
    BY <1>5 DEF Reset
  <2>6. intake' \in [ready : BOOLEAN, asking : 0 .. MaxSentences, spoken : 0 .. MaxSentences]
    <3>1. FALSE \in BOOLEAN /\ intake' = [intake EXCEPT !.ready = FALSE, !.asking = 0]
      BY <1>5, Zenon DEF Reset
    <3> QED
      BY <1>0, <3>1, IntakeChanges
  <2> QED
    BY <2>2, <2>4, <2>5, <2>6, <2>7 DEF Blank
<1>6. CASE RestoreSession
  <2>1. PICK r \in BOOLEAN : intake' = [intake EXCEPT !.asking = 0, !.ready = r]
    BY <1>6, Zenon DEF RestoreSession
  <2>2. storage' = [storage EXCEPT !.trip = storage.archive] /\ UNCHANGED <<page, attempts>>
    BY <1>6, Zenon DEF RestoreSession
  <2>3. intake' \in [ready : BOOLEAN, asking : 0 .. MaxSentences, spoken : 0 .. MaxSentences]
    BY <1>0, <2>1, IntakeChanges
  <2>4. ghosts' \in [crossed : BOOLEAN, fresh : BOOLEAN, lost : BOOLEAN]
    <3>1. (ghosts.crossed \/ Resuming \/ page.status # "idle") \in BOOLEAN
      OBVIOUS
    <3> QED
      BY <1>6, <3>1 DEF RestoreSession
  <2> QED
    BY <2>2, <2>3, <2>4
<1> QED
  BY <1>1, <1>2, <1>3, <1>4, <1>5, <1>6, <1>7

\* The same for the steps of an attempt.
LEMMA TypesOfAttempts ==
  ASSUME HomeTypes, NEW a \in Tries,
         Created(a) \/ SubmitAnswered(a) \/ ResumeAnswered(a) \/ Poll(a)
           \/ StreamEnds(a) \/ MonitorEnds(a)
  PROVE  HomeTypes'
<1> USE HomeAssumption DEF HomeTypes
<1>1. a \in Nat /\ a # 0 /\ attempts[a] \in AttemptRow
  BY DEF Tries
<1>2. PICK r \in AttemptRow :
        /\ attempts' = [attempts EXCEPT ![a] = r]
        /\ r.by = attempts[a].by /\ (r.aborted => attempts[a].aborted)
        /\ (r.detached => attempts[a].detached)
        /\ r.at \in {"asking", "watching"} => attempts[a].at \in {"asking", "watching"}
  <2>1. CASE Created(a)
    <3> DEFINE r == [attempts[a] EXCEPT !.trip = a]
    <3>1. attempts' = [attempts EXCEPT ![a] = r]
      BY <2>1 DEF Created
    <3>2. /\ r \in AttemptRow /\ r.by = attempts[a].by
          /\ (r.aborted => attempts[a].aborted) /\ r.at = attempts[a].at
          /\ (r.detached => attempts[a].detached)
      BY <1>1 DEF AttemptRow
    <3> QED
      BY <3>1, <3>2
  <2>2. CASE SubmitAnswered(a) \/ ResumeAnswered(a) \/ Poll(a) \/ StreamEnds(a) \/ MonitorEnds(a)
    <3>1. \/ attempts' = attempts
          \/ attempts' = [attempts EXCEPT ![a] = Closed(a)]
          \/ attempts' = [attempts EXCEPT ![a].at = "draining"]
          \/ /\ attempts[a].at = "asking"
             /\ attempts' = [attempts EXCEPT ![a].at = "watching", ![a].stream = 0]
          \/ \E n \in Int : attempts' = [attempts EXCEPT ![a].stream = n]
      <4>1. CASE SubmitAnswered(a)
        BY <4>1 DEF SubmitAnswered
      <4>2. CASE ResumeAnswered(a)
        BY <4>2 DEF ResumeAnswered
      <4>3. CASE Poll(a)
        BY <4>3 DEF Poll
      <4>4. CASE StreamEnds(a)
        <5>1. attempts[a].stream + 1 \in Int /\ 0 - 1 \in Int
          BY <1>1 DEF AttemptRow
        <5> QED
          BY <4>4, <5>1 DEF StreamEnds
      <4>5. CASE MonitorEnds(a)
        BY <4>5 DEF MonitorEnds
      <4> QED
        BY <2>2, <4>1, <4>2, <4>3, <4>4, <4>5
    <3>2. CASE attempts' = attempts
      BY <3>2, <1>1
    <3>3. CASE attempts' = [attempts EXCEPT ![a] = Closed(a)]
      BY <3>3, RowsOfAttempts
    <3>4. CASE attempts' = [attempts EXCEPT ![a].at = "draining"]
      <4> DEFINE r == [attempts[a] EXCEPT !.at = "draining"]
      <4>1. attempts' = [attempts EXCEPT ![a] = r]
        BY <3>4
      <4>2. /\ r \in AttemptRow /\ r.by = attempts[a].by
            /\ (r.aborted => attempts[a].aborted) /\ r.at = "draining"
            /\ (r.detached => attempts[a].detached)
        BY <1>1 DEF AttemptRow
      <4> QED
        BY <4>1, <4>2
    <3>5. CASE /\ attempts[a].at = "asking"
               /\ attempts' = [attempts EXCEPT ![a].at = "watching", ![a].stream = 0]
      <4> DEFINE r == [attempts[a] EXCEPT !.at = "watching", !.stream = 0]
      <4>1. attempts' = [attempts EXCEPT ![a] = r]
        BY <3>5
      <4>2. /\ r \in AttemptRow /\ r.by = attempts[a].by /\ (r.aborted => attempts[a].aborted)
            /\ (r.detached => attempts[a].detached)
        BY <1>1, WatchRows
      <4> QED
        BY <4>1, <4>2, <3>5
    <3>6. ASSUME NEW n \in Int, attempts' = [attempts EXCEPT ![a].stream = n]
          PROVE  \E r \in AttemptRow :
                   /\ attempts' = [attempts EXCEPT ![a] = r]
                   /\ r.by = attempts[a].by /\ (r.aborted => attempts[a].aborted)
                   /\ (r.detached => attempts[a].detached)
                   /\ r.at \in {"asking", "watching"} => attempts[a].at \in {"asking", "watching"}
      <4> DEFINE r == [attempts[a] EXCEPT !.stream = n]
      <4>1. attempts' = [attempts EXCEPT ![a] = r]
        BY <3>6
      <4>2. /\ r \in AttemptRow /\ r.by = attempts[a].by
            /\ (r.aborted => attempts[a].aborted) /\ r.at = attempts[a].at
            /\ (r.detached => attempts[a].detached)
        BY <1>1 DEF AttemptRow
      <4> QED
        BY <4>1, <4>2
    <3> QED
      BY <3>1, <3>2, <3>3, <3>4, <3>5, <3>6
  <2> QED
    BY <2>1, <2>2
<1>3. /\ attempts' \in [Tries -> AttemptRow]
      /\ \A b \in Tries : attempts'[b].by = attempts[b].by
      /\ \A b \in Tries :
           /\ attempts'[b].at \in {"asking", "watching"} => attempts'[b].by # "none"
           /\ attempts'[b].aborted => attempts'[b].by = "submit"
           /\ attempts'[b].detached => attempts'[b].by = "resume"
  BY <1>2
<1>4. attempts[a].trip \in Nat
  BY <1>1 DEF AttemptRow
<1>5. /\ page'.request \in {page.request, 0}
      /\ page' \in [status : {"idle", "creating", "planning", "ready", "pending", "error", "login"},
                    draft : Nat, request : 0 .. MaxAttempts]
  <2>1. Done(a) \in {page.request, 0} /\ Done(a) \in 0 .. MaxAttempts
    BY DEF Done
  <2>2. Refusal \in {"error", "login"}
    BY DEF Refusal
  <2>3. CASE SubmitAnswered(a)
    BY <2>1, <2>2, <2>3, <1>4 DEF SubmitAnswered
  <2>4. CASE ResumeAnswered(a)
    BY <2>4, <1>4 DEF ResumeAnswered, OnPage
  <2>5. CASE Poll(a)
    BY <2>5, <1>4 DEF Poll, OnPage
  <2>6. CASE MonitorEnds(a)
    BY <2>1, <2>6 DEF MonitorEnds
  <2>7. CASE Created(a) \/ StreamEnds(a)
    BY <2>7 DEF Created, StreamEnds
  <2> QED
    BY <2>3, <2>4, <2>5, <2>6, <2>7
<1>6. /\ storage' \in [trip : Nat, sentence : 0 .. MaxSentences, archive : Nat]
      /\ UNCHANGED intake
  BY <1>4 DEF Created, SubmitAnswered, ResumeAnswered, Poll, StreamEnds, MonitorEnds, ReadyStore, Remember, ForgetTrip
<1>7. page'.request # 0 => attempts'[page'.request].by = "submit"
  BY <1>3, <1>5 DEF Tries
<1>8. ghosts' \in [crossed : BOOLEAN, fresh : BOOLEAN, lost : BOOLEAN]
  <2>1. ghosts' \in {ghosts, [ghosts EXCEPT !.lost = FALSE], [ghosts EXCEPT !.lost = @ \/ attempts[a].detached]}
    BY DEF Created, SubmitAnswered, ResumeAnswered, Poll, StreamEnds, MonitorEnds, Remember, ForgetTrip
  <2>2. (ghosts.lost \/ attempts[a].detached) \in BOOLEAN
    OBVIOUS
  <2> QED
    BY <2>1, <2>2
<1> QED
  BY <1>3, <1>5, <1>6, <1>7, <1>8

\* Where one attempt at most is alive, it is enough to look at that one.
LEMMA OneSettles ==
  ASSUME NEW a \in Tries, attempts'[a].detached => attempts'[a].by = "resume",
         ~ghosts'.crossed => /\ \A b \in Tries : Alive(b)' => b = a
                             /\ InView(a)' => InPlace(a)'
                             /\ Alive(a)' => Follows(a)'
                             /\ Stored'
  PROVE  Settled'
<1> SUFFICES ASSUME ~ghosts'.crossed PROVE Settled'
  BY DEF Settled
<1>1. \A b \in Tries : InView(b)' => b = a
  BY DEF InView
<1>2. \A b, c \in Tries : Alive(b)' /\ Alive(c)' /\ attempts'[b].detached => Shares(b, c)'
  BY DEF Shares
<1> QED
  BY <1>1, <1>2 DEF Settled

\* A submit starts only where no other is in place; a resume that is alive then has
\* crossed it.
LEMMA SubmitSettles ==
  ASSUME HomeTypes, Owned, Settled, SubmitRequest
  PROVE  Owned' /\ Settled'
<1>1. PICK a \in Next1 :
        /\ attempts' = [attempts EXCEPT ![a] = [Unused EXCEPT !.by = "submit", !.at = "asking"]]
        /\ page' = [page EXCEPT !.status = "creating", !.draft = 0, !.request = a]
  BY DEF SubmitRequest
<1>2. a \in Tries /\ a # 0
  BY DEF Next1, Tries
<1>3. page.request = 0 /\ storage' = storage
  BY DEF SubmitRequest
<1>4. page'.status = "creating" /\ page'.request = a
  BY <1>1 DEF HomeTypes
<1>5. DEFINE entry == [Unused EXCEPT !.by = "submit", !.at = "asking"]
<1>6. entry.by = "submit" /\ entry.at = "asking" /\ ~entry.detached
  BY RowsOfAttempts, RowChanges
<1>7. attempts'[a] = entry /\ \A b \in Tries \ {a} : attempts'[b] = attempts[b]
  BY <1>1, <1>2 DEF HomeTypes
<1> HIDE DEF entry
<1>8. ASSUME NEW b \in Tries, Alive(b)', b # a
      PROVE  Alive(b) /\ attempts'[b] = attempts[b] /\ attempts[b].by = "resume"
  <2>1. Alive(b) /\ attempts'[b] = attempts[b]
    BY <1>7, <1>8 DEF Alive
  <2>2. attempts[b].by \in {"submit", "resume"}
    BY <2>1 DEF HomeTypes, AttemptRow, Alive
  <2>3. attempts[b].by # "submit"
    BY <1>3, <2>1 DEF Owned, Tries
  <2> QED
    BY <2>1, <2>2, <2>3
<1>9. Owned'
  BY <1>4, <1>8 DEF Owned
<1>10. ~ghosts'.crossed => \A b \in Tries : Alive(b)' => b = a
  <2>1. ~ghosts'.crossed => ~Resuming
    BY DEF SubmitRequest, HomeTypes
  <2> QED
    BY <2>1, <1>8 DEF Resuming
<1>11. InPlace(a)' /\ Follows(a)' /\ Stored'
  BY <1>4, <1>6, <1>7 DEF InPlace, Follows, Stored
<1> QED
  BY <1>2, <1>6, <1>7, <1>9, <1>10, <1>11, OneSettles

\* A row that is alive; what a mount finds of such rows are resumes that outlived their
\* pages, and all of them follow the trip it resumes.
Going(r) == r.at \in {"asking", "watching"} /\ ~r.aborted
LEMMA MountSettles ==
  ASSUME HomeTypes, NEW left \in [Tries -> AttemptRow], NEW stored \in Nat, Mount(left, stored),
         \A a \in Tries : Going(left[a]) => left[a].by = "resume" /\ left[a].detached,
         ~ghosts'.crossed => \A a, b \in Tries : Going(left[a]) /\ Going(left[b]) =>
           left[a].trip = left[b].trip /\ stored \in {0, left[a].trip}
  PROVE  Owned' /\ Settled'
<1> DEFINE entry == [Unused EXCEPT !.by = "resume", !.at = "asking", !.trip = stored]
<1>1. /\ entry \in AttemptRow /\ entry.by = "resume" /\ entry.at = "asking" /\ entry.trip = stored
      /\ ~entry.aborted /\ ~entry.detached
  BY ResumeRow
<1>2. \/ attempts' = left
      \/ stored # 0 /\ \E a \in Tries : attempts' = [left EXCEPT ![a] = entry]
  BY DEF Mount, Next1
<1>3. page' = Blank /\ storage'.trip = stored
  BY DEF Mount, HomeTypes
<1>4. page'.status = "idle"
  BY <1>3 DEF Blank
<1> HIDE DEF entry
<1>5. PICK n \in Tries \cup {0} :
        /\ \A a \in Tries \ {n} : attempts'[a] = left[a]
        /\ n \in Tries => attempts'[n] = entry /\ stored # 0
  <2>1. CASE attempts' = left
    BY <2>1 DEF Tries
  <2>2. CASE stored # 0 /\ \E a \in Tries : attempts' = [left EXCEPT ![a] = entry]
    BY <2>2
  <2> QED
    BY <1>2, <2>1, <2>2
<1>6. \A a \in Tries : Alive(a)' => attempts'[a].by = "resume"
  BY <1>1, <1>5 DEF Alive, Going
<1>7. \A a \in Tries : InView(a)' => a = n
  BY <1>5 DEF InView, Alive, Going
<1>8. \A a \in Tries : InView(a)' => InPlace(a)'
  BY <1>1, <1>3, <1>4, <1>5, <1>7 DEF InPlace
<1>9. ASSUME ~ghosts'.crossed, NEW a \in Tries, Alive(a)'
      PROVE  storage'.trip \in {0, attempts'[a].trip}
  BY <1>1, <1>3, <1>5, <1>9 DEF Alive, Going
<1>10. ASSUME ~ghosts'.crossed, NEW a \in Tries, NEW b \in Tries, Alive(a)', Alive(b)',
              attempts'[a].detached
       PROVE  Shares(a, b)'
  <2>1. a # n /\ attempts'[a] = left[a] /\ Going(left[a])
    BY <1>1, <1>5, <1>10 DEF Alive, Going
  <2>2. CASE b = n
    BY <1>1, <1>5, <1>10, <2>1, <2>2 DEF Shares
  <2>3. CASE b # n
    <3>1. attempts'[b] = left[b] /\ Going(left[b])
      BY <1>5, <1>10, <2>3 DEF Alive, Going
    <3> QED
      BY <1>6, <1>10, <2>1, <3>1 DEF Shares
  <2> QED
    BY <2>2, <2>3
<1>11. Owned' /\ Stored'
  BY <1>4, <1>6 DEF Owned, Stored
<1> QED
  BY <1>4, <1>7, <1>8, <1>9, <1>10, <1>11 DEF Settled, Follows

\* A load leaves one attempt at most, the one that resumes what is stored.
LEMMA LoadSettles ==
  ASSUME HomeTypes, Load
  PROVE  Owned' /\ Settled'
<1> DEFINE left == [a \in Tries |-> IF attempts[a].by = "none" THEN Unused ELSE Closed(a)]
<1>1. Mount(left, storage.trip) /\ storage.trip \in Nat
  BY DEF Load, HomeTypes
<1>2. left \in [Tries -> AttemptRow] /\ \A a \in Tries : ~Going(left[a])
  BY RowsOfAttempts DEF Going
<1> HIDE DEF left
<1> QED
  BY <1>1, <1>2, MountSettles

\* When the page is left and shown again, what goes on are resumes of the one trip.
LEMMA RemountSettles ==
  ASSUME HomeTypes, Owned, Settled, Remount
  PROVE  Owned' /\ Settled'
<1> DEFINE left == [a \in Tries |-> Unmounted(a)]
<1>1. PICK stored \in {storage.trip, 0} : Mount(left, stored)
  BY DEF Remount
<1>2. stored \in Nat
  BY DEF HomeTypes
<1>3. left \in [Tries -> AttemptRow]
  BY LeftRows
<1>4. ASSUME NEW a \in Tries, Going(left[a])
      PROVE  /\ Alive(a) /\ attempts[a].by = "resume"
             /\ left[a].by = "resume" /\ left[a].detached /\ left[a].trip = attempts[a].trip
  <2>1. left[a] = Unmounted(a)
    OBVIOUS
  <2>2. Alive(a) /\ a # page.request
    BY <1>4, <2>1, LeftRows DEF Going, Alive
  <2>3. attempts[a].by \in {"submit", "resume"}
    BY <2>2 DEF HomeTypes, AttemptRow, Alive
  <2>4. attempts[a].by = "resume"
    BY <2>2, <2>3 DEF Owned
  <2> QED
    BY <2>1, <2>2, <2>4, LeftRows
<1>5. ~ghosts'.crossed => ~ghosts.crossed \/ ~Resuming
  BY DEF Remount, HomeTypes
<1>6. ASSUME ~ghosts'.crossed, NEW a \in Tries, NEW b \in Tries, Going(left[a]), Going(left[b])
      PROVE  left[a].trip = left[b].trip /\ stored \in {0, left[a].trip}
  <2>1. /\ Alive(a) /\ attempts[a].by = "resume" /\ left[a].trip = attempts[a].trip
        /\ Alive(b) /\ attempts[b].by = "resume" /\ left[b].trip = attempts[b].trip
    BY <1>4, <1>6
  <2>2. ~ghosts.crossed
    BY <1>5, <1>6, <2>1 DEF Resuming
  <2>3. storage.trip \in {0, attempts[a].trip}
    BY <2>1, <2>2 DEF Settled, Follows
  <2>4. attempts[a].trip = attempts[b].trip
    <3>1. CASE attempts[a].detached
      BY <2>1, <2>2, <3>1 DEF Settled, Shares
    <3>2. CASE attempts[b].detached
      BY <2>1, <2>2, <3>2 DEF Settled, Shares
    <3>3. CASE ~attempts[a].detached /\ ~attempts[b].detached
      BY <2>1, <2>2, <3>3 DEF Settled, InView
    <3> QED
      BY <3>1, <3>2, <3>3
  <2> QED
    BY <2>1, <2>3, <2>4
<1> HIDE DEF left
<1> QED
  BY <1>1, <1>2, <1>3, <1>4, <1>6, MountSettles

\* A reset aborts the submit in place; a resume that is alive has been crossed.
LEMMA ResetSettles ==
  ASSUME HomeTypes, Owned, Settled, Reset
  PROVE  Owned' /\ Settled'
<1>1. page'.status = "idle"
  BY DEF Reset, Blank
<1>2. ASSUME NEW b \in Tries, Alive(b)'
      PROVE  Alive(b) /\ attempts[b].by = "resume" /\ attempts'[b] = attempts[b]
  <2>1. attempts'[b] = IF b = page.request THEN [attempts[b] EXCEPT !.aborted = TRUE] ELSE attempts[b]
    BY DEF Reset
  <2>2. attempts[b] \in AttemptRow
    BY DEF HomeTypes
  <2>3. b # page.request
    BY <1>2, <2>1, <2>2, RowAborted DEF Alive
  <2>4. Alive(b) /\ attempts'[b] = attempts[b]
    BY <1>2, <2>1, <2>3 DEF Alive
  <2>5. attempts[b].by \in {"submit", "resume"}
    BY <2>4 DEF HomeTypes, AttemptRow, Alive
  <2> QED
    BY <2>3, <2>4, <2>5 DEF Owned
<1>3. ~ghosts'.crossed => ~Resuming
  BY DEF Reset, HomeTypes
<1>4. ~ghosts'.crossed => \A b \in Tries : ~Alive(b)'
  BY <1>2, <1>3 DEF Resuming
<1> QED
  BY <1>1, <1>2, <1>4 DEF Owned, Settled, Stored, InView

\* A session is restored where nothing is followed, or it crosses it.
LEMMA RestoreSettles ==
  ASSUME HomeTypes, Owned, Settled, RestoreSession
  PROVE  Owned' /\ Settled'
<1>1. UNCHANGED <<page, attempts>>
  BY DEF RestoreSession
<1>2. Owned'
  BY <1>1 DEF Owned, Alive
<1> SUFFICES ASSUME ~ghosts'.crossed
             PROVE  page.status = "idle" /\ \A b \in Tries : ~Alive(b)
  BY <1>1, <1>2 DEF Settled, Alive, InView, Stored
<1>3. ~ghosts.crossed /\ ~Resuming /\ page.status = "idle"
  BY DEF RestoreSession, HomeTypes
<1>4. ASSUME NEW b \in Tries, Alive(b) PROVE FALSE
  <2>1. attempts[b].by = "submit" /\ attempts[b].at \in {"asking", "watching"}
    BY <1>3, <1>4 DEF Resuming, HomeTypes, AttemptRow, Alive
  <2>2. InView(b)
    BY <1>4, <2>1 DEF InView, HomeTypes
  <2> QED
    BY <1>3, <2>1, <2>2 DEF Settled, InPlace
<1> QED
  BY <1>3, <1>4

\* The answer to a submit: what is followed from now on is stored.
LEMMA SubmitAnswerSettles ==
  ASSUME HomeTypes, Owned, Settled, NEW a \in Tries, SubmitAnswered(a)
  PROVE  Owned' /\ Settled'
<1>1. attempts[a].by = "submit" /\ attempts[a].at = "asking" /\ ~attempts[a].detached
      /\ attempts[a] \in AttemptRow
  BY DEF SubmitAnswered, HomeTypes
<1>2. CASE attempts[a].aborted
  <2>1. attempts' = [attempts EXCEPT ![a] = Closed(a)] /\ storage' = storage /\ ghosts' = ghosts
        /\ page' = [page EXCEPT !.request = Done(a)]
    BY <1>2 DEF SubmitAnswered
  <2>2. ~Alive(a)' /\ \A b \in Tries \ {a} : attempts'[b] = attempts[b]
    BY <2>1, RowsOfAttempts DEF HomeTypes, Alive
  <2>3. /\ page'.status = page.status /\ page'.draft = page.draft
        /\ \A b \in Tries \ {a} : page.request = b => page'.request = b
    BY <2>1 DEF HomeTypes, Done
  <2> QED
    BY <1>1, <2>1, <2>2, <2>3, QuietStep DEF Alive
<1>3. CASE ~attempts[a].aborted
  <2>1. Alive(a) /\ InView(a) /\ page.request = a
    BY <1>1, <1>3 DEF Owned, Alive, InView
  <2>2. ASSUME ~ghosts.crossed, NEW b \in Tries \ {a}, Alive(b) PROVE FALSE
    <3>1. CASE attempts[b].detached
      BY <1>1, <2>1, <2>2, <3>1 DEF Settled, Shares
    <3>2. CASE ~attempts[b].detached
      BY <2>1, <2>2, <3>2 DEF Settled, InView
    <3> QED
      BY <3>1, <3>2
  <2>3. CASE /\ attempts' = [attempts EXCEPT ![a].at = "watching", ![a].stream = 0]
             /\ Remember(attempts[a].trip)
             /\ page' = [page EXCEPT !.status = "planning", !.draft = attempts[a].trip]
    <3>1. /\ attempts'[a].by = "submit" /\ attempts'[a].at = "watching"
          /\ attempts'[a].trip = attempts[a].trip /\ ~attempts'[a].detached
          /\ \A b \in Tries \ {a} : attempts'[b] = attempts[b]
      BY <1>1, <2>3, WatchRow
    <3>2. /\ storage'.trip = attempts[a].trip /\ page'.draft = attempts[a].trip
          /\ page'.status = "planning" /\ page'.request = page.request
          /\ ghosts'.crossed = ghosts.crossed
      BY <2>3 DEF HomeTypes, Remember
    <3>3. ~ghosts'.crossed => \A b \in Tries : Alive(b)' => b = a
      BY <2>2, <3>1, <3>2 DEF Alive
    <3>4. Owned'
      BY <2>1, <3>1, <3>2 DEF Owned, Alive
    <3>5. InPlace(a)' /\ Follows(a)' /\ Stored'
      BY <3>1, <3>2 DEF InPlace, Follows, Stored
    <3> QED
      BY <3>1, <3>3, <3>4, <3>5, OneSettles
  <2>4. CASE /\ attempts' = [attempts EXCEPT ![a] = Closed(a)]
             /\ page' = [page EXCEPT !.request = Done(a), !.status = Refusal]
             /\ UNCHANGED <<storage, ghosts>>
    <3>1. ~Alive(a)' /\ \A b \in Tries \ {a} : attempts'[b] = attempts[b]
      BY <2>4, RowsOfAttempts DEF HomeTypes, Alive
    <3>2. ~ghosts'.crossed => \A b \in Tries : ~Alive(b)'
      BY <2>2, <2>4, <3>1 DEF Alive
    <3>3. Owned'
      BY <2>1, <3>1 DEF Owned, Alive
    <3>4. page'.status \in {"error", "login"}
      BY <2>4 DEF HomeTypes, Refusal
    <3> QED
      BY <3>2, <3>3, <3>4 DEF Settled, InView, Stored
  <2> QED
    BY <1>3, <2>3, <2>4 DEF SubmitAnswered
<1> QED
  BY <1>2, <1>3

\* Who shares the trip of an attempt that follows one, and what is stored of it.
LEMMA FollowersAgree ==
  ASSUME HomeTypes, Owned, Settled, ~ghosts.crossed, NEW a \in Tries, Alive(a),
         attempts[a].by = "resume" \/ attempts[a].at = "watching"
  PROVE  /\ \A b \in Tries \ {a} : Alive(b) =>
              /\ attempts[b].trip = attempts[a].trip /\ attempts[b].by = "resume"
              /\ attempts[a].by = "resume"
              /\ ~attempts[b].detached => attempts[a].detached
         /\ ~attempts[a].detached /\ ~ghosts.lost => storage.trip = attempts[a].trip
<1>1. attempts[a].at \in {"asking", "watching"}
  BY DEF Alive
<1>2. ASSUME ~attempts[a].detached, ~ghosts.lost PROVE storage.trip = attempts[a].trip
  <2>1. InPlace(a) /\ Stored
    BY <1>2 DEF Settled, InView
  <2> QED
    BY <1>1, <1>2, <2>1 DEF InPlace, Stored
<1>3. ASSUME NEW b \in Tries \ {a}, Alive(b)
      PROVE  /\ attempts[b].trip = attempts[a].trip /\ attempts[b].by = "resume"
             /\ attempts[a].by = "resume"
             /\ ~attempts[b].detached => attempts[a].detached
  <2>1. CASE attempts[a].detached
    BY <1>3, <2>1 DEF Settled, Shares, HomeTypes
  <2>2. CASE ~attempts[a].detached
    <3>1. attempts[b].detached
      BY <1>3, <2>2 DEF Settled, InView
    <3> QED
      BY <1>3, <3>1 DEF Settled, Shares, HomeTypes
  <2> QED
    BY <2>1, <2>2
<1> QED
  BY <1>2, <1>3

\* An attempt that follows a trip is over: what is ready stays where a reload finds it,
\* and what failed is forgotten.
LEMMA FollowerEnds ==
  ASSUME HomeTypes, Owned, Settled, NEW a \in Tries, Alive(a),
         attempts[a].by = "resume" \/ attempts[a].at = "watching",
         ~Alive(a)', \A b \in Tries \ {a} : attempts'[b] = attempts[b],
         page'.request = page.request, ghosts'.crossed = ghosts.crossed,
         attempts[a].detached => page' = page,
         \/ /\ storage'.trip = storage.trip /\ ghosts'.lost = ghosts.lost
            /\ ~attempts[a].detached => page'.status = "ready" /\ page'.draft = attempts[a].trip
         \/ /\ storage'.trip = 0
            /\ attempts[a].detached => ghosts'.lost
            /\ ~attempts[a].detached => page'.status \in {"idle", "pending"}
  PROVE  Owned' /\ Settled'
<1>1. \A b \in Tries : Alive(b)' => b # a /\ Alive(b) /\ attempts'[b] = attempts[b]
  BY DEF Alive
<1>2. Owned'
  BY <1>1 DEF Owned
<1> SUFFICES ASSUME ~ghosts.crossed PROVE Settled'
  BY <1>2 DEF Settled
<1>3. /\ \A b \in Tries \ {a} : Alive(b) =>
           /\ attempts[b].trip = attempts[a].trip /\ attempts[b].by = "resume"
           /\ attempts[a].by = "resume"
           /\ ~attempts[b].detached => attempts[a].detached
      /\ ~attempts[a].detached /\ ~ghosts.lost => storage.trip = attempts[a].trip
  BY FollowersAgree
<1>4. \A b \in Tries : InView(b)' => InView(b) /\ attempts[a].detached
  BY <1>1, <1>3 DEF InView
<1>5. \A b, c \in Tries : InView(b)' /\ InView(c)' => b = c
  BY <1>4 DEF Settled
<1>6. ASSUME NEW b \in Tries, InView(b)' PROVE InPlace(b)'
  <2>1. InPlace(b) /\ page' = page /\ attempts'[b] = attempts[b]
    BY <1>1, <1>4, <1>6 DEF Settled, InView
  <2>2. ghosts'.lost \/ (storage'.trip = storage.trip /\ ghosts'.lost = ghosts.lost)
    BY <1>4, <1>6
  <2> QED
    BY <2>1, <2>2 DEF InPlace
<1>7. ASSUME NEW b \in Tries, Alive(b)' PROVE Follows(b)'
  <2>1. Follows(b) /\ attempts'[b] = attempts[b] /\ attempts[b].trip = attempts[a].trip
    BY <1>1, <1>3, <1>7 DEF Settled
  <2>2. storage'.trip \in {storage.trip, 0}
    OBVIOUS
  <2>3. \/ page' = page
        \/ page'.status = "ready" /\ page'.draft = attempts[b].trip
        \/ page'.status \in {"idle", "pending"}
    BY <2>1
  <2> QED
    BY <2>1, <2>2, <2>3 DEF Follows
<1>8. \A b, c \in Tries : Alive(b)' /\ Alive(c)' /\ attempts'[b].detached => Shares(b, c)'
  BY <1>1, <1>3 DEF Shares
<1>9. Stored'
  <2>1. CASE attempts[a].detached
    BY <2>1 DEF Settled, Stored
  <2>2. CASE ~attempts[a].detached
    BY <1>3, <2>2 DEF Stored
  <2> QED
    BY <2>1, <2>2
<1> QED
  BY <1>5, <1>6, <1>7, <1>8, <1>9 DEF Settled

\* What a resumed attempt finds is what is stored, and the page shows nothing yet.
LEMMA ResumeSettles ==
  ASSUME HomeTypes, Owned, Settled, NEW a \in Tries, ResumeAnswered(a)
  PROVE  Owned' /\ Settled'
<1> DEFINE t == attempts[a].trip
<1>1. attempts[a].by = "resume" /\ attempts[a].at = "asking"
      /\ attempts[a] \in AttemptRow /\ Alive(a)
  BY DEF ResumeAnswered, HomeTypes, Alive
<1>2. CASE /\ attempts' = [attempts EXCEPT ![a].at = "watching", ![a].stream = 0]
           /\ Remember(t)
           /\ page' = OnPage(a, [page EXCEPT !.status = "planning", !.draft = t])
  <2>1. /\ attempts'[a].by = "resume" /\ attempts'[a].at = "watching" /\ attempts'[a].trip = t
        /\ attempts'[a].detached <=> attempts[a].detached
        /\ \A b \in Tries \ {a} : attempts'[b] = attempts[b]
    BY <1>1, <1>2, WatchRow
  <2>2. storage'.trip = t /\ ghosts'.crossed = ghosts.crossed /\ page'.request = page.request
    BY <1>2 DEF HomeTypes, Remember, OnPage
  <2>3. /\ attempts[a].detached => page' = page
        /\ ~attempts[a].detached => page'.status = "planning" /\ page'.draft = t
    BY <1>2 DEF HomeTypes, OnPage
  <2>4. \A b \in Tries : Alive(b)' => Alive(b)
    BY <1>1, <2>1 DEF Alive
  <2>5. Owned'
    BY <2>1, <2>2, <2>4 DEF Owned
  <2> HIDE DEF t
  <2> SUFFICES ASSUME ~ghosts.crossed PROVE Settled'
    BY <2>2, <2>5 DEF Settled
  <2>6. \A b \in Tries \ {a} : Alive(b) =>
          /\ attempts[b].trip = t /\ attempts[b].by = "resume"
          /\ ~attempts[b].detached => attempts[a].detached
    BY <1>1, FollowersAgree DEF t
  <2>7. \A b \in Tries : InView(b)' => InView(b)
    BY <2>1, <2>4 DEF InView
  <2>8. \A b, c \in Tries : InView(b)' /\ InView(c)' => b = c
    BY <2>7 DEF Settled
  <2>9. ASSUME NEW b \in Tries, InView(b)' PROVE InPlace(b)'
    <3>1. CASE b = a
      BY <2>1, <2>3, <2>9, <3>1 DEF InPlace, InView
    <3>2. CASE b # a
      <4>1. InPlace(b) /\ attempts'[b] = attempts[b] /\ page' = page /\ attempts[b].trip = t
        BY <2>1, <2>3, <2>6, <2>7, <2>9, <3>2 DEF Settled, InView
      <4> QED
        BY <2>2, <4>1 DEF InPlace
    <3> QED
      BY <3>1, <3>2
  <2>10. ASSUME NEW b \in Tries, Alive(b)'
         PROVE  attempts'[b].trip = t /\ attempts'[b].by = "resume" /\ Follows(b)'
    <3>1. attempts'[b].trip = t /\ attempts'[b].by = "resume"
      BY <2>1, <2>4, <2>6, <2>10
    <3>2. /\ Follows(b) /\ attempts[b].trip = t
          /\ attempts'[b].detached <=> attempts[b].detached
      BY <2>1, <2>4, <2>6, <2>10 DEF Settled, t
    <3> QED
      BY <2>2, <2>3, <2>10, <3>1, <3>2 DEF Follows
  <2>11. \A b, c \in Tries : Alive(b)' /\ Alive(c)' /\ attempts'[b].detached => Shares(b, c)'
    BY <2>10 DEF Shares
  <2>12. Stored'
    <3>1. CASE attempts[a].detached
      BY <1>1, <2>2, <2>3, <3>1 DEF Settled, Follows, Stored, t
    <3>2. CASE ~attempts[a].detached
      BY <2>2, <2>3, <3>2 DEF Stored
    <3> QED
      BY <3>1, <3>2
  <2> QED
    BY <2>8, <2>9, <2>10, <2>11, <2>12 DEF Settled
<1>3. CASE attempts' = [attempts EXCEPT ![a] = Closed(a)]
           /\ \/ /\ page' = OnPage(a, [page EXCEPT !.status = "ready", !.draft = t])
                 /\ UNCHANGED <<storage, ghosts>>
              \/ ForgetTrip(a) /\ UNCHANGED page
  <2>1. ~Alive(a)' /\ \A b \in Tries \ {a} : attempts'[b] = attempts[b]
    BY <1>3, RowsOfAttempts DEF HomeTypes, Alive
  <2>2. CASE /\ page' = OnPage(a, [page EXCEPT !.status = "ready", !.draft = t])
             /\ UNCHANGED <<storage, ghosts>>
    <3>1. /\ page'.request = page.request
          /\ attempts[a].detached => page' = page
          /\ ~attempts[a].detached => page'.status = "ready" /\ page'.draft = t
      BY <2>2 DEF HomeTypes, OnPage
    <3> QED
      BY <1>1, <2>1, <2>2, <3>1, FollowerEnds
  <2>3. CASE ForgetTrip(a) /\ UNCHANGED page
    <3>1. /\ storage'.trip = 0 /\ ghosts'.crossed = ghosts.crossed
          /\ attempts[a].detached => ghosts'.lost
      BY <2>3 DEF HomeTypes, ForgetTrip
    <3>2. CASE ghosts.crossed \/ attempts[a].detached \/ page.status = "idle"
      <4>1. CASE attempts[a].detached \/ page.status = "idle"
        BY <1>1, <2>1, <2>3, <3>1, <4>1, FollowerEnds
      <4>2. CASE ghosts.crossed
        <5>1. Owned'
          BY <2>1, <2>3 DEF Owned, Alive
        <5> QED
          BY <3>1, <4>2, <5>1 DEF Settled
      <4> QED
        BY <3>2, <4>1, <4>2
    <3>3. ~ghosts.crossed /\ ~attempts[a].detached => page.status = "idle"
      BY <1>1 DEF Settled, InView, InPlace
    <3> QED
      BY <3>2, <3>3
  <2> QED
    BY <1>3, <2>2, <2>3
<1> QED
  BY <1>2, <1>3 DEF ResumeAnswered

\* A poll follows what is stored; what is ready stays there.
LEMMA PollSettles ==
  ASSUME HomeTypes, Owned, Settled, NEW a \in Tries, Poll(a)
  PROVE  Owned' /\ Settled'
<1> DEFINE t == attempts[a].trip
<1>1. attempts[a].at = "watching" /\ attempts[a] \in AttemptRow
  BY DEF Poll, HomeTypes
<1>2. attempts' = [attempts EXCEPT ![a].at = "draining"] =>
        attempts'[a].at = "draining" /\ \A b \in Tries \ {a} : attempts'[b] = attempts[b]
  BY DEF HomeTypes, AttemptRow
<1>3. CASE attempts[a].aborted
  <2>1. attempts' = [attempts EXCEPT ![a].at = "draining"] /\ UNCHANGED <<storage, page, ghosts>>
    BY <1>3 DEF Poll
  <2> QED
    BY <1>2, <2>1, QuietStep DEF Alive
<1>4. CASE ~attempts[a].aborted
  <2>1. Alive(a)
    BY <1>1, <1>4 DEF Alive
  <2>2. CASE /\ page' = OnPage(a, [page EXCEPT !.draft = t])
             /\ UNCHANGED <<storage, attempts, ghosts>>
    <3>1. /\ page'.request = page.request /\ page'.status = page.status
          /\ page'.draft \in {page.draft, t}
          /\ attempts[a].detached => page' = page
      BY <2>2 DEF HomeTypes, OnPage
    <3>2. CASE ghosts.crossed
      BY <2>2, <3>1, <3>2 DEF Owned, Settled, Alive
    <3>3. CASE ~ghosts.crossed
      <4>1. ~attempts[a].detached => page.draft = t
        BY <1>1, <2>1, <3>3 DEF Settled, InView, InPlace
      <4>2. page'.draft = page.draft
        BY <3>1, <4>1
      <4> QED
        BY <2>2, <3>1, <4>2, QuietStep DEF Alive
    <3> QED
      BY <3>2, <3>3
  <2>3. CASE /\ attempts' = [attempts EXCEPT ![a].at = "draining"]
             /\ page' = OnPage(a, [page EXCEPT !.draft = t, !.status = "ready"])
             /\ storage' = storage /\ UNCHANGED ghosts
    <3>1. /\ page'.request = page.request
          /\ attempts[a].detached => page' = page
          /\ ~attempts[a].detached => page'.status = "ready" /\ page'.draft = t
      BY <2>3 DEF HomeTypes, OnPage
    <3>2. ~Alive(a)'
      BY <1>2, <2>3 DEF Alive
    <3> QED
      BY <1>1, <1>2, <2>1, <2>3, <3>1, <3>2, FollowerEnds
  <2>4. CASE /\ attempts' = [attempts EXCEPT ![a].at = "draining"]
             /\ page' \in {OnPage(a, [page EXCEPT !.status = "pending"]),
                           OnPage(a, [page EXCEPT !.status = "pending", !.draft = t])}
             /\ ForgetTrip(a)
    <3>1. /\ page'.request = page.request
          /\ attempts[a].detached => page' = page
          /\ ~attempts[a].detached => page'.status = "pending"
      BY <2>4 DEF HomeTypes, OnPage
    <3>2. /\ storage'.trip = 0 /\ ghosts'.crossed = ghosts.crossed
          /\ attempts[a].detached => ghosts'.lost
      BY <2>4 DEF HomeTypes, ForgetTrip
    <3>3. ~Alive(a)'
      BY <1>2, <2>4 DEF Alive
    <3> QED
      BY <1>1, <1>2, <2>1, <2>4, <3>1, <3>2, <3>3, FollowerEnds
  <2> QED
    BY <1>4, <2>2, <2>3, <2>4 DEF Poll, ReadyStore
<1> QED
  BY <1>3, <1>4

\* The ends of a stream and of a monitor, and what the server does.
LEMMA EndsSettle ==
  ASSUME HomeTypes, Owned, Settled, NEW a \in Tries,
         Created(a) \/ StreamEnds(a) \/ MonitorEnds(a) \/ TripEnds(a)
  PROVE  Owned' /\ Settled'
<1>1. CASE Created(a)
  <2>1. attempts' = [attempts EXCEPT ![a].trip = a] /\ attempts[a].at = "asking"
        /\ attempts[a].by = "submit" /\ UNCHANGED <<page, storage, ghosts>>
    BY <1>1 DEF Created
  <2>2. /\ attempts'[a].at = "asking" /\ attempts'[a].by = "submit"
        /\ attempts'[a].aborted = attempts[a].aborted
        /\ attempts'[a].detached = attempts[a].detached
        /\ \A b \in Tries \ {a} : attempts'[b] = attempts[b]
    BY <2>1 DEF HomeTypes, AttemptRow
  <2> QED
    BY <2>1, <2>2, QuietStep DEF Alive
<1>2. CASE StreamEnds(a)
  <2>1. PICK n : attempts' = [attempts EXCEPT ![a].stream = n]
    BY <1>2 DEF StreamEnds
  <2>2. \A b \in Tries : /\ attempts'[b].at = attempts[b].at /\ attempts'[b].by = attempts[b].by
                         /\ attempts'[b].trip = attempts[b].trip
                         /\ attempts'[b].aborted = attempts[b].aborted
                         /\ attempts'[b].detached = attempts[b].detached
    BY <2>1 DEF HomeTypes, AttemptRow
  <2>3. UNCHANGED <<page, storage, ghosts>>
    BY <1>2 DEF StreamEnds
  <2> QED
    BY <2>2, <2>3, QuietStep DEF Alive
<1>3. CASE MonitorEnds(a)
  <2>1. attempts' = [attempts EXCEPT ![a] = Closed(a)] /\ UNCHANGED <<storage, ghosts>>
        /\ page' \in {page, [page EXCEPT !.request = Done(a)]}
    BY <1>3 DEF MonitorEnds
  <2>2. ~Alive(a)' /\ \A b \in Tries \ {a} : attempts'[b] = attempts[b]
    BY <2>1, RowsOfAttempts DEF HomeTypes, Alive
  <2>3. /\ page'.status = page.status /\ page'.draft = page.draft
        /\ \A b \in Tries \ {a} : page.request = b => page'.request = b
    BY <2>1 DEF HomeTypes, Done
  <2> QED
    BY <2>1, <2>2, <2>3, QuietStep DEF Alive
<1>4. CASE TripEnds(a)
  <2>1. UNCHANGED <<page, storage, attempts, ghosts>>
    BY <1>4 DEF TripEnds
  <2> QED
    BY <2>1, QuietStep DEF Alive
<1> QED
  BY <1>1, <1>2, <1>3, <1>4

\* For any number of trips, sentences, reloads, visits to other pages and reconnects: a
\* reload finds what the page follows, and a sentence is answered once
\* (ReloadRepeatsNothing).
THEOREM ReloadsRepeatNothing == HomeSpec => []ReloadRepeatsNothing
<1>1. HomeInv => ReloadRepeatsNothing
  BY DEF HomeInv, Unsaid, Settled, Stored, ReloadRepeatsNothing
<1>2. HomeInv /\ [HomeNext]_homeVars => HomeInv'
  <2> SUFFICES ASSUME HomeInv, HomeNext \/ UNCHANGED homeVars PROVE HomeInv'
    OBVIOUS
  <2> USE DEF HomeInv
  <2>1. Unsaid'
    BY UnsaidKeeps
  <2>2. CASE SubmitRequest
    BY <2>1, <2>2, TypesOfPage, SubmitSettles
  <2>3. CASE Load \/ Remount
    BY <2>1, <2>3, TypesOfPage, LoadSettles, RemountSettles
  <2>4. CASE Reset
    BY <2>1, <2>4, TypesOfPage, ResetSettles
  <2>5. CASE RestoreSession
    BY <2>1, <2>5, TypesOfPage, RestoreSettles
  <2>6. CASE Say \/ Heard
    <3>1. UNCHANGED <<page, attempts, ghosts>> /\ storage'.trip = storage.trip
      BY <2>6 DEF Say, Heard, HomeTypes
    <3>2. Owned' /\ Settled'
      BY <3>1, QuietStep DEF Alive
    <3> QED
      BY <2>1, <2>6, <3>2, TypesOfPage
  <2>7. CASE SignIn \/ SessionEnds \/ UNCHANGED homeVars
    <3>1. UNCHANGED <<page, attempts, ghosts, storage, intake>>
      BY <2>7 DEF SignIn, SessionEnds, homeVars
    <3>2. Owned' /\ Settled'
      BY <3>1, QuietStep DEF Alive
    <3> QED
      BY <2>1, <3>1, <3>2 DEF HomeTypes
  <2>8. ASSUME NEW a \in Tries, SubmitAnswered(a) PROVE HomeInv'
    BY <2>1, <2>8, TypesOfAttempts, SubmitAnswerSettles
  <2>9. ASSUME NEW a \in Tries, ResumeAnswered(a) PROVE HomeInv'
    BY <2>1, <2>9, TypesOfAttempts, ResumeSettles
  <2>10. ASSUME NEW a \in Tries, Poll(a) PROVE HomeInv'
    BY <2>1, <2>10, TypesOfAttempts, PollSettles
  <2>11. ASSUME NEW a \in Tries, Created(a) \/ StreamEnds(a) \/ MonitorEnds(a) PROVE HomeInv'
    BY <2>1, <2>11, TypesOfAttempts, EndsSettle
  <2>12. ASSUME NEW a \in Tries, TripEnds(a) PROVE HomeInv'
    <3>1. UNCHANGED <<attempts, storage, page, intake, ghosts>>
      BY <2>12 DEF TripEnds
    <3> QED
      BY <2>1, <2>12, <3>1, EndsSettle DEF HomeTypes
  <2> QED
    BY <2>2, <2>3, <2>4, <2>5, <2>6, <2>7, <2>8, <2>9, <2>10, <2>11, <2>12 DEF HomeNext
<1> QED
  BY <1>1, <1>2, HomeStart, PTL DEF HomeSpec

-----------------------------------------------------------------------------
(* The connections of a trip's progress stream: EventStream.  A connection  *)
(* outside its stream is not registered and holds no frame, so nothing is  *)
(* offered to it, and a rejected one holds exactly the frame that says so  *)
(* until it is taken.                                                      *)

\* A connection that is not in its stream holds nothing, and one that has not
\* reached it is new.
Quiet(c) ==
  /\ pc[c] \in {"idle", "read", "closed", "gone"} => Len(queue[c]) = 0 /\ Len(pending[c]) = 0
  /\ pc[c] \in {"idle", "read"} =>
       open[c] /\ ~rejected[c] /\ due[c] = 0 /\ took[c] = 0

\* The frames of an open connection add up.
Counted(c) == open[c] => due[c] = took[c] + Len(queue[c]) + Len(pending[c])

\* Where the frame of a rejected connection is: on its way, queued, or taken.
Only(q) == Len(q) = 1 /\ q[1] = "limit"
Warned(c) ==
  rejected[c] =>
    /\ c \notin sinks /\ ~open[c]
    /\ pc[c] \in {"snapshot", "tell", "stream"} =>
         \/ "limit" \in told[c] /\ Len(queue[c]) = 0 /\ Len(pending[c]) = 0
         \/ Only(pending[c]) /\ Len(queue[c]) = 0
         \/ Only(queue[c]) /\ Len(pending[c]) = 0
    /\ pc[c] = "closed" => told[c] \cap {"limit", "end"} # {}

Connections == \A c \in Clients : Quiet(c) /\ Counted(c) /\ Warned(c)

\* The inductive invariant of the module.
ConnInv == TypeOK /\ NoLeakedSlot /\ Connections

\* The invariant holds when the process starts.
LEMMA ConnStart == Init => ConnInv
<1> SUFFICES ASSUME Init PROVE ConnInv
  OBVIOUS
<1> USE EventStreamAssumption DEF Init
<1>1. TypeOK
  BY DEF TypeOK, Phases, Frames
<1>2. NoLeakedSlot
  BY DEF NoLeakedSlot
<1>3. Connections
  BY DEF Connections, Quiet, Counted, Warned
<1> QED
  BY <1>1, <1>2, <1>3 DEF ConnInv

\* A broadcast keeps the connections in order: it only appends to the frames on
\* their way to connections that are open and registered.
LEMMA BroadcastStep ==
  ASSUME ConnInv, NEW frame \in Frames, Broadcast(frame),
         UNCHANGED <<pc, route, took, told>>,
         gen' \in BOOLEAN, pub' \in Phases, sent' \in 0 .. MaxFrames
  PROVE  ConnInv'
<1> USE DEF ConnInv, Broadcast, route
<1>1. TypeOK'
  BY DEF TypeOK
<1>2. NoLeakedSlot'
  BY DEF NoLeakedSlot
<1>3. ASSUME NEW c \in Clients PROVE Quiet(c)' /\ Counted(c)' /\ Warned(c)'
  <2>1. Quiet(c) /\ Counted(c) /\ Warned(c)
    BY DEF Connections
  <2>2. CASE c \in sinks /\ open[c]
    <3>1. pc[c] \in {"snapshot", "tell", "stream"} /\ ~rejected[c]
      BY <2>1, <2>2 DEF NoLeakedSlot, Warned
    <3>2. /\ pending'[c] = Append(pending[c], frame) /\ due'[c] = due[c] + 1
          /\ pending[c] \in Seq(Frames) /\ queue[c] \in Seq(Frames)
          /\ due[c] \in Nat /\ took[c] \in Nat
      BY <2>2 DEF TypeOK
    <3>3. /\ Len(pending'[c]) = Len(pending[c]) + 1
          /\ Len(pending[c]) \in Nat /\ Len(queue[c]) \in Nat
      BY <3>2
    <3>4. Counted(c)'
      <4>1. queue' = queue /\ took' = took /\ open' = open
        OBVIOUS
      <4>2. due[c] = took[c] + Len(queue[c]) + Len(pending[c])
        BY <2>1, <2>2 DEF Counted
      <4>3. due'[c] = took[c] + Len(queue[c]) + Len(pending'[c])
        <5>1. due'[c] = due[c] + 1 /\ due[c] \in Nat /\ took[c] \in Nat
          BY <3>2
        <5> HIDE DEF ConnInv, Broadcast, route
        <5>2. due[c] \in Nat /\ took[c] \in Nat /\ Len(queue[c]) \in Nat /\ Len(pending[c]) \in Nat
          BY <3>3, <5>1
        <5>3. due[c] + 1 = took[c] + Len(queue[c]) + (Len(pending[c]) + 1)
          BY <4>2, <5>2
        <5> QED
          BY <3>3, <5>1, <5>3, Zenon
      <4> QED
        BY <4>1, <4>3 DEF Counted
    <3>5. Quiet(c)' /\ Warned(c)'
      BY <3>1 DEF Quiet, Warned
    <3> QED
      BY <3>4, <3>5
  <2>3. CASE ~(c \in sinks /\ open[c])
    <3>1. pending'[c] = pending[c] /\ due'[c] = due[c]
      BY <2>3 DEF TypeOK
    <3> QED
      BY <2>1, <2>3, <3>1 DEF Quiet, Counted, Warned
  <2> QED
    BY <2>2, <2>3
<1> QED
  BY <1>1, <1>2, <1>3 DEF Connections

\* The publishers: a frame, a commit, or both.
LEMMA PublishStep ==
  ASSUME ConnInv, Progress \/ End \/ Announce \/ AnnounceFailure \/ FailTrip
  PROVE  ConnInv'
<1> USE EventStreamAssumption
<1>1. CASE Progress
  BY <1>1, BroadcastStep DEF Progress, ConnInv, TypeOK, Frames
<1>2. CASE Announce
  BY <1>2, BroadcastStep DEF Announce, ConnInv, TypeOK, Frames, Phases
<1>3. CASE AnnounceFailure
  BY <1>3, BroadcastStep DEF AnnounceFailure, ConnInv, TypeOK, Frames, Phases
<1>4. CASE End \/ FailTrip
  <2>1. /\ gen' \in BOOLEAN /\ pub' \in Phases
        /\ UNCHANGED <<sent, sinks, pc, route, bus, took, told>>
    BY <1>4 DEF End, FailTrip, Phases
  <2> QED
    BY <2>1 DEF ConnInv, TypeOK, NoLeakedSlot, Connections, Quiet, Counted, Warned, route, bus
<1> QED
  BY <1>1, <1>2, <1>3, <1>4

\* The end of a connection: it is taken out and holds nothing any more.
LEMMA UnsubscribeStep ==
  ASSUME ConnInv, NEW c \in Clients, NEW l \in {"closed", "gone"},
         Unsubscribe(c), Goto(c, l), UNCHANGED <<trip, route, took>>,
         told' \in [Clients -> SUBSET Frames],
         \A d \in Clients : d # c => told'[d] = told[d],
         rejected[c] /\ l = "closed" => told'[c] \cap {"limit", "end"} # {}
  PROVE  ConnInv'
<1> USE EventStreamAssumption DEF ConnInv, Unsubscribe, Goto, trip, route
<1>1. TypeOK'
  <2>1. << >> \in Seq(Frames) /\ Len(<< >>) <= Buffer
    OBVIOUS
  <2>2. queue' \in [Clients -> Seq(Frames)] /\ \A d \in Clients : Len(queue'[d]) <= Buffer
    BY <2>1 DEF TypeOK
  <2>3. pending' \in [Clients -> Seq(Frames)]
    BY <2>1 DEF TypeOK
  <2> QED
    BY <2>2, <2>3 DEF TypeOK
<1>2. NoLeakedSlot'
  BY DEF NoLeakedSlot, TypeOK
<1>3. ASSUME NEW d \in Clients PROVE Quiet(d)' /\ Counted(d)' /\ Warned(d)'
  <2>1. Quiet(d) /\ Counted(d) /\ Warned(d)
    BY DEF Connections
  <2>2. CASE d = c
    BY <2>1, <2>2 DEF Quiet, Counted, Warned, TypeOK
  <2>3. CASE d # c
    BY <2>1, <2>3 DEF Quiet, Counted, Warned, TypeOK
  <2> QED
    BY <2>2, <2>3
<1> QED
  BY <1>1, <1>2, <1>3 DEF Connections

\* The route up to the stream.
LEMMA ReadRowStep ==
  ASSUME ConnInv, NEW c \in Clients, ReadRow(c) \/ Snapshot(c)
  PROVE  ConnInv'
<1> USE DEF ConnInv, ReadRow, Snapshot, SnapshotDue, Goto, trip, bus, route
<1>1. TypeOK'
  BY DEF TypeOK
<1>2. NoLeakedSlot'
  BY DEF NoLeakedSlot, TypeOK
<1>3. ASSUME NEW d \in Clients PROVE Quiet(d)' /\ Counted(d)' /\ Warned(d)'
  <2>1. Quiet(d) /\ Counted(d) /\ Warned(d)
    BY DEF Connections
  <2>2. Quiet(d)' /\ Counted(d)'
    BY <2>1 DEF Quiet, Counted, TypeOK
  <2>3. Warned(d)'
    <3>1. UNCHANGED <<sinks, open, pending, queue, told, rejected>>
      OBVIOUS
    <3>2. rejected[d] /\ pc'[d] # pc[d] => pc[d] = "snapshot" /\ pc'[d] \in {"tell", "stream"}
      BY <2>1 DEF Quiet, TypeOK
    <3> HIDE DEF ConnInv, ReadRow, Snapshot, Goto
    <3> QED
      BY <2>1, <3>1, <3>2 DEF Warned
  <2> QED
    BY <2>2, <2>3
<1> QED
  BY <1>1, <1>2, <1>3 DEF Connections

\* subscribe: a slot, or the frame that says there is none.
LEMMA SubscribeStep ==
  ASSUME ConnInv, NEW c \in Clients, Subscribe(c)
  PROVE  ConnInv'
<1> USE DEF ConnInv, Subscribe, Goto, trip
<1>1. CASE Cardinality(sinks) < Limit
  <2>1. TypeOK'
    BY <1>1 DEF TypeOK
  <2>2. NoLeakedSlot'
    BY <1>1 DEF NoLeakedSlot, TypeOK
  <2>3. ASSUME NEW d \in Clients PROVE Quiet(d)' /\ Counted(d)' /\ Warned(d)'
    <3>1. Quiet(d) /\ Counted(d) /\ Warned(d)
      BY DEF Connections
    <3>2. CASE d = c
      BY <1>1, <3>1, <3>2 DEF Quiet, Counted, Warned, TypeOK
    <3>3. CASE d # c
      BY <1>1, <3>1, <3>3 DEF Quiet, Counted, Warned, TypeOK
    <3> QED
      BY <3>2, <3>3
  <2> QED
    BY <2>1, <2>2, <2>3 DEF Connections
<1>2. CASE ~(Cardinality(sinks) < Limit)
  <2>1. TypeOK'
    <3>1. Append(pending[c], "limit") \in Seq(Frames)
      BY DEF TypeOK, Frames
    <3> QED
      BY <1>2, <3>1 DEF TypeOK, Phases
  <2>2. NoLeakedSlot'
    BY <1>2 DEF NoLeakedSlot, TypeOK
  <2>3. ASSUME NEW d \in Clients PROVE Quiet(d)' /\ Counted(d)' /\ Warned(d)'
    <3>1. Quiet(d) /\ Counted(d) /\ Warned(d)
      BY DEF Connections
    <3>2. CASE d = c
      <4>1. c \notin sinks /\ Len(queue[c]) = 0 /\ Len(pending[c]) = 0
        BY <3>1, <3>2 DEF NoLeakedSlot, Quiet
      <4>2. pending'[c] = Append(pending[c], "limit") /\ pending[c] \in Seq(Frames)
        BY <1>2 DEF TypeOK
      <4>3. Only(pending'[c])
        BY <4>1, <4>2 DEF Only, Frames
      <4> QED
        BY <1>2, <3>1, <3>2, <4>1, <4>3 DEF Quiet, Counted, Warned, TypeOK
    <3>3. CASE d # c
      BY <1>2, <3>1, <3>3 DEF Quiet, Counted, Warned, TypeOK
    <3> QED
      BY <3>2, <3>3
  <2> QED
    BY <2>1, <2>2, <2>3 DEF Connections
<1> QED
  BY <1>1, <1>2

\* The ends of a connection.
LEMMA EndStep ==
  ASSUME ConnInv, NEW c \in Clients, Abort(c) \/ Tell(c) \/ Timeout(c) \/ Leave(c)
  PROVE  ConnInv'
<1> USE DEF ConnInv
<1>1. CASE Abort(c) \/ Leave(c)
  BY <1>1, UnsubscribeStep DEF Abort, Leave, TypeOK
<1>2. CASE Tell(c)
  <2>1. /\ told' \in [Clients -> SUBSET Frames] /\ "end" \in told'[c]
        /\ \A d \in Clients : d # c => told'[d] = told[d]
    BY <1>2 DEF Tell, TypeOK, Frames
  <2> QED
    BY <1>2, <2>1, UnsubscribeStep DEF Tell
<1>3. CASE Timeout(c)
  <2>1. queue[c] \in Seq(Frames) /\ pending[c] \in Seq(Frames) /\ Warned(c)
    BY DEF TypeOK, Connections
  <2>2. Len(queue[c]) = 0 /\ Len(pending[c]) = 0 /\ pc[c] = "stream"
    BY <1>3 DEF Timeout
  <2>3. rejected[c] => "limit" \in told[c]
    BY <2>1, <2>2 DEF Warned, Only
  <2> QED
    BY <1>3, <2>3, UnsubscribeStep DEF Timeout, TypeOK
<1> QED
  BY <1>1, <1>2, <1>3

\* The client takes the frame at the head of its queue.
LEMMA TakeStep ==
  ASSUME ConnInv, NEW c \in Clients, Take(c)
  PROVE  ConnInv'
<1> USE DEF ConnInv, Take, trip, route
<1>1. /\ queue[c] \in Seq(Frames) /\ queue[c] # << >>
      /\ Len(queue[c]) > 0 /\ Head(queue[c]) = queue[c][1] /\ queue[c][1] \in Frames
      /\ Tail(queue[c]) \in Seq(Frames) /\ Len(Tail(queue[c])) = Len(queue[c]) - 1
  <2>1. queue[c] \in Seq(Frames) /\ queue[c] # << >>
    BY DEF TypeOK
  <2> QED
    BY <2>1
<1>2. TypeOK'
  <2>1. queue' \in [Clients -> Seq(Frames)]
    BY <1>1 DEF TypeOK
  <2>2. \A d \in Clients : Len(queue'[d]) <= Buffer
    BY <1>1, EventStreamAssumption DEF TypeOK
  <2>3. took' \in [Clients -> Nat] /\ told' \in [Clients -> SUBSET Frames]
    BY <1>1 DEF TypeOK
  <2> QED
    BY <2>1, <2>2, <2>3 DEF TypeOK
<1>3. NoLeakedSlot'
  BY DEF NoLeakedSlot
<1>4. ASSUME NEW d \in Clients PROVE Quiet(d)' /\ Counted(d)' /\ Warned(d)'
  <2>1. Quiet(d) /\ Counted(d) /\ Warned(d)
    BY DEF Connections
  <2>2. CASE d = c
    <3>1. /\ queue'[c] = Tail(queue[c]) /\ took'[c] = took[c] + 1
          /\ told'[c] = told[c] \cup {queue[c][1]}
          /\ due[c] \in Nat /\ took[c] \in Nat /\ Len(pending[c]) \in Nat
      BY <1>1 DEF TypeOK
    <3>2. Len(queue[c]) \in Nat /\ Len(queue'[c]) = Len(queue[c]) - 1
      <4> HIDE DEF ConnInv, Take
      <4> QED
        BY <1>1, <3>1
    <3>3. Quiet(c)' /\ Counted(c)'
      BY <2>1, <2>2, <3>1, <3>2 DEF Quiet, Counted
    <3>4. Warned(c)'
      BY <1>1, <2>1, <2>2, <3>1, <3>2 DEF Warned, Only
    <3> QED
      BY <2>2, <3>3, <3>4
  <2>3. CASE d # c
    BY <2>1, <2>3 DEF Quiet, Counted, Warned, TypeOK
  <2> QED
    BY <2>2, <2>3
<1> QED
  BY <1>2, <1>3, <1>4 DEF Connections

\* A callback of the event loop: the frame is queued, or the connection is dead.
LEMMA PutStep ==
  ASSUME ConnInv, NEW c \in Clients, Put(c)
  PROVE  ConnInv'
<1> USE EventStreamAssumption DEF ConnInv, Put, trip, route
<1>1. /\ pending[c] \in Seq(Frames) /\ pending[c] # << >> /\ queue[c] \in Seq(Frames)
      /\ pending'[c] = Tail(pending[c])
      /\ due[c] \in Nat /\ took[c] \in Nat
  BY DEF TypeOK
<1>2. /\ Len(pending[c]) > 0 /\ Head(pending[c]) = pending[c][1]
      /\ Head(pending[c]) \in Frames
      /\ Tail(pending[c]) \in Seq(Frames) /\ Len(Tail(pending[c])) = Len(pending[c]) - 1
      /\ Len(queue[c]) \in Nat
  BY <1>1
<1>3. pc[c] \in {"snapshot", "tell", "stream"}
  BY <1>2 DEF Connections, Quiet, TypeOK
<1>4. CASE Len(queue[c]) < Buffer
  <2>1. /\ queue' = [queue EXCEPT ![c] = Append(@, Head(pending[c]))] /\ UNCHANGED open
        /\ queue'[c] = Append(queue[c], Head(pending[c]))
    BY <1>4 DEF TypeOK
  <2>2. /\ queue'[c] \in Seq(Frames) /\ Len(queue'[c]) = Len(queue[c]) + 1
        /\ Len(queue[c]) = 0 => queue'[c][1] = pending[c][1]
    BY <1>1, <1>2, <2>1
  <2>3. TypeOK'
    BY <1>2, <1>4, <2>1, <2>2 DEF TypeOK
  <2>4. ASSUME NEW d \in Clients PROVE Quiet(d)' /\ Counted(d)' /\ Warned(d)'
    <3>1. Quiet(d) /\ Counted(d) /\ Warned(d)
      BY DEF Connections
    <3>2. CASE d = c
      <4>1. /\ Len(pending'[c]) = Len(pending[c]) - 1 /\ Len(pending[c]) \in Nat
            /\ Len(queue'[c]) = Len(queue[c]) + 1
        <5> HIDE DEF ConnInv, Put
        <5> QED
          BY <1>1, <1>2, <2>2
      <4>2. Quiet(c)' /\ Counted(c)'
        BY <1>1, <1>2, <1>3, <2>1, <3>1, <3>2, <4>1 DEF Quiet, Counted
      <4>3. Warned(c)'
        BY <1>2, <1>3, <2>1, <2>2, <3>1, <3>2, <4>1 DEF Warned, Only
      <4> QED
        BY <3>2, <4>2, <4>3
    <3>3. CASE d # c
      BY <2>1, <3>1, <3>3 DEF Quiet, Counted, Warned, TypeOK
    <3> QED
      BY <3>2, <3>3
  <2> QED
    BY <2>1, <2>3, <2>4 DEF Connections, NoLeakedSlot
<1>5. CASE ~(Len(queue[c]) < Buffer)
  <2>1. open' = [open EXCEPT ![c] = FALSE] /\ UNCHANGED queue
    BY <1>5
  <2>2. TypeOK'
    BY <1>2, <2>1 DEF TypeOK
  <2>3. Len(queue[c]) > 0
    BY <1>2, <1>5
  <2>4. ASSUME NEW d \in Clients PROVE Quiet(d)' /\ Counted(d)' /\ Warned(d)'
    <3>1. Quiet(d) /\ Counted(d) /\ Warned(d)
      BY DEF Connections
    <3>2. CASE d = c
      BY <1>1, <1>2, <1>3, <2>1, <2>3, <3>1, <3>2 DEF Quiet, Counted, Warned, Only, TypeOK
    <3>3. CASE d # c
      BY <2>1, <3>1, <3>3 DEF Quiet, Counted, Warned, TypeOK
    <3> QED
      BY <3>2, <3>3
  <2> QED
    BY <2>1, <2>2, <2>4 DEF Connections, NoLeakedSlot
<1> QED
  BY <1>4, <1>5

\* EventSource connects again, with a new subscription.
LEMMA ReconnectStep ==
  ASSUME ConnInv, NEW c \in Clients, Reconnect(c)
  PROVE  ConnInv'
<1> USE DEF ConnInv, Reconnect, Goto, trip
<1>1. TypeOK'
  BY DEF TypeOK, Phases
<1>2. NoLeakedSlot'
  BY DEF NoLeakedSlot, TypeOK
<1>3. ASSUME NEW d \in Clients PROVE Quiet(d)' /\ Counted(d)' /\ Warned(d)'
  <2>1. Quiet(d) /\ Counted(d) /\ Warned(d)
    BY DEF Connections
  <2>2. CASE d = c
    BY <2>1, <2>2 DEF Quiet, Counted, Warned, TypeOK
  <2>3. CASE d # c
    BY <2>1, <2>3 DEF Quiet, Counted, Warned, TypeOK
  <2> QED
    BY <2>2, <2>3
<1> QED
  BY <1>1, <1>2, <1>3 DEF Connections

\* Every step keeps the invariant.
LEMMA ConnKeeps == ConnInv /\ [Next]_vars => ConnInv'
<1> SUFFICES ASSUME ConnInv, [Next]_vars PROVE ConnInv'
  OBVIOUS
<1>1. CASE Progress \/ End \/ Announce \/ AnnounceFailure \/ FailTrip
  BY <1>1, PublishStep
<1>2. ASSUME NEW c \in Clients,
             ReadRow(c) \/ Connection(c) \/ Abort(c) \/ Leave(c) \/ Put(c) \/ Reconnect(c)
      PROVE  ConnInv'
  <2>1. CASE ReadRow(c) \/ Snapshot(c)
    BY <2>1, ReadRowStep
  <2>2. CASE Subscribe(c)
    BY <2>2, SubscribeStep
  <2>3. CASE Abort(c) \/ Tell(c) \/ Timeout(c) \/ Leave(c)
    BY <2>3, EndStep
  <2>4. CASE Take(c)
    BY <2>4, TakeStep
  <2>5. CASE Put(c)
    BY <2>5, PutStep
  <2>6. CASE Reconnect(c)
    BY <2>6, ReconnectStep
  <2> QED
    BY <1>2, <2>1, <2>2, <2>3, <2>4, <2>5, <2>6 DEF Connection
<1>3. CASE UNCHANGED vars
  BY <1>3 DEF vars, trip, route, bus, ConnInv, TypeOK, NoLeakedSlot, Connections, Quiet, Counted, Warned
<1> QED
  BY <1>1, <1>2, <1>3 DEF Next

\* The invariant holds of every behaviour.
LEMMA ConnHolds == Spec => []ConnInv
<1> QED
  BY ConnStart, ConnKeeps, PTL DEF Spec

\* Whoever is registered has a connection that will take it out again, so the
\* slots of a trip cannot be used up by connections that are over.
THEOREM SlotsReturn == Spec => []NoLeakedSlot
<1>1. ConnInv => NoLeakedSlot
  BY DEF ConnInv
<1> QED
  BY <1>1, ConnHolds, PTL

\* A connection that is still open has missed no frame that was offered to it.
THEOREM NothingMissed == Spec => []OpenMissesNothing
<1>1. ConnInv => OpenMissesNothing
  BY DEF ConnInv, OpenMissesNothing, Connections, Counted
<1> QED
  BY <1>1, ConnHolds, PTL

\* The server closes no rejected connection before it took the frame that says why.
THEOREM RejectionTold == Spec => []RejectedTold
<1>1. ConnInv => RejectedTold
  BY DEF ConnInv, RejectedTold, Connections, Warned
<1> QED
  BY <1>1, ConnHolds, PTL
==============================================================================
