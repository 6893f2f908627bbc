---------------------------- MODULE TripEditProofs ----------------------------
(*****************************************************************************)
(* What holds of a trip under the hands of its owner and its members, for any*)
(* number of tabs, users, requests and rows.  A request that ends in an error*)
(* has changed nothing; what an edit replaces is in the history; a draft is  *)
(* applied once and to the plan it was made for; a cached detail is fresh.   *)
(* Each of the four has an invariant of its own, and all of them rest on the *)
(* kinds of the requests: a step moves one tab, and says where to.  The last *)
(* part proves that every edit leaves the rows in order, and from it that    *)
(* they stay in order until two edits cross, and that what any change        *)
(* replaces, a restore as well, is in the history.                           *)
(*****************************************************************************)
EXTENDS TripEdit, SequenceTheorems, FiniteSetTheorems, WellFoundedInduction, TLAPS

-----------------------------------------------------------------------------
(* The requests: every one is at a step of its kind. *)

\* Every table of the requests has a row for each tab.
Shape == DOMAIN pc = Clients /\ DOMAIN op = Clients /\ DOMAIN answer = Clients

\* What a request may be.
Kinds == Versioned \cup InWords \cup {"none", "chat", "clear", "read", "apply", "hotel", "restore",
    "role", "join"}
\* The places of an edit before its change.
Transient == {"number", "insert", "look", "begin"}
\* The request of a tab fits its place.
KindOf(c) ==
  /\ op[c].kind \in Kinds
  /\ pc[c] \in Transient => op[c].kind \in Versioned \cup InWords
  /\ pc[c] = "commit" => op[c].kind \in Versioned \cup InWords \cup {"apply", "hotel"}
  /\ pc[c] \in {"apply", "hotel", "restore", "role", "join", "chat", "clear", "read"} =>
        op[c].kind = pc[c]
  /\ op[c].kind = "trash" => Me(c) = Owner
Base == Shape /\ \A c \in Clients : KindOf(c)

\* The kinds of request that a tab sends.
LEMMA OpKinds == ASSUME NEW o \in Ops PROVE o.kind \in Kinds \ (InWords \cup {"none"})
<1>1. CASE o \in HandOps
  BY <1>1 DEF HandOps, Kinds, Versioned, ByHand, InWords
<1>2. CASE o \in OtherOps
  BY <1>2 DEF OtherOps, Kinds, Versioned, ByHand, InWords
<1> QED BY <1>1, <1>2 DEF Ops

\* The kinds of change that an instruction in words may become.
LEMMA WordKinds == ASSUME NEW o \in WordOps PROVE o.kind \in InWords
BY DEF WordOps, InWords

\* A step of a tab moves that tab alone.
Moves(c, l, o, a) ==
  /\ Shape' /\ pc'[c] = l /\ op'[c] = o /\ answer'[c] = a
  /\ \A q \in Clients \ {c} : pc'[q] = pc[q] /\ op'[q] = op[q] /\ answer'[q] = answer[q]

\* A tab goes on to its next step.
LEMMA GotoMoves ==
  ASSUME Shape, NEW c \in Clients, NEW l, Goto(c, l)
  PROVE  Moves(c, l, op[c], answer[c])
BY DEF Shape, Goto, Moves

\* A tab goes on with another request.
LEMMA GotoWithMoves ==
  ASSUME Shape, NEW c \in Clients, NEW l, NEW o, GotoWith(c, l, o)
  PROVE  Moves(c, l, o, answer[c])
BY DEF Shape, GotoWith, Moves

\* A tab has its answer.
LEMMA AnswerMoves ==
  ASSUME Shape, NEW c \in Clients, NEW a, Answer(c, a)
  PROVE  Moves(c, "idle", NoOp, a)
BY DEF Shape, Answer, Moves

\* A move keeps every request at a step of its kind, if the moved one is.
LEMMA BaseMoves ==
  ASSUME Base, NEW c \in Clients, NEW l, NEW o, NEW a, Moves(c, l, o, a),
         /\ o.kind \in Kinds
         /\ l \in Transient => o.kind \in Versioned \cup InWords
         /\ l = "commit" => o.kind \in Versioned \cup InWords \cup {"apply", "hotel"}
         /\ l \in {"apply", "hotel", "restore", "role", "join", "chat", "clear", "read"} => o.kind = l
         /\ o.kind = "trash" => Me(c) = Owner
  PROVE  Base'
<1>1. ASSUME NEW q \in Clients PROVE KindOf(q)'
  <2>1. CASE q = c BY <2>1 DEF Moves, KindOf, Me
  <2>2. CASE q # c BY <2>2 DEF Moves, KindOf, Base, Me
  <2> QED BY <2>1, <2>2
<1> QED BY <1>1 DEF Moves, Base

\* A step of one tab.
Step(c) == Start(c) \/ VersionStep(c) \/ EditStep(c) \/ ChatStep(c) \/ ApplyStep(c) \/ ReadStep(c)

\* ... a request that is sent ...
LEMMA StartBase ==
  ASSUME Base, NEW c \in Clients, Start(c)
  PROVE  Base'
<1> USE DEF Base
<1>1. PICK o \in Ops : SendEdit(c, o) \/ SendOther(c, o) BY DEF Start
<1>2. o.kind \in Kinds \ (InWords \cup {"none"}) BY OpKinds
<1>3. CASE SendEdit(c, o)
  <2>1. CASE GotoWith(c, "number", o) /\ (o.kind = "trash" => Owns(Me(c)))
    BY <1>2, <1>3, <2>1, GotoWithMoves, BaseMoves DEF SendEdit, Owns, Transient
  <2>2. CASE Answer(c, "refused")
    BY <2>2, AnswerMoves, BaseMoves DEF NoOp, Kinds, Transient
  <2> QED BY <1>3, <2>1, <2>2 DEF SendEdit
<1>4. CASE SendOther(c, o)
  <2>1. GotoWith(c, o.kind, o) /\ o.kind \notin Versioned BY <1>4 DEF SendOther
  <2>2. o.kind \in {"chat", "clear", "read", "apply", "hotel", "restore", "role", "join"}
    BY <1>2, <2>1 DEF Kinds
  <2>3. o.kind \notin Transient /\ o.kind # "commit" /\ o.kind # "trash" BY <2>2 DEF Transient
  <2> QED BY <1>2, <2>1, <2>2, <2>3, GotoWithMoves, BaseMoves
<1> QED BY <1>1, <1>3, <1>4

\* ... a step of the same request ...
LEMMA GotoBase ==
  ASSUME Base, NEW c \in Clients, NEW l, Goto(c, l),
         l \in Transient => op[c].kind \in Versioned \cup InWords,
         l = "commit" => op[c].kind \in Versioned \cup InWords \cup {"apply", "hotel"},
         l \notin {"apply", "hotel", "restore", "role", "join", "chat", "clear", "read"}
  PROVE  Base'
BY GotoMoves, BaseMoves DEF Base, KindOf

\* ... its answer ...
LEMMA AnswerBase ==
  ASSUME Base, NEW c \in Clients, NEW a, Answer(c, a)
  PROVE  Base'
BY AnswerMoves, BaseMoves DEF Base, NoOp, Kinds, Transient

\* ... and no move at all.
LEMMA StillBase == ASSUME Base, UNCHANGED <<pc, op, answer>> PROVE Base'
BY DEF Base, Shape, KindOf

\* The steps that write a version keep the kinds.
LEMMA VersionBase ==
  ASSUME Base, NEW c \in Clients, VersionStep(c)
  PROVE  Base'
<1>k. KindOf(c) BY DEF Base
<1>1. CASE TakeNumber(c)
  BY <1>1, <1>k, GotoBase, AnswerBase DEF TakeNumber, Recorded, KindOf, Transient
<1>2. CASE InsertVersion(c)
  BY <1>2, <1>k, GotoBase DEF InsertVersion, KindOf, Transient
<1>3. CASE InsertCollides(c)
  BY <1>3, <1>k, GotoBase, AnswerBase DEF InsertCollides, KindOf, Transient
<1>4. CASE RecordVersion(c)
  BY <1>4, <1>k, GotoBase DEF RecordVersion, Recorded, KindOf, Transient
<1> QED BY <1>1, <1>2, <1>3, <1>4 DEF VersionStep

\* So do the steps of an edit.
LEMMA EditBase ==
  ASSUME Base, NEW c \in Clients, EditStep(c)
  PROVE  Base'
<1>k. KindOf(c) BY DEF Base
<1>1. CASE Look(c)
  <2>1. CASE \E o \in WordOps : GotoWith(c, "begin", o)
    <3>1. PICK o \in WordOps : GotoWith(c, "begin", o) BY <2>1
    <3>2. o.kind \in InWords BY WordKinds
    <3> QED BY <3>1, <3>2, GotoWithMoves, BaseMoves DEF Base, Kinds, Transient, InWords
  <2>2. CASE Answer(c, "broken")
    BY <2>2, AnswerBase
  <2> QED BY <1>1, <2>1, <2>2, Zenon DEF Look
<1>2. CASE BeginEdit(c)
  BY <1>2, <1>k, GotoBase DEF BeginEdit, KindOf, Transient
<1>3. CASE CommitEdit(c) \/ CommitDelete(c)
  BY <1>3, <1>k, GotoBase DEF CommitEdit, CommitDelete, Transient
<1>4. CASE FailEdit(c)
  BY <1>4, AnswerBase DEF FailEdit
<1>5. CASE Restore(c)
  BY <1>5, GotoBase, AnswerBase DEF Restore, Transient
<1> QED BY <1>1, <1>2, <1>3, <1>4, <1>5 DEF EditStep

\* So do the steps of the chat, whose drafts are of two kinds.
LEMMA ChatBase ==
  ASSUME Base, NEW c \in Clients, ChatStep(c)
  PROVE  Base'
<1>1. CASE ChatContext(c)
  BY <1>1, GotoBase, AnswerBase DEF ChatContext, Transient
<1>2. CASE Propose(c)
  <2>1. ASSUME NEW o, o.kind \in {"apply", "hotel"}, GotoWith(c, "save", o) PROVE Base'
    BY <2>1, GotoWithMoves, BaseMoves DEF Base, Kinds, Transient
  <2>2. ASSUME NEW p, GotoWith(c, "save", PlanDraft(c, p)) PROVE Base'
    <3>1. PlanDraft(c, p).kind = "apply" BY DEF PlanDraft, Spent
    <3> QED BY <2>1, <2>2, <3>1
  <2>3. ASSUME NEW h, GotoWith(c, "save", HotelDraft(c, h)) PROVE Base'
    <3>1. HotelDraft(c, h).kind = "hotel" BY DEF HotelDraft, Spent
    <3> QED BY <2>1, <2>3, <3>1
  <2> QED BY <1>2, <2>2, <2>3, AnswerBase DEF Propose
<1>3. CASE SaveTurn(c) \/ ClearHistory(c)
  BY <1>3, AnswerBase DEF SaveTurn, ClearHistory
<1> QED BY <1>1, <1>2, <1>3 DEF ChatStep

\* So do the steps that apply a draft.
LEMMA ApplyBase ==
  ASSUME Base, NEW c \in Clients, ApplyStep(c)
  PROVE  Base'
<1>k. KindOf(c) BY DEF Base
<1>1. CASE BeginApply(c)
  BY <1>1, <1>k, GotoBase, AnswerBase DEF BeginApply, KindOf, Transient
<1>2. CASE CommitApply(c) \/ FailApply(c)
  BY <1>2, GotoBase, AnswerBase DEF CommitApply, FailApply, Transient
<1> QED BY <1>1, <1>2 DEF ApplyStep

\* So do the members and the readers.
LEMMA ReadBase ==
  ASSUME Base, NEW c \in Clients, ReadStep(c)
  PROVE  Base'
<1>1. CASE SetRole(c) \/ Join(c)
  BY <1>1, GotoBase, AnswerBase DEF SetRole, Join, Transient
<1>2. CASE Evict(c)
  BY <1>2, GotoBase, AnswerBase DEF Evict, Transient
<1>3. CASE Get(c) \/ Build(c) \/ Store(c)
  BY <1>3, GotoBase, AnswerBase DEF Get, Build, Store, Transient
<1> QED BY <1>1, <1>2, <1>3 DEF ReadStep

\* Every step keeps the kinds.
LEMMA BaseStep == Base /\ [Next]_vars => Base'
<1> SUFFICES ASSUME Base, [Next]_vars PROVE Base' OBVIOUS
<1>1. CASE UNCHANGED vars BY <1>1, StillBase DEF vars, request
<1>2. ASSUME NEW c \in Clients, Step(c) PROVE Base'
  BY <1>2, StartBase, VersionBase, EditBase, ChatBase, ApplyBase, ReadBase DEF Step
<1> QED BY <1>1, <1>2 DEF Next, Step

\* They hold at the beginning.
LEMMA BaseInit == Init => Base
BY DEF Init, Base, Shape, KindOf, NoOp, Kinds, Transient

-----------------------------------------------------------------------------
(* Errors: who has written is behind his change. *)

\* Steps after the change, and between the gate and the change.
After == {"idle", "renumber", "reinsert", "evict", "evictfirst", "get", "build", "store"}
Middle == {"insert", "look", "begin", "commit"}
\* Who is somebody in this trip, or was.
Stands(u) == u = Owner \/ role[u] # "none" \/ u \in demoted
\* Who has written is behind his change, and he or his loss of the trip is on record.
ErrInv ==
  /\ DOMAIN role = Users \ {Owner}
  /\ \A c \in wrote : c \in Clients /\ pc[c] \in After
  /\ \A c \in Clients : c \in wrote \/ pc[c] \in Middle => Stands(Me(c))
  /\ ErrorsChangeNothing

\* A step keeps the invariant if nobody loses his standing unnoticed, and who has written
\* is behind his change.
LEMMA ErrKeeps ==
  ASSUME Base, ErrInv, NEW c \in Clients, NEW l, NEW o, NEW a, Moves(c, l, o, a),
         DOMAIN role' = Users \ {Owner},
         \A u \in Users : Stands(u) => Stands(u)',
         there' => there, demoted \subseteq demoted', wrote' \subseteq wrote \cup {c},
         c \in wrote' => l \in After,
         c \in wrote' \/ l \in Middle => Stands(Me(c))',
         c \in wrote' /\ l = "idle" /\ a \in {"refused", "broken"} => ~there' \/ Me(c) \in demoted'
  PROVE  ErrInv'
<1>u. \A q \in Clients : Me(q) \in Users /\ Me(q)' = Me(q) BY TripEditAssumption DEF Me
<1>1. \A q \in wrote' : q \in Clients /\ pc'[q] \in After
  BY DEF ErrInv, Moves
<1>2. ASSUME NEW q \in Clients, q \in wrote' \/ pc'[q] \in Middle PROVE Stands(Me(q))'
  <2>1. CASE q = c BY <1>2, <2>1 DEF Moves
  <2>2. CASE q # c
    <3>1. Stands(Me(q)) BY <1>2, <2>2 DEF ErrInv, Moves
    <3>2. Stands(Me(q))' BY <1>u, <3>1 DEF Stands, Me
    <3> QED BY <3>2
  <2> QED BY <2>1, <2>2
<1>3. ErrorsChangeNothing'
  <2>1. ASSUME NEW q \in Clients, answer'[q] \in {"refused", "broken"}, pc'[q] = "idle", q \in wrote'
        PROVE  ~there' \/ Me(q)' \in demoted'
    <3>1. CASE q = c BY <2>1, <3>1, <1>u DEF Moves
    <3>2. CASE q # c BY <2>1, <3>2, <1>u DEF Moves, ErrInv, ErrorsChangeNothing
    <3> QED BY <3>1, <3>2
  <2> QED BY <2>1 DEF ErrorsChangeNothing
<1> QED BY <1>1, <1>2, <1>3 DEF ErrInv

\* ... in particular a step that leaves the members, the trip and the demoted alone ...
LEMMA ErrStays ==
  ASSUME Base, ErrInv, NEW c \in Clients, NEW l, NEW o, NEW a, Moves(c, l, o, a),
         UNCHANGED <<role, there, demoted>>, wrote' \subseteq wrote,
         c \in wrote' => l \in After,
         l \in Middle => Stands(Me(c)),
         c \in wrote' /\ l = "idle" /\ a \in {"refused", "broken"} => ~there \/ Me(c) \in demoted
  PROVE  ErrInv'
<1>1. \A u \in Users : Stands(u) => Stands(u)' BY DEF Stands
<1>2. Me(c) \in Users /\ Me(c)' = Me(c) BY TripEditAssumption DEF Me
<1>3. c \in wrote' \/ l \in Middle => Stands(Me(c)) BY DEF ErrInv
<1>4. c \in wrote' \/ l \in Middle => Stands(Me(c))' BY <1>3, <1>2 DEF Stands, Me
<1>5. DOMAIN role' = Users \ {Owner} BY DEF ErrInv
<1> QED BY <1>1, <1>4, <1>5, ErrKeeps

\* ... and writes nothing: before the change nothing is written, after it only a gate of
\* the reader refuses.
LEMMA ErrQuiet ==
  ASSUME Base, ErrInv, NEW c \in Clients, NEW l, NEW o, NEW a, Moves(c, l, o, a),
         UNCHANGED <<role, there, demoted, wrote>>,
         pc[c] \in After => l \in After,
         l \in Middle => pc[c] \in Middle \/ Writes(Me(c)),
         l = "idle" /\ a \in {"refused", "broken"} => pc[c] \notin After \/ ~Reads(Me(c))
  PROVE  ErrInv'
<1>1. c \in wrote => pc[c] \in After /\ Stands(Me(c)) BY DEF ErrInv
<1>2. l \in Middle => Stands(Me(c)) BY DEF ErrInv, Stands, Writes
<1>3. c \in wrote /\ l = "idle" /\ a \in {"refused", "broken"} => ~there \/ Me(c) \in demoted
  BY <1>1 DEF Stands, Reads
<1> QED BY <1>1, <1>2, <1>3, ErrStays

\* The same for a step of a request ...
LEMMA ErrGoto ==
  ASSUME Base, ErrInv, NEW c \in Clients, NEW l, Goto(c, l),
         UNCHANGED <<role, there, demoted, wrote>>,
         pc[c] \in After => l \in After, l # "idle",
         l \in Middle => pc[c] \in Middle \/ Writes(Me(c))
  PROVE  ErrInv'
BY GotoMoves, ErrQuiet DEF Base

\* ... and for its answer.
LEMMA ErrAnswer ==
  ASSUME Base, ErrInv, NEW c \in Clients, NEW a, Answer(c, a),
         UNCHANGED <<role, there, demoted, wrote>>,
         a \in {"refused", "broken"} => pc[c] \notin After \/ ~Reads(Me(c))
  PROVE  ErrInv'
BY AnswerMoves, ErrQuiet DEF Base, After, Middle

\* The commit of a change.
LEMMA ErrCommit ==
  ASSUME Base, ErrInv, NEW c \in Clients, NEW l \in {"renumber", "evict", "evictfirst"}, Goto(c, l),
      Committed(c),
         UNCHANGED <<role, demoted>>, there' => there, pc[c] \in Middle \/ Writes(Me(c))
  PROVE  ErrInv'
<1>1. Moves(c, l, op[c], answer[c]) BY GotoMoves DEF Base
<1>2. \A u \in Users : Stands(u) => Stands(u)' BY DEF Stands
<1>3. Me(c) \in Users /\ Me(c)' = Me(c) BY TripEditAssumption DEF Me
<1>4. Stands(Me(c)) BY DEF ErrInv, Stands, Writes
<1>5. Stands(Me(c))' BY <1>3, <1>4 DEF Stands, Me
<1> QED BY <1>1, <1>2, <1>5, ErrKeeps DEF ErrInv, Committed, After, Middle

\* A request that is sent forgets what the one before it wrote.
LEMMA ErrStart ==
  ASSUME Base, ErrInv, NEW c \in Clients, Start(c)
  PROVE  ErrInv'
<1>1. PICK o \in Ops : SendEdit(c, o) \/ SendOther(c, o) BY DEF Start
<1>2. o.kind \in Kinds \ (InWords \cup {"none"}) BY OpKinds
<1>3. UNCHANGED <<role, there, demoted>> /\ wrote' = wrote \ {c}
  BY <1>1 DEF SendEdit, SendOther, Send, trip
<1>4. ASSUME NEW l, NEW x, NEW a, Moves(c, l, x, a), l \notin Middle PROVE ErrInv'
  BY <1>3, <1>4, ErrStays
<1>5. CASE SendEdit(c, o)
  <2>1. CASE GotoWith(c, "number", o) BY <2>1, <1>4, GotoWithMoves DEF Base, Middle
  <2>2. CASE Answer(c, "refused") BY <2>2, <1>4, AnswerMoves DEF Base, Middle
  <2> QED BY <1>5, <2>1, <2>2 DEF SendEdit
<1>6. CASE SendOther(c, o)
  <2>1. GotoWith(c, o.kind, o) /\ o.kind \notin Versioned BY <1>6 DEF SendOther
  <2>2. o.kind \notin Middle BY <1>2, <2>1 DEF Kinds, Middle
  <2> QED BY <2>1, <2>2, <1>4, GotoWithMoves DEF Base
<1> QED BY <1>1, <1>5, <1>6

\* A version that cannot be written after a change is no error (record_snapshot_or_log).
LEMMA ErrVersion ==
  ASSUME Base, ErrInv, NEW c \in Clients, VersionStep(c)
  PROVE  ErrInv'
<1> USE DEF After, Middle
<1>1. CASE TakeNumber(c)
  BY <1>1, ErrGoto, ErrAnswer DEF TakeNumber, Recorded, trip
<1>2. CASE InsertVersion(c)
  BY <1>2, ErrGoto DEF InsertVersion, Kept
<1>3. CASE InsertCollides(c)
  BY <1>3, ErrGoto, ErrAnswer DEF InsertCollides, trip, history
<1>4. CASE RecordVersion(c)
  BY <1>4, ErrGoto DEF RecordVersion, Recorded, Kept
<1> QED BY <1>1, <1>2, <1>3, <1>4 DEF VersionStep

\* The steps of an edit: what fails, fails before it has written.
LEMMA ErrEdit ==
  ASSUME Base, ErrInv, NEW c \in Clients, EditStep(c)
  PROVE  ErrInv'
<1> USE DEF After, Middle
<1>1. CASE Look(c)
  <2>1. UNCHANGED <<role, there, demoted, wrote>> /\ pc[c] = "look" BY <1>1 DEF Look, trip, history
  <2>2. CASE \E o \in WordOps : GotoWith(c, "begin", o)
    BY <2>1, <2>2, GotoWithMoves, ErrQuiet DEF Base
  <2>3. CASE Answer(c, "broken")
    BY <2>1, <2>3, ErrAnswer
  <2> QED BY <1>1, <2>2, <2>3, Zenon DEF Look
<1>2. CASE BeginEdit(c)
  BY <1>2, ErrGoto DEF BeginEdit, trip, history
<1>3. CASE CommitEdit(c)
  BY <1>3, ErrCommit DEF CommitEdit
<1>4. CASE CommitDelete(c)
  BY <1>4, ErrCommit DEF CommitDelete
<1>5. CASE FailEdit(c)
  BY <1>5, ErrAnswer DEF FailEdit, trip, history
<1>6. CASE Restore(c)
  BY <1>6, ErrCommit, ErrAnswer DEF Restore
<1> QED BY <1>1, <1>2, <1>3, <1>4, <1>5, <1>6 DEF EditStep

\* The steps of the chat.
LEMMA ErrChat ==
  ASSUME Base, ErrInv, NEW c \in Clients, ChatStep(c)
  PROVE  ErrInv'
<1> USE DEF After, Middle
<1>0. UNCHANGED <<role, there, demoted, wrote>>
  BY DEF ChatStep, ChatContext, Propose, SaveTurn, ClearHistory, trip, history
<1>1. CASE ChatContext(c)
  BY <1>0, <1>1, ErrGoto, ErrAnswer DEF ChatContext
<1>2. CASE Propose(c)
  <2>1. ASSUME NEW o, GotoWith(c, "save", o), pc[c] = "propose" PROVE ErrInv'
    BY <1>0, <2>1, GotoWithMoves, ErrQuiet DEF Base
  <2> QED BY <1>0, <1>2, <2>1, ErrAnswer DEF Propose
<1>3. CASE SaveTurn(c) \/ ClearHistory(c)
  BY <1>0, <1>3, ErrAnswer DEF SaveTurn, ClearHistory
<1> QED BY <1>1, <1>2, <1>3 DEF ChatStep

\* The steps that apply a draft.
LEMMA ErrApply ==
  ASSUME Base, ErrInv, NEW c \in Clients, ApplyStep(c)
  PROVE  ErrInv'
<1> USE DEF After, Middle
<1>1. CASE BeginApply(c)
  BY <1>1, ErrGoto, ErrAnswer DEF BeginApply, trip
<1>2. CASE CommitApply(c)
  BY <1>2, ErrCommit DEF CommitApply, Applying
<1>3. CASE FailApply(c)
  BY <1>3, ErrAnswer DEF FailApply, Applying, trip, history
<1> QED BY <1>1, <1>2, <1>3 DEF ApplyStep

\* The members and the readers: whoever loses his role is demoted.
LEMMA ErrRead ==
  ASSUME Base, ErrInv, NEW c \in Clients, ReadStep(c)
  PROVE  ErrInv'
<1> USE DEF After, Middle
<1>u. Me(c) \in Users BY TripEditAssumption DEF Me
<1>1. CASE SetRole(c)
  <2>1. CASE Owns(Me(c)) /\ role[op[c].member] # "none"
    <3> DEFINE m == op[c].member
    <3>1. /\ role' = [role EXCEPT ![m] = op[c].to] /\ demoted' = demoted \cup {m} /\ Goto(c, "evict")
          /\ UNCHANGED <<there, wrote>> /\ pc[c] = "role"
      BY <1>1, <2>1 DEF SetRole
    <3>2. \A u \in Users : Stands(u) => Stands(u)'
      BY <3>1 DEF Stands, ErrInv
    <3>3. c \notin wrote BY <3>1 DEF ErrInv
    <3>4. DOMAIN role' = Users \ {Owner} BY <3>1 DEF ErrInv
    <3>5. Moves(c, "evict", op[c], answer[c]) BY <3>1, GotoMoves DEF Base
    <3> QED BY <3>1, <3>2, <3>3, <3>4, <3>5, ErrKeeps
  <2>2. CASE ~(Owns(Me(c)) /\ role[op[c].member] # "none")
    BY <1>1, <2>2, ErrAnswer DEF SetRole
  <2> QED BY <2>1, <2>2
<1>2. CASE Join(c)
  <2>1. CASE Me(c) # Owner /\ role[Me(c)] = "none" /\ role' = [role EXCEPT ![Me(c)] = op[c].to]
        /\ Answer(c, "ok")
    <3>1. UNCHANGED <<there, wrote, demoted>> /\ pc[c] = "join" BY <1>2 DEF Join, history
    <3>2. \A u \in Users : Stands(u) => Stands(u)'
      BY <2>1, <3>1 DEF Stands, ErrInv
    <3>3. c \notin wrote BY <3>1 DEF ErrInv
    <3>4. DOMAIN role' = Users \ {Owner} BY <2>1 DEF ErrInv
    <3>5. Moves(c, "idle", NoOp, "ok") BY <2>1, AnswerMoves DEF Base
    <3> QED BY <3>1, <3>2, <3>3, <3>4, <3>5, ErrKeeps
  <2>2. CASE UNCHANGED role /\ \E a \in {"ok", "refused"} : Answer(c, a)
    BY <1>2, <2>2, ErrAnswer DEF Join, history
  <2> QED BY <1>2, <2>1, <2>2 DEF Join
<1>3. CASE Evict(c)
  BY <1>3, ErrGoto, ErrAnswer DEF Evict, trip
<1>4. CASE Get(c)
  BY <1>4, ErrGoto, ErrAnswer DEF Get, trip, history
<1>5. CASE Build(c)
  BY <1>5, ErrGoto, ErrAnswer DEF Build, trip
<1>6. CASE Store(c)
  BY <1>6, ErrAnswer DEF Store, trip
<1> QED BY <1>1, <1>2, <1>3, <1>4, <1>5, <1>6 DEF ReadStep

\* Every step keeps the invariant.
LEMMA ErrStep == Base /\ ErrInv /\ [Next]_vars => ErrInv'
<1> SUFFICES ASSUME Base, ErrInv, [Next]_vars PROVE ErrInv' OBVIOUS
<1>1. CASE UNCHANGED vars
  BY <1>1 DEF vars, request, history, trip, ErrInv, ErrorsChangeNothing, Stands, Me
<1>2. ASSUME NEW c \in Clients, Step(c) PROVE ErrInv'
  BY <1>2, ErrStart, ErrVersion, ErrEdit, ErrChat, ErrApply, ErrRead DEF Step
<1> QED BY <1>1, <1>2 DEF Next, Step

\* A request that ends in an error has left the trip as it was, whatever the other tabs do,
\* unless its user lost the trip meanwhile (record_snapshot_or_log; itinerary_command).
THEOREM ErrorsAreHarmless == Spec => []ErrorsChangeNothing
<1>1. Init => Base /\ ErrInv
  BY BaseInit DEF Init, ErrInv, ErrorsChangeNothing, Middle
<1>2. ErrInv => ErrorsChangeNothing BY DEF ErrInv
<1> QED BY <1>1, <1>2, BaseStep, ErrStep, PTL DEF Spec

-----------------------------------------------------------------------------
(* Versions: what an edit is going to replace is in the history, or about to be. *)

\* A list, whatever is in it.
Listed(s) == \E S : s \in Seq(S)

\* What Append does to a list of which only that is known.
LEMMA Appended ==
  ASSUME NEW s, Listed(s), NEW x
  PROVE  LET t == Append(s, x) IN
         /\ Listed(t) /\ Len(t) = Len(s) + 1 /\ Len(s) \in Nat
         /\ DOMAIN t = 1 .. Len(t) /\ DOMAIN s = 1 .. Len(s)
         /\ \A k \in DOMAIN s : k \in DOMAIN t /\ t[k] = s[k]
         /\ Len(s) + 1 \in DOMAIN t /\ t[Len(s) + 1] = x
<1>1. PICK S : s \in Seq(S) BY DEF Listed
<1>2. s \in Seq(S \cup {x}) BY <1>1
<1>3. Append(s, x) \in Seq(S \cup {x}) BY <1>2
<1> QED BY <1>2, <1>3 DEF Listed

\* The requests whose version is part of their transaction.
NoRows == {"apply", "hotel"}
\* The rows are in the history.
InVersions == \E k \in DOMAIN versions : versions[k].trip = Content(rows)
\* What a tab that nobody crossed may rely on, by its place.
Prepared(c) ==
  /\ pc[c] = "insert" => view[c].rows = rows
  /\ pc[c] \in {"look", "begin"} \/ (pc[c] = "commit" /\ op[c].kind \notin NoRows) => InVersions
  /\ Applying(c) => view[c].rows = rows /\ view[c].base = CurrentPlans(rows)
\* Whoever is not crossed is prepared.
CrossInv ==
  /\ DOMAIN view = Clients /\ Listed(versions)
  /\ \A c \in Clients : c \notin crossed => Prepared(c)

\* A step that leaves the rows alone keeps what is prepared.
LEMMA CrossKeeps ==
  ASSUME Base, CrossInv, NEW c \in Clients, NEW l, NEW o, NEW a, Moves(c, l, o, a),
         rows' = rows, crossed \subseteq crossed' \cup {c}, Listed(versions'),
         InVersions => InVersions',
         DOMAIN view' = Clients, \A q \in Clients \ {c} : view'[q] = view[q],
         c \notin crossed' =>
           /\ l = "insert" => view'[c].rows = rows
           /\ l \in {"look", "begin"} \/ (l = "commit" /\ o.kind \notin NoRows) => InVersions'
           /\ l = "commit" /\ o.kind \in NoRows =>
                 view'[c].rows = rows /\ view'[c].base = CurrentPlans(rows)
  PROVE  CrossInv'
<1>0. CurrentPlans(rows)' = CurrentPlans(rows) OBVIOUS
<1>1. ASSUME NEW q \in Clients, q \notin crossed' PROVE Prepared(q)'
  <2>1. CASE q = c BY <1>0, <1>1, <2>1 DEF Prepared, Applying, Moves, NoRows
  <2>2. CASE q # c
    <3>1. Prepared(q) BY <1>1, <2>2 DEF CrossInv
    <3> QED BY <1>0, <2>2, <3>1 DEF Prepared, Applying, Moves
  <2> QED BY <2>1, <2>2
<1> QED BY <1>1 DEF CrossInv

\* A committed change: whoever else was at work is crossed.
LEMMA CrossCommit ==
  ASSUME Base, CrossInv, NEW c \in Clients, NEW l \in {"renumber", "evict", "evictfirst"}, Goto(c, l),
      Committed(c),
         Listed(versions'), DOMAIN view' = Clients
  PROVE  CrossInv'
<1>1. Moves(c, l, op[c], answer[c]) BY GotoMoves DEF Base
<1>2. ASSUME NEW q \in Clients, q \notin crossed' PROVE Prepared(q)'
  <2>1. CASE q = c BY <1>1, <2>1 DEF Prepared, Applying, Moves
  <2>2. CASE q # c
    <3>1. ~Editing(q) BY <1>2, <2>2 DEF Committed
    <3>2. KindOf(q) BY DEF Base
    <3>3. pc[q] \notin {"insert", "look", "begin", "commit"}
      BY <3>1, <3>2 DEF Editing, Writing, KindOf, Transient
    <3> QED BY <1>1, <2>2, <3>3 DEF Prepared, Applying, Moves
  <2> QED BY <2>1, <2>2
<1> QED BY <1>2 DEF CrossInv

\* A tab that reads changes its own view.
LEMMA Viewed ==
  ASSUME DOMAIN view = Clients, NEW c \in Clients, NEW x, view' = [view EXCEPT ![c] = x]
  PROVE  DOMAIN view' = Clients /\ view'[c] = x /\ \A q \in Clients \ {c} : view'[q] = view[q]
OBVIOUS

\* What a transaction reads is what is there.
LEMMA SeenBy ==
  ASSUME DOMAIN view = Clients, NEW c \in Clients, NEW d, SeeWith(c, d)
  PROVE  /\ DOMAIN view' = Clients /\ \A q \in Clients \ {c} : view'[q] = view[q]
         /\ view'[c].rows = rows /\ view'[c].top = Len(versions) /\ view'[c].base = d.base
<1> DEFINE x == [rows |-> rows, seen |-> Len(drafts[Me(c)]), top |-> Len(versions),
                 base |-> d.base, basis |-> d.plan]
<1>1. view' = [view EXCEPT ![c] = x] BY DEF SeeWith
<1>2. x.rows = rows /\ x.top = Len(versions) /\ x.base = d.base OBVIOUS
<1> HIDE DEF x
<1> QED BY <1>1, <1>2, Viewed

\* A step after which the tab is at no place where anything is prepared.
LEMMA CrossIdle ==
  ASSUME Base, CrossInv, NEW c \in Clients, NEW l, NEW o, NEW a, Moves(c, l, o, a),
         UNCHANGED rows, crossed \subseteq crossed' \cup {c}, Listed(versions'),
         InVersions => InVersions',
         (\E x : view' = [view EXCEPT ![c] = x]) \/ UNCHANGED view,
         l \notin Middle
  PROVE  CrossInv'
<1>1. DOMAIN view' = Clients /\ \A q \in Clients \ {c} : view'[q] = view[q] BY Viewed DEF CrossInv
<1> QED BY <1>1, CrossKeeps DEF Middle

\* The same for a step of a request ...
LEMMA CrossGoto ==
  ASSUME Base, CrossInv, NEW c \in Clients, NEW l, Goto(c, l),
         UNCHANGED <<rows, versions, crossed>>,
         (\E x : view' = [view EXCEPT ![c] = x]) \/ UNCHANGED view,
         l \notin Middle
  PROVE  CrossInv'
BY GotoMoves, CrossIdle DEF Base, CrossInv, InVersions

\* ... and for its answer.
LEMMA CrossAnswer ==
  ASSUME Base, CrossInv, NEW c \in Clients, NEW a, Answer(c, a),
         UNCHANGED <<rows, versions, crossed>>,
         (\E x : view' = [view EXCEPT ![c] = x]) \/ UNCHANGED view
  PROVE  CrossInv'
BY AnswerMoves, CrossIdle DEF Base, CrossInv, Middle, InVersions

\* A request that is sent has prepared nothing.
LEMMA CrossStart ==
  ASSUME Base, CrossInv, NEW c \in Clients, Start(c)
  PROVE  CrossInv'
<1>1. PICK o \in Ops : SendEdit(c, o) \/ SendOther(c, o) BY DEF Start
<1>2. o.kind \in Kinds \ (InWords \cup {"none"}) BY OpKinds
<1>3. UNCHANGED <<rows, versions, view>> /\ crossed' = crossed \ {c}
  BY <1>1 DEF SendEdit, SendOther, Send, trip
<1>4. Listed(versions') /\ (InVersions => InVersions')
  BY <1>3 DEF CrossInv, InVersions
<1>5. ASSUME NEW l, NEW x, NEW a, Moves(c, l, x, a), l \notin Middle PROVE CrossInv'
  BY <1>3, <1>4, <1>5, CrossIdle
<1>6. CASE SendEdit(c, o)
  <2>1. CASE GotoWith(c, "number", o) BY <2>1, <1>5, GotoWithMoves DEF Base, Middle
  <2>2. CASE Answer(c, "refused") BY <2>2, <1>5, AnswerMoves DEF Base, Middle
  <2> QED BY <1>6, <2>1, <2>2 DEF SendEdit
<1>7. CASE SendOther(c, o)
  <2>1. GotoWith(c, o.kind, o) /\ o.kind \notin Versioned BY <1>7 DEF SendOther
  <2>2. o.kind \notin Middle BY <1>2, <2>1 DEF Kinds, Middle
  <2> QED BY <2>1, <2>2, <1>5, GotoWithMoves DEF Base
<1> QED BY <1>1, <1>6, <1>7

\* A version that is written holds what the tab has read.
LEMMA KeptIs ==
  ASSUME CrossInv, NEW c \in Clients, Kept(c)
  PROVE  /\ Listed(versions') /\ crossed' = crossed
         /\ InVersions /\ rows' = rows => InVersions'
         /\ view[c].rows = rows /\ rows' = rows => InVersions'
<1> DEFINE v == [parent |-> view[c].top, trip |-> Content(view[c].rows)]
<1>1. versions' = Append(versions, v) /\ crossed' = crossed BY DEF Kept, WithVersion
<1>2. v.trip = Content(view[c].rows) OBVIOUS
<1> HIDE DEF v
<1>3. /\ Listed(versions')
      /\ \A k \in DOMAIN versions : k \in DOMAIN versions' /\ versions'[k] = versions[k]
      /\ \E k \in DOMAIN versions' : versions'[k] = v
  BY <1>1, Appended DEF CrossInv
<1> QED BY <1>1, <1>2, <1>3 DEF InVersions

\* The steps that write a version: after the first one the rows are in the history.
LEMMA CrossVersion ==
  ASSUME Base, CrossInv, NEW c \in Clients, VersionStep(c)
  PROVE  CrossInv'
<1> USE DEF Middle
<1>k. KindOf(c) BY DEF Base
<1>1. CASE TakeNumber(c)
  <2>1. UNCHANGED <<rows, versions, crossed>> BY <1>1 DEF TakeNumber, trip
  <2>2. CASE Writes(Me(c)) /\ pc[c] = "number"
    <3>1. Goto(c, "insert") /\ See(c) BY <1>1, <2>2 DEF TakeNumber
    <3>2. Moves(c, "insert", op[c], answer[c]) BY <3>1, GotoMoves DEF Base
    <3>4. DOMAIN view' = Clients /\ view'[c].rows = rows /\ \A q \in Clients \ {c} : view'[q] = view[q]
      BY <3>1, SeenBy DEF CrossInv, See
    <3>5. Listed(versions') /\ (InVersions => InVersions') BY <2>1 DEF CrossInv, InVersions
    <3> QED BY <2>1, <3>2, <3>4, <3>5, CrossKeeps
  <2>3. CASE Writes(Me(c)) /\ pc[c] # "number"
    <3>1. Goto(c, "reinsert") /\ See(c) BY <1>1, <2>3 DEF TakeNumber
    <3> QED BY <2>1, <3>1, CrossGoto DEF See, SeeWith
  <2>4. CASE ~Writes(Me(c))
    BY <1>1, <2>1, <2>4, CrossGoto, CrossAnswer DEF TakeNumber, Recorded
  <2> QED BY <2>2, <2>3, <2>4
<1>2. CASE InsertVersion(c)
  <2> DEFINE l == IF op[c].kind = "words" THEN "look" ELSE "begin"
  <2>1. Moves(c, l, op[c], answer[c]) /\ Kept(c) /\ rows' = rows /\ Forget(c) /\ pc[c] = "insert"
    BY <1>2, GotoMoves DEF Base, InsertVersion
  <2>2. DOMAIN view' = Clients /\ \A q \in Clients \ {c} : view'[q] = view[q]
    BY <2>1, Viewed DEF CrossInv, Forget
  <2>3. c \notin crossed' => InVersions' BY <2>1, KeptIs DEF CrossInv, Prepared
  <2>4. Listed(versions') /\ (InVersions => InVersions') /\ crossed' = crossed BY <2>1, KeptIs
  <2> HIDE DEF l
  <2>5. l \in {"look", "begin"} BY DEF l
  <2> QED BY <2>1, <2>2, <2>3, <2>4, <2>5, CrossKeeps
<1>3. CASE InsertCollides(c)
  <2>1. UNCHANGED <<rows, versions, crossed>> /\ Forget(c) BY <1>3 DEF InsertCollides, trip, history
  <2> QED BY <1>3, <2>1, CrossGoto, CrossAnswer DEF InsertCollides, Forget
<1>4. CASE RecordVersion(c)
  <2>1. Forget(c) /\ rows' = rows BY <1>4 DEF RecordVersion
  <2>2. CASE NumberTaken(c)
    <3>1. UNCHANGED <<rows, versions, crossed>> BY <1>4, <2>2 DEF RecordVersion
    <3> QED BY <1>4, <2>1, <2>2, <3>1, CrossGoto DEF RecordVersion, Recorded, Forget
  <2>3. CASE ~NumberTaken(c)
    <3>1. Kept(c) /\ Goto(c, Recorded(c)) BY <1>4, <2>3 DEF RecordVersion
    <3>2. Moves(c, Recorded(c), op[c], answer[c]) BY <3>1, GotoMoves DEF Base
    <3>3. Recorded(c) \notin Middle BY DEF Recorded
    <3> QED BY <2>1, <3>1, <3>2, <3>3, KeptIs, CrossIdle DEF Forget
  <2> QED BY <2>2, <2>3
<1> QED BY <1>1, <1>2, <1>3, <1>4 DEF VersionStep

\* The steps of an edit.
LEMMA CrossEdit ==
  ASSUME Base, CrossInv, NEW c \in Clients, EditStep(c)
  PROVE  CrossInv'
<1> USE DEF Middle
<1>k. KindOf(c) BY DEF Base
<1>1. CASE Look(c)
  <2>1. UNCHANGED <<rows, versions, crossed, view>> /\ pc[c] = "look" BY <1>1 DEF Look, trip, history
  <2>2. ASSUME NEW o \in WordOps, GotoWith(c, "begin", o) PROVE CrossInv'
    <3>1. Moves(c, "begin", o, answer[c]) BY <2>2, GotoWithMoves DEF Base
    <3>2. Listed(versions') /\ (InVersions => InVersions') BY <2>1 DEF CrossInv, InVersions
    <3>3. DOMAIN view' = Clients BY <2>1 DEF CrossInv
    <3>4. c \notin crossed' => InVersions' BY <2>1, <3>2 DEF CrossInv, Prepared
    <3> QED BY <2>1, <3>1, <3>2, <3>3, <3>4, CrossKeeps
  <2>3. CASE Answer(c, "broken")
    BY <2>1, <2>3, CrossAnswer
  <2> QED BY <1>1, <2>2, <2>3, Zenon DEF Look
<1>2. CASE BeginEdit(c)
  <2>1. UNCHANGED <<rows, versions, crossed>> /\ pc[c] = "begin" /\ Goto(c, "commit") /\ See(c)
    BY <1>2 DEF BeginEdit, trip, history
  <2>2. Moves(c, "commit", op[c], answer[c]) BY <2>1, GotoMoves DEF Base
  <2>3. DOMAIN view' = Clients /\ \A q \in Clients \ {c} : view'[q] = view[q]
    BY <2>1, Viewed DEF CrossInv, See, SeeWith
  <2>4. Listed(versions') /\ (InVersions => InVersions') BY <2>1 DEF CrossInv, InVersions
  <2>5. c \notin crossed' => InVersions' BY <2>1, <2>4 DEF CrossInv, Prepared
  <2>6. op[c].kind \notin NoRows BY <1>k, <2>1 DEF KindOf, Transient, NoRows, Versioned, ByHand, InWords
  <2> QED BY <2>1, <2>2, <2>3, <2>4, <2>5, <2>6, CrossKeeps
<1>3. CASE CommitEdit(c)
  <2>1. Goto(c, "renumber") /\ Committed(c) /\ Forget(c) /\ UNCHANGED versions BY <1>3 DEF CommitEdit
  <2>2. DOMAIN view' = Clients /\ Listed(versions') BY <2>1, Viewed DEF CrossInv, Forget
  <2> QED BY <2>1, <2>2, CrossCommit
<1>4. CASE CommitDelete(c)
  <2>1. Goto(c, "evict") /\ Committed(c) /\ Forget(c) /\ UNCHANGED versions BY <1>4 DEF CommitDelete
  <2>2. DOMAIN view' = Clients /\ Listed(versions') BY <2>1, Viewed DEF CrossInv, Forget
  <2> QED BY <2>1, <2>2, CrossCommit
<1>5. CASE FailEdit(c)
  BY <1>5, CrossAnswer DEF FailEdit, Forget, trip, history
<1>6. CASE Restore(c)
  <2>1. CASE Writes(Me(c))
    <3>1. Goto(c, "evictfirst") /\ Committed(c) /\ UNCHANGED <<versions, view>>
      BY <1>6, <2>1 DEF Restore
    <3>2. DOMAIN view' = Clients /\ Listed(versions') BY <3>1 DEF CrossInv
    <3> QED BY <3>1, <3>2, CrossCommit
  <2>2. CASE ~Writes(Me(c))
    BY <1>6, <2>2, CrossAnswer DEF Restore
  <2> QED BY <2>1, <2>2
<1> QED BY <1>1, <1>2, <1>3, <1>4, <1>5, <1>6 DEF EditStep

\* The steps of the chat.
LEMMA CrossChat ==
  ASSUME Base, CrossInv, NEW c \in Clients, ChatStep(c)
  PROVE  CrossInv'
<1> USE DEF Middle
<1>1. CASE ChatContext(c)
  <2>1. UNCHANGED <<rows, versions, crossed>> BY <1>1 DEF ChatContext, trip, history
  <2>2. CASE Writes(Me(c)) BY <1>1, <2>1, <2>2, CrossGoto DEF ChatContext
  <2>3. CASE ~Writes(Me(c)) BY <1>1, <2>1, <2>3, CrossAnswer DEF ChatContext
  <2> QED BY <2>2, <2>3
<1>2. CASE Propose(c)
  <2>1. UNCHANGED <<rows, versions, crossed>> /\ Forget(c) BY <1>2 DEF Propose, trip, history
  <2>2. ASSUME NEW o, GotoWith(c, "save", o) PROVE CrossInv'
    <3>1. Moves(c, "save", o, answer[c]) BY <2>2, GotoWithMoves DEF Base
    <3>2. Listed(versions') /\ (InVersions => InVersions') BY <2>1 DEF CrossInv, InVersions
    <3> QED BY <2>1, <3>1, <3>2, CrossIdle DEF Forget
  <2>3. ASSUME NEW a, Answer(c, a) PROVE CrossInv'
    BY <2>1, <2>3, CrossAnswer DEF Forget
  <2> QED BY <1>2, <2>2, <2>3 DEF Propose
<1>3. CASE SaveTurn(c) \/ ClearHistory(c)
  <2>1. UNCHANGED <<rows, versions, crossed, view>> BY <1>3 DEF SaveTurn, ClearHistory, trip, history
  <2> QED BY <1>3, <2>1, CrossAnswer DEF SaveTurn, ClearHistory
<1> QED BY <1>1, <1>2, <1>3 DEF ChatStep

\* The steps that apply a draft: its transaction begins with the plan that the draft is
\* for.
LEMMA CrossApply ==
  ASSUME Base, CrossInv, NEW c \in Clients, ApplyStep(c)
  PROVE  CrossInv'
<1> USE DEF Middle
<1>k. KindOf(c) BY DEF Base
<1>1. CASE BeginApply(c)
  <2>1. UNCHANGED <<rows, versions, crossed>> BY <1>1 DEF BeginApply, trip
  <2>2. CASE Goto(c, "commit") /\ SeeWith(c, drafts[Me(c)][op[c].draft]) /\ PendingAction(Me(c), op[c])
    <3>1. Moves(c, "commit", op[c], answer[c]) BY <2>2, GotoMoves DEF Base
    <3>3. /\ DOMAIN view' = Clients /\ \A q \in Clients \ {c} : view'[q] = view[q]
          /\ view'[c].rows = rows /\ view'[c].base = CurrentPlans(rows)
      BY <2>2, SeenBy DEF CrossInv, PendingAction
    <3>4. Listed(versions') /\ (InVersions => InVersions') BY <2>1 DEF CrossInv, InVersions
    <3>5. op[c].kind \in NoRows BY <1>k, <1>1 DEF KindOf, BeginApply, NoRows
    <3> QED BY <2>1, <3>1, <3>3, <3>4, <3>5, CrossKeeps
  <2>3. CASE Answer(c, "refused") /\ UNCHANGED view
    BY <2>1, <2>3, CrossAnswer
  <2> QED BY <1>1, <2>2, <2>3 DEF BeginApply
<1>2. CASE CommitApply(c)
  <2>1. Goto(c, "evict") /\ Committed(c) /\ Forget(c) BY <1>2 DEF CommitApply
  <2>2. DOMAIN view' = Clients BY <2>1, Viewed DEF CrossInv, Forget
  <2>3. Listed(WithVersion(c)) BY Appended DEF WithVersion, CrossInv
  <2>4. Listed(versions') BY <1>2, <2>3, Appended DEF CommitApply
  <2> QED BY <2>1, <2>2, <2>4, CrossCommit
<1>3. CASE FailApply(c)
  BY <1>3, CrossAnswer DEF FailApply, Forget, trip, history
<1> QED BY <1>1, <1>2, <1>3 DEF ApplyStep

\* The members and the readers.
LEMMA CrossRead ==
  ASSUME Base, CrossInv, NEW c \in Clients, ReadStep(c)
  PROVE  CrossInv'
<1> USE DEF Middle
<1>1. UNCHANGED <<rows, versions, crossed, view>>
  BY DEF ReadStep, SetRole, Join, Evict, Get, Build, Store, trip, history
<1>2. CASE SetRole(c)
  BY <1>1, <1>2, CrossGoto, CrossAnswer DEF SetRole
<1>3. CASE Join(c)
  BY <1>1, <1>3, CrossAnswer DEF Join
<1>4. CASE Evict(c)
  BY <1>1, <1>4, CrossGoto, CrossAnswer DEF Evict
<1>5. CASE Get(c) \/ Build(c) \/ Store(c)
  BY <1>1, <1>5, CrossGoto, CrossAnswer DEF Get, Build, Store
<1> QED BY <1>2, <1>3, <1>4, <1>5 DEF ReadStep

\* Every step keeps what is prepared.
LEMMA CrossStep == Base /\ CrossInv /\ [Next]_vars => CrossInv'
<1> SUFFICES ASSUME Base, CrossInv, [Next]_vars PROVE CrossInv' OBVIOUS
<1>1. CASE UNCHANGED vars
  <2>1. UNCHANGED <<pc, op, view, rows, versions, crossed>> BY <1>1 DEF vars, request, history, trip
  <2> QED BY <2>1 DEF CrossInv, Prepared, Applying, InVersions
<1>2. ASSUME NEW c \in Clients, Step(c) PROVE CrossInv'
  BY <1>2, CrossStart, CrossVersion, CrossEdit, CrossChat, CrossApply, CrossRead DEF Step
<1> QED BY <1>1, <1>2 DEF Next, Step

\* The trip begins with its rows in the first version.
LEMMA CrossInit == Init => CrossInv
<1> SUFFICES ASSUME Init PROVE CrossInv OBVIOUS
<1> DEFINE v == [parent |-> 0, trip |-> Content(rows)]
<1>1. versions = <<v>> BY DEF Init
<1> HIDE DEF v
<1>2. Listed(versions)
  <2>1. <<v>> \in Seq({v}) OBVIOUS
  <2> QED BY <1>1, <2>1 DEF Listed
<1> QED BY <1>2 DEF Init, CrossInv, Prepared, Applying

\* A commit that nothing crossed replaces rows that the history has.
LEMMA UndoStep ==
  Base /\ CrossInv /\ [Next]_vars => (Replaced /\ ~Restoring => InHistory(rows))
<1> SUFFICES ASSUME Base, CrossInv, [Next]_vars, Replaced, ~Restoring PROVE InHistory(rows) OBVIOUS
<1>1. rows' # rows /\ ~torn' BY DEF Replaced
<1>2. PICK c \in Clients : Step(c) BY <1>1 DEF Next, Step, vars, trip
<1>k. KindOf(c) BY DEF Base
<1>3. ~Restore(c)
  <2>1. Restore(c) => Goto(c, "evictfirst") \/ UNCHANGED rows BY DEF Restore
  <2>2. Goto(c, "evictfirst") => pc'[c] = "evictfirst" BY DEF Base, Shape, Goto
  <2> QED BY <1>1, <2>1, <2>2 DEF Restoring, Restore
<1>4. CommitEdit(c) \/ CommitDelete(c) \/ CommitApply(c)
  <2>1. CASE Start(c) BY <1>1, <2>1 DEF Start, SendEdit, SendOther, Send, trip
  <2>2. CASE VersionStep(c)
    BY <1>1, <2>2 DEF VersionStep, TakeNumber, InsertVersion, InsertCollides, RecordVersion, trip
  <2>3. CASE EditStep(c) BY <1>1, <1>3, <2>3 DEF EditStep, Look, BeginEdit, FailEdit, trip
  <2>4. CASE ChatStep(c) BY <1>1, <2>4 DEF ChatStep, ChatContext, Propose, SaveTurn, ClearHistory, trip
  <2>5. CASE ApplyStep(c) BY <1>1, <2>5 DEF ApplyStep, BeginApply, FailApply, trip
  <2>6. CASE ReadStep(c) BY <1>1, <2>6 DEF ReadStep, SetRole, Join, Evict, Get, Build, Store, trip
  <2> QED BY <1>2, <2>1, <2>2, <2>3, <2>4, <2>5, <2>6 DEF Step
<1>5. c \notin crossed BY <1>1, <1>4 DEF CommitEdit, CommitDelete, CommitApply, Committed
<1>6. Prepared(c) BY <1>5 DEF CrossInv
<1>7. CASE CommitEdit(c) \/ CommitDelete(c)
  <2>1. pc[c] = "commit" /\ UNCHANGED versions /\ op[c].kind \notin NoRows
    BY <1>7 DEF CommitEdit, CommitDelete, NoRows, ByHand, InWords
  <2> QED BY <1>6, <2>1 DEF Prepared, InVersions, InHistory
<1>8. CASE CommitApply(c)
  <2> DEFINE v == [parent |-> view[c].top, trip |-> Content(view[c].rows)]
             w == [parent |-> view[c].top + 1, trip |-> Content(Applied(c))]
  <2>1. view[c].rows = rows BY <1>6, <1>8 DEF Prepared, CommitApply
  <2>2. versions' = Append(Append(versions, v), w) BY <1>8 DEF CommitApply, WithVersion
  <2>3. v.trip = Content(rows) BY <2>1
  <2> HIDE DEF v, w
  <2>4. Listed(Append(versions, v)) /\ \E k \in DOMAIN Append(versions, v) : Append(versions, v)[k] = v
    BY Appended DEF CrossInv
  <2>5. \E k \in DOMAIN versions' : versions'[k] = v BY <2>2, <2>4, Appended
  <2> QED BY <2>3, <2>5 DEF InHistory
<1> QED BY <1>4, <1>7, <1>8

\* What an edit or a draft replaces is in the history, from where restore brings it back,
\* unless two edits have crossed (create_snapshot before the change).
THEOREM EditsCanBeUndone == Spec => EditsUndoable
<1>1. Init => Base /\ CrossInv BY BaseInit, CrossInit
<1> QED BY <1>1, BaseStep, CrossStep, UndoStep, PTL DEF Spec, EditsUndoable

-----------------------------------------------------------------------------
(* Drafts. *)

\* A draft that was applied is not pending, and no draft was applied twice.
Once(d) == d.times \in {0, 1} /\ (d.kind # "none" => d.times = 0)
\* The draft that a transaction applies: not applied yet, unless the history has grown.
Intact(c) ==
  /\ op[c].draft \in DOMAIN drafts[Me(c)] /\ view[c].top \in Nat /\ view[c].top <= Len(versions)
  /\ view[c].top = Len(versions) => drafts[Me(c)][op[c].draft].times = 0
\* Every draft is in order, and so is what is made of it.
DraftInv ==
  /\ DOMAIN drafts = Users /\ DOMAIN view = Clients /\ Listed(versions)
  /\ \A u \in Users : Listed(drafts[u])
  /\ \A u \in Users : \A k \in DOMAIN drafts[u] : Once(drafts[u][k])
  /\ \A c \in Clients : pc[c] = "save" => Once(op[c])
  /\ \A c \in Clients : Applying(c) => Intact(c)

\* What drafts and versions may become in a step.
Carried ==
  /\ DOMAIN drafts' = Users /\ Listed(versions')
  /\ \A u \in Users : Listed(drafts'[u])
  /\ \A u \in Users : \A k \in DOMAIN drafts'[u] : Once(drafts'[u][k])
  /\ Len(versions) \in Nat /\ Len(versions') \in Nat /\ Len(versions) <= Len(versions')
  /\ \A u \in Users : \A k \in DOMAIN drafts[u] :
       k \in DOMAIN drafts'[u] /\ (versions' = versions => drafts'[u][k].times = drafts[u][k].times)
  /\ versions' = versions \/ Len(versions) < Len(versions')

\* A move keeps the drafts in order, if it carries them over.
LEMMA DraftMoves ==
  ASSUME Base, DraftInv, NEW c \in Clients, NEW l, NEW o, NEW a, Moves(c, l, o, a), Carried,
         DOMAIN view' = Clients, \A q \in Clients \ {c} : view'[q] = view[q],
         l = "save" => Once(o),
         l = "commit" /\ o.kind \in NoRows =>
           o.draft \in DOMAIN drafts'[Me(c)] /\ view'[c].top = Len(versions')
           /\ drafts'[Me(c)][o.draft].times = 0
  PROVE  DraftInv'
<1>u. \A q \in Clients : Me(q) \in Users /\ Me(q)' = Me(q) BY TripEditAssumption DEF Me
<1>1. ASSUME NEW q \in Clients, pc'[q] = "save" PROVE Once(op'[q])
  BY <1>1 DEF DraftInv, Moves
<1>2. ASSUME NEW q \in Clients, Applying(q)' PROVE Intact(q)'
  <2>1. CASE q = c BY <1>u, <1>2, <2>1 DEF Applying, Intact, Moves, Carried, NoRows
  <2>2. CASE q # c
    <3>1. Applying(q) BY <1>2, <2>2 DEF Applying, Moves
    <3>2. Intact(q) BY <3>1 DEF DraftInv
    <3>3. op'[q] = op[q] /\ view'[q] = view[q] BY <2>2 DEF Moves
    <3>4. op[q].draft \in DOMAIN drafts[Me(q)] /\ view[q].top \in Nat /\ view[q].top <= Len(versions)
      BY <3>2 DEF Intact
    <3>5. op[q].draft \in DOMAIN drafts'[Me(q)] /\ view[q].top <= Len(versions')
      BY <1>u, <3>4 DEF Carried
    <3>6. ASSUME view[q].top = Len(versions') PROVE drafts'[Me(q)][op[q].draft].times = 0
      <4>1. versions' = versions BY <3>4, <3>6 DEF Carried
      <4> QED BY <1>u, <3>2, <3>4, <3>6, <4>1 DEF Carried, Intact
    <3> QED BY <1>u, <3>3, <3>4, <3>5, <3>6 DEF Intact
  <2> QED BY <2>1, <2>2
<1> QED BY <1>1, <1>2 DEF DraftInv, Carried

\* A step that leaves the drafts alone carries them over ...
LEMMA CarriedQuiet ==
  ASSUME DraftInv, NEW c \in Clients, drafts' = drafts, versions' = versions \/ Kept(c)
  PROVE  Carried
<1>1. CASE versions' = versions
  BY <1>1, Appended DEF Carried, DraftInv
<1>2. CASE Kept(c)
  <2> DEFINE v == [parent |-> view[c].top, trip |-> Content(view[c].rows)]
  <2>1. versions' = Append(versions, v) BY <1>2 DEF Kept, WithVersion
  <2> HIDE DEF v
  <2> QED BY <2>1, Appended DEF Carried, DraftInv
<1> QED BY <1>1, <1>2

\* ... and keeps them in order.
LEMMA DraftGoto ==
  ASSUME Base, DraftInv, NEW c \in Clients, NEW l, NEW o, NEW a, Moves(c, l, o, a),
         drafts' = drafts, versions' = versions \/ Kept(c),
         (\E x : view' = [view EXCEPT ![c] = x]) \/ UNCHANGED view,
         l # "save", l = "commit" => o.kind \notin NoRows
  PROVE  DraftInv'
<1>1. DOMAIN view' = Clients /\ \A q \in Clients \ {c} : view'[q] = view[q] BY Viewed DEF DraftInv
<1> QED BY <1>1, CarriedQuiet, DraftMoves

\* A spent draft keeps its count.
LEMMA SpendOnce ==
  ASSUME NEW d, Once(d)
  PROVE  Once(Spend(d)) /\ Spend(d).times = d.times
BY DEF Spend, Spent, Once

\* A list whose members are replaced one by one is a list.
LEMMA SameLength ==
  ASSUME NEW s, Listed(s), NEW t, t = [k \in DOMAIN s |-> t[k]]
  PROVE  Listed(t)
<1>1. PICK S : s \in Seq(S) BY DEF Listed
<1>2. DOMAIN s = 1 .. Len(s) /\ Len(s) \in Nat BY <1>1
<1>3. t \in Seq({t[k] : k \in DOMAIN s}) BY <1>2
<1> QED BY <1>3 DEF Listed

\* The drafts of one user give way to others.
LEMMA CarriedBy ==
  ASSUME DraftInv, NEW u \in Users, NEW t, drafts' = [drafts EXCEPT ![u] = t],
         Listed(t), \A k \in DOMAIN t : Once(t[k]),
         \A k \in DOMAIN drafts[u] : k \in DOMAIN t /\ t[k].times = drafts[u][k].times,
         versions' = versions
  PROVE  Carried
<1>1. Len(versions) \in Nat BY Appended DEF DraftInv
<1>2. DOMAIN drafts' = Users /\ drafts'[u] = t /\ \A v \in Users \ {u} : drafts'[v] = drafts[v]
  BY DEF DraftInv
<1> QED BY <1>1, <1>2 DEF Carried, DraftInv

\* All drafts of a user are spent (finalize_chat_turn, clear_history, delete_cascade).
LEMMA SpendAllOnce ==
  ASSUME DraftInv, NEW u \in Users
  PROVE  LET t == SpendAll(u) IN
         /\ Listed(t) /\ DOMAIN t = DOMAIN drafts[u]
         /\ \A k \in DOMAIN t : Once(t[k]) /\ t[k].times = drafts[u][k].times
<1> DEFINE t == SpendAll(u)
<1>1. t = [k \in DOMAIN drafts[u] |-> Spend(drafts[u][k])] BY DEF SpendAll
<1>2. DOMAIN t = DOMAIN drafts[u] /\ \A k \in DOMAIN t : t[k] = Spend(drafts[u][k]) BY <1>1
<1>3. t = [k \in DOMAIN drafts[u] |-> t[k]] BY <1>1
<1> HIDE DEF t
<1>4. Listed(t) BY <1>3, SameLength DEF DraftInv
<1>5. \A k \in DOMAIN t : Once(t[k]) /\ t[k].times = drafts[u][k].times
  BY <1>2, SpendOnce DEF DraftInv
<1> QED BY <1>2, <1>4, <1>5 DEF t

\* The drafts that an edit has seen are spent (invalidate_pending_actions).
LEMMA InvalidateCarries ==
  ASSUME DraftInv, NEW c \in Clients, Invalidate(c), versions' = versions
  PROVE  Carried
<1> DEFINE u == Me(c)
           t == [k \in DOMAIN drafts[u] |->
                   IF k <= view[c].seen THEN Spend(drafts[u][k]) ELSE drafts[u][k]]
<1>0. u \in Users BY TripEditAssumption DEF Me
<1>1. drafts' = [drafts EXCEPT ![u] = t] BY DEF Invalidate
<1>2. DOMAIN t = DOMAIN drafts[u] /\ t = [k \in DOMAIN drafts[u] |-> t[k]] OBVIOUS
<1>3. \A k \in DOMAIN t : t[k] = Spend(drafts[u][k]) \/ t[k] = drafts[u][k] OBVIOUS
<1> HIDE DEF t
<1>4. \A k \in DOMAIN t : Once(t[k]) /\ t[k].times = drafts[u][k].times
  BY <1>0, <1>2, <1>3, SpendOnce DEF DraftInv
<1>5. Listed(t) BY <1>0, <1>2, SameLength DEF DraftInv
<1> HIDE DEF u
<1> QED BY <1>0, <1>1, <1>2, <1>4, <1>5, CarriedBy

\* A request that is sent.
LEMMA DraftStart ==
  ASSUME Base, DraftInv, NEW c \in Clients, Start(c)
  PROVE  DraftInv'
<1>1. PICK o \in Ops : SendEdit(c, o) \/ SendOther(c, o) BY DEF Start
<1>2. o.kind \in Kinds \ (InWords \cup {"none"}) BY OpKinds
<1>3. UNCHANGED <<drafts, versions, view>> BY <1>1 DEF SendEdit, SendOther, Send, trip
<1>4. ASSUME NEW l, NEW x, NEW a, Moves(c, l, x, a), l \notin {"save", "commit"} PROVE DraftInv'
  BY <1>3, <1>4, DraftGoto
<1>5. CASE SendEdit(c, o)
  <2>1. CASE GotoWith(c, "number", o) BY <2>1, <1>4, GotoWithMoves DEF Base
  <2>2. CASE Answer(c, "refused") BY <2>2, <1>4, AnswerMoves DEF Base
  <2> QED BY <1>5, <2>1, <2>2 DEF SendEdit
<1>6. CASE SendOther(c, o)
  <2>1. GotoWith(c, o.kind, o) /\ o.kind \notin Versioned BY <1>6 DEF SendOther
  <2>2. o.kind \notin {"save", "commit"} BY <1>2, <2>1 DEF Kinds
  <2> QED BY <2>1, <2>2, <1>4, GotoWithMoves DEF Base
<1> QED BY <1>1, <1>5, <1>6

\* The steps that write a version: the history only grows.
LEMMA DraftVersion ==
  ASSUME Base, DraftInv, NEW c \in Clients, VersionStep(c)
  PROVE  DraftInv'
<1>0. drafts' = drafts BY DEF VersionStep, TakeNumber, InsertVersion, InsertCollides, RecordVersion
<1>1. versions' = versions \/ Kept(c)
  BY DEF VersionStep, TakeNumber, InsertVersion, InsertCollides, RecordVersion, trip
<1>2. (\E x : view' = [view EXCEPT ![c] = x]) \/ UNCHANGED view
  BY DEF VersionStep, TakeNumber, InsertVersion, InsertCollides, RecordVersion, See, SeeWith, Forget
<1>3. ASSUME NEW l, Goto(c, l), l \notin {"save", "commit"} PROVE DraftInv'
  BY <1>0, <1>1, <1>2, <1>3, GotoMoves, DraftGoto DEF Base
<1>4. ASSUME NEW a, Answer(c, a) PROVE DraftInv'
  BY <1>0, <1>1, <1>2, <1>4, AnswerMoves, DraftGoto DEF Base
<1>5. Recorded(c) \notin {"save", "commit"} BY DEF Recorded
<1>6. CASE TakeNumber(c) BY <1>3, <1>4, <1>5, <1>6 DEF TakeNumber
<1>7. CASE InsertVersion(c) BY <1>3, <1>7 DEF InsertVersion
<1>8. CASE InsertCollides(c) BY <1>3, <1>4, <1>8 DEF InsertCollides
<1>9. CASE RecordVersion(c) BY <1>3, <1>5, <1>9 DEF RecordVersion
<1> QED BY <1>6, <1>7, <1>8, <1>9 DEF VersionStep

\* The steps of an edit.
LEMMA DraftEdit ==
  ASSUME Base, DraftInv, NEW c \in Clients, EditStep(c)
  PROVE  DraftInv'
<1>k. KindOf(c) BY DEF Base
<1>q. ASSUME drafts' = drafts, versions' = versions,
             (\E x : view' = [view EXCEPT ![c] = x]) \/ UNCHANGED view
      PROVE  /\ \A l : /\ Goto(c, l)
                      /\ l # "save" /\ (l = "commit" => op[c].kind \notin NoRows)
                      => DraftInv'
             /\ \A a : Answer(c, a) => DraftInv'
             /\ \A l, o : GotoWith(c, l, o) /\ l \notin {"save", "commit"} => DraftInv'
  BY <1>q, GotoMoves, GotoWithMoves, AnswerMoves, DraftGoto DEF Base
<1>1. CASE Look(c)
  <2>1. UNCHANGED <<drafts, versions, view>> BY <1>1 DEF Look, trip
  <2> QED BY <1>1, <2>1, <1>q, Zenon DEF Look
<1>2. CASE BeginEdit(c)
  <2>1. UNCHANGED <<drafts, versions>> BY <1>2 DEF BeginEdit, trip
  <2>2. op[c].kind \notin NoRows
    BY <1>k, <1>2 DEF KindOf, BeginEdit, Transient, NoRows, Versioned, ByHand, InWords
  <2> QED BY <1>2, <2>1, <2>2, <1>q DEF BeginEdit, See, SeeWith
<1>3. CASE FailEdit(c)
  <2>1. UNCHANGED <<drafts, versions>> BY <1>3 DEF FailEdit, trip
  <2> QED BY <1>3, <2>1, <1>q DEF FailEdit, Forget
<1>4. CASE Restore(c)
  <2>1. UNCHANGED <<drafts, versions, view>> BY <1>4 DEF Restore
  <2> QED BY <1>4, <2>1, <1>q DEF Restore
<1>5. ASSUME NEW l \in {"renumber", "evict"}, Goto(c, l), Forget(c), Carried PROVE DraftInv'
  <2>1. Moves(c, l, op[c], answer[c]) BY <1>5, GotoMoves DEF Base
  <2>2. DOMAIN view' = Clients /\ \A q \in Clients \ {c} : view'[q] = view[q]
    BY <1>5, Viewed DEF DraftInv, Forget
  <2> QED BY <1>5, <2>1, <2>2, DraftMoves
<1>6. CASE CommitEdit(c)
  <2>1. Carried BY <1>6, InvalidateCarries DEF CommitEdit
  <2> QED BY <1>5, <1>6, <2>1 DEF CommitEdit
<1>7. CASE CommitDelete(c)
  <2>1. drafts' = [u \in Users |-> SpendAll(u)] /\ versions' = versions BY <1>7 DEF CommitDelete
  <2>2. Len(versions) \in Nat BY Appended DEF DraftInv
  <2>3. DOMAIN drafts' = Users /\ \A u \in Users : drafts'[u] = SpendAll(u) BY <2>1
  <2>4. Carried BY <2>1, <2>2, <2>3, SpendAllOnce DEF Carried, DraftInv
  <2> QED BY <1>5, <1>7, <2>4 DEF CommitDelete
<1> QED BY <1>1, <1>2, <1>3, <1>4, <1>6, <1>7 DEF EditStep

\* The steps of the chat: a new draft was never applied.
LEMMA DraftChat ==
  ASSUME Base, DraftInv, NEW c \in Clients, ChatStep(c)
  PROVE  DraftInv'
<1>u. Me(c) \in Users BY TripEditAssumption DEF Me
<1>0. versions' = versions BY DEF ChatStep, ChatContext, Propose, SaveTurn, ClearHistory, trip
<1>v. (\E x : view' = [view EXCEPT ![c] = x]) \/ UNCHANGED view
  BY DEF ChatStep, ChatContext, Propose, SaveTurn, ClearHistory, Forget
<1>w. DOMAIN view' = Clients /\ \A q \in Clients \ {c} : view'[q] = view[q] BY <1>v, Viewed DEF DraftInv
<1>1. CASE ChatContext(c)
  <2>1. drafts' = drafts BY <1>1 DEF ChatContext
  <2>2. CASE Goto(c, "propose") BY <1>0, <1>v, <2>1, <2>2, GotoMoves, DraftGoto DEF Base
  <2>3. CASE Answer(c, "refused") BY <1>0, <1>v, <2>1, <2>3, AnswerMoves, DraftGoto DEF Base
  <2> QED BY <1>1, <2>2, <2>3 DEF ChatContext
<1>2. CASE Propose(c)
  <2>1. drafts' = drafts BY <1>2 DEF Propose
  <2>2. ASSUME NEW o, Once(o), GotoWith(c, "save", o) PROVE DraftInv'
    <3>1. Moves(c, "save", o, answer[c]) BY <2>2, GotoWithMoves DEF Base
    <3>2. Carried BY <1>0, <2>1, CarriedQuiet
    <3> QED BY <1>w, <2>2, <3>1, <3>2, DraftMoves
  <2>3. ASSUME NEW p PROVE Once(PlanDraft(c, p)) BY DEF PlanDraft, Spent, Once
  <2>4. ASSUME NEW h PROVE Once(HotelDraft(c, h)) BY DEF HotelDraft, Spent, Once
  <2>5. ASSUME NEW a, Answer(c, a) PROVE DraftInv'
    BY <1>0, <1>v, <2>1, <2>5, AnswerMoves, DraftGoto DEF Base
  <2> QED BY <1>2, <2>2, <2>3, <2>4, <2>5 DEF Propose
<1>3. ASSUME Carried, NEW a, Answer(c, a) PROVE DraftInv'
  <2>1. Moves(c, "idle", NoOp, a) BY <1>3, AnswerMoves DEF Base
  <2> QED BY <1>w, <1>3, <2>1, DraftMoves
<1>4. CASE SaveTurn(c)
  <2> DEFINE s == SpendAll(Me(c))
             t == Append(s, op[c])
  <2>1. drafts' = [drafts EXCEPT ![Me(c)] = t] /\ Once(op[c]) BY <1>4 DEF SaveTurn, DraftInv
  <2>2. /\ Listed(s) /\ DOMAIN s = DOMAIN drafts[Me(c)]
        /\ \A k \in DOMAIN s : Once(s[k]) /\ s[k].times = drafts[Me(c)][k].times
    BY <1>u, SpendAllOnce
  <2> HIDE DEF s
  <2>3. /\ Listed(t) /\ \A k \in DOMAIN s : k \in DOMAIN t /\ t[k] = s[k]
        /\ \A k \in DOMAIN t : k \in DOMAIN s \/ t[k] = op[c]
    <3>1. /\ Listed(t) /\ Len(t) = Len(s) + 1 /\ Len(s) \in Nat
          /\ DOMAIN t = 1 .. Len(t) /\ DOMAIN s = 1 .. Len(s)
          /\ \A k \in DOMAIN s : k \in DOMAIN t /\ t[k] = s[k]
          /\ Len(s) + 1 \in DOMAIN t /\ t[Len(s) + 1] = op[c]
      BY <2>2, Appended
    <3> HIDE DEF t
    <3>2. \A k \in DOMAIN t : k \in DOMAIN s \/ k = Len(s) + 1 BY <3>1
    <3> QED BY <3>1, <3>2
  <2> HIDE DEF t
  <2>4. \A k \in DOMAIN t : Once(t[k]) BY <2>1, <2>2, <2>3
  <2>5. \A k \in DOMAIN drafts[Me(c)] : k \in DOMAIN t /\ t[k].times = drafts[Me(c)][k].times
    BY <2>2, <2>3
  <2>6. Carried BY <1>0, <1>u, <2>1, <2>3, <2>4, <2>5, CarriedBy
  <2> QED BY <1>3, <1>4, <2>6 DEF SaveTurn
<1>5. CASE ClearHistory(c)
  <2>1. CASE drafts' = [drafts EXCEPT ![Me(c)] = SpendAll(Me(c))]
    <3>1. Carried BY <1>0, <1>u, <2>1, SpendAllOnce, CarriedBy
    <3> QED BY <1>3, <1>5, <3>1 DEF ClearHistory
  <2>2. CASE drafts' = drafts
    BY <1>0, <1>3, <1>5, <2>2, CarriedQuiet DEF ClearHistory
  <2> QED BY <1>5, <2>1, <2>2 DEF ClearHistory
<1> QED BY <1>1, <1>2, <1>4, <1>5 DEF ChatStep

\* The steps that apply a draft: it is pending when the transaction begins, and the number
\* of the version tells whether another one came first (consume_pending_action).
LEMMA DraftApply ==
  ASSUME Base, DraftInv, NEW c \in Clients, ApplyStep(c)
  PROVE  DraftInv'
<1>u. Me(c) \in Users BY TripEditAssumption DEF Me
<1>l. Len(versions) \in Nat BY Appended DEF DraftInv
<1>1. CASE BeginApply(c)
  <2>1. UNCHANGED <<drafts, versions>> BY <1>1 DEF BeginApply, trip
  <2>2. CASE Goto(c, "commit") /\ SeeWith(c, drafts[Me(c)][op[c].draft]) /\ PendingAction(Me(c), op[c])
    <3>1. Moves(c, "commit", op[c], answer[c]) BY <2>2, GotoMoves DEF Base
    <3>2. /\ DOMAIN view' = Clients /\ \A q \in Clients \ {c} : view'[q] = view[q]
          /\ view'[c].top = Len(versions)
      BY <2>2, SeenBy DEF DraftInv
    <3>3. op[c].draft \in DOMAIN drafts[Me(c)] /\ drafts[Me(c)][op[c].draft].kind # "none"
      BY <2>2 DEF PendingAction, PendingActionAnyBase, Pending
    <3>4. drafts[Me(c)][op[c].draft].times = 0 BY <1>u, <3>3 DEF DraftInv, Once
    <3>5. Carried BY <2>1, CarriedQuiet
    <3> QED BY <2>1, <3>1, <3>2, <3>3, <3>4, <3>5, DraftMoves
  <2>3. CASE Answer(c, "refused") /\ UNCHANGED view
    BY <2>1, <2>3, AnswerMoves, DraftGoto DEF Base
  <2> QED BY <1>1, <2>2, <2>3 DEF BeginApply
<1>2. CASE CommitApply(c)
  <2> DEFINE k == op[c].draft
             x == [Spent EXCEPT !.times = drafts[Me(c)][k].times + 1]
             old == drafts[Me(c)]
             new == [old EXCEPT ![k] = x]
  <2>1. Goto(c, "evict") /\ Forget(c) /\ Applying(c) /\ ~NumberTaken(c)
    BY <1>2 DEF CommitApply, ApplyRaises
  <2>2. drafts' = [drafts EXCEPT ![Me(c)] = new]
    BY <1>2 DEF CommitApply
  <2>3. k \in DOMAIN old /\ old[k].times = 0 BY <2>1 DEF DraftInv, Intact, NumberTaken
  <2>4. Once(x) BY <2>3 DEF Once, Spent
  <2>5. Listed(old) /\ \A j \in DOMAIN old : Once(old[j]) BY <1>u DEF DraftInv
  <2> HIDE DEF x, old, k
  <2>6. DOMAIN new = DOMAIN old /\ new = [j \in DOMAIN old |-> new[j]]
        /\ \A j \in DOMAIN new : new[j] = old[j] \/ new[j] = x
    BY <2>3
  <2> HIDE DEF new
  <2>7. Listed(new) /\ \A j \in DOMAIN new : Once(new[j]) BY <2>4, <2>5, <2>6, SameLength
  <2>8. DOMAIN drafts' = Users /\ drafts'[Me(c)] = new
        /\ \A v \in Users \ {Me(c)} : drafts'[v] = drafts[v]
    BY <1>u, <2>2 DEF DraftInv
  <2>9. Listed(WithVersion(c)) /\ Len(WithVersion(c)) = Len(versions) + 1
    BY Appended DEF WithVersion, DraftInv
  <2>10. Listed(versions') /\ Len(versions') = Len(versions) + 2
    BY <1>2, <1>l, <2>9, Appended DEF CommitApply
  <2>11. Len(versions) < Len(versions') /\ Len(versions') \in Nat /\ versions' # versions
    BY <1>l, <2>10
  <2>12. Carried
    BY <1>l, <2>6, <2>7, <2>8, <2>10, <2>11 DEF Carried, DraftInv, old
  <2>13. Moves(c, "evict", op[c], answer[c]) BY <2>1, GotoMoves DEF Base
  <2>14. DOMAIN view' = Clients /\ \A q \in Clients \ {c} : view'[q] = view[q]
    BY <2>1, Viewed DEF DraftInv, Forget
  <2> QED BY <2>12, <2>13, <2>14, DraftMoves
<1>3. CASE FailApply(c)
  <2>1. UNCHANGED <<drafts, versions>> BY <1>3 DEF FailApply, trip
  <2> QED BY <1>3, <2>1, AnswerMoves, DraftGoto DEF Base, FailApply, Forget
<1> QED BY <1>1, <1>2, <1>3 DEF ApplyStep

\* The members and the readers.
LEMMA DraftRead ==
  ASSUME Base, DraftInv, NEW c \in Clients, ReadStep(c)
  PROVE  DraftInv'
<1>0. UNCHANGED <<drafts, versions, view>>
  BY DEF ReadStep, SetRole, Join, Evict, Get, Build, Store, trip
<1>1. ASSUME NEW l, Goto(c, l), l \notin {"save", "commit"} PROVE DraftInv'
  BY <1>0, <1>1, GotoMoves, DraftGoto DEF Base
<1>2. ASSUME NEW a, Answer(c, a) PROVE DraftInv'
  BY <1>0, <1>2, AnswerMoves, DraftGoto DEF Base
<1>3. CASE SetRole(c) BY <1>1, <1>2, <1>3 DEF SetRole
<1>4. CASE Join(c) BY <1>2, <1>4 DEF Join
<1>5. CASE Evict(c) BY <1>1, <1>2, <1>5 DEF Evict
<1>6. CASE Get(c) \/ Build(c) \/ Store(c) BY <1>1, <1>2, <1>6 DEF Get, Build, Store
<1> QED BY <1>3, <1>4, <1>5, <1>6 DEF ReadStep

\* Every step keeps the drafts in order.
LEMMA DraftStep == Base /\ DraftInv /\ [Next]_vars => DraftInv'
<1> SUFFICES ASSUME Base, DraftInv, [Next]_vars PROVE DraftInv' OBVIOUS
<1>1. CASE UNCHANGED vars
  <2>1. UNCHANGED <<pc, op, view, drafts, versions>> BY <1>1 DEF vars, request, trip
  <2> QED BY <2>1 DEF DraftInv, Applying, Intact, Me
<1>2. ASSUME NEW c \in Clients, Step(c) PROVE DraftInv'
  BY <1>2, DraftStart, DraftVersion, DraftEdit, DraftChat, DraftApply, DraftRead DEF Step
<1> QED BY <1>1, <1>2 DEF Next, Step

\* There is no draft at the beginning.
LEMMA DraftInit == Init => DraftInv
<1> SUFFICES ASSUME Init PROVE DraftInv OBVIOUS
<1>1. Listed(versions) BY CrossInit DEF CrossInv
<1>2. Listed(<<>>)
  <2>1. <<>> \in Seq({}) OBVIOUS
  <2> QED BY <2>1 DEF Listed
<1> QED BY <1>1, <1>2 DEF Init, DraftInv, Applying

\* A draft is applied once, also from two tabs at the same time, and to the plan it was
\* made for, unless an edit crossed it (require_pending_action, consume_pending_action,
\* uk_itinerary_version).
THEOREM DraftsAreAppliedOnce == Spec => AppliedToItsBase
<1>1. Init => Base /\ CrossInv /\ DraftInv BY BaseInit, CrossInit, DraftInit
<1>2. CrossInv /\ DraftInv' =>
        /\ \A u \in Users : \A k \in DOMAIN drafts'[u] : drafts'[u][k].times <= 1
        /\ \A c \in Clients \ (wrote \cup crossed) :
             Applying(c) /\ c \in wrote' => view[c].base = CurrentPlans(rows)
  BY DEF CrossInv, Prepared, DraftInv, Once
<1> QED BY <1>1, <1>2, BaseStep, CrossStep, DraftStep, PTL DEF Spec, AppliedToItsBase

-----------------------------------------------------------------------------
(* The cache. *)

\* An eviction that a tab still owes, and to whom.
Owing(l, o) == l \in {"evict", "evictfirst"} \/ (l \in {"renumber", "reinsert"} /\ o.kind # "restore")
Owes(c) == Owing(pc[c], op[c])
Target(c) == IF op[c].kind = "role" THEN {op[c].member} ELSE Readers(Me(c))
OwedTo(u) == \E c \in Clients : Owes(c) /\ u \in Target(c)
\* What is cached, or held by a tab that is not late, is what its reader would be shown.
CacheInv ==
  /\ DOMAIN cached = Users /\ DOMAIN built = Clients /\ DOMAIN role = Users \ {Owner}
  /\ \A u \in Users :
       cached[u] = Nothing \/ OwedTo(u) \/ u \in suspect \/ (Reads(u) /\ cached[u] = Detail(u))
  /\ \A c \in Clients, u \in Users :
       pc[c] = "store" /\ c \notin late /\ u = Me(c) => OwedTo(u) \/ (Reads(u) /\ built[c] = Detail(u))

\* What is owed is due.
LEMMA OwedIsDue == ASSUME NEW u, OwedTo(u) PROVE Due(u)
BY DEF OwedTo, Owes, Owing, Due, Target, Subject

\* What a reader is shown depends on the rows, the budget, the trip and the members.
LEMMA SameTruth ==
  ASSUME UNCHANGED <<rows, bill, there, role>>, NEW u
  PROVE  Reads(u)' = Reads(u) /\ Detail(u)' = Detail(u) /\ Readers(u)' = Readers(u)
BY DEF Reads, Detail, Readers

\* What the other tabs owe stays owed.
LEMMA OthersOwe ==
  ASSUME NEW c \in Clients, NEW l, NEW o, NEW a, Moves(c, l, o, a), UNCHANGED <<there, role>>, NEW u,
         NEW q \in Clients \ {c}, Owes(q), u \in Target(q)
  PROVE  OwedTo(u)'
<1>1. Owes(q)' BY DEF Owes, Moves
<1>2. Readers(Me(q))' = Readers(Me(q)) /\ op'[q] = op[q] BY DEF Readers, Me, Moves
<1>3. u \in Target(q)' BY <1>2 DEF Target
<1> QED BY <1>1, <1>3 DEF OwedTo

\* A step that leaves the trip and the cache alone.
LEMMA CacheQuiet ==
  ASSUME CacheInv, NEW c \in Clients, NEW l, NEW o, NEW a, Moves(c, l, o, a),
         UNCHANGED <<rows, bill, there, role, cached, late, suspect, built>>,
         Owes(c) => Owing(l, o) /\ o = op[c], l # "store"
  PROVE  CacheInv'
<1>u. \A q \in Clients : Me(q)' = Me(q) BY DEF Me
<1>1. ASSUME NEW u, OwedTo(u) PROVE OwedTo(u)'
  <2>1. PICK q \in Clients : Owes(q) /\ u \in Target(q) BY <1>1 DEF OwedTo
  <2>2. CASE q = c
    <3>1. Readers(Me(c))' = Readers(Me(c)) BY DEF Readers, Me
    <3>2. Owes(c)' /\ u \in Target(c)' BY <2>1, <2>2, <3>1 DEF Owes, Target, Moves
    <3> QED BY <3>2 DEF OwedTo
  <2> QED BY <2>1, <2>2, OthersOwe
<1>2. \A q \in Clients : pc'[q] = "store" => pc[q] = "store" BY DEF Moves
<1>3. ASSUME NEW u \in Users, cached'[u] # Nothing, ~OwedTo(u)', u \notin suspect'
      PROVE  Reads(u)' /\ cached'[u] = Detail(u)'
  BY <1>1, <1>3, SameTruth DEF CacheInv
<1>4. ASSUME NEW q \in Clients, NEW u \in Users, pc'[q] = "store", q \notin late', u = Me(q),
    ~OwedTo(u)'
      PROVE  Reads(u)' /\ built'[q] = Detail(u)'
  <2>1. OwedTo(u) \/ (Reads(u) /\ built[q] = Detail(u)) BY <1>2, <1>4 DEF CacheInv
  <2> QED BY <1>1, <1>4, <2>1, SameTruth
<1> QED BY <1>u, <1>3, <1>4 DEF CacheInv

\* An eviction pays what its tab owes, and makes every tab that holds a detail late.
LEMMA CacheEvict ==
  ASSUME CacheInv, NEW c \in Clients, NEW l, NEW o, NEW a, Moves(c, l, o, a),
         UNCHANGED <<rows, bill, there, role, built>>, NEW v, EvictDetail(v),
         Owes(c) => (Owing(l, o) /\ o = op[c]) \/ Target(c) \subseteq Readers(v), l # "store"
  PROVE  CacheInv'
<1>u. \A q \in Clients : Me(q)' = Me(q) /\ Me(q) \in Users BY TripEditAssumption DEF Me
<1>1. ASSUME NEW u, OwedTo(u), u \notin Readers(v) PROVE OwedTo(u)'
  <2>1. PICK q \in Clients : Owes(q) /\ u \in Target(q) BY <1>1 DEF OwedTo
  <2>2. CASE q = c
    <3>1. Readers(Me(c))' = Readers(Me(c)) BY DEF Readers, Me
    <3>2. Owes(c)' /\ u \in Target(c)' BY <1>1, <2>1, <2>2, <3>1 DEF Owes, Target, Moves
    <3> QED BY <3>2 DEF OwedTo
  <2> QED BY <2>1, <2>2, OthersOwe
<1>2. \A q \in Clients : pc'[q] = "store" => pc[q] = "store" BY DEF Moves
<1>3. /\ DOMAIN cached' = Users
      /\ \A u \in Users : cached'[u] = IF u \in Readers(v) THEN Nothing ELSE cached[u]
      /\ suspect' = suspect \ Readers(v) /\ late' = late \cup Holding(Readers(v))
  BY DEF EvictDetail
<1>4. ASSUME NEW u \in Users, cached'[u] # Nothing, ~OwedTo(u)', u \notin suspect'
      PROVE  Reads(u)' /\ cached'[u] = Detail(u)'
  BY <1>1, <1>3, <1>4, SameTruth DEF CacheInv
<1>5. ASSUME NEW q \in Clients, NEW u \in Users, pc'[q] = "store", q \notin late', u = Me(q),
    ~OwedTo(u)'
      PROVE  Reads(u)' /\ built'[q] = Detail(u)'
  <2>1. u \notin Readers(v) /\ q \notin late BY <1>2, <1>3, <1>5 DEF Holding
  <2>2. OwedTo(u) \/ (Reads(u) /\ built[q] = Detail(u)) BY <1>2, <1>5, <2>1 DEF CacheInv
  <2> QED BY <1>1, <1>5, <2>1, <2>2, SameTruth
<1> QED BY <1>u, <1>3, <1>4, <1>5 DEF CacheInv

\* A committed change owes an eviction to everybody who reads the trip.
LEMMA CacheWrite ==
  ASSUME CacheInv, NEW c \in Clients, NEW l, NEW a, Moves(c, l, op[c], a),
         UNCHANGED <<role, cached, late, suspect, built>>, there' = there \/ (~there' /\ Me(c) = Owner),
         ~Owes(c), Owing(l, op[c]), op[c].kind # "role", l # "store"
  PROVE  CacheInv'
<1>u. \A q \in Clients : Me(q)' = Me(q) /\ Me(q) \in Users BY TripEditAssumption DEF Me
<1>1. ASSUME NEW u \in Users, u \in Readers(Me(c))' PROVE OwedTo(u)'
  <2>1. Owes(c)' /\ Target(c)' = Readers(Me(c))' BY DEF Owes, Target, Moves
  <2> QED BY <1>1, <2>1 DEF OwedTo
<1>2. ASSUME NEW u \in Users, Reads(u) PROVE OwedTo(u)'
  <2>1. u \in Readers(Me(c))' BY <1>2 DEF Reads, Readers, Me
  <2> QED BY <1>1, <2>1
<1>3. ASSUME NEW u \in Users, OwedTo(u) PROVE OwedTo(u)'
  <2>1. PICK q \in Clients : Owes(q) /\ u \in Target(q) BY <1>3 DEF OwedTo
  <2>2. q # c BY <2>1
  <2>3. CASE u \in Target(q)'
    <3>1. Owes(q)' BY <2>1, <2>2 DEF Owes, Moves
    <3> QED BY <2>3, <3>1 DEF OwedTo
  <2>4. CASE u \notin Target(q)'
    <3>1. op'[q] = op[q] BY <2>2 DEF Moves
    <3>2. u \in Readers(Me(q)) /\ u \notin Readers(Me(q))' BY <2>1, <2>4, <3>1 DEF Target
    <3>3. u = Owner /\ Me(c) = Owner BY <3>2 DEF Readers, Me
    <3>4. u \in Readers(Me(c))' BY <3>3 DEF Readers, Me
    <3> QED BY <1>1, <3>4
  <2> QED BY <2>3, <2>4
<1>5. \A q \in Clients : pc'[q] = "store" => pc[q] = "store" BY DEF Moves
<1>6. ASSUME NEW u \in Users, cached'[u] # Nothing, ~OwedTo(u)', u \notin suspect'
      PROVE  Reads(u)' /\ cached'[u] = Detail(u)'
  BY <1>2, <1>3, <1>6 DEF CacheInv
<1>7. ASSUME NEW q \in Clients, NEW u \in Users, pc'[q] = "store", q \notin late', u = Me(q),
    ~OwedTo(u)'
      PROVE  Reads(u)' /\ built'[q] = Detail(u)'
  <2>1. OwedTo(u) \/ (Reads(u) /\ built[q] = Detail(u)) BY <1>5, <1>7 DEF CacheInv
  <2> QED BY <1>2, <1>3, <1>7, <2>1
<1> QED BY <1>u, <1>6, <1>7 DEF CacheInv

\* The role of one user changes: he is owed an eviction, or he could not read.
LEMMA CacheRole ==
  ASSUME CacheInv, NEW c \in Clients, NEW l, NEW o, NEW a, Moves(c, l, o, a),
         UNCHANGED <<rows, bill, there, cached, late, suspect, built>>,
         ~Owes(c), l # "store", NEW m, DOMAIN role' = Users \ {Owner},
         \A u \in Users \ {Owner, m} : role'[u] = role[u],
         OwedTo(m)' \/ (m \in Users \ {Owner} /\ role[m] = "none")
  PROVE  CacheInv'
<1>u. \A q \in Clients : Me(q)' = Me(q) /\ Me(q) \in Users BY TripEditAssumption DEF Me
<1>1. ASSUME NEW u \in Users, OwedTo(u) PROVE OwedTo(u)'
  <2>1. PICK q \in Clients : Owes(q) /\ u \in Target(q) BY <1>1 DEF OwedTo
  <2>2. q # c BY <2>1
  <2>3. op'[q] = op[q] /\ Owes(q)' BY <2>1, <2>2 DEF Moves, Owes
  <2>4. CASE u \in Target(q)' BY <2>3, <2>4 DEF OwedTo
  <2>5. CASE u \notin Target(q)'
    <3>1. u \in Readers(Me(q)) /\ u \notin Readers(Me(q))' BY <2>1, <2>3, <2>5 DEF Target
    <3>2. u = m /\ u # Owner /\ role[u] # "none" BY <3>1 DEF Readers, Me
    <3> QED BY <3>2
  <2> QED BY <2>4, <2>5
<1>2. ASSUME NEW u \in Users, Reads(u), ~OwedTo(u)' PROVE Reads(u)' /\ Detail(u)' = Detail(u)
  <2>1. CASE u = Owner \/ u # m BY <1>2, <2>1 DEF Reads, Detail
  <2>2. CASE u # Owner /\ u = m BY <1>2, <2>2 DEF Reads
  <2> QED BY <2>1, <2>2
<1>3. \A q \in Clients : pc'[q] = "store" => pc[q] = "store" BY DEF Moves
<1>4. ASSUME NEW u \in Users, cached'[u] # Nothing, ~OwedTo(u)', u \notin suspect'
      PROVE  Reads(u)' /\ cached'[u] = Detail(u)'
  BY <1>1, <1>2, <1>4 DEF CacheInv
<1>5. ASSUME NEW q \in Clients, NEW u \in Users, pc'[q] = "store", q \notin late', u = Me(q),
    ~OwedTo(u)'
      PROVE  Reads(u)' /\ built'[q] = Detail(u)'
  <2>1. OwedTo(u) \/ (Reads(u) /\ built[q] = Detail(u)) BY <1>3, <1>5 DEF CacheInv
  <2> QED BY <1>1, <1>2, <1>5, <2>1
<1> QED BY <1>u, <1>4, <1>5 DEF CacheInv

\* A step that leaves the trip and the cache alone.
CacheStill == UNCHANGED <<rows, bill, there, role, cached, late, suspect, built>>

\* The quiet step of a request ...
LEMMA CacheGoto ==
  ASSUME Base, CacheInv, NEW c \in Clients, NEW l, Goto(c, l), CacheStill,
         Owes(c) => Owing(l, op[c]), l # "store"
  PROVE  CacheInv'
BY GotoMoves, CacheQuiet DEF Base, CacheStill

\* ... its answer ...
LEMMA CacheAnswer ==
  ASSUME Base, CacheInv, NEW c \in Clients, NEW a, Answer(c, a), CacheStill, ~Owes(c)
  PROVE  CacheInv'
BY AnswerMoves, CacheQuiet DEF Base, CacheStill

\* ... and its commit.
LEMMA CacheCommit ==
  ASSUME Base, CacheInv, NEW c \in Clients, NEW l \in {"renumber", "evict", "evictfirst"}, Goto(c, l),
         UNCHANGED <<role, cached, late, suspect, built>>, there' = there \/ (~there' /\ Me(c) = Owner),
         ~Owes(c), Owing(l, op[c]), op[c].kind # "role"
  PROVE  CacheInv'
BY GotoMoves, CacheWrite DEF Base

\* A request that is sent.
LEMMA CacheStart ==
  ASSUME Base, CacheInv, NEW c \in Clients, Start(c)
  PROVE  CacheInv'
<1>1. PICK o \in Ops : SendEdit(c, o) \/ SendOther(c, o) BY DEF Start
<1>2. o.kind \in Kinds \ (InWords \cup {"none"}) BY OpKinds
<1>3. UNCHANGED <<rows, bill, there, role, cached, late, suspect, built>>
  BY <1>1 DEF SendEdit, SendOther, Send, trip
<1>4. ~Owes(c) BY DEF Start, Owes, Owing
<1>5. ASSUME NEW l, NEW x, NEW a, Moves(c, l, x, a), l # "store" PROVE CacheInv'
  BY <1>3, <1>4, <1>5, CacheQuiet
<1>6. CASE SendEdit(c, o)
  <2>1. CASE GotoWith(c, "number", o) BY <2>1, <1>5, GotoWithMoves DEF Base
  <2>2. CASE Answer(c, "refused") BY <2>2, <1>5, AnswerMoves DEF Base
  <2> QED BY <1>6, <2>1, <2>2 DEF SendEdit
<1>7. CASE SendOther(c, o)
  <2>1. GotoWith(c, o.kind, o) /\ o.kind \notin Versioned BY <1>7 DEF SendOther
  <2>2. o.kind # "store" BY <1>2, <2>1 DEF Kinds
  <2> QED BY <2>1, <2>2, <1>5, GotoWithMoves DEF Base
<1> QED BY <1>1, <1>6, <1>7

\* The steps that write a version; the number is taken after an eviction.
LEMMA CacheVersion ==
  ASSUME Base, CacheInv, NEW c \in Clients, VersionStep(c)
  PROVE  CacheInv'
<1> USE DEF Owes, Owing
<1>1. CASE TakeNumber(c)
  <2>0. UNCHANGED <<rows, bill, there, role, built>> BY <1>1 DEF TakeNumber, trip
  <2>1. CASE Writes(Me(c))
    <3>1. PICK l \in {"insert", "reinsert"} : Goto(c, l) /\ (l = "reinsert" <=> pc[c] # "number")
      BY <1>1, <2>1 DEF TakeNumber
    <3>2. Moves(c, l, op[c], answer[c]) /\ EvictDetail(Me(c))
      BY <1>1, <2>1, <3>1, GotoMoves DEF Base, TakeNumber
    <3> QED BY <1>1, <2>0, <3>1, <3>2, CacheEvict DEF TakeNumber
  <2>2. CASE ~Writes(Me(c))
    <3>1. CacheStill BY <1>1, <2>0, <2>2 DEF TakeNumber, CacheStill
    <3> QED BY <1>1, <2>2, <3>1, CacheGoto, CacheAnswer DEF TakeNumber, Recorded
  <2> QED BY <2>1, <2>2
<1>2. CASE InsertVersion(c)
  BY <1>2, CacheGoto DEF InsertVersion, CacheStill, Kept
<1>3. CASE InsertCollides(c)
  BY <1>3, CacheGoto, CacheAnswer DEF InsertCollides, CacheStill, trip, history
<1>4. CASE RecordVersion(c)
  <2>1. CacheStill BY <1>4 DEF RecordVersion, CacheStill, Kept
  <2> QED BY <1>4, <2>1, CacheGoto DEF RecordVersion, Recorded
<1> QED BY <1>1, <1>2, <1>3, <1>4 DEF VersionStep

\* The steps of an edit.
LEMMA CacheEdit ==
  ASSUME Base, CacheInv, NEW c \in Clients, EditStep(c)
  PROVE  CacheInv'
<1> USE DEF Owes, Owing
<1>k. KindOf(c) BY DEF Base
<1>1. CASE Look(c)
  <2>1. CacheStill /\ pc[c] = "look" BY <1>1 DEF Look, CacheStill, trip, history
  <2>2. ASSUME NEW o, GotoWith(c, "begin", o) PROVE CacheInv'
    BY <2>1, <2>2, GotoWithMoves, CacheQuiet DEF Base, CacheStill
  <2>3. CASE Answer(c, "broken") BY <2>1, <2>3, CacheAnswer
  <2> QED BY <1>1, <2>2, <2>3, Zenon DEF Look
<1>2. CASE BeginEdit(c)
  BY <1>2, CacheGoto DEF BeginEdit, CacheStill, trip, history
<1>3. CASE CommitEdit(c)
  <2>1. op[c].kind \notin {"role", "restore"} BY <1>3 DEF CommitEdit, ByHand, InWords
  <2> QED BY <1>3, <2>1, CacheCommit DEF CommitEdit, Committed
<1>4. CASE CommitDelete(c)
  BY <1>k, <1>4, CacheCommit DEF CommitDelete, Committed, KindOf
<1>5. CASE FailEdit(c)
  BY <1>5, CacheAnswer DEF FailEdit, CacheStill, trip, history
<1>6. CASE Restore(c)
  <2>1. CASE Writes(Me(c))
    BY <1>k, <1>6, <2>1, CacheCommit DEF Restore, Committed, KindOf
  <2>2. CASE ~Writes(Me(c))
    BY <1>6, <2>2, CacheAnswer DEF Restore, CacheStill
  <2> QED BY <2>1, <2>2
<1> QED BY <1>1, <1>2, <1>3, <1>4, <1>5, <1>6 DEF EditStep

\* The steps of the chat.
LEMMA CacheChat ==
  ASSUME Base, CacheInv, NEW c \in Clients, ChatStep(c)
  PROVE  CacheInv'
<1> USE DEF Owes, Owing
<1>0. CacheStill BY DEF ChatStep, ChatContext, Propose, SaveTurn, ClearHistory, CacheStill, trip,
    history
<1>1. CASE ChatContext(c)
  BY <1>0, <1>1, CacheGoto, CacheAnswer DEF ChatContext
<1>2. CASE Propose(c)
  <2>1. ASSUME NEW o, GotoWith(c, "save", o), pc[c] = "propose" PROVE CacheInv'
    BY <1>0, <2>1, GotoWithMoves, CacheQuiet DEF Base, CacheStill
  <2> QED BY <1>0, <1>2, <2>1, CacheAnswer DEF Propose
<1>3. CASE SaveTurn(c) \/ ClearHistory(c)
  BY <1>0, <1>3, CacheAnswer DEF SaveTurn, ClearHistory
<1> QED BY <1>1, <1>2, <1>3 DEF ChatStep

\* The steps that apply a draft.
LEMMA CacheApply ==
  ASSUME Base, CacheInv, NEW c \in Clients, ApplyStep(c)
  PROVE  CacheInv'
<1> USE DEF Owes, Owing
<1>1. CASE BeginApply(c)
  <2>0. UNCHANGED <<rows, bill, there, role, built>> /\ pc[c] \in {"apply", "hotel"}
    BY <1>1 DEF BeginApply, trip
  <2>1. CASE Goto(c, "commit") /\ EvictDetail(Me(c))
    <3>1. Moves(c, "commit", op[c], answer[c]) BY <2>1, GotoMoves DEF Base
    <3> QED BY <2>0, <2>1, <3>1, CacheEvict
  <2>2. CASE Answer(c, "refused") /\ UNCHANGED <<cached, late, suspect>>
    BY <2>0, <2>2, CacheAnswer DEF CacheStill
  <2> QED BY <1>1, <2>1, <2>2 DEF BeginApply
<1>2. CASE CommitApply(c)
  BY <1>2, CacheCommit DEF CommitApply, Applying, Committed
<1>3. CASE FailApply(c)
  BY <1>3, CacheAnswer DEF FailApply, Applying, CacheStill, trip, history
<1> QED BY <1>1, <1>2, <1>3 DEF ApplyStep

\* A detail is built from what is there, and its tab is late no more.
LEMMA CacheBuild ==
  ASSUME Base, CacheInv, NEW c \in Clients, Build(c)
  PROVE  CacheInv'
<1> USE DEF Owes, Owing
<1>0. UNCHANGED <<rows, bill, there, role, cached, suspect>> /\ pc[c] = "build" /\ late' = late \ {c}
  BY DEF Build, trip
<1>1. CASE Reads(Me(c))
  <2>1. Goto(c, "store") /\ built' = [built EXCEPT ![c] = Detail(Me(c))] BY <1>1 DEF Build
  <2>2. Moves(c, "store", op[c], answer[c]) BY <2>1, GotoMoves DEF Base
  <2>3. /\ DOMAIN built' = Clients /\ built'[c] = Detail(Me(c))
        /\ \A q \in Clients \ {c} : built'[q] = built[q]
    BY <2>1 DEF CacheInv
  <2>4. \A q \in Clients : Me(q)' = Me(q) BY DEF Me
  <2>5. ASSUME NEW u, OwedTo(u) PROVE OwedTo(u)'
    BY <1>0, <2>2, <2>5, OthersOwe DEF OwedTo
  <2>6. ASSUME NEW u \in Users, cached'[u] # Nothing, ~OwedTo(u)', u \notin suspect'
        PROVE  Reads(u)' /\ cached'[u] = Detail(u)'
    BY <1>0, <2>5, <2>6, SameTruth DEF CacheInv
  <2>7. ASSUME NEW q \in Clients, NEW u \in Users, pc'[q] = "store", q \notin late', u = Me(q),
      ~OwedTo(u)'
        PROVE  Reads(u)' /\ built'[q] = Detail(u)'
    <3>1. CASE q = c BY <1>0, <1>1, <2>3, <2>7, <3>1, SameTruth
    <3>2. CASE q # c
      <4>1. pc[q] = "store" /\ q \notin late BY <1>0, <2>2, <2>7, <3>2 DEF Moves
      <4>2. OwedTo(u) \/ (Reads(u) /\ built[q] = Detail(u)) BY <2>7, <4>1 DEF CacheInv
      <4> QED BY <1>0, <2>3, <2>5, <2>7, <3>2, <4>2, SameTruth
    <3> QED BY <3>1, <3>2
  <2> QED BY <1>0, <2>3, <2>4, <2>6, <2>7 DEF CacheInv
<1>2. CASE ~Reads(Me(c))
  <2>1. Answer(c, "refused") /\ built' = built BY <1>2 DEF Build
  <2>2. Moves(c, "idle", NoOp, "refused") BY <2>1, AnswerMoves DEF Base
  <2>3. \A q \in Clients : Me(q)' = Me(q) BY DEF Me
  <2>4. ASSUME NEW u, OwedTo(u) PROVE OwedTo(u)'
    BY <1>0, <2>2, <2>4, OthersOwe DEF OwedTo
  <2>5. ASSUME NEW u \in Users, cached'[u] # Nothing, ~OwedTo(u)', u \notin suspect'
        PROVE  Reads(u)' /\ cached'[u] = Detail(u)'
    BY <1>0, <2>4, <2>5, SameTruth DEF CacheInv
  <2>6. ASSUME NEW q \in Clients, NEW u \in Users, pc'[q] = "store", q \notin late', u = Me(q),
      ~OwedTo(u)'
        PROVE  Reads(u)' /\ built'[q] = Detail(u)'
    <3>1. q # c BY <2>2, <2>6 DEF Moves
    <3>2. pc[q] = "store" /\ q \notin late BY <1>0, <2>2, <2>6, <3>1 DEF Moves
    <3>3. OwedTo(u) \/ (Reads(u) /\ built[q] = Detail(u)) BY <2>6, <3>2 DEF CacheInv
    <3> QED BY <1>0, <2>1, <2>4, <2>6, <3>3, SameTruth
  <2> QED BY <1>0, <2>1, <2>3, <2>5, <2>6 DEF CacheInv
<1> QED BY <1>1, <1>2

\* A detail is stored: as it should be, or its reader is suspect.
LEMMA CacheFilled ==
  ASSUME Base, CacheInv, NEW c \in Clients, Store(c)
  PROVE  CacheInv'
<1> USE DEF Owes, Owing
<1>u. Me(c) \in Users /\ \A q \in Clients : Me(q)' = Me(q) BY TripEditAssumption DEF Me
<1>0. /\ UNCHANGED <<rows, bill, there, role>> /\ pc[c] = "store" /\ late' = late \ {c}
      /\ cached' = [cached EXCEPT ![Me(c)] = built[c]] /\ built' = [built EXCEPT ![c] = Nothing]
      /\ suspect' = IF c \in late THEN suspect \cup {Me(c)} ELSE suspect \ {Me(c)}
      /\ Answer(c, "ok")
  BY DEF Store, trip
<1>1. Moves(c, "idle", NoOp, "ok") BY <1>0, AnswerMoves DEF Base
<1>2. /\ DOMAIN cached' = Users /\ cached'[Me(c)] = built[c]
      /\ \A u \in Users \ {Me(c)} : cached'[u] = cached[u]
  BY <1>u, <1>0 DEF CacheInv
<1>3. DOMAIN built' = Clients /\ \A q \in Clients \ {c} : built'[q] = built[q] BY <1>0 DEF CacheInv
<1>4. ASSUME NEW u, OwedTo(u) PROVE OwedTo(u)'
  BY <1>0, <1>1, <1>4, OthersOwe DEF OwedTo
<1>5. ASSUME NEW u \in Users, cached'[u] # Nothing, ~OwedTo(u)', u \notin suspect'
      PROVE  Reads(u)' /\ cached'[u] = Detail(u)'
  <2>1. CASE u = Me(c)
    <3>1. c \notin late BY <1>0, <1>5, <2>1
    <3>2. OwedTo(u) \/ (Reads(u) /\ built[c] = Detail(u)) BY <1>0, <2>1, <3>1 DEF CacheInv
    <3> QED BY <1>0, <1>2, <1>4, <1>5, <2>1, <3>2, SameTruth
  <2>2. CASE u # Me(c)
    <3>1. cached'[u] = cached[u] /\ u \notin suspect BY <1>0, <1>2, <1>5, <2>2
    <3> QED BY <1>0, <1>4, <1>5, <3>1, SameTruth DEF CacheInv
  <2> QED BY <2>1, <2>2
<1>6. ASSUME NEW q \in Clients, NEW u \in Users, pc'[q] = "store", q \notin late', u = Me(q),
    ~OwedTo(u)'
      PROVE  Reads(u)' /\ built'[q] = Detail(u)'
  <2>1. q # c BY <1>1, <1>6 DEF Moves
  <2>2. pc[q] = "store" /\ q \notin late BY <1>0, <1>1, <1>6, <2>1 DEF Moves
  <2>3. OwedTo(u) \/ (Reads(u) /\ built[q] = Detail(u)) BY <1>6, <2>2 DEF CacheInv
  <2> QED BY <1>0, <1>3, <1>4, <1>6, <2>1, <2>3, SameTruth
<1> QED BY <1>u, <1>0, <1>2, <1>3, <1>5, <1>6 DEF CacheInv

\* The members and the readers.
LEMMA CacheRead ==
  ASSUME Base, CacheInv, NEW c \in Clients, ReadStep(c)
  PROVE  CacheInv'
<1> USE DEF Owes, Owing
<1>u. Me(c) \in Users BY TripEditAssumption DEF Me
<1>k. KindOf(c) BY DEF Base
<1>1. CASE SetRole(c)
  <2>m. PICK m : m = op[c].member OBVIOUS
  <2>0. UNCHANGED <<rows, bill, there, cached, late, suspect,
      built>> /\ pc[c] = "role" /\ op[c].kind = "role"
    BY <1>k, <1>1 DEF SetRole, KindOf
  <2>1. CASE Owns(Me(c)) /\ role[m] # "none"
    <3>1. role' = [role EXCEPT ![m] = op[c].to] /\ Goto(c, "evict") BY <1>1, <2>m, <2>1 DEF SetRole
    <3>2. Moves(c, "evict", op[c], answer[c]) BY <3>1, GotoMoves DEF Base
    <3>3. DOMAIN role' = Users \ {Owner} /\ \A u \in Users \ {Owner, m} : role'[u] = role[u]
      BY <3>1 DEF CacheInv
    <3>4. Owes(c)' /\ op'[c] = op[c] BY <3>2 DEF Moves
    <3>5. m \in Target(c)' BY <2>m, <2>0, <3>4 DEF Target
    <3>6. OwedTo(m)' BY <3>4, <3>5 DEF OwedTo
    <3> QED BY <2>0, <3>2, <3>3, <3>6, CacheRole
  <2>2. CASE ~(Owns(Me(c)) /\ role[m] # "none")
    BY <1>1, <2>m, <2>0, <2>2, CacheAnswer DEF SetRole, CacheStill
  <2> QED BY <2>1, <2>2
<1>2. CASE Join(c)
  <2>0. UNCHANGED <<rows, bill, there, cached, late, suspect, built>> /\ pc[c] = "join"
    BY <1>2 DEF Join, history
  <2>1. CASE Me(c) # Owner /\ role[Me(c)] = "none" /\ role' = [role EXCEPT ![Me(c)] = op[c].to]
        /\ Answer(c, "ok")
    <3>1. Moves(c, "idle", NoOp, "ok") BY <2>1, AnswerMoves DEF Base
    <3>2. DOMAIN role' = Users \ {Owner} /\ \A u \in Users \ {Owner, Me(c)} : role'[u] = role[u]
      BY <2>1 DEF CacheInv
    <3> QED BY <1>u, <2>0, <2>1, <3>1, <3>2, CacheRole
  <2>2. CASE UNCHANGED role /\ \E a \in {"ok", "refused"} : Answer(c, a)
    BY <2>0, <2>2, CacheAnswer DEF CacheStill
  <2> QED BY <1>2, <2>1, <2>2 DEF Join
<1>3. CASE Evict(c)
  <2>0. UNCHANGED <<rows, bill, there, role, built>> /\ EvictDetail(Subject(c)) BY <1>3 DEF Evict, trip
  <2>1. Target(c) \subseteq Readers(Subject(c)) BY DEF Target, Subject, Readers
  <2>2. ASSUME NEW l \in {"get", "renumber"}, Goto(c, l) PROVE CacheInv'
    <3>1. Moves(c, l, op[c], answer[c]) BY <2>2, GotoMoves DEF Base
    <3> QED BY <2>0, <2>1, <3>1, CacheEvict
  <2>3. CASE Answer(c, "ok")
    <3>1. Moves(c, "idle", NoOp, "ok") BY <2>3, AnswerMoves DEF Base
    <3> QED BY <2>0, <2>1, <3>1, CacheEvict
  <2> QED BY <1>3, <2>2, <2>3 DEF Evict
<1>4. CASE Get(c)
  BY <1>4, CacheGoto, CacheAnswer DEF Get, CacheStill, trip, history
<1> QED BY <1>1, <1>2, <1>3, <1>4, CacheBuild, CacheFilled DEF ReadStep

\* Every step keeps the cache.
LEMMA CacheStep == Base /\ CacheInv /\ [Next]_vars => CacheInv'
<1> SUFFICES ASSUME Base, CacheInv, [Next]_vars PROVE CacheInv' OBVIOUS
<1>1. CASE UNCHANGED vars
  <2>1. UNCHANGED <<pc, op, rows, bill, there, role, cached, built, late, suspect>>
    BY <1>1 DEF vars, request, history, trip
  <2>2. \A q \in Clients : Me(q)' = Me(q) BY DEF Me
  <2>3. ASSUME NEW u PROVE OwedTo(u)' <=> OwedTo(u)
    BY <2>1 DEF OwedTo, Owes, Target, Readers, Me
  <2> QED BY <2>1, <2>2, <2>3, SameTruth DEF CacheInv
<1>2. ASSUME NEW c \in Clients, Step(c) PROVE CacheInv'
  BY <1>2, CacheStart, CacheVersion, CacheEdit, CacheChat, CacheApply, CacheRead DEF Step
<1> QED BY <1>1, <1>2 DEF Next, Step

\* The cache is empty at the beginning.
LEMMA CacheInit == Init => CacheInv
BY DEF Init, CacheInv

\* A cached detail is what its reader would be shown now, unless an eviction of it is due
\* or a fill has outlived one: for any number of tabs, members and requests (evict_detail,
\* ItineraryQuery.detail).
THEOREM DetailIsFresh == Spec => []CacheFresh
<1>1. Init => Base /\ CacheInv BY BaseInit, CacheInit
<1>2. CacheInv => CacheFresh
  BY OwedIsDue DEF CacheInv, CacheFresh
<1> QED BY <1>1, <1>2, BaseStep, CacheStep, PTL DEF Spec

-----------------------------------------------------------------------------
(* The rows that one edit leaves. *)

\* Tables whose rows are in order.
Neat(t) == Tables(t) /\ Tidy(t)

\* A finite set of numbers has a largest one.
LEMMA LargestNumber ==
  ASSUME NEW S \in SUBSET Nat, IsFiniteSet(S), S # {}
  PROVE  Max(S) \in S /\ \A y \in S : Max(S) >= y
<1> DEFINE Above(x) == {y \in S : y > x}
           T == {Above(x) : x \in S}
<1>1. IsWellFoundedOn(StrictSubsetOrdering(S), SUBSET S)
  BY FS_StrictSubsetOrderingWellFounded, FS_FiniteSubsetsOfFinite
<1>2. T \subseteq SUBSET S /\ T # {}
  OBVIOUS
<1>3. PICK a \in T : \A b \in T : ~ (<<b, a>> \in StrictSubsetOrdering(S))
  BY <1>1, <1>2, WFMin
<1>4. PICK x \in S : a = Above(x)
  BY <1>3
<1>5. ASSUME NEW y \in S, y > x PROVE FALSE
  <2>1. Above(y) \subseteq Above(x) /\ y \in Above(x) /\ y \notin Above(y) /\ Above(x) \subseteq S
    <3>1. x \in Nat /\ y \in Nat /\ \A z \in S : z \in Nat
      OBVIOUS
    <3>2. \A z \in S : z > y => z > x
      BY <1>5, <3>1
    <3>3. ~ (y > y)
      BY <3>1
    <3> QED
      BY <1>5, <3>2, <3>3
  <2>2. Above(y) \in T
    OBVIOUS
  <2> HIDE DEF Above, T
  <2>3. <<Above(y), a>> \in StrictSubsetOrdering(S)
    BY <1>4, <2>1 DEF StrictSubsetOrdering
  <2> QED
    BY <1>3, <2>2, <2>3
<1>6. x \in S /\ \A y \in S : x >= y
  BY <1>5
<1> QED
  BY <1>6 DEF Max

\* The keys of a table are finitely many numbers.
LEMMA KeysFinite ==
  ASSUME NEW t, Tables(t), NEW S, S \subseteq DOMAIN t.items \/ S \subseteq DOMAIN t.days
  PROVE  IsFiniteSet(S) /\ S \subseteq Nat
<1>1. /\ t.nextDay \in Nat /\ DOMAIN t.days \subseteq 1 .. (t.nextDay - 1)
      /\ t.nextItem \in Nat /\ DOMAIN t.items \subseteq 1 .. (t.nextItem - 1)
  BY DEF Tables, Keyed
<1>2. PICK n \in Int : S \subseteq 1 .. n
  BY <1>1
<1>3. IsFiniteSet(1 .. n) /\ 1 .. n \subseteq Nat
  BY FS_Interval
<1> QED
  BY <1>2, <1>3, FS_Subset

\* The next place of a day is behind all others.
LEMMA NextIsLast ==
  ASSUME NEW t, Tables(t), NEW d
  PROVE  NextSort(t, d) \in Nat /\ \A i \in ItemsOf(t, d) : t.items[i].sort < NextSort(t, d)
<1> DEFINE places == {t.items[i].sort : i \in ItemsOf(t, d)}
<1>1. ItemsOf(t, d) \subseteq DOMAIN t.items
  BY DEF ItemsOf, LiveItems
<1>2. \A i \in ItemsOf(t, d) : t.items[i].sort \in Nat
  BY <1>1 DEF Tables, Keyed, IsItem
<1>3. IsFiniteSet(places)
  <2> DEFINE f == [i \in ItemsOf(t, d) |-> t.items[i].sort]
  <2>1. f \in Surjection(ItemsOf(t, d), places)
    BY DEF Surjection
  <2>2. IsFiniteSet(ItemsOf(t, d))
    BY <1>1, KeysFinite
  <2> HIDE DEF f, places
  <2> QED
    BY <2>1, <2>2, FS_Surjection
<1>4. NextSort(t, d) = IF places = {} THEN 0 ELSE Max(places) + 1
  BY DEF NextSort
<1>5. places \in SUBSET Nat
  BY <1>2
<1>6. CASE places = {}
  <2>1. ItemsOf(t, d) = {} /\ NextSort(t, d) = 0
    BY <1>4, <1>6
  <2> QED
    BY <2>1
<1>7. CASE places # {}
  <2>1. Max(places) \in places /\ \A y \in places : Max(places) >= y
    <3> HIDE DEF places
    <3> QED
      BY <1>3, <1>5, <1>7, LargestNumber
  <2>2. Max(places) \in Nat /\ NextSort(t, d) = Max(places) + 1
    <3> HIDE DEF places
    <3> QED
      BY <1>4, <1>5, <1>7, <2>1
  <2>3. \A i \in ItemsOf(t, d) : t.items[i].sort <= Max(places)
    <3>1. \A i \in ItemsOf(t, d) : t.items[i].sort \in places
      OBVIOUS
    <3> HIDE DEF places
    <3> QED
      BY <1>2, <2>1, <2>2, <3>1
  <2> HIDE DEF places
  <2> QED
    BY <1>2, <2>2, <2>3
<1> QED
  BY <1>6, <1>7

\* A table with one row more.
LEMMA RowAdded ==
  ASSUME NEW f, NEW k, Keyed(f, k), NEW x
  PROVE  /\ k \notin DOMAIN f /\ k \in Nat \ {0}
         /\ DOMAIN With(f, k, x) = DOMAIN f \cup {k} /\ With(f, k, x)[k] = x
         /\ \A i \in DOMAIN f : With(f, k, x)[i] = f[i]
<1>1. k \in Nat \ {0} /\ DOMAIN f \subseteq 1 .. (k - 1)
  BY DEF Keyed
<1>2. k \notin DOMAIN f
  BY <1>1
<1> QED
  BY <1>1, <1>2 DEF With

\* A new key and its row.
LEMMA KeyAdded ==
  ASSUME NEW f, NEW k, Keyed(f, k), NEW x
  PROVE  Keyed(With(f, k, x), k + 1)
<1> DEFINE g == With(f, k, x)
<1>1. k \in Nat \ {0} /\ DOMAIN f \subseteq 1 .. (k - 1)
  BY DEF Keyed
<1>2. DOMAIN g = DOMAIN f \cup {k} /\ g = [i \in DOMAIN g |-> g[i]]
  BY DEF With
<1> HIDE DEF g
<1>3. k \in 1 .. k /\ \A j \in 1 .. (k - 1) : j \in 1 .. k
  BY <1>1
<1>4. Keyed(g, k + 1)
  BY <1>1, <1>2, <1>3 DEF Keyed
<1> QED
  BY <1>4 DEF g

\* A row that changes keeps its key and the others.
LEMMA RowSet ==
  ASSUME NEW f, NEW k, Keyed(f, k), NEW g, g = [i \in DOMAIN f |-> g[i]]
  PROVE  Keyed(g, k) /\ DOMAIN g = DOMAIN f
<1>1. DOMAIN g = DOMAIN f
  OBVIOUS
<1> QED
  BY <1>1 DEF Keyed

\* The parts of a record of tables.
LEMMA TablesOf ==
  ASSUME NEW D, NEW I, NEW l \in Nat, NEW nd, NEW ni,
         Keyed(D, nd), \A d \in DOMAIN D : IsDay(D[d]), Keyed(I, ni), \A i \in DOMAIN I : IsItem(I[i])
  PROVE  Tables([days |-> D, items |-> I, length |-> l, nextDay |-> nd, nextItem |-> ni])
  BY DEF Tables

\* The tables themselves, taken apart.
LEMMA Apart ==
  ASSUME NEW t, Tables(t)
  PROVE  t = [days |-> t.days, items |-> t.items, length |-> t.length, nextDay |-> t.nextDay, nextItem |-> t.nextItem]
  BY DEF Tables

\* A record of tables with other items or other days.
LEMMA TwoSet ==
  ASSUME NEW t, Tables(t), NEW f, NEW k
  PROVE  /\ [t EXCEPT !.items = f, !.nextItem = k] =
              [days |-> t.days, items |-> f, length |-> t.length, nextDay |-> t.nextDay, nextItem |-> k]
         /\ [t EXCEPT !.days = f, !.nextDay = k] =
              [days |-> f, items |-> t.items, length |-> t.length, nextDay |-> k, nextItem |-> t.nextItem]
<1> DEFINE D == t.days
           I == t.items
           l == t.length
           m == t.nextDay
           n == t.nextItem
           u == [t EXCEPT !.items = f]
           v == [t EXCEPT !.days = f]
<1>0. t = [days |-> D, items |-> I, length |-> l, nextDay |-> m, nextItem |-> n]
  BY Apart
<1> HIDE DEF D, I, l, m, n
<1>1. /\ u = [days |-> D, items |-> f, length |-> l, nextDay |-> m, nextItem |-> n]
      /\ v = [days |-> f, items |-> I, length |-> l, nextDay |-> m, nextItem |-> n]
  BY <1>0
<1> HIDE DEF u, v
<1>2. /\ [u EXCEPT !.nextItem = k] = [days |-> D, items |-> f, length |-> l, nextDay |-> m, nextItem |-> k]
      /\ [v EXCEPT !.nextDay = k] = [days |-> f, items |-> I, length |-> l, nextDay |-> k, nextItem |-> n]
  BY <1>1
<1> QED
  BY <1>2, Zenon DEF u, v, D, I, l, m, n

\* A new item touches no other row.
OneItem(t, u, x) ==
  /\ Tables(u) /\ u.days = t.days /\ u.length = t.length /\ u.nextDay = t.nextDay
  /\ u.nextItem = t.nextItem + 1 /\ t.nextItem \notin DOMAIN t.items /\ t.nextItem \in Nat \ {0}
  /\ DOMAIN u.items = DOMAIN t.items \cup {t.nextItem}
  /\ \A i \in DOMAIN t.items : u.items[i] = t.items[i]
  /\ u.items[t.nextItem] = x

\* A new item is one more row, and the others stay.
LEMMA ItemInserted ==
  ASSUME NEW t, Tables(t), NEW d \in Nat, NEW n, NEW place \in Nat
  PROVE  OneItem(t, InsertItem(t, d, n, place), [day |-> d, sort |-> place, name |-> n, gone |-> FALSE])
<1> DEFINE x == [day |-> d, sort |-> place, name |-> n, gone |-> FALSE]
           I == t.items
           k == t.nextItem
           f == With(I, k, x)
           u == [days |-> t.days, items |-> f, length |-> t.length, nextDay |-> t.nextDay, nextItem |-> k + 1]
<1>1. InsertItem(t, d, n, place) = u
  <2>1. InsertItem(t, d, n, place) = [t EXCEPT !.items = f, !.nextItem = k + 1]
    BY Zenon DEF InsertItem
  <2> HIDE DEF f, k
  <2> QED
    BY <2>1, TwoSet, Zenon
<1>2. IsItem(x)
  BY DEF IsItem
<1>3. Keyed(I, k) /\ \A i \in DOMAIN I : IsItem(I[i])
  BY DEF Tables
<1> HIDE DEF x, I, k
<1>4. k \notin DOMAIN I /\ k \in Nat \ {0}
  BY <1>3 DEF Keyed
<1>5. DOMAIN f = DOMAIN I \cup {k} /\ f[k] = x /\ \A i \in DOMAIN I : f[i] = I[i]
  BY <1>4 DEF With
<1>6. Keyed(f, k + 1)
  BY <1>3, KeyAdded
<1> HIDE DEF f
<1>7. \A i \in DOMAIN f : IsItem(f[i])
  BY <1>2, <1>3, <1>5
<1>8. Tables(u)
  BY <1>6, <1>7, TablesOf DEF Tables
<1>9. OneItem(t, u, x)
  BY <1>4, <1>5, <1>8 DEF OneItem, I, k
<1> QED
  BY <1>1, <1>9 DEF x

\* Nor does a new day.
OneDay(t, u, x) ==
  /\ Tables(u) /\ u.items = t.items /\ u.length = t.length /\ u.nextItem = t.nextItem
  /\ u.nextDay = t.nextDay + 1 /\ t.nextDay \notin DOMAIN t.days /\ t.nextDay \in Nat \ {0}
  /\ DOMAIN u.days = DOMAIN t.days \cup {t.nextDay}
  /\ \A d \in DOMAIN t.days : u.days[d] = t.days[d]
  /\ u.days[t.nextDay] = x

\* A new day is one more row, and the others stay.
LEMMA DayInserted ==
  ASSUME NEW t, Tables(t), NEW n \in Nat
  PROVE  OneDay(t, InsertDay(t, n), [no |-> n, gone |-> FALSE])
<1> DEFINE x == [no |-> n, gone |-> FALSE]
           I == t.days
           k == t.nextDay
           f == With(I, k, x)
           u == [days |-> f, items |-> t.items, length |-> t.length, nextDay |-> k + 1, nextItem |-> t.nextItem]
<1>1. InsertDay(t, n) = u
  <2>1. InsertDay(t, n) = [t EXCEPT !.days = f, !.nextDay = k + 1]
    BY Zenon DEF InsertDay
  <2> HIDE DEF f, k
  <2> QED
    BY <2>1, TwoSet, Zenon
<1>2. IsDay(x)
  BY DEF IsDay
<1>3. Keyed(I, k) /\ \A i \in DOMAIN I : IsDay(I[i])
  BY DEF Tables
<1> HIDE DEF x, I, k
<1>4. k \notin DOMAIN I /\ k \in Nat \ {0}
  BY <1>3 DEF Keyed
<1>5. DOMAIN f = DOMAIN I \cup {k} /\ f[k] = x /\ \A i \in DOMAIN I : f[i] = I[i]
  BY <1>4 DEF With
<1>6. Keyed(f, k + 1)
  BY <1>3, KeyAdded
<1> HIDE DEF f
<1>7. \A i \in DOMAIN f : IsDay(f[i])
  BY <1>2, <1>3, <1>5
<1>8. Tables(u)
  BY <1>6, <1>7, TablesOf DEF Tables
<1>9. OneDay(t, u, x)
  BY <1>4, <1>5, <1>8 DEF OneDay, I, k
<1> QED
  BY <1>1, <1>9 DEF x

\* Other items for the same days.
Items(t, f) == [t EXCEPT !.items = f]

\* Other items of the same keys.
LEMMA ItemsSet ==
  ASSUME NEW t, Tables(t), NEW f, f = [i \in DOMAIN t.items |-> f[i]], \A i \in DOMAIN t.items : IsItem(f[i])
  PROVE  /\ Tables(Items(t, f)) /\ Items(t, f).items = f /\ Items(t, f).days = t.days
         /\ Items(t, f).length = t.length /\ Items(t, f).nextDay = t.nextDay
         /\ Items(t, f).nextItem = t.nextItem
<1>1. t = [days |-> t.days, items |-> t.items, length |-> t.length, nextDay |-> t.nextDay, nextItem |-> t.nextItem]
  BY DEF Tables
<1>2. Items(t, f) = [days |-> t.days, items |-> f, length |-> t.length, nextDay |-> t.nextDay, nextItem |-> t.nextItem]
  BY <1>1 DEF Items
<1>3. Keyed(f, t.nextItem) /\ DOMAIN f = DOMAIN t.items
  BY RowSet DEF Tables
<1>4. Tables(Items(t, f))
  BY <1>2, <1>3, TablesOf DEF Tables
<1> QED
  BY <1>2, <1>4

\* Tables that have come from others by changes of rows and by new rows.
Grown(t, u) ==
  /\ Tables(u)
  /\ t.nextDay <= u.nextDay /\ DOMAIN u.days = DOMAIN t.days \cup t.nextDay .. (u.nextDay - 1)
  /\ \A d \in DOMAIN t.days : u.days[d].no = t.days[d].no
  /\ t.nextItem <= u.nextItem /\ DOMAIN u.items = DOMAIN t.items \cup t.nextItem .. (u.nextItem - 1)

\* Tables have come from themselves.
LEMMA GrownSelf == ASSUME NEW t, Tables(t) PROVE Grown(t, t)
<1>1. t.nextDay \in Nat \ {0} /\ t.nextItem \in Nat \ {0}
  BY DEF Tables, Keyed
<1>2. t.nextDay .. (t.nextDay - 1) = {} /\ t.nextItem .. (t.nextItem - 1) = {}
  BY <1>1
<1> QED
  BY <1>1, <1>2 DEF Grown

\* A new item keeps what they have come from.
LEMMA GrownItem ==
  ASSUME NEW t, Tables(t), NEW u, Grown(t, u), NEW d \in Nat, NEW n, NEW place \in Nat
  PROVE  Grown(t, InsertItem(u, d, n, place))
<1> DEFINE v == InsertItem(u, d, n, place)
           x == [day |-> d, sort |-> place, name |-> n, gone |-> FALSE]
<1>0. Tables(u)
  BY DEF Grown
<1>a. OneItem(u, v, x)
  BY <1>0, ItemInserted
<1> HIDE DEF v, x
<1>1. /\ Tables(v) /\ v.days = u.days /\ v.nextDay = u.nextDay
      /\ v.nextItem = u.nextItem + 1 /\ u.nextItem \in Nat \ {0}
      /\ DOMAIN v.items = DOMAIN u.items \cup {u.nextItem}
  BY <1>a DEF OneItem
<1>2. t.nextItem \in Nat /\ t.nextItem <= u.nextItem /\ DOMAIN u.items = DOMAIN t.items \cup t.nextItem .. (u.nextItem - 1)
  BY DEF Tables, Keyed, Grown
<1> HIDE DEF v
<1>3. t.nextItem <= v.nextItem /\ DOMAIN v.items = DOMAIN t.items \cup t.nextItem .. (v.nextItem - 1)
  BY <1>1, <1>2
<1> QED
  BY <1>1, <1>3 DEF Grown, v

\* A new day keeps what they have come from.
LEMMA GrownDay ==
  ASSUME NEW t, Tables(t), NEW u, Grown(t, u), NEW n \in Nat
  PROVE  Grown(t, InsertDay(u, n))
<1> DEFINE v == InsertDay(u, n)
<1>0. Tables(u)
  BY DEF Grown
<1>a. OneDay(u, v, [no |-> n, gone |-> FALSE])
  BY <1>0, DayInserted
<1> HIDE DEF v
<1>1. /\ Tables(v) /\ v.items = u.items /\ v.nextItem = u.nextItem
      /\ v.nextDay = u.nextDay + 1 /\ u.nextDay \in Nat \ {0}
      /\ DOMAIN v.days = DOMAIN u.days \cup {u.nextDay}
      /\ \A d \in DOMAIN u.days : v.days[d] = u.days[d]
  BY <1>a DEF OneDay
<1>2. /\ t.nextDay \in Nat /\ t.nextDay <= u.nextDay /\ DOMAIN u.days = DOMAIN t.days \cup t.nextDay .. (u.nextDay - 1)
      /\ \A d \in DOMAIN t.days : u.days[d].no = t.days[d].no
  BY DEF Tables, Keyed, Grown
<1> HIDE DEF v
<1>3. t.nextDay <= v.nextDay /\ DOMAIN v.days = DOMAIN t.days \cup t.nextDay .. (v.nextDay - 1)
  BY <1>1, <1>2
<1>4. \A d \in DOMAIN t.days : v.days[d].no = t.days[d].no
  BY <1>1, <1>2
<1> QED
  BY <1>1, <1>3, <1>4 DEF Grown, v

\* New rows have the next keys, so there are as many as keys were given out.
LEMMA NewKeys ==
  ASSUME NEW a \in Nat \ {0}, NEW b \in Nat, a <= b
  PROVE  a + Cardinality(a .. (b - 1)) = b
<1>1. a \in Int /\ b - 1 \in Int
  OBVIOUS
<1>2. Cardinality(a .. (b - 1)) = IF a > b - 1 THEN 0 ELSE (b - 1) - a + 1
  BY <1>1, FS_Interval
<1>3. CASE a > b - 1
  BY <1>2, <1>3
<1>4. CASE ~ (a > b - 1)
  BY <1>2, <1>4
<1> QED
  BY <1>3, <1>4

\* What nobody has changed meanwhile is what the session wants.
LEMMA FlushAlone ==
  ASSUME NEW t, Tables(t), NEW want, Grown(t, want)
  PROVE  Flush(t, t, want) = want
<1> DEFINE newDays  == DOMAIN want.days \ DOMAIN t.days
           newItems == DOMAIN want.items \ DOMAIN t.items
           u == Flush(t, t, want)
<1>1. /\ t.nextDay \in Nat \ {0} /\ t.nextItem \in Nat \ {0} /\ want.nextDay \in Nat \ {0} /\ want.nextItem \in Nat \ {0}
      /\ DOMAIN t.days \subseteq 1 .. (t.nextDay - 1) /\ DOMAIN t.items \subseteq 1 .. (t.nextItem - 1)
      /\ DOMAIN want.days \subseteq 1 .. (want.nextDay - 1) /\ DOMAIN want.items \subseteq 1 .. (want.nextItem - 1)
  BY DEF Tables, Keyed, Grown
<1>2. newDays = t.nextDay .. (want.nextDay - 1) /\ t.nextDay + Cardinality(newDays) = want.nextDay
  <2>1. t.nextDay <= want.nextDay /\ DOMAIN want.days = DOMAIN t.days \cup t.nextDay .. (want.nextDay - 1)
    BY DEF Grown
  <2>2. newDays = t.nextDay .. (want.nextDay - 1)
    BY <1>1, <2>1
  <2> QED
    BY <1>1, <2>1, <2>2, NewKeys
<1>3. newItems = t.nextItem .. (want.nextItem - 1) /\ t.nextItem + Cardinality(newItems) = want.nextItem
  <2>1. t.nextItem <= want.nextItem /\ DOMAIN want.items = DOMAIN t.items \cup t.nextItem .. (want.nextItem - 1)
    BY DEF Grown
  <2>2. newItems = t.nextItem .. (want.nextItem - 1)
    BY <1>1, <2>1
  <2> QED
    BY <1>1, <2>1, <2>2, NewKeys
<1>4. t.nextDay - t.nextDay = 0 /\ t.nextItem - t.nextItem = 0
  BY <1>1
<1> DEFINE Key(d) == IF d >= t.nextDay THEN d + (t.nextDay - t.nextDay) ELSE d
           DS == [d \in DOMAIN t.days \cup {Key(x) : x \in newDays} |->
                    IF d \notin DOMAIN t.days THEN want.days[d - (t.nextDay - t.nextDay)]
                    ELSE IF d \in DOMAIN t.days
                         THEN [t.days[d] EXCEPT !.gone = Field(@, t.days[d].gone, want.days[d].gone)]
                         ELSE t.days[d]]
           IS == [i \in DOMAIN t.items \cup {x + (t.nextItem - t.nextItem) : x \in newItems} |->
                    IF i \notin DOMAIN t.items
                    THEN [want.items[i - (t.nextItem - t.nextItem)] EXCEPT !.day = Key(@)]
                    ELSE IF i \in DOMAIN t.items
                         THEN ItemRow(t.items[i], t.items[i], [want.items[i] EXCEPT !.day = Key(@)])
                         ELSE t.items[i]]
<1>5. u = [days |-> DS, items |-> IS, length |-> Field(t.length, t.length, want.length),
           nextDay |-> t.nextDay + Cardinality(newDays), nextItem |-> t.nextItem + Cardinality(newItems)]
  BY Zenon DEF Flush
<1>6. \A d \in Nat : Key(d) = d
  BY <1>1
<1>7. DS = want.days
  <2>1. {Key(x) : x \in newDays} = newDays
    <3>1. \A x \in newDays : x \in Nat
      BY <1>1
    <3> HIDE DEF newDays, Key
    <3> QED
      BY <1>6, <3>1
  <2>2. DOMAIN t.days \cup newDays = DOMAIN want.days
    BY DEF Grown
  <2>3. ASSUME NEW d \in DOMAIN want.days
        PROVE  want.days[d] =
                  IF d \notin DOMAIN t.days THEN want.days[d - (t.nextDay - t.nextDay)]
                  ELSE IF d \in DOMAIN t.days
                       THEN [t.days[d] EXCEPT !.gone = Field(@, t.days[d].gone, want.days[d].gone)]
                       ELSE t.days[d]
    <3>1. d \in Nat
      BY <1>1
    <3>2. CASE d \notin DOMAIN t.days
      BY <1>4, <3>1, <3>2
    <3>3. CASE d \in DOMAIN t.days
      <4>1. /\ want.days[d].no = t.days[d].no
            /\ want.days[d] = [no |-> want.days[d].no, gone |-> want.days[d].gone]
            /\ t.days[d] = [no |-> t.days[d].no, gone |-> t.days[d].gone]
        BY <3>3 DEF Grown, Tables, IsDay
      <4>2. Field(t.days[d].gone, t.days[d].gone, want.days[d].gone) = want.days[d].gone
        BY DEF Field
      <4>3. [t.days[d] EXCEPT !.gone = want.days[d].gone] = want.days[d]
        BY <4>1
      <4> QED
        BY <3>3, <4>2, <4>3
    <3> QED
      BY <3>2, <3>3
  <2>4. want.days = [d \in DOMAIN want.days |-> want.days[d]]
    BY DEF Grown, Tables, Keyed
  <2> HIDE DEF Key, newDays
  <2> QED
    BY <2>1, <2>2, <2>3, <2>4
<1>8. IS = want.items
  <2>1. {x + (t.nextItem - t.nextItem) : x \in newItems} = newItems
    <3>1. \A x \in newItems : x \in Nat /\ x + (t.nextItem - t.nextItem) = x
      BY <1>1
    <3> HIDE DEF newItems
    <3> QED
      BY <3>1
  <2>2. DOMAIN t.items \cup newItems = DOMAIN want.items
    BY DEF Grown
  <2>3. ASSUME NEW i \in DOMAIN want.items
        PROVE  want.items[i] =
                    IF i \notin DOMAIN t.items
                    THEN [want.items[i - (t.nextItem - t.nextItem)] EXCEPT !.day = Key(@)]
                    ELSE IF i \in DOMAIN t.items
                         THEN ItemRow(t.items[i], t.items[i], [want.items[i] EXCEPT !.day = Key(@)])
                         ELSE t.items[i]
    <3> DEFINE w == want.items[i]
    <3>1. i \in Nat /\ i - (t.nextItem - t.nextItem) = i
      BY <1>1
    <3>2. w = [day |-> w.day, sort |-> w.sort, name |-> w.name, gone |-> w.gone] /\ w.day \in Nat
      BY DEF Grown, Tables, IsItem
    <3>3. Key(w.day) = w.day
      BY <1>6, <3>2
    <3>4. [w EXCEPT !.day = Key(@)] = w
      <4> HIDE DEF w, Key
      <4> QED
        BY <3>2, <3>3
    <3>5. ItemRow(t.items[i], t.items[i], w) = w
      <4>1. ItemRow(t.items[i], t.items[i], w) = [day |-> w.day, sort |-> w.sort, name |-> w.name, gone |-> w.gone]
        BY DEF ItemRow, Field
      <4> HIDE DEF w
      <4> QED
        BY <3>2, <4>1
    <3> HIDE DEF Key
    <3> QED
      BY <3>1, <3>4, <3>5
  <2>4. want.items = [d \in DOMAIN want.items |-> want.items[d]]
    BY DEF Grown, Tables, Keyed
  <2> HIDE DEF Key, newItems
  <2> QED
    BY <2>1, <2>2, <2>3, <2>4
<1>9. want = [days |-> want.days, items |-> want.items, length |-> want.length, nextDay |-> want.nextDay, nextItem |-> want.nextItem]
  BY DEF Grown, Tables
<1>10. Field(t.length, t.length, want.length) = want.length
  BY DEF Field
<1> HIDE DEF DS, IS, newDays, newItems, u
<1>11. u = want
  BY <1>2, <1>3, <1>5, <1>7, <1>8, <1>9, <1>10
<1> QED
  BY <1>11 DEF u

\* A row with one other column.
LEMMA ColumnSet ==
  ASSUME NEW y, IsItem(y), NEW x
  PROVE  /\ [y EXCEPT !.day = x] = [day |-> x, sort |-> y.sort, name |-> y.name, gone |-> y.gone]
         /\ [y EXCEPT !.sort = x] = [day |-> y.day, sort |-> x, name |-> y.name, gone |-> y.gone]
         /\ [y EXCEPT !.name = x] = [day |-> y.day, sort |-> y.sort, name |-> x, gone |-> y.gone]
         /\ [y EXCEPT !.gone = x] = [day |-> y.day, sort |-> y.sort, name |-> y.name, gone |-> x]
<1> DEFINE a == y.day
           b == y.sort
           c == y.name
           g == y.gone
<1>1. y = [day |-> a, sort |-> b, name |-> c, gone |-> g]
  BY DEF IsItem
<1> HIDE DEF a, b, c, g
<1>2. /\ [y EXCEPT !.day = x] = [day |-> x, sort |-> b, name |-> c, gone |-> g]
      /\ [y EXCEPT !.sort = x] = [day |-> a, sort |-> x, name |-> c, gone |-> g]
      /\ [y EXCEPT !.name = x] = [day |-> a, sort |-> b, name |-> x, gone |-> g]
      /\ [y EXCEPT !.gone = x] = [day |-> a, sort |-> b, name |-> c, gone |-> x]
  BY <1>1
<1> QED
  BY <1>2 DEF a, b, c, g

\* A row with another day and another place.
LEMMA PlaceSet ==
  ASSUME NEW y, IsItem(y), NEW d, NEW s
  PROVE  [y EXCEPT !.day = d, !.sort = s] = [day |-> d, sort |-> s, name |-> y.name, gone |-> y.gone]
<1> DEFINE a == y.day
           b == y.sort
           c == y.name
           g == y.gone
           z == [y EXCEPT !.day = d]
<1>1. y = [day |-> a, sort |-> b, name |-> c, gone |-> g]
  BY DEF IsItem
<1> HIDE DEF a, b, c, g
<1>2. z = [day |-> d, sort |-> b, name |-> c, gone |-> g]
  BY <1>1
<1> HIDE DEF z
<1>3. [z EXCEPT !.sort = s] = [day |-> d, sort |-> s, name |-> c, gone |-> g]
  BY <1>2
<1> QED
  BY <1>3, Zenon DEF z, c, g

\* Tables in which one item is another, or has gone.
ItemIs(t, u, i, row) ==
  /\ Tables(u) /\ u.days = t.days /\ u.length = t.length /\ u.nextDay = t.nextDay /\ u.nextItem = t.nextItem
  /\ DOMAIN u.items = DOMAIN t.items /\ u.items[i] = row
  /\ \A j \in DOMAIN t.items : j # i => u.items[j] = t.items[j]

\* Another row under one key.
LEMMA ItemChanged ==
  ASSUME NEW t, Tables(t), NEW i \in DOMAIN t.items, NEW row, IsItem(row)
  PROVE  ItemIs(t, [t EXCEPT !.items = [t.items EXCEPT ![i] = row]], i, row)
<1> DEFINE f == [t.items EXCEPT ![i] = row]
           u == Items(t, f)
<1>1. t.items = [k \in DOMAIN t.items |-> t.items[k]] /\ \A k \in DOMAIN t.items : IsItem(t.items[k])
  BY DEF Tables, Keyed
<1>2. f = [k \in DOMAIN t.items |-> f[k]] /\ DOMAIN f = DOMAIN t.items
  BY <1>1
<1>3. f[i] = row /\ \A j \in DOMAIN t.items : j # i => f[j] = t.items[j]
  BY <1>1
<1> HIDE DEF f
<1>4. \A k \in DOMAIN t.items : IsItem(f[k])
  BY <1>1, <1>3
<1>5. /\ Tables(u) /\ u.items = f /\ u.days = t.days /\ u.length = t.length /\ u.nextDay = t.nextDay
      /\ u.nextItem = t.nextItem
  BY <1>2, <1>4, ItemsSet
<1> HIDE DEF u
<1>6. ItemIs(t, u, i, row)
  BY <1>2, <1>3, <1>5 DEF ItemIs
<1> QED
  BY <1>6 DEF u, f, Items

\* Another row keeps what they have come from.
LEMMA GrownSet ==
  ASSUME NEW t, Tables(t), NEW u, Grown(t, u), NEW i, NEW row, NEW v, ItemIs(u, v, i, row)
  PROVE  Grown(t, v)
<1>1. /\ Tables(v) /\ v.days = u.days /\ v.nextDay = u.nextDay /\ v.nextItem = u.nextItem
      /\ DOMAIN v.items = DOMAIN u.items
  BY DEF ItemIs
<1> QED
  BY <1>1 DEF Grown

\* One more item on a free place of a live day leaves the rows in order.
LEMMA NeatAdd ==
  ASSUME NEW t, Neat(t), NEW x, ~x.gone, x.day \in LiveDays(t),
         \A j \in ItemsOf(t, x.day) : t.items[j].sort # x.sort, NEW u, OneItem(t, u, x)
  PROVE  Neat(u)
<1> DEFINE k == t.nextItem
<1>1. /\ Tables(u) /\ u.days = t.days /\ u.length = t.length /\ k \notin DOMAIN t.items
      /\ DOMAIN u.items = DOMAIN t.items \cup {k}
      /\ \A i \in DOMAIN t.items : u.items[i] = t.items[i]
      /\ u.items[k] = x
  BY DEF OneItem
<1> HIDE DEF k
<1>2. LiveDays(u) = LiveDays(t) /\ DayNos(u) = DayNos(t)
  BY <1>1 DEF LiveDays, DayNos
<1>3. \A i \in LiveItems(u) : i = k \/ (i \in LiveItems(t) /\ u.items[i] = t.items[i])
  BY <1>1 DEF LiveItems
<1>4. /\ \A i \in LiveItems(t) : t.items[i].day \in LiveDays(t)
      /\ \A i, j \in LiveItems(t) :
           t.items[i].day = t.items[j].day /\ t.items[i].sort = t.items[j].sort => i = j
      /\ \A d, e \in LiveDays(t) : t.days[d].no = t.days[e].no => d = e
      /\ DayNos(t) = 1 .. t.length
  BY DEF Neat, Tidy
<1>5. \A j \in LiveItems(t) : t.items[j].day = x.day => t.items[j].sort # x.sort
  BY DEF ItemsOf
<1>6. \A i \in LiveItems(u) : u.items[i].day \in LiveDays(u)
  BY <1>1, <1>2, <1>3, <1>4
<1>7. \A i, j \in LiveItems(u) :
           u.items[i].day = u.items[j].day /\ u.items[i].sort = u.items[j].sort => i = j
  BY <1>1, <1>3, <1>4, <1>5
<1>8. (\A d, e \in LiveDays(u) : u.days[d].no = u.days[e].no => d = e) /\ DayNos(u) = 1 .. u.length
  BY <1>1, <1>2, <1>4
<1> QED
  BY <1>1, <1>6, <1>7, <1>8 DEF Neat, Tidy

\* So does an item that goes to a free place, or goes.
LEMMA NeatSet ==
  ASSUME NEW t, Neat(t), NEW i \in DOMAIN t.items, NEW x, NEW u, ItemIs(t, u, i, x),
         ~x.gone => x.day \in LiveDays(t) /\ \A j \in ItemsOf(t, x.day) : j # i => t.items[j].sort # x.sort
  PROVE  Neat(u)
<1>1. /\ Tables(u) /\ u.days = t.days /\ u.length = t.length
      /\ DOMAIN u.items = DOMAIN t.items
      /\ \A j \in DOMAIN t.items : j # i => u.items[j] = t.items[j]
      /\ u.items[i] = x
  BY DEF ItemIs
<1>2. LiveDays(u) = LiveDays(t) /\ DayNos(u) = DayNos(t)
  BY <1>1 DEF LiveDays, DayNos
<1>3. \A j \in LiveItems(u) : (j = i /\ ~x.gone) \/ (j # i /\ j \in LiveItems(t) /\ u.items[j] = t.items[j])
  BY <1>1 DEF LiveItems
<1>4. /\ \A j \in LiveItems(t) : t.items[j].day \in LiveDays(t)
      /\ \A m, j \in LiveItems(t) :
           t.items[m].day = t.items[j].day /\ t.items[m].sort = t.items[j].sort => m = j
      /\ \A d, e \in LiveDays(t) : t.days[d].no = t.days[e].no => d = e
      /\ DayNos(t) = 1 .. t.length
  BY DEF Neat, Tidy
<1>5. ~x.gone => \A j \in LiveItems(t) : t.items[j].day = x.day /\ j # i => t.items[j].sort # x.sort
  BY DEF ItemsOf
<1>6. \A j \in LiveItems(u) : u.items[j].day \in LiveDays(u)
  BY <1>1, <1>2, <1>3, <1>4
<1>7. \A m, j \in LiveItems(u) :
           u.items[m].day = u.items[j].day /\ u.items[m].sort = u.items[j].sort => m = j
  BY <1>1, <1>3, <1>4, <1>5
<1>8. (\A d, e \in LiveDays(u) : u.days[d].no = u.days[e].no => d = e) /\ DayNos(u) = 1 .. u.length
  BY <1>1, <1>2, <1>4
<1> QED
  BY <1>1, <1>6, <1>7, <1>8 DEF Neat, Tidy

\* What an edit makes of rows in order.
Made(t, u) == Neat(u) /\ Grown(t, u)

\* A new item at the end of a day leaves the rows in order.
LEMMA MadeAdd ==
  ASSUME NEW t, Tables(t), NEW u, Made(t, u), NEW d \in LiveDays(u), NEW n
  PROVE  Made(t, InsertItem(u, d, n, NextSort(u, d)))
<1> DEFINE x == [day |-> d, sort |-> NextSort(u, d), name |-> n, gone |-> FALSE]
           v == InsertItem(u, d, n, NextSort(u, d))
<1>1. Neat(u) /\ Tables(u) /\ Grown(t, u)
  BY DEF Made, Neat
<1>2. d \in Nat
  BY <1>1 DEF Tables, Keyed, LiveDays
<1>3. NextSort(u, d) \in Nat /\ \A i \in ItemsOf(u, d) : u.items[i].sort < NextSort(u, d)
  BY <1>1, NextIsLast
<1>4. OneItem(u, v, x)
  BY <1>1, <1>2, <1>3, ItemInserted
<1>5. Grown(t, v)
  BY <1>1, <1>2, <1>3, GrownItem
<1>6. ~x.gone /\ x.day = d /\ x.sort = NextSort(u, d)
  OBVIOUS
<1>7. \A j \in ItemsOf(u, d) : u.items[j].sort # NextSort(u, d)
  <2>1. \A j \in ItemsOf(u, d) : u.items[j].sort \in Nat
    BY <1>1 DEF Tables, IsItem, ItemsOf, LiveItems
  <2> QED
    BY <1>3, <2>1
<1> HIDE DEF v, x
<1>8. Neat(v)
  BY <1>1, <1>4, <1>6, <1>7, NeatAdd
<1> QED
  BY <1>5, <1>8 DEF Made, v

\* Another name leaves the rows in order.
LEMMA MadeName ==
  ASSUME NEW t, Tables(t), NEW u, Made(t, u), NEW i \in LiveItems(u), NEW n
  PROVE  Made(t, SetName(u, i, n)) /\ SetName(u, i, n).days = u.days
<1> DEFINE row == [u.items[i] EXCEPT !.name = n]
           v == [u EXCEPT !.items = [u.items EXCEPT ![i] = row]]
           y == u.items[i]
<1>1. Neat(u) /\ Tables(u) /\ Grown(t, u)
  BY DEF Made, Neat
<1>2. SetName(u, i, n) = v
  BY DEF SetName
<1>3. i \in DOMAIN u.items /\ ~y.gone
  BY DEF LiveItems
<1>4. IsItem(y)
  BY <1>1, <1>3 DEF Tables
<1> HIDE DEF y
<1>5. [y EXCEPT !.name = n] = [day |-> y.day, sort |-> y.sort, name |-> n, gone |-> y.gone]
  BY <1>4, ColumnSet
<1>6. IsItem([y EXCEPT !.name = n])
  BY <1>4, <1>5 DEF IsItem
<1>7. IsItem(row) /\ row.day = y.day /\ row.sort = y.sort /\ row.gone = y.gone
  BY <1>5, <1>6 DEF y
<1> HIDE DEF row
<1>8. ItemIs(u, v, i, row)
  BY <1>1, <1>3, <1>7, ItemChanged
<1> HIDE DEF v
<1>9. y.day \in LiveDays(u) /\ \A j \in ItemsOf(u, y.day) : j # i => u.items[j].sort # y.sort
  BY <1>1 DEF Neat, Tidy, y, ItemsOf
<1>10. Neat(v)
  BY <1>1, <1>3, <1>7, <1>8, <1>9, NeatSet
<1>11. Grown(t, v)
  BY <1>1, <1>8, GrownSet
<1> QED
  BY <1>2, <1>8, <1>10, <1>11 DEF Made, ItemIs

\* An item that is deleted leaves the rows in order.
LEMMA MadeDrop ==
  ASSUME NEW t, Tables(t), NEW u, Made(t, u), NEW i \in LiveItems(u)
  PROVE  Made(t, Drop(u, i))
<1> DEFINE row == [u.items[i] EXCEPT !.gone = TRUE]
           v == [u EXCEPT !.items = [u.items EXCEPT ![i] = row]]
           y == u.items[i]
<1>1. Neat(u) /\ Tables(u) /\ Grown(t, u)
  BY DEF Made, Neat
<1>2. Drop(u, i) = v
  BY DEF Drop
<1>3. i \in DOMAIN u.items
  BY DEF LiveItems
<1>4. IsItem(y)
  BY <1>1, <1>3 DEF Tables
<1> HIDE DEF y
<1>5. [y EXCEPT !.gone = TRUE] = [day |-> y.day, sort |-> y.sort, name |-> y.name, gone |-> TRUE]
  BY <1>4, ColumnSet
<1>6. IsItem([y EXCEPT !.gone = TRUE])
  BY <1>4, <1>5 DEF IsItem
<1>7. IsItem(row) /\ row.gone
  BY <1>5, <1>6 DEF y
<1> HIDE DEF row
<1>8. ItemIs(u, v, i, row)
  BY <1>1, <1>3, <1>7, ItemChanged
<1> HIDE DEF v
<1>10. Neat(v)
  BY <1>1, <1>3, <1>7, <1>8, NeatSet
<1>11. Grown(t, v)
  BY <1>1, <1>8, GrownSet
<1> QED
  BY <1>2, <1>10, <1>11 DEF Made

\* An item that goes to the end of a day leaves the rows in order.
LEMMA MadeMove ==
  ASSUME NEW t, Tables(t), NEW u, Made(t, u), NEW i \in LiveItems(u), NEW d \in LiveDays(u)
  PROVE  Made(t, MoveToDay(u, i, d))
<1> DEFINE s == NextSort(u, d)
           y == u.items[i]
           row == [day |-> d, sort |-> s, name |-> y.name, gone |-> y.gone]
           v == [u EXCEPT !.items = [u.items EXCEPT ![i] = row]]
<1>1. Neat(u) /\ Tables(u) /\ Grown(t, u)
  BY DEF Made, Neat
<1>3. i \in DOMAIN u.items /\ y.gone = FALSE
  BY <1>1 DEF LiveItems, Tables, IsItem
<1>4. IsItem(y)
  BY <1>1, <1>3 DEF Tables
<1>a. s \in Nat /\ \A j \in ItemsOf(u, d) : u.items[j].sort < s
  BY <1>1, NextIsLast
<1>b. d \in Nat
  BY <1>1 DEF Tables, Keyed, LiveDays
<1> HIDE DEF s
<1>2. MoveToDay(u, i, d) = v
  <2>1. [y EXCEPT !.day = d, !.sort = s] = row
    BY <1>4, PlaceSet
  <2> QED
    BY <2>1, Zenon DEF MoveToDay, s
<1>7. IsItem(row) /\ row.day = d /\ row.sort = s /\ row.gone = FALSE
  BY <1>3, <1>4, <1>a, <1>b DEF IsItem
<1> HIDE DEF row, y
<1>8. ItemIs(u, v, i, row)
  BY <1>1, <1>3, <1>7, ItemChanged
<1> HIDE DEF v
<1>9. \A j \in ItemsOf(u, d) : u.items[j].sort # s
  <2>1. \A j \in ItemsOf(u, d) : u.items[j].sort \in Nat
    BY <1>1 DEF Tables, IsItem, ItemsOf, LiveItems
  <2> QED
    BY <1>a, <2>1
<1>10. Neat(v)
  BY <1>1, <1>3, <1>7, <1>8, <1>9, NeatSet
<1>11. Grown(t, v)
  BY <1>1, <1>8, GrownSet
<1> QED
  BY <1>2, <1>10, <1>11 DEF Made

\* An order of a set has every element of it once.
LEMMA OrderIsOnto ==
  ASSUME NEW S, IsFiniteSet(S), NEW order \in SetToSeqs(S)
  PROVE  /\ DOMAIN order \subseteq Nat \ {0}
         /\ \A k \in DOMAIN order : order[k] \in S
         /\ \A j, k \in DOMAIN order : order[j] = order[k] => j = k
         /\ \A x \in S : \E k \in DOMAIN order : order[k] = x
<1> DEFINE n == Cardinality(S)
<1>1. n \in Nat
  BY FS_CardinalityType
<1>2. order \in [1 .. n -> S] /\ \A j, k \in 1 .. n : j # k => order[j] # order[k]
  BY DEF SetToSeqs
<1>3. IsFiniteSet(1 .. n) /\ Cardinality(1 .. n) = n
  BY <1>1, FS_Interval
<1> HIDE DEF n
<1>4. order \in Injection(1 .. n, S)
  BY <1>2 DEF Injection, IsInjective
<1>5. order \in Surjection(1 .. n, S)
  BY <1>3, <1>4, FS_Injection DEF n
<1> QED
  BY <1>1, <1>2, <1>5 DEF Surjection

\* The order of one day leaves the rows in order, and the bill as it was.
LEMMA MadeReorder ==
  ASSUME NEW t, Neat(t), NEW d \in LiveDays(t), NEW order \in SetToSeqs(ItemsOf(t, d))
  PROVE  Made(t, Reorder(t, order)) /\ Bill(Reorder(t, order)) = Bill(t)
<1> DEFINE In(i) == \E k \in DOMAIN order : order[k] = i
           At(i) == CHOOSE k \in DOMAIN order : order[k] = i
           f == [i \in DOMAIN t.items |->
                   IF In(i) THEN [t.items[i] EXCEPT !.sort = At(i) - 1] ELSE t.items[i]]
           u == Items(t, f)
           S == ItemsOf(t, d)
<1>0. Reorder(t, order) = u
  BY DEF Reorder, Items
<1>1. Tables(t) /\ Tidy(t)
  BY DEF Neat
<1>2. S \subseteq DOMAIN t.items /\ \A i \in S : ~t.items[i].gone /\ t.items[i].day = d
  BY DEF ItemsOf, LiveItems
<1>3. IsFiniteSet(S)
  BY <1>1, <1>2, KeysFinite
<1> HIDE DEF S
<1>4. /\ DOMAIN order \subseteq Nat \ {0}
      /\ \A k \in DOMAIN order : order[k] \in S
      /\ \A j, k \in DOMAIN order : order[j] = order[k] => j = k
      /\ \A x \in S : \E k \in DOMAIN order : order[k] = x
  BY <1>3, OrderIsOnto DEF S
<1>5. \A i : In(i) <=> i \in S
  BY <1>4
<1>6. \A i \in S : At(i) \in DOMAIN order /\ order[At(i)] = i /\ At(i) - 1 \in Nat
  BY <1>4
<1> HIDE DEF In, At
<1>7. ASSUME NEW i \in DOMAIN t.items
      PROVE  /\ IsItem(f[i]) /\ f[i].day = t.items[i].day /\ f[i].name = t.items[i].name
             /\ f[i].gone = t.items[i].gone
             /\ f[i].sort = IF i \in S THEN At(i) - 1 ELSE t.items[i].sort
  <2> DEFINE y == t.items[i]
  <2>1. IsItem(y)
    BY <1>1 DEF Tables
  <2> HIDE DEF y
  <2>2. CASE i \in S
    <3> DEFINE s == At(i) - 1
    <3>1. f[i] = [y EXCEPT !.sort = s] /\ s \in Nat
      BY <1>5, <1>6, <2>2 DEF y
    <3> HIDE DEF f, s
    <3>2. [y EXCEPT !.sort = s] = [day |-> y.day, sort |-> s, name |-> y.name, gone |-> y.gone]
      BY <2>1, ColumnSet
    <3>3. IsItem(f[i])
      BY <2>1, <3>1, <3>2 DEF IsItem
    <3> QED
      BY <2>2, <3>1, <3>2, <3>3 DEF y, s
  <2>3. CASE i \notin S
    BY <1>5, <2>1, <2>3 DEF y
  <2> QED
    BY <2>2, <2>3
<1>8. f = [i \in DOMAIN t.items |-> f[i]] /\ DOMAIN f = DOMAIN t.items
  OBVIOUS
<1> HIDE DEF f
<1>9. /\ Tables(u) /\ u.items = f /\ u.days = t.days
      /\ u.length = t.length /\ u.nextDay = t.nextDay
      /\ u.nextItem = t.nextItem
  BY <1>1, <1>7, <1>8, ItemsSet
<1> HIDE DEF u
<1>10. LiveItems(u) = LiveItems(t) /\ LiveDays(u) = LiveDays(t) /\ DayNos(u) = DayNos(t)
  BY <1>7, <1>8, <1>9 DEF LiveItems, LiveDays, DayNos
<1>11. LiveItems(t) \subseteq DOMAIN t.items
  BY DEF LiveItems
<1>12. \A i, j \in LiveItems(t) :
           u.items[i].day = u.items[j].day /\ u.items[i].sort = u.items[j].sort => i = j
  <2> SUFFICES ASSUME NEW i \in LiveItems(t), NEW j \in LiveItems(t),
                      f[i].day = f[j].day, f[i].sort = f[j].sort
               PROVE  i = j
    BY <1>9
  <2>1. f[i].day = t.items[i].day /\ f[j].day = t.items[j].day
    BY <1>7, <1>11
  <2>2. i \in S <=> j \in S
    BY <2>1 DEF S, ItemsOf
  <2>3. CASE i \in S
    <3>1. At(i) - 1 = At(j) - 1
      BY <1>7, <1>11, <2>2, <2>3
    <3>2. At(i) \in Nat /\ At(j) \in Nat
      BY <1>4, <1>6, <2>2, <2>3
    <3>3. At(i) = At(j)
      BY <3>1, <3>2
    <3> QED
      BY <1>6, <2>2, <2>3, <3>3
  <2>4. CASE i \notin S
    <3>1. f[i].sort = t.items[i].sort /\ f[j].sort = t.items[j].sort
      BY <1>7, <1>11, <2>2, <2>4
    <3> QED
      BY <1>1, <2>1, <3>1 DEF Tidy
  <2> QED
    BY <2>3, <2>4
<1>13. \A i \in LiveItems(t) : u.items[i].day \in LiveDays(t)
  <2>1. \A i \in LiveItems(t) : t.items[i].day \in LiveDays(t)
    BY <1>1 DEF Tidy
  <2> QED
    BY <1>7, <1>9, <1>11, <2>1
<1>14. Neat(u)
  BY <1>1, <1>9, <1>10, <1>12, <1>13 DEF Neat, Tidy
<1>15. Grown(t, u)
  <2>1. Grown(t, t)
    BY <1>1, GrownSelf
  <2> QED
    BY <1>8, <1>9, <2>1 DEF Grown
<1>16. Bill(u) = Bill(t)
  <2>1. ASSUME NEW n \in Names
        PROVE  {i \in LiveItems(u) : u.items[i].name = n} = {i \in LiveItems(t) : t.items[i].name = n}
    <3>1. \A i \in LiveItems(t) : u.items[i].name = t.items[i].name
      BY <1>7, <1>9, <1>11
    <3> QED
      BY <1>10, <3>1
  <2> QED
    BY <1>9, <2>1 DEF Bill
<1> QED
  BY <1>0, <1>14, <1>15, <1>16 DEF Made

-----------------------------------------------------------------------------
(* A hotel for some nights. *)

\* Rows in order are in order if nothing is done to them.
LEMMA MadeSelf == ASSUME NEW t, Neat(t) PROVE Made(t, t)
  BY GrownSelf DEF Made, Neat

\* One night of a hotel, and what the nights keep.
HotelTurn(p, u, n) == IF n \in p.nights THEN PutHotel(u, p.hotel, n) ELSE u
HotelsSo(q, k, u) == Made(q, u) /\ u.days = q.days
HotelFold == INSTANCE FoldLaws WITH Op <- HotelTurn, Kept <- HotelsSo

\* The hotel of one night.
LEMMA HotelPut ==
  ASSUME NEW t, Tables(t), NEW u, HotelsSo(t, 0, u), NEW hotel, NEW n \in DayNos(t)
  PROVE  HotelsSo(t, 0, PutHotel(u, hotel, n))
<1> DEFINE d == CHOOSE x \in DaysAt(u, n) : TRUE
           beds == {i \in ItemsOf(u, d) : u.items[i].name \in Hotels}
<1>1. Made(t, u) /\ u.days = t.days /\ Tables(u)
  BY DEF HotelsSo, Made, Neat
<1>2. DaysAt(u, n) # {}
  BY <1>1 DEF DayNos, DaysAt, LiveDays
<1>3. d \in LiveDays(u)
  BY <1>2 DEF DaysAt
<1> HIDE DEF d
<1>4. PutHotel(u, hotel, n) =
        IF beds = {} THEN InsertItem(u, d, hotel, NextSort(u, d)) ELSE SetName(u, Min(beds), hotel)
  BY DEF PutHotel, d
<1>5. CASE beds = {}
  <2> DEFINE s == NextSort(u, d)
             v == InsertItem(u, d, hotel, s)
             x == [day |-> d, sort |-> s, name |-> hotel, gone |-> FALSE]
  <2>1. Made(t, v)
    BY <1>1, <1>3, MadeAdd
  <2>2. d \in Nat /\ s \in Nat
    BY <1>1, <1>3, NextIsLast DEF Tables, Keyed, LiveDays
  <2> HIDE DEF s
  <2>3. OneItem(u, v, x)
    BY <1>1, <2>2, ItemInserted
  <2> HIDE DEF v, x
  <2>4. v.days = u.days
    BY <2>3 DEF OneItem
  <2> QED
    BY <1>1, <1>4, <1>5, <2>1, <2>4 DEF HotelsSo, v, s
<1>6. CASE beds # {}
  <2>1. beds \subseteq 1 .. (u.nextItem - 1) /\ u.nextItem - 1 \in Nat /\ beds \subseteq LiveItems(u)
    BY <1>1 DEF ItemsOf, LiveItems, Tables, Keyed
  <2> HIDE DEF beds
  <2>2. Min(beds) \in beds
    BY <1>6, <2>1, HotelFold!LeastOf DEF Min, HotelFold!Min
  <2>3. Made(t, SetName(u, Min(beds), hotel)) /\ SetName(u, Min(beds), hotel).days = u.days
    BY <1>1, <2>1, <2>2, MadeName
  <2> QED
    BY <1>1, <1>4, <1>6, <2>3 DEF HotelsSo
<1> QED
  BY <1>5, <1>6

\* A hotel leaves the rows in order.
LEMMA MadeHotel ==
  ASSUME NEW t, Neat(t), NEW hotel, NEW nights, nights \subseteq DayNos(t)
  PROVE  Made(t, ApplyHotel(t, hotel, nights))
<1> DEFINE p == [hotel |-> hotel, nights |-> nights]
           s == [n \in 1 .. TripDays |-> n]
<1>1. ApplyHotel(t, hotel, nights) = HotelFold!Fold(p, t, s)
  BY DEF ApplyHotel, HotelFold!Fold, HotelTurn, FoldLeft, HotelFold!FoldLeft, MapThenFoldSet,
         HotelFold!MapThenFoldSet, Max, HotelFold!Max
<1>2. p.hotel = hotel /\ p.nights = nights /\ DOMAIN s = 1 .. TripDays /\ TripDays \in Nat
  BY TripRowsAssumption
<1> HIDE DEF p, s
<1>3. HotelsSo(t, 0, t)
  BY MadeSelf DEF HotelsSo
<1>4. \A k \in 0 .. (TripDays - 1) : \A u : HotelsSo(t, k, u) => HotelsSo(t, k + 1, HotelTurn(p, u, s[k + 1]))
  <2> SUFFICES ASSUME NEW k \in 0 .. (TripDays - 1), NEW u, HotelsSo(t, k, u)
               PROVE  HotelsSo(t, k + 1, HotelTurn(p, u, s[k + 1]))
    OBVIOUS
  <2> DEFINE n == s[k + 1]
  <2> HIDE DEF n
  <2>1. HotelsSo(t, 0, u) /\ Tables(t)
    BY DEF HotelsSo, Neat
  <2>2. CASE n \in nights
    <3>1. HotelsSo(t, 0, PutHotel(u, hotel, n))
      BY <2>1, <2>2, HotelPut
    <3>2. HotelTurn(p, u, n) = PutHotel(u, hotel, n)
      BY <1>2, <2>2 DEF HotelTurn
    <3> QED
      BY <3>1, <3>2 DEF HotelsSo, n
  <2>3. CASE n \notin nights
    BY <1>2, <2>1, <2>3 DEF HotelTurn, HotelsSo, n
  <2> QED
    BY <2>2, <2>3
<1>5. HotelsSo(t, TripDays, HotelFold!Fold(p, t, s))
  BY <1>2, <1>3, <1>4, HotelFold!FoldKeeps
<1> QED
  BY <1>1, <1>5 DEF HotelsSo

-----------------------------------------------------------------------------
(* The lines of a draft. *)

\* One item goes to a place: a new one, or one that is there.
Landed(u, v, i, d, place) ==
  /\ Tables(v) /\ v.days = u.days /\ v.length = u.length /\ v.nextDay = u.nextDay
  /\ DOMAIN v.items = DOMAIN u.items \cup {i}
  /\ \A j \in DOMAIN u.items : j # i => v.items[j] = u.items[j]
  /\ v.items[i].day = d /\ v.items[i].sort = place
  /\ v.items[i].gone = (IF i \in DOMAIN u.items THEN u.items[i].gone ELSE FALSE)

\* One line of a draft is a new item, or one that is there.
LEMMA LineLands ==
  ASSUME NEW t, Tables(t), NEW u, Grown(t, u), NEW d \in Nat, NEW place \in Nat, NEW line,
         line.id = 0 \/ line.id \in DOMAIN u.items
  PROVE  /\ Grown(t, PutLine(u, d, place, line))
         /\ \E i : (line.id # 0 => i = line.id) /\ Landed(u, PutLine(u, d, place, line), i, d, place)
<1> DEFINE v == PutLine(u, d, place, line)
<1>0. Tables(u)
  BY DEF Grown
<1>1. CASE line.id = 0
  <2> DEFINE x == [day |-> d, sort |-> place, name |-> line.name, gone |-> FALSE]
  <2>1. v = InsertItem(u, d, line.name, place)
    BY <1>1 DEF PutLine
  <2> HIDE DEF v
  <2>2. OneItem(u, v, x) /\ Grown(t, v)
    BY <1>0, <2>1, ItemInserted, GrownItem
  <2>3. x.day = d /\ x.sort = place /\ x.gone = FALSE
    OBVIOUS
  <2> HIDE DEF x
  <2>4. Landed(u, v, u.nextItem, d, place)
    BY <2>2, <2>3 DEF OneItem, Landed
  <2> QED
    BY <1>1, <2>2, <2>4 DEF v
<1>2. CASE line.id # 0
  <2> DEFINE i == line.id
             y == u.items[i]
             row == [day |-> d, sort |-> place, name |-> y.name, gone |-> y.gone]
  <2>1. i \in DOMAIN u.items
    BY <1>2
  <2>2. IsItem(y)
    BY <1>0, <2>1 DEF Tables
  <2>3. [y EXCEPT !.day = d, !.sort = place] = row
    <3> HIDE DEF y
    <3> QED
      BY <2>2, PlaceSet
  <2>4. v = [u EXCEPT !.items = [u.items EXCEPT ![i] = row]]
    BY <1>2, <2>3, Zenon DEF PutLine
  <2>5. IsItem(row) /\ row.day = d /\ row.sort = place /\ row.gone = y.gone
    BY <2>2 DEF IsItem
  <2> HIDE DEF row, v, i
  <2>6. ItemIs(u, v, i, row)
    BY <1>0, <2>1, <2>4, <2>5, ItemChanged
  <2>7. Grown(t, v)
    BY <2>6, GrownSet
  <2>8. Landed(u, v, i, d, place)
    BY <2>1, <2>5, <2>6 DEF ItemIs, Landed
  <2> QED
    BY <2>7, <2>8 DEF v, i
<1> QED
  BY <1>1, <1>2

\* The items X have been given places in the days E; the others are as they were.
Placed(t, u, X, E) ==
  /\ Grown(t, u)
  /\ X \subseteq DOMAIN u.items /\ DOMAIN u.items \ DOMAIN t.items \subseteq X
  /\ \A i \in DOMAIN t.items : u.items[i].gone = t.items[i].gone
  /\ \A i \in DOMAIN u.items \ DOMAIN t.items : u.items[i].gone = FALSE
  /\ \A i \in X : u.items[i].day \in E
  /\ \A i, j \in X : u.items[i].day = u.items[j].day /\ u.items[i].sort = u.items[j].sort => i = j

\* One more item has its place, after the others of its day.
LEMMA PlacedNext ==
  ASSUME NEW t, Tables(t), NEW u, NEW X, NEW E, NEW d \in E, NEW place \in Nat, Placed(t, u, X, E),
         \A i \in X : u.items[i].day = d => u.items[i].sort < place,
         NEW v, NEW i, Landed(u, v, i, d, place), Grown(t, v)
  PROVE  /\ Placed(t, v, X \cup {i}, E)
         /\ \A j \in X \cup {i} : v.items[j].day = d => v.items[j].sort < place + 1
<1> DEFINE Y == X \cup {i}
<1>1. /\ DOMAIN v.items = DOMAIN u.items \cup {i}
      /\ \A j \in DOMAIN u.items : j # i => v.items[j] = u.items[j]
      /\ v.items[i].day = d /\ v.items[i].sort = place
      /\ v.items[i].gone = (IF i \in DOMAIN u.items THEN u.items[i].gone ELSE FALSE)
  BY DEF Landed
<1>2. /\ X \subseteq DOMAIN u.items /\ DOMAIN u.items \ DOMAIN t.items \subseteq X
      /\ \A j \in DOMAIN t.items : u.items[j].gone = t.items[j].gone
      /\ \A j \in DOMAIN u.items \ DOMAIN t.items : u.items[j].gone = FALSE
      /\ \A j \in X : u.items[j].day \in E
      /\ \A j, k \in X : u.items[j].day = u.items[k].day /\ u.items[j].sort = u.items[k].sort => j = k
      /\ DOMAIN t.items \subseteq DOMAIN u.items
  BY DEF Placed, Grown
<1>3. \A j \in DOMAIN u.items : u.items[j].sort \in Nat
  BY DEF Placed, Grown, Tables, IsItem
<1>4. Y \subseteq DOMAIN v.items /\ DOMAIN v.items \ DOMAIN t.items \subseteq Y
  BY <1>1, <1>2
<1>5. \A j \in DOMAIN t.items : v.items[j].gone = t.items[j].gone
  BY <1>1, <1>2
<1>6. \A j \in DOMAIN v.items \ DOMAIN t.items : v.items[j].gone = FALSE
  BY <1>1, <1>2
<1>7. \A j \in Y : v.items[j].day \in E
  BY <1>1, <1>2
<1>8. \A j \in X : v.items[j].day = d /\ j # i => v.items[j].sort < place /\ v.items[j].sort \in Nat
  BY <1>1, <1>2, <1>3
<1>9. \A j, k \in Y : v.items[j].day = v.items[k].day /\ v.items[j].sort = v.items[k].sort => j = k
  BY <1>1, <1>2, <1>8
<1>10. \A j \in Y : v.items[j].day = d => v.items[j].sort < place + 1
  BY <1>1, <1>8
<1> QED
  BY <1>4, <1>5, <1>6, <1>7, <1>9, <1>10 DEF Placed

\* The lines of one day.
LineTurn(p, u, j) == PutLine(u, p.day, j - 1, p.lines[j])
LinesSo(q, k, u) ==
  /\ u.days = q.from.days /\ u.length = q.from.length /\ u.nextDay = q.from.nextDay
  /\ \E X : /\ Placed(q.base, u, X, q.days) /\ q.placed \subseteq X
            /\ \A i \in X : u.items[i].day = q.day => u.items[i].sort < k
            /\ \A j \in 1 .. k : q.lines[j].id # 0 => q.lines[j].id \in X
LineFold == INSTANCE FoldLaws WITH Op <- LineTurn, Kept <- LinesSo

Has(lines, X) == \A j \in DOMAIN lines : lines[j].id # 0 => lines[j].id \in X

\* The lines of one day have their places.
DayDone(t, u, X, E, d, lines, v) ==
  /\ v.days = u.days /\ v.length = u.length /\ v.nextDay = u.nextDay
  /\ \E Y : Placed(t, v, Y, E \cup {d}) /\ X \subseteq Y /\ Has(lines, Y)

\* Every line of a day is placed, none where another one is.
LEMMA DayPut ==
  ASSUME NEW t, Tables(t), NEW u, NEW X, NEW E, Placed(t, u, X, E), NEW d \in Nat, d \notin E,
         NEW n \in Nat, NEW lines, DOMAIN lines = 1 .. n,
         \A j \in 1 .. n : lines[j].id = 0 \/ lines[j].id \in DOMAIN t.items
  PROVE  DayDone(t, u, X, E, d, lines, PutDay(u, d, lines))
<1> DEFINE F == E \cup {d}
           p == [day |-> d, lines |-> lines]
           q == [base |-> t, from |-> u, placed |-> X, days |-> F, day |-> d, lines |-> lines]
           s == [j \in DOMAIN lines |-> j]
           v == PutDay(u, d, lines)
<1>1. v = LineFold!Fold(p, u, s)
  BY DEF PutDay, LineFold!Fold, LineTurn, FoldLeft, LineFold!FoldLeft, MapThenFoldSet,
         LineFold!MapThenFoldSet, Max, LineFold!Max
<1>2. /\ p.day = d /\ p.lines = lines /\ DOMAIN s = 1 .. n /\ \A j \in 1 .. n : s[j] = j
      /\ q.base = t /\ q.from = u /\ q.placed = X /\ q.days = F /\ q.day = d /\ q.lines = lines
  OBVIOUS
<1> HIDE DEF p, q, s, v
<1>3. LinesSo(q, 0, u)
  <2>1. Placed(t, u, X, F) /\ \A i \in X : u.items[i].day # d
    BY DEF Placed
  <2> HIDE DEF F
  <2> QED
    BY <1>2, <2>1 DEF LinesSo
<1>4. \A k \in 0 .. (n - 1) : \A w : LinesSo(q, k, w) => LinesSo(q, k + 1, LineTurn(p, w, s[k + 1]))
  <2> SUFFICES ASSUME NEW k \in 0 .. (n - 1), NEW w, LinesSo(q, k, w)
               PROVE  LinesSo(q, k + 1, LineTurn(p, w, s[k + 1]))
    OBVIOUS
  <2> DEFINE line == lines[k + 1]
             z == PutLine(w, d, k, line)
  <2>0. k + 1 \in 1 .. n /\ k \in Nat /\ (k + 1) - 1 = k
    OBVIOUS
  <2>1. LineTurn(p, w, s[k + 1]) = z
    BY <1>2, <2>0 DEF LineTurn
  <2>2. /\ w.days = u.days /\ w.length = u.length /\ w.nextDay = u.nextDay
    BY <1>2 DEF LinesSo
  <2>3. PICK Y : /\ Placed(t, w, Y, F) /\ X \subseteq Y
                 /\ \A i \in Y : w.items[i].day = d => w.items[i].sort < k
                 /\ \A j \in 1 .. k : lines[j].id # 0 => lines[j].id \in Y
    BY <1>2 DEF LinesSo
  <2>4. Grown(t, w) /\ (line.id = 0 \/ line.id \in DOMAIN w.items)
    BY <2>0, <2>3 DEF Placed, Grown
  <2> HIDE DEF line
  <2>5. Grown(t, z) /\ \E i : (line.id # 0 => i = line.id) /\ Landed(w, z, i, d, k)
    BY <2>0, <2>4, LineLands
  <2> HIDE DEF z
  <2>6. PICK i : (line.id # 0 => i = line.id) /\ Landed(w, z, i, d, k)
    BY <2>5
  <2> DEFINE Z == Y \cup {i}
  <2>7. d \in F
    OBVIOUS
  <2> HIDE DEF F
  <2>8. Placed(t, z, Z, F) /\ \A j \in Z : z.items[j].day = d => z.items[j].sort < k + 1
    BY <2>0, <2>3, <2>5, <2>6, <2>7, PlacedNext
  <2>9. \A j \in 1 .. (k + 1) : lines[j].id # 0 => lines[j].id \in Z
    <3>1. \A j \in 1 .. (k + 1) : j \in 1 .. k \/ j = k + 1
      BY <2>0
    <3> QED
      BY <2>3, <2>6, <3>1 DEF line
  <2>10. X \subseteq Z /\ z.days = u.days /\ z.length = u.length /\ z.nextDay = u.nextDay
    BY <2>2, <2>3, <2>6 DEF Landed
  <2> HIDE DEF Z
  <2> QED
    BY <1>2, <2>1, <2>8, <2>9, <2>10 DEF LinesSo
<1>5. LinesSo(q, n, v)
  BY <1>1, <1>2, <1>3, <1>4, LineFold!FoldKeeps
<1> QED
  BY <1>2, <1>5 DEF LinesSo, v, DayDone, Has

-----------------------------------------------------------------------------
(* The days of a draft. *)

\* A day whose number nobody has keeps the numbers apart.
LEMMA DayAdded ==
  ASSUME NEW u, NEW n, NEW v, OneDay(u, v, [no |-> n, gone |-> FALSE])
  PROVE  /\ LiveDays(v) = LiveDays(u) \cup {u.nextDay} /\ DayNos(v) = DayNos(u) \cup {n}
         /\ (\A d, e \in LiveDays(u) : u.days[d].no = u.days[e].no => d = e) /\ n \notin DayNos(u) =>
              \A d, e \in LiveDays(v) : v.days[d].no = v.days[e].no => d = e
<1> DEFINE k == u.nextDay
           x == [no |-> n, gone |-> FALSE]
<1>1. /\ k \notin DOMAIN u.days /\ DOMAIN v.days = DOMAIN u.days \cup {k}
      /\ \A d \in DOMAIN u.days : v.days[d] = u.days[d]
      /\ v.days[k] = x
  BY DEF OneDay
<1>2. x.no = n /\ x.gone = FALSE
  OBVIOUS
<1> HIDE DEF k, x
<1>3. LiveDays(v) = LiveDays(u) \cup {k}
  BY <1>1, <1>2 DEF LiveDays
<1>4. LiveDays(u) \subseteq DOMAIN u.days
  BY DEF LiveDays
<1>5. DayNos(v) = DayNos(u) \cup {n}
  BY <1>1, <1>2, <1>3, <1>4 DEF DayNos
<1>6. \A d \in LiveDays(u) : u.days[d].no \in DayNos(u)
  BY DEF DayNos
<1> QED
  BY <1>1, <1>2, <1>3, <1>4, <1>5, <1>6 DEF k

\* The days that a draft needs, each one added if nobody has its number.
MissingTurn(p, u, n) == AddMissing(u, n)
MissingSo(t, k, u) ==
  /\ Grown(t, u) /\ u.items = t.items /\ u.length = t.length
  /\ \A d \in DOMAIN t.days : u.days[d] = t.days[d]
  /\ \A d, e \in LiveDays(u) : u.days[d].no = u.days[e].no => d = e
  /\ DayNos(u) = 1 .. t.length \cup 1 .. k
MissingFold == INSTANCE FoldLaws WITH Op <- MissingTurn, Kept <- MissingSo

\* After them every number of the draft is a day, once.
LEMMA MissingDays ==
  ASSUME NEW t, Neat(t), NEW n \in Nat, NEW draft, DOMAIN draft = 1 .. n
  PROVE  MissingSo(t, n, FoldLeft(AddMissing, t, [k \in DOMAIN draft |-> k]))
<1> DEFINE s == [k \in DOMAIN draft |-> k]
<1>1. FoldLeft(AddMissing, t, s) = MissingFold!Fold(0, t, s)
  BY DEF MissingFold!Fold, MissingTurn, FoldLeft, MissingFold!FoldLeft, MapThenFoldSet,
         MissingFold!MapThenFoldSet, Max, MissingFold!Max
<1>2. DOMAIN s = 1 .. n /\ \A k \in 1 .. n : s[k] = k
  OBVIOUS
<1> HIDE DEF s
<1>t. Tables(t) /\ t.length \in Nat
  BY DEF Neat, Tables
<1>3. MissingSo(t, 0, t)
  <2>1. 1 .. 0 = {}
    OBVIOUS
  <2> QED
    BY <2>1, <1>t, GrownSelf DEF MissingSo, Neat, Tidy
<1>4. \A k \in 0 .. (n - 1) : \A u : MissingSo(t, k, u) => MissingSo(t, k + 1, MissingTurn(0, u, s[k + 1]))
  <2> SUFFICES ASSUME NEW k \in 0 .. (n - 1), NEW u, MissingSo(t, k, u)
               PROVE  MissingSo(t, k + 1, MissingTurn(0, u, s[k + 1]))
    OBVIOUS
  <2> DEFINE m == k + 1
             v == AddMissing(u, m)
  <2>1. m \in 1 .. n /\ m \in Nat /\ 1 .. m = 1 .. k \cup {m}
    OBVIOUS
  <2>2. MissingTurn(0, u, s[k + 1]) = v
    BY <1>2, <2>1 DEF MissingTurn
  <2>3. /\ Grown(t, u) /\ u.items = t.items /\ u.length = t.length /\ Tables(u)
        /\ \A d \in DOMAIN t.days : u.days[d] = t.days[d]
        /\ \A d, e \in LiveDays(u) : u.days[d].no = u.days[e].no => d = e
        /\ DayNos(u) = 1 .. t.length \cup 1 .. k
    BY DEF MissingSo, Grown
  <2> HIDE DEF m
  <2>4. CASE m \in DayNos(u)
    <3>1. v = u
      BY <2>4 DEF AddMissing
    <3>2. DayNos(u) = 1 .. t.length \cup 1 .. m
      BY <2>1, <2>3, <2>4
    <3> QED
      BY <2>2, <2>3, <3>1, <3>2 DEF MissingSo, m
  <2>5. CASE m \notin DayNos(u)
    <3>1. v = InsertDay(u, m)
      BY <2>5 DEF AddMissing
    <3> HIDE DEF v
    <3>2. OneDay(u, v, [no |-> m, gone |-> FALSE]) /\ Grown(t, v)
      BY <1>t, <2>1, <2>3, <3>1, DayInserted, GrownDay
    <3>3. /\ DayNos(v) = DayNos(u) \cup {m}
          /\ \A d, e \in LiveDays(v) : v.days[d].no = v.days[e].no => d = e
      BY <2>3, <2>5, <3>2, DayAdded
    <3>4. DayNos(v) = 1 .. t.length \cup 1 .. m
      BY <2>1, <2>3, <3>3
    <3>5. v.items = t.items /\ v.length = t.length
      BY <2>3, <3>2 DEF OneDay
    <3>6. \A d \in DOMAIN t.days : v.days[d] = t.days[d]
      <4>1. DOMAIN t.days \subseteq DOMAIN u.days
        BY <2>3 DEF Grown
      <4>2. \A d \in DOMAIN u.days : v.days[d] = u.days[d]
        BY <3>2 DEF OneDay
      <4> QED
        BY <2>3, <4>1, <4>2
    <3> QED
      BY <2>2, <3>2, <3>3, <3>4, <3>5, <3>6 DEF MissingSo, m
  <2> QED
    BY <2>4, <2>5
<1>5. MissingSo(t, n, MissingFold!Fold(0, t, s))
  BY <1>2, <1>3, <1>4, MissingFold!FoldKeeps
<1> QED
  BY <1>1, <1>5 DEF s

\* The days of a draft, one after the other.
PlanTurn(p, u, k) == PutDay(u, CHOOSE d \in DaysAt(p.longer, k) : TRUE, p.draft[k])
DayOf(longer, k) == CHOOSE d \in DaysAt(longer, k) : TRUE
DaysTo(longer, k) == {DayOf(longer, m) : m \in 1 .. k}
HasTo(draft, k, X) == \A m \in 1 .. k : Has(draft[m], X)
PlanDone(t, longer, draft, k, u) ==
  /\ u.days = longer.days /\ u.length = longer.length /\ u.nextDay = longer.nextDay
  /\ \E X : Placed(t, u, X, DaysTo(longer, k)) /\ HasTo(draft, k, X)
PlanSo(q, k, u) == PlanDone(q.base, q.longer, q.draft, k, u)
PlanFold == INSTANCE FoldLaws WITH Op <- PlanTurn, Kept <- PlanSo

\* One day more of a draft.
LEMMA DaysToNext ==
  ASSUME NEW longer, NEW n \in Nat, 1 .. n \subseteq DayNos(longer), NEW k \in 0 .. (n - 1)
  PROVE  /\ DaysTo(longer, k + 1) = DaysTo(longer, k) \cup {DayOf(longer, k + 1)}
         /\ DayOf(longer, k + 1) \notin DaysTo(longer, k)
         /\ DayOf(longer, k + 1) \in LiveDays(longer)
<1>1. \A m \in 1 .. n : DayOf(longer, m) \in LiveDays(longer) /\ longer.days[DayOf(longer, m)].no = m
  <2> SUFFICES ASSUME NEW m \in 1 .. n
               PROVE  DayOf(longer, m) \in LiveDays(longer) /\ longer.days[DayOf(longer, m)].no = m
    OBVIOUS
  <2>1. DaysAt(longer, m) # {}
    BY DEF DayNos, DaysAt
  <2> QED
    BY <2>1 DEF DayOf, DaysAt
<1>2. k + 1 \in 1 .. n /\ 1 .. (k + 1) = 1 .. k \cup {k + 1} /\ \A m \in 1 .. k : m \in 1 .. n /\ m # k + 1
  OBVIOUS
<1>3. \A m \in 1 .. k : DayOf(longer, m) # DayOf(longer, k + 1)
  BY <1>1, <1>2
<1>4. DayOf(longer, k + 1) \notin DaysTo(longer, k)
  BY <1>3 DEF DaysTo
<1>5. DaysTo(longer, k + 1) = DaysTo(longer, k) \cup {DayOf(longer, k + 1)}
  <2> DEFINE f(m) == DayOf(longer, m)
  <2> HIDE DEF f
  <2>1. {f(m) : m \in 1 .. (k + 1)} = {f(m) : m \in 1 .. k} \cup {f(k + 1)}
    BY <1>2
  <2> QED
    BY <2>1 DEF DaysTo, f
<1> QED
  BY <1>1, <1>2, <1>4, <1>5

\* The days of a draft with their lines.
Filled(longer, draft) ==
  FoldLeft(LAMBDA u, k : PutDay(u, CHOOSE d \in DaysAt(longer, k) : TRUE, draft[k]),
           longer, [k \in DOMAIN draft |-> k])

\* Every line of a draft is placed, none where another one is.
LEMMA PlanPut ==
  ASSUME NEW t, Tables(t), NEW n \in Nat, NEW draft, DOMAIN draft = 1 .. n,
         \A k \in 1 .. n : \E m \in Nat : DOMAIN draft[k] = 1 .. m,
         \A k \in 1 .. n : \A j \in DOMAIN draft[k] : draft[k][j].id = 0 \/ draft[k][j].id \in DOMAIN t.items,
         NEW longer, Grown(t, longer), longer.items = t.items, 1 .. n \subseteq DayNos(longer)
  PROVE  PlanDone(t, longer, draft, n, Filled(longer, draft))
<1> DEFINE p == [longer |-> longer, draft |-> draft]
           q == [base |-> t, longer |-> longer, draft |-> draft]
           s == [k \in DOMAIN draft |-> k]
           v == Filled(longer, draft)
<1>1. v = PlanFold!Fold(p, longer, s)
  BY DEF Filled, PlanFold!Fold, PlanTurn, FoldLeft, PlanFold!FoldLeft, MapThenFoldSet,
         PlanFold!MapThenFoldSet, Max, PlanFold!Max
<1>2. /\ p.longer = longer /\ p.draft = draft /\ DOMAIN s = 1 .. n /\ \A j \in 1 .. n : s[j] = j
      /\ q.base = t /\ q.longer = longer /\ q.draft = draft
  OBVIOUS
<1> HIDE DEF p, q, s
<1>3. PlanDone(t, longer, draft, 0, longer)
  <2>1. 1 .. 0 = {}
    OBVIOUS
  <2>2. \A E : Placed(t, longer, {}, E)
    BY DEF Placed
  <2>3. HasTo(draft, 0, {})
    BY <2>1 DEF HasTo
  <2> QED
    BY <2>2, <2>3 DEF PlanDone
<1>4. \A k \in 0 .. (n - 1) : \A w : PlanSo(q, k, w) => PlanSo(q, k + 1, PlanTurn(p, w, s[k + 1]))
  <2> SUFFICES ASSUME NEW k \in 0 .. (n - 1), NEW w, PlanDone(t, longer, draft, k, w)
               PROVE  PlanDone(t, longer, draft, k + 1, PlanTurn(p, w, s[k + 1]))
    BY <1>2 DEF PlanSo
  <2> DEFINE d == DayOf(longer, k + 1)
             E == DaysTo(longer, k)
             lines == draft[k + 1]
             z == PutDay(w, d, lines)
  <2>0. k + 1 \in 1 .. n /\ k \in Nat /\ \A m \in 1 .. (k + 1) : m = k + 1 \/ m \in 1 .. k
    OBVIOUS
  <2>1. PlanTurn(p, w, s[k + 1]) = z
    BY <1>2, <2>0 DEF PlanTurn, DayOf
  <2>2. w.days = longer.days /\ w.length = longer.length /\ w.nextDay = longer.nextDay
    BY DEF PlanDone
  <2>3. PICK X : Placed(t, w, X, E) /\ HasTo(draft, k, X)
    BY DEF PlanDone
  <2>4. DaysTo(longer, k + 1) = E \cup {d} /\ d \notin E /\ d \in LiveDays(longer)
    BY DaysToNext
  <2>5. d \in Nat
    BY <2>4 DEF LiveDays, Grown, Tables, Keyed
  <2>6. PICK l \in Nat : DOMAIN lines = 1 .. l
    BY <2>0
  <2>7. \A j \in 1 .. l : lines[j].id = 0 \/ lines[j].id \in DOMAIN t.items
    BY <2>0, <2>6
  <2> HIDE DEF d, E, lines
  <2>8. DayDone(t, w, X, E, d, lines, z)
    BY <2>3, <2>4, <2>5, <2>6, <2>7, DayPut
  <2> HIDE DEF z
  <2>9. PICK Y : Placed(t, z, Y, E \cup {d}) /\ X \subseteq Y /\ Has(lines, Y)
    BY <2>8 DEF DayDone
  <2>10. HasTo(draft, k + 1, Y)
    BY <2>0, <2>3, <2>9 DEF lines, HasTo, Has
  <2>11. Placed(t, z, Y, DaysTo(longer, k + 1))
    BY <2>4, <2>9
  <2>12. z.days = longer.days /\ z.length = longer.length /\ z.nextDay = longer.nextDay
    BY <2>2, <2>8 DEF DayDone
  <2> QED
    BY <2>1, <2>10, <2>11, <2>12 DEF PlanDone
<1> HIDE DEF v
<1>5. PlanSo(q, 0, longer)
  BY <1>2, <1>3 DEF PlanSo
<1>6. PlanSo(q, n, PlanFold!Fold(p, longer, s))
  BY <1>2, <1>4, <1>5, PlanFold!FoldKeeps
<1>7. PlanDone(t, longer, draft, n, v)
  BY <1>1, <1>2, <1>6 DEF PlanSo
<1> QED
  BY <1>7 DEF v

-----------------------------------------------------------------------------
(* A draft as a whole. *)

\* Rows that are soft-deleted keep their keys and their other columns.
DaysLess(f, which, g) ==
  /\ DOMAIN g = DOMAIN f
  /\ \A d \in DOMAIN f : IsDay(g[d]) /\ g[d].no = f[d].no /\ g[d].gone = (IF d \in which THEN TRUE ELSE f[d].gone)

\* Days that are soft-deleted.
LEMMA DaysGone ==
  ASSUME NEW f, NEW next, Keyed(f, next), \A d \in DOMAIN f : IsDay(f[d]), NEW which
  PROVE  Keyed(Gone(f, which), next) /\ DaysLess(f, which, Gone(f, which))
<1> DEFINE g == Gone(f, which)
<1>1. g = [k \in DOMAIN f |-> IF k \in which THEN [f[k] EXCEPT !.gone = TRUE] ELSE f[k]]
  BY DEF Gone
<1>2. g = [k \in DOMAIN f |-> g[k]] /\ DOMAIN g = DOMAIN f
  BY <1>1
<1>3. ASSUME NEW d \in DOMAIN f
      PROVE  IsDay(g[d]) /\ g[d].no = f[d].no /\ g[d].gone = (IF d \in which THEN TRUE ELSE f[d].gone)
  <2>1. CASE d \notin which
    BY <1>1, <2>1
  <2>2. CASE d \in which
    <3> DEFINE y == f[d]
    <3>1. g[d] = [y EXCEPT !.gone = TRUE] /\ IsDay(y)
      BY <1>1, <2>2
    <3> HIDE DEF y, g
    <3>2. ASSUME NEW b PROVE [y EXCEPT !.gone = b] = [no |-> y.no, gone |-> b]
      <4> DEFINE m == y.no
                 h == y.gone
      <4>1. y = [no |-> m, gone |-> h]
        BY <3>1 DEF IsDay
      <4> HIDE DEF m, h
      <4>2. [y EXCEPT !.gone = b] = [no |-> m, gone |-> b]
        BY <4>1
      <4> QED
        BY <4>2 DEF m
    <3>3. g[d] = [no |-> y.no, gone |-> TRUE]
      BY <3>1, <3>2
    <3>4. IsDay(g[d])
      BY <3>1, <3>3 DEF IsDay
    <3> QED
      BY <2>2, <3>3, <3>4 DEF y
  <2> QED
    BY <2>1, <2>2
<1> HIDE DEF g
<1>4. Keyed(g, next)
  BY <1>2, RowSet
<1> QED
  BY <1>2, <1>3, <1>4 DEF DaysLess, g

\* The same for items.
ItemsLess(f, which, g) ==
  /\ DOMAIN g = DOMAIN f
  /\ \A i \in DOMAIN f : /\ IsItem(g[i]) /\ g[i].day = f[i].day /\ g[i].sort = f[i].sort /\ g[i].name = f[i].name
                         /\ g[i].gone = (IF i \in which THEN TRUE ELSE f[i].gone)

\* Items that are soft-deleted.
LEMMA ItemsGone ==
  ASSUME NEW f, NEW next, Keyed(f, next), \A i \in DOMAIN f : IsItem(f[i]), NEW which
  PROVE  Keyed(Gone(f, which), next) /\ ItemsLess(f, which, Gone(f, which))
<1> DEFINE g == Gone(f, which)
<1>1. g = [k \in DOMAIN f |-> IF k \in which THEN [f[k] EXCEPT !.gone = TRUE] ELSE f[k]]
  BY DEF Gone
<1>2. g = [k \in DOMAIN f |-> g[k]] /\ DOMAIN g = DOMAIN f
  BY <1>1
<1>3. ASSUME NEW d \in DOMAIN f
      PROVE  /\ IsItem(g[d]) /\ g[d].day = f[d].day /\ g[d].sort = f[d].sort /\ g[d].name = f[d].name
             /\ g[d].gone = (IF d \in which THEN TRUE ELSE f[d].gone)
  <2>1. CASE d \notin which
    BY <1>1, <2>1
  <2>2. CASE d \in which
    <3> DEFINE y == f[d]
    <3>1. g[d] = [y EXCEPT !.gone = TRUE] /\ IsItem(y)
      BY <1>1, <2>2
    <3> HIDE DEF y, g
    <3>3. g[d] = [day |-> y.day, sort |-> y.sort, name |-> y.name, gone |-> TRUE]
      BY <3>1, ColumnSet
    <3>4. IsItem(g[d])
      BY <3>1, <3>3 DEF IsItem
    <3> QED
      BY <2>2, <3>3, <3>4 DEF y
  <2> QED
    BY <2>1, <2>2
<1> HIDE DEF g
<1>4. Keyed(g, next)
  BY <1>2, RowSet
<1> QED
  BY <1>2, <1>3, <1>4 DEF ItemsLess, g

\* A record of tables with other days and another length, then with other items.
Cut(t, D, n) == [t EXCEPT !.days = D, !.length = n]

\* Their columns.
LEMMA ThreeSet ==
  ASSUME NEW t, Tables(t), NEW D, NEW n, NEW I
  PROVE  /\ Cut(t, D, n).items = t.items
         /\ [Cut(t, D, n) EXCEPT !.items = I] =
              [days |-> D, items |-> I, length |-> n, nextDay |-> t.nextDay, nextItem |-> t.nextItem]
<1> DEFINE J == t.items
           l == t.length
           a == t.nextDay
           b == t.nextItem
           H == t.days
           u == [t EXCEPT !.days = D]
           v == [u EXCEPT !.length = n]
<1>0. t = [days |-> H, items |-> J, length |-> l, nextDay |-> a, nextItem |-> b]
  BY Apart
<1> HIDE DEF J, l, a, b, H
<1>1. u = [days |-> D, items |-> J, length |-> l, nextDay |-> a, nextItem |-> b]
  BY <1>0
<1> HIDE DEF u
<1>2. v = [days |-> D, items |-> J, length |-> n, nextDay |-> a, nextItem |-> b]
  BY <1>1
<1> HIDE DEF v
<1>3. [v EXCEPT !.items = I] = [days |-> D, items |-> I, length |-> n, nextDay |-> a, nextItem |-> b] /\ v.items = J
  BY <1>2
<1> QED
  BY <1>3, Zenon DEF Cut, v, u, J, a, b

\* A list of lists of lines.
Shaped(plan) == Listed(plan) /\ \A k \in DOMAIN plan : Listed(plan[k])

\* A list has a length and the places up to it.
LEMMA ListedIs == ASSUME NEW s, Listed(s) PROVE Len(s) \in Nat /\ DOMAIN s = 1 .. Len(s)
<1>1. PICK S : s \in Seq(S)
  BY DEF Listed
<1> QED
  BY <1>1

\* A draft leaves the rows in order.
LEMMA MadeDraft ==
  ASSUME NEW t, Neat(t), NEW draft, Shaped(draft), ValidDraft(t, draft)
  PROVE  Made(t, ApplyDraft(t, draft))
<1> DEFINE n == Len(draft)
           longer == FoldLeft(AddMissing, t, [k \in DOMAIN draft |-> k])
           filled == Filled(longer, draft)
           G == {d \in DOMAIN filled.days : filled.days[d].no > n}
           D == Gone(filled.days, G)
           out == LiveItems(t) \ Retained(draft)
           I == Gone(filled.items, out)
           r == [days |-> D, items |-> I, length |-> n, nextDay |-> filled.nextDay, nextItem |-> filled.nextItem]
<1>1. n \in Nat /\ DOMAIN draft = 1 .. n /\ \A k \in 1 .. n : \E m \in Nat : DOMAIN draft[k] = 1 .. m
  BY ListedIs DEF Shaped
<1>2. \A k \in 1 .. n : \A j \in DOMAIN draft[k] : draft[k][j].id = 0 \/ draft[k][j].id \in LiveItems(t)
  BY <1>1 DEF ValidDraft
<1>3. LiveItems(t) \subseteq DOMAIN t.items /\ Tables(t)
  BY DEF LiveItems, Neat
<1> HIDE DEF n
<1>4. MissingSo(t, n, longer)
  BY <1>1, MissingDays
<1> HIDE DEF longer
<1>5. PlanDone(t, longer, draft, n, filled)
  <2>1. Grown(t, longer) /\ longer.items = t.items /\ 1 .. n \subseteq DayNos(longer)
    BY <1>4 DEF MissingSo
  <2> QED
    BY <1>1, <1>2, <1>3, <2>1, PlanPut
<1>6. PICK X : Placed(t, filled, X, DaysTo(longer, n)) /\ HasTo(draft, n, X)
  BY <1>5 DEF PlanDone
<1>a. ApplyDraft(t, draft) =
        [Cut(filled, D, n) EXCEPT !.items = Gone(Cut(filled, D, n).items, out)]
  BY Zenon DEF ApplyDraft, ApplyDraftKeeping, longer, n, Filled, Cut
<1> HIDE DEF filled
<1>7. Grown(t, filled) /\ Tables(filled)
  BY <1>6 DEF Placed, Grown
<1>b. ApplyDraft(t, draft) = r
  <2> HIDE DEF D, out
  <2>0. Cut(filled, D, n).items = filled.items
    BY <1>7, ThreeSet
  <2>1. ApplyDraft(t, draft) = [Cut(filled, D, n) EXCEPT !.items = I]
    BY <1>a, <2>0, Zenon
  <2> HIDE DEF I
  <2>2. [Cut(filled, D, n) EXCEPT !.items = I] = r
    BY <1>7, ThreeSet
  <2> QED
    BY <2>1, <2>2
<1>8. DaysLess(filled.days, G, D) /\ Keyed(D, filled.nextDay)
  <2> HIDE DEF G
  <2> QED
    BY <1>7, DaysGone DEF Tables
<1>9. ItemsLess(filled.items, out, I) /\ Keyed(I, filled.nextItem)
  <2> HIDE DEF out
  <2> QED
    BY <1>7, ItemsGone DEF Tables
<1>10. filled.days = longer.days
  BY <1>5 DEF PlanDone
<1> HIDE DEF D, I
<1>11. Tables(r)
  BY <1>1, <1>8, <1>9, TablesOf DEF DaysLess, ItemsLess
<1>12. r.days = D /\ r.items = I /\ r.length = n /\ r.nextDay = filled.nextDay /\ r.nextItem = filled.nextItem
  OBVIOUS
<1> HIDE DEF r
\* Its days.
<1>13. \A d \in DOMAIN longer.days : longer.days[d].no \in Nat
  BY <1>7, <1>10 DEF Tables, IsDay
<1>14. \A d : d \in LiveDays(r) <=> d \in LiveDays(longer) /\ longer.days[d].no <= n
  <2>1. DOMAIN D = DOMAIN longer.days /\ \A d \in DOMAIN longer.days :
           D[d].gone = (IF d \in G THEN TRUE ELSE longer.days[d].gone)
    BY <1>8, <1>10 DEF DaysLess
  <2>2. \A d : d \in G <=> d \in DOMAIN longer.days /\ longer.days[d].no > n
    BY <1>10
  <2> HIDE DEF G
  <2>3. \A d \in DOMAIN longer.days : (longer.days[d].no > n) <=> ~(longer.days[d].no <= n)
    BY <1>1, <1>13
  <2> QED
    BY <1>12, <2>1, <2>2, <2>3 DEF LiveDays
<1>15. \A d \in DOMAIN longer.days : r.days[d].no = longer.days[d].no
  BY <1>8, <1>10, <1>12 DEF DaysLess
<1>16. LiveDays(longer) \subseteq DOMAIN longer.days
  BY DEF LiveDays
<1>17. \A d, e \in LiveDays(r) : r.days[d].no = r.days[e].no => d = e
  <2>1. \A d, e \in LiveDays(longer) : longer.days[d].no = longer.days[e].no => d = e
    BY <1>4 DEF MissingSo
  <2> QED
    BY <1>14, <1>15, <1>16, <2>1
<1>18. DayNos(r) = 1 .. r.length
  <2>1. DayNos(longer) = 1 .. t.length \cup 1 .. n
    BY <1>4 DEF MissingSo
  <2>2. t.length \in Nat
    BY <1>3 DEF Tables
  <2>3. ASSUME NEW m \in DayNos(r) PROVE m \in 1 .. n
    <3>1. PICK d \in LiveDays(r) : m = r.days[d].no
      BY DEF DayNos
    <3>2. d \in LiveDays(longer) /\ m = longer.days[d].no /\ m <= n
      BY <1>14, <1>15, <1>16, <3>1
    <3>3. m \in DayNos(longer)
      BY <3>2 DEF DayNos
    <3> QED
      BY <1>1, <2>1, <2>2, <3>2, <3>3
  <2>4. ASSUME NEW m \in 1 .. n PROVE m \in DayNos(r)
    <3>1. m \in DayNos(longer) /\ m <= n
      BY <1>1, <2>1
    <3>2. PICK d \in LiveDays(longer) : m = longer.days[d].no
      BY <3>1 DEF DayNos
    <3>3. d \in LiveDays(r) /\ m = r.days[d].no
      BY <1>14, <1>15, <1>16, <3>1, <3>2
    <3> QED
      BY <3>3 DEF DayNos
  <2> QED
    BY <1>12, <2>3, <2>4
\* Its items.
<1>19. /\ DOMAIN I = DOMAIN filled.items
       /\ \A i \in DOMAIN I : I[i].day = filled.items[i].day /\ I[i].sort = filled.items[i].sort
       /\ \A i \in DOMAIN I : I[i].gone = (IF i \in out THEN TRUE ELSE filled.items[i].gone)
  BY <1>9 DEF ItemsLess
<1>20. LiveItems(r) \subseteq X
  <2> SUFFICES ASSUME NEW i \in LiveItems(r), i \notin X PROVE FALSE
    OBVIOUS
  <2>1. i \in DOMAIN filled.items /\ ~I[i].gone
    BY <1>12, <1>19 DEF LiveItems
  <2>2. i \in DOMAIN t.items /\ filled.items[i].gone = t.items[i].gone
    BY <1>6, <2>1 DEF Placed
  <2>3. i \notin out /\ ~t.items[i].gone
    BY <1>19, <2>1, <2>2
  <2>4. i \in Retained(draft) /\ i # 0
    BY <1>3, <2>2, <2>3 DEF LiveItems, Tables, Keyed
  <2>5. PICK k \in DOMAIN draft : \E j \in DOMAIN draft[k] : i = draft[k][j].id
    BY <2>4 DEF Retained
  <2>7. i # 0
    BY <2>4
  <2>6. i \in X
    BY <1>1, <1>6, <2>5, <2>7 DEF HasTo, Has
  <2> QED
    BY <2>6
<1>21. \A i \in LiveItems(r) : i \in DOMAIN I
  BY <1>12 DEF LiveItems
<1>22. \A i, j \in LiveItems(r) :
          r.items[i].day = r.items[j].day /\ r.items[i].sort = r.items[j].sort => i = j
  <2>1. \A i, j \in X : filled.items[i].day = filled.items[j].day /\ filled.items[i].sort = filled.items[j].sort => i = j
    BY <1>6 DEF Placed
  <2> QED
    BY <1>12, <1>19, <1>20, <1>21, <2>1
<1>23. \A i \in LiveItems(r) : r.items[i].day \in LiveDays(r)
  <2>1. \A i \in X : filled.items[i].day \in DaysTo(longer, n)
    BY <1>6 DEF Placed
  <2>2. ASSUME NEW m \in 1 .. n PROVE DayOf(longer, m) \in LiveDays(r)
    <3>1. m \in DayNos(longer) /\ m <= n
      BY <1>1, <1>4 DEF MissingSo
    <3>2. DaysAt(longer, m) # {}
      BY <3>1 DEF DayNos, DaysAt
    <3>3. DayOf(longer, m) \in LiveDays(longer) /\ longer.days[DayOf(longer, m)].no = m
      BY <3>2 DEF DayOf, DaysAt
    <3> QED
      BY <1>14, <3>1, <3>3
  <2>3. DaysTo(longer, n) \subseteq LiveDays(r)
    BY <2>2 DEF DaysTo
  <2> QED
    BY <1>12, <1>19, <1>20, <1>21, <2>1, <2>3
<1>24. Neat(r)
  BY <1>11, <1>17, <1>18, <1>22, <1>23 DEF Neat, Tidy
<1>25. Grown(t, r)
  <2>1. DOMAIN r.days = DOMAIN filled.days /\ \A d \in DOMAIN t.days : r.days[d].no = t.days[d].no
    <3>1. DOMAIN t.days \subseteq DOMAIN filled.days
      BY <1>7 DEF Grown
    <3> QED
      BY <1>7, <1>8, <1>12, <3>1 DEF DaysLess, Grown
  <2> QED
    BY <1>7, <1>11, <1>12, <1>19, <2>1 DEF Grown
<1> QED
  BY <1>24, <1>25, <1>b DEF Made

-----------------------------------------------------------------------------
(* A version that is restored. *)

\* What a version keeps, as restore needs it: the days numbered one after the other.
Restorable(snap) ==
  /\ snap.length \in Nat /\ DOMAIN snap.plans = 1 .. snap.length
  /\ \A k \in 1 .. snap.length : snap.plans[k].no = k /\ \E m \in Nat : DOMAIN snap.plans[k].names = 1 .. m

\* The tables without their rows.
Emptied(t, n) == [t EXCEPT !.days = <<>>, !.items = <<>>, !.length = n]
EmptyIs(t, n, b) ==
  /\ Tables(b) /\ b.length = n /\ DOMAIN b.days = {} /\ DOMAIN b.items = {}

\* The tables without their rows are tables without rows.
LEMMA EmptiedIs == ASSUME NEW t, Tables(t), NEW n \in Nat PROVE EmptyIs(t, n, Emptied(t, n))
<1> DEFINE J == t.items
           l == t.length
           a == t.nextDay
           b == t.nextItem
           H == t.days
           e == <<>>
           u == [t EXCEPT !.days = e]
           v == [u EXCEPT !.items = e]
           w == [v EXCEPT !.length = n]
           r == [days |-> e, items |-> e, length |-> n, nextDay |-> a, nextItem |-> b]
<1>0. t = [days |-> H, items |-> J, length |-> l, nextDay |-> a, nextItem |-> b]
  BY Apart
<1>e. DOMAIN e = {} /\ e = [k \in {} |-> e[k]]
  OBVIOUS
<1>a. a \in Nat \ {0} /\ b \in Nat \ {0}
  BY DEF Tables, Keyed
<1> HIDE DEF J, l, a, b, H, e
<1>1. u = [days |-> e, items |-> J, length |-> l, nextDay |-> a, nextItem |-> b]
  BY <1>0
<1> HIDE DEF u
<1>2. v = [days |-> e, items |-> e, length |-> l, nextDay |-> a, nextItem |-> b]
  BY <1>1
<1> HIDE DEF v
<1>3. w = r
  BY <1>2
<1>4. Keyed(e, a) /\ Keyed(e, b)
  BY <1>e, <1>a DEF Keyed
<1>5. Tables(r)
  <2>1. (\A d \in DOMAIN e : IsDay(e[d])) /\ \A d \in DOMAIN e : IsItem(e[d])
    BY <1>e
  <2> QED
    BY <1>4, <2>1, TablesOf
<1>6. EmptyIs(t, n, r)
  BY <1>5, <1>e DEF EmptyIs
<1> HIDE DEF w, r
<1>7. EmptyIs(t, n, w)
  BY <1>3, <1>6
<1> QED
  BY <1>7, Zenon DEF w, v, u, e, Emptied

\* The days of a version, one after the other.
Fresh(names) == [j \in DOMAIN names |-> [id |-> 0, name |-> names[j]]]

\* The turn of one day, and what the days keep.
RestoreTurn(p, u, k) == PutDay(InsertDay(u, p[k].no), u.nextDay, Fresh(p[k].names))
RestoredSo(q, k, u) ==
  /\ u.length = q.length /\ DayNos(u) = 1 .. k
  /\ \A d, e \in LiveDays(u) : u.days[d].no = u.days[e].no => d = e
  /\ \E X : Placed(q, u, X, LiveDays(u))
RestoreFold == INSTANCE FoldLaws WITH Op <- RestoreTurn, Kept <- RestoredSo

\* A version fills them with its days, each once, and no two lines of a day on one place.
LEMMA Restored ==
  ASSUME NEW b, Tables(b), DOMAIN b.days = {}, DOMAIN b.items = {}, NEW n \in Nat, NEW plans,
         DOMAIN plans = 1 .. n,
         \A k \in 1 .. n : plans[k].no = k /\ \E m \in Nat : DOMAIN plans[k].names = 1 .. m
  PROVE  RestoredSo(b, n, RestoreInto(b, plans))
<1> DEFINE s == [k \in DOMAIN plans |-> k]
<1>1. RestoreInto(b, plans) = RestoreFold!Fold(plans, b, s)
  BY Zenon DEF RestoreInto, RestoreFold!Fold, RestoreTurn, Fresh, FoldLeft, RestoreFold!FoldLeft, MapThenFoldSet,
         RestoreFold!MapThenFoldSet, Max, RestoreFold!Max
<1>2. DOMAIN s = 1 .. n /\ \A k \in 1 .. n : s[k] = k
  OBVIOUS
<1> HIDE DEF s
<1>3. RestoredSo(b, 0, b)
  <2>1. 1 .. 0 = {} /\ LiveDays(b) = {}
    BY DEF LiveDays
  <2>2. DayNos(b) = {}
    BY <2>1 DEF DayNos
  <2>3. Placed(b, b, {}, {})
    BY GrownSelf DEF Placed
  <2> QED
    BY <2>1, <2>2, <2>3 DEF RestoredSo
<1>4. \A k \in 0 .. (n - 1) : \A u : RestoredSo(b, k, u) => RestoredSo(b, k + 1, RestoreTurn(plans, u, s[k + 1]))
  <2> SUFFICES ASSUME NEW k \in 0 .. (n - 1), NEW u, RestoredSo(b, k, u)
               PROVE  RestoredSo(b, k + 1, RestoreTurn(plans, u, s[k + 1]))
    OBVIOUS
  <2> DEFINE m == k + 1
             v == InsertDay(u, m)
             d == u.nextDay
             lines == Fresh(plans[m].names)
             z == PutDay(v, d, lines)
             E == LiveDays(u)
  <2>1. m \in 1 .. n /\ m \in Nat /\ 1 .. m = 1 .. k \cup {m} /\ m \notin 1 .. k
    OBVIOUS
  <2>2. RestoreTurn(plans, u, s[k + 1]) = z
    BY <1>2, <2>1 DEF RestoreTurn
  <2>3. PICK X : Placed(b, u, X, E)
    BY DEF RestoredSo
  <2>4. /\ u.length = b.length /\ DayNos(u) = 1 .. k /\ Grown(b, u) /\ Tables(u)
        /\ \A x, y \in LiveDays(u) : u.days[x].no = u.days[y].no => x = y
    BY <2>3 DEF RestoredSo, Placed, Grown
  <2>5. PICK l \in Nat : DOMAIN plans[m].names = 1 .. l
    BY <2>1
  <2>6. DOMAIN lines = 1 .. l /\ \A j \in 1 .. l : lines[j].id = 0
    BY <2>5 DEF Fresh
  <2> HIDE DEF m, lines, E
  <2>7. OneDay(u, v, [no |-> m, gone |-> FALSE]) /\ Grown(b, v)
    BY <2>1, <2>4, DayInserted, GrownDay
  <2> HIDE DEF v
  <2>8. /\ LiveDays(v) = E \cup {d} /\ DayNos(v) = 1 .. k \cup {m}
        /\ \A x, y \in LiveDays(v) : v.days[x].no = v.days[y].no => x = y
    BY <2>1, <2>4, <2>7, DayAdded DEF E
  <2>9. d \in Nat /\ d \notin E /\ v.items = u.items /\ v.length = u.length
    BY <2>7 DEF OneDay, E, LiveDays
  <2>10. Placed(b, v, X, E)
    BY <2>3, <2>7, <2>9 DEF Placed
  <2>11. DayDone(b, v, X, E, d, lines, z)
    BY <2>6, <2>9, <2>10, DayPut
  <2> HIDE DEF z
  <2>12. PICK Y : Placed(b, z, Y, E \cup {d})
    BY <2>11 DEF DayDone
  <2>13. z.days = v.days /\ z.length = v.length
    BY <2>11 DEF DayDone
  <2>14. LiveDays(z) = LiveDays(v) /\ DayNos(z) = DayNos(v)
    BY <2>13 DEF LiveDays, DayNos
  <2>15. RestoredSo(b, m, z)
    BY <2>1, <2>4, <2>8, <2>9, <2>12, <2>13, <2>14 DEF RestoredSo
  <2> QED
    BY <2>2, <2>15 DEF m
<1>5. RestoredSo(b, n, RestoreFold!Fold(plans, b, s))
  BY <1>2, <1>3, <1>4, RestoreFold!FoldKeeps
<1> QED
  BY <1>1, <1>5

\* A restored version is in order.
LEMMA RestoreNeat ==
  ASSUME NEW t, Tables(t), NEW snap, Restorable(snap)
  PROVE  Neat(RestoreRows(t, snap))
<1> DEFINE n == snap.length
           b == Emptied(t, n)
           u == RestoreRows(t, snap)
<1>1. n \in Nat
  BY DEF Restorable
<1>2. u = RestoreInto(b, snap.plans)
  BY Zenon DEF RestoreRows, Emptied
<1>3. EmptyIs(t, n, b)
  BY <1>1, EmptiedIs
<1>4. Tables(b) /\ b.length = n /\ DOMAIN b.days = {} /\ DOMAIN b.items = {}
  BY <1>3 DEF EmptyIs
<1> HIDE DEF b
<1>5. /\ DOMAIN snap.plans = 1 .. n
      /\ \A k \in 1 .. n : snap.plans[k].no = k /\ \E m \in Nat : DOMAIN snap.plans[k].names = 1 .. m
  BY DEF Restorable
<1> HIDE DEF n
<1>6. RestoredSo(b, n, u)
  <2> HIDE DEF u
  <2> QED
    BY <1>1, <1>2, <1>4, <1>5, Restored
<1> HIDE DEF u
<1>7. PICK X : Placed(b, u, X, LiveDays(u))
  BY <1>6 DEF RestoredSo
<1>8. /\ Tables(u) /\ DOMAIN u.items \subseteq X
      /\ \A i \in X : u.items[i].day \in LiveDays(u)
      /\ \A i, j \in X : u.items[i].day = u.items[j].day /\ u.items[i].sort = u.items[j].sort => i = j
  BY <1>4, <1>7 DEF Placed, Grown
<1>9. LiveItems(u) \subseteq X
  BY <1>8 DEF LiveItems
<1>10. /\ DayNos(u) = 1 .. u.length
       /\ \A d, e \in LiveDays(u) : u.days[d].no = u.days[e].no => d = e
  BY <1>4, <1>6 DEF RestoredSo
<1>11. \A i \in LiveItems(u) : u.items[i].day \in LiveDays(u)
  BY <1>8, <1>9
<1>12. \A i, j \in LiveItems(u) : u.items[i].day = u.items[j].day /\ u.items[i].sort = u.items[j].sort => i = j
  BY <1>8, <1>9
<1>13. Neat(u)
  BY <1>8, <1>10, <1>11, <1>12 DEF Neat, Tidy
<1> QED
  BY <1>13 DEF u

-----------------------------------------------------------------------------
(* A version that is written of rows in order. *)

\* Days that are numbered one after the other are counted by their numbers.
LEMMA Counted ==
  ASSUME NEW t, NEW S, IsFiniteSet(S), NEW n \in Nat, {t.days[d].no : d \in S} = 1 .. n,
         \A d, e \in S : t.days[d].no = t.days[e].no => d = e
  PROVE  Cardinality(S) = n
<1> DEFINE f == [d \in S |-> t.days[d].no]
<1>1. f \in [S -> 1 .. n]
  OBVIOUS
<1>2. \A k \in 1 .. n : \E d \in S : f[d] = k
  OBVIOUS
<1>3. \A d, e \in S : f[d] = f[e] => d = e
  OBVIOUS
<1> HIDE DEF f
<1>4. f \in Bijection(S, 1 .. n)
  BY <1>1, <1>2, <1>3 DEF Bijection, Injection, IsInjective, Surjection
<1>5. Cardinality(1 .. n) = Cardinality(S)
  BY <1>4, FS_Bijection DEF ExistsBijection
<1>6. Cardinality(1 .. n) = n
  BY FS_Interval
<1> QED
  BY <1>5, <1>6

\* The k-th day of a tidy trip has the number k.
RankedDay(t, k) ==
  CHOOSE d \in LiveDays(t) : Cardinality({e \in LiveDays(t) : t.days[e].no < t.days[d].no}) = k - 1

\* The days of a tidy trip are as many as its length, and ranked by their numbers.
LEMMA DayRanks ==
  ASSUME NEW t, Neat(t)
  PROVE  /\ Cardinality(LiveDays(t)) = t.length
         /\ \A k \in 1 .. t.length : RankedDay(t, k) \in LiveDays(t) /\ t.days[RankedDay(t, k)].no = k
<1> DEFINE S == LiveDays(t)
           B(d) == {e \in S : t.days[e].no < t.days[d].no}
<1>1. /\ IsFiniteSet(S) /\ S \subseteq DOMAIN t.days
  BY KeysFinite, FS_Subset DEF Neat, Tables, LiveDays
<1>2. /\ {t.days[d].no : d \in S} = 1 .. t.length /\ t.length \in Nat
      /\ \A d, e \in S : t.days[d].no = t.days[e].no => d = e
      /\ \A d \in S : t.days[d].no \in Nat
  BY <1>1 DEF Neat, Tidy, Tables, DayNos, IsDay
<1>3. Cardinality(S) = t.length
  BY <1>1, <1>2, Counted
<1>4. ASSUME NEW d \in S PROVE Cardinality(B(d)) = t.days[d].no - 1
  <2> DEFINE m == t.days[d].no
             T == B(d)
  <2>1. m \in 1 .. t.length
    BY <1>2
  <2>2. IsFiniteSet(T)
    BY <1>1, FS_Subset
  <2>3. {t.days[e].no : e \in T} = 1 .. (m - 1)
    <3>1. \A e \in T : t.days[e].no \in 1 .. (m - 1)
      BY <1>2, <2>1
    <3>2. ASSUME NEW k \in 1 .. (m - 1) PROVE \E e \in T : t.days[e].no = k
      <4>1. k \in 1 .. t.length /\ k < m
        BY <1>2, <2>1
      <4> QED
        BY <1>2, <4>1
    <3> QED
      BY <3>1, <3>2
  <2>4. \A e, g \in T : t.days[e].no = t.days[g].no => e = g
    BY <1>2
  <2>5. m - 1 \in Nat
    BY <1>2, <2>1
  <2> HIDE DEF m, T
  <2>6. Cardinality(T) = m - 1
    BY <2>2, <2>3, <2>4, <2>5, Counted
  <2> QED
    BY <2>6 DEF T, m
<1> HIDE DEF B
<1>5. ASSUME NEW k \in 1 .. t.length PROVE RankedDay(t, k) \in S /\ t.days[RankedDay(t, k)].no = k
  <2>1. PICK d \in S : t.days[d].no = k
    BY <1>2
  <2>2. Cardinality(B(d)) = k - 1
    BY <1>4, <2>1
  <2> DEFINE r == RankedDay(t, k)
  <2>3. r = CHOOSE x \in S : Cardinality(B(x)) = k - 1
    BY DEF RankedDay, B
  <2> HIDE DEF r, S
  <2>4. r \in S /\ Cardinality(B(r)) = k - 1
    BY <2>2, <2>3
  <2>5. t.days[r].no - 1 = k - 1 /\ t.days[r].no \in Nat
    BY <1>2, <1>4, <2>4
  <2>6. t.days[r].no = k
    BY <1>2, <2>5
  <2> QED
    BY <2>4, <2>6 DEF r
<1> QED
  BY <1>3, <1>5

\* The lists of a plan.
LEMMA ItemsCount ==
  ASSUME NEW t, Neat(t), NEW d
  PROVE  Cardinality(ItemsOf(t, d)) \in Nat
<1>1. ItemsOf(t, d) \subseteq DOMAIN t.items
  BY DEF ItemsOf, LiveItems
<1>2. IsFiniteSet(ItemsOf(t, d))
  BY <1>1, KeysFinite, FS_Subset DEF Neat, Tables
<1> QED
  BY <1>2, FS_CardinalityType

\* What current_plans reads of a tidy trip.
PlansAre(t, plans) ==
  /\ DOMAIN plans = 1 .. t.length
  /\ \A k \in 1 .. t.length : plans[k].no = k /\ \E m \in Nat : DOMAIN plans[k].items = 1 .. m

\* They are the days one after the other, each with its list.
LEMMA PlansOf == ASSUME NEW t, Neat(t) PROVE PlansAre(t, CurrentPlans(t))
<1> DEFINE n == Cardinality(LiveDays(t))
           ds == Ranked(LiveDays(t), LAMBDA d, e : t.days[d].no < t.days[e].no)
           Line(i) == [id |-> i, name |-> t.items[i].name, sort |-> t.items[i].sort]
           LinesAt(k) == LET is == InOrder(t, ds[k]) IN [j \in DOMAIN is |-> Line(is[j])]
           p == CurrentPlans(t)
<1>1. p = [k \in DOMAIN ds |-> [no |-> t.days[ds[k]].no, items |-> LinesAt(k)]]
  BY Zenon DEF CurrentPlans
<1>2. ds = [k \in 1 .. n |-> RankedDay(t, k)]
  BY Zenon DEF Ranked, RankedDay
<1>3. \A d : \E m \in Nat : DOMAIN InOrder(t, d) = 1 .. m
  <2> SUFFICES ASSUME NEW d PROVE \E m \in Nat : DOMAIN InOrder(t, d) = 1 .. m
    OBVIOUS
  <2> DEFINE m == Cardinality(ItemsOf(t, d))
  <2>1. DOMAIN InOrder(t, d) = 1 .. m
    BY DEF InOrder, Ranked
  <2>2. m \in Nat
    BY ItemsCount
  <2> QED
    BY <2>1, <2>2
<1>4. \A k : DOMAIN LinesAt(k) = DOMAIN InOrder(t, ds[k])
  OBVIOUS
<1>5. \A k : \E m \in Nat : DOMAIN LinesAt(k) = 1 .. m
  BY <1>3, <1>4
<1>6. n = t.length /\ \A k \in 1 .. n : t.days[RankedDay(t, k)].no = k
  BY DayRanks
<1> HIDE DEF ds, LinesAt, p, n
<1>7. DOMAIN ds = 1 .. n /\ \A k \in 1 .. n : t.days[ds[k]].no = k
  BY <1>2, <1>6
<1> QED
  BY <1>1, <1>5, <1>6, <1>7 DEF PlansAre, p

\* A version of a tidy trip can be restored.
LEMMA ContentRestorable == ASSUME NEW t, Neat(t) PROVE Restorable(Content(t))
<1> DEFINE p == CurrentPlans(t)
           NamesAt(k) == [j \in DOMAIN p[k].items |-> p[k].items[j].name]
           c == Content(t)
<1>1. c = [plans |-> [k \in DOMAIN p |-> [no |-> p[k].no, names |-> NamesAt(k)]], length |-> t.length]
  BY DEF Content
<1>2. PlansAre(t, p)
  BY PlansOf
<1>3. t.length \in Nat
  BY DEF Neat, Tables
<1>4. \A k : DOMAIN NamesAt(k) = DOMAIN p[k].items
  OBVIOUS
<1> DEFINE q == [k \in DOMAIN p |-> [no |-> p[k].no, names |-> NamesAt(k)]]
<1>5. c.plans = q /\ c.length = t.length
  BY <1>1
<1> HIDE DEF p, NamesAt, c
<1>6. DOMAIN q = 1 .. t.length /\ \A k \in 1 .. t.length : q[k].no = k /\ q[k].names = NamesAt(k)
  BY <1>2 DEF PlansAre
<1>7. \A k \in 1 .. t.length : \E m \in Nat : DOMAIN NamesAt(k) = 1 .. m
  BY <1>2, <1>4 DEF PlansAre
<1> HIDE DEF q
<1>8. Restorable(c)
  BY <1>3, <1>5, <1>6, <1>7 DEF Restorable
<1> QED
  BY <1>8 DEF c

-----------------------------------------------------------------------------
(* The plans that the assistant makes. *)

\* A function on the first numbers is a list.
LEMMA ListedFrom ==
  ASSUME NEW s, NEW m \in Nat, s = [k \in 1 .. m |-> s[k]]
  PROVE  Listed(s)
<1>1. s \in Seq({s[k] : k \in 1 .. m})
  OBVIOUS
<1> QED
  BY <1>1 DEF Listed

\* The plan without days is one.
LEMMA EmptyShaped == Shaped(<<>>)
<1>1. <<>> \in Seq({}) /\ DOMAIN <<>> = {}
  OBVIOUS
<1> QED
  BY <1>1 DEF Shaped, Listed

\* The plan of a tidy trip is a list of lists of lines.
LEMMA LinesShaped == ASSUME NEW t, Neat(t) PROVE Shaped(Lines(CurrentPlans(t)))
<1> DEFINE p == CurrentPlans(t)
           Line(k) == [j \in DOMAIN p[k].items |-> [id |-> p[k].items[j].id, name |-> p[k].items[j].name]]
           q == [k \in DOMAIN p |-> Line(k)]
<1>1. Lines(p) = q
  BY DEF Lines
<1>2. PlansAre(t, p) /\ t.length \in Nat
  BY PlansOf DEF Neat, Tables
<1>3. \A k : Line(k) = [j \in DOMAIN p[k].items |-> Line(k)[j]]
  OBVIOUS
<1> HIDE DEF p, Line
<1>4. \A k \in 1 .. t.length : Listed(Line(k))
  <2> SUFFICES ASSUME NEW k \in 1 .. t.length PROVE Listed(Line(k))
    OBVIOUS
  <2>1. PICK m \in Nat : DOMAIN p[k].items = 1 .. m
    BY <1>2 DEF PlansAre
  <2>2. Line(k) = [j \in 1 .. m |-> Line(k)[j]]
    BY <1>3, <2>1
  <2> QED
    BY <2>2, ListedFrom
<1>5. DOMAIN q = 1 .. t.length /\ q = [k \in 1 .. t.length |-> q[k]] /\ \A k \in 1 .. t.length : q[k] = Line(k)
  BY <1>2 DEF PlansAre
<1> HIDE DEF q
<1>6. Listed(q)
  BY <1>2, <1>5, ListedFrom
<1>7. Shaped(q)
  BY <1>4, <1>5, <1>6 DEF Shaped
<1> QED
  BY <1>1, <1>7 DEF p

\* A plan with another day in the place of one.
LEMMA DayShaped ==
  ASSUME NEW plan, Shaped(plan), NEW k, NEW day, Listed(day)
  PROVE  Shaped([plan EXCEPT ![k] = day])
<1> DEFINE q == [plan EXCEPT ![k] = day]
<1>1. DOMAIN q = DOMAIN plan /\ q = [j \in DOMAIN plan |-> q[j]] /\ \A j \in DOMAIN plan : q[j] = plan[j] \/ q[j] = day
  OBVIOUS
<1>2. Len(plan) \in Nat /\ DOMAIN plan = 1 .. Len(plan)
  BY ListedIs DEF Shaped
<1> HIDE DEF q
<1>3. Listed(q)
  BY <1>1, <1>2, ListedFrom
<1>4. \A j \in DOMAIN q : Listed(q[j])
  BY <1>1 DEF Shaped
<1>5. Shaped(q)
  BY <1>3, <1>4 DEF Shaped
<1> QED
  BY <1>5 DEF q

\* What the assistant makes of a plan.
LEMMA ProposalsShaped ==
  ASSUME NEW plan, Shaped(plan), NEW p \in Proposals(plan)
  PROVE  Shaped(p)
<1> DEFINE last == Len(plan)
<1>1. last \in Nat /\ DOMAIN plan = 1 .. last /\ Listed(plan) /\ \A k \in 1 .. last : Listed(plan[k])
  BY ListedIs DEF Shaped
<1>2. PICK S : plan \in Seq(S)
  BY <1>1 DEF Listed
<1>3. ASSUME NEW n PROVE Listed(<<New(n)>>)
  <2>1. <<New(n)>> \in Seq({New(n)})
    OBVIOUS
  <2> QED
    BY <2>1 DEF Listed
<1>4. CASE 1 \in 1 .. (last - 1) /\ p = SubSeq(plan, 1, last - 1)
  <2> DEFINE m == last - 1
  <2>1. m \in Nat /\ p = [k \in 1 .. m |-> p[k]] /\ \A k \in 1 .. m : p[k] = plan[k] /\ k \in 1 .. last
    BY <1>1, <1>2, <1>4
  <2>2. Listed(p)
    BY <2>1, ListedFrom
  <2>3. DOMAIN p = 1 .. m
    BY <2>1
  <2> QED
    BY <1>1, <2>1, <2>2, <2>3 DEF Shaped
<1>5. ASSUME NEW n, p = Append(plan, <<New(n)>>) PROVE Shaped(p)
  <2> DEFINE day == <<New(n)>>
  <2>1. Listed(day)
    BY <1>3
  <2> HIDE DEF day
  <2>2. p = Append(plan, day)
    BY <1>5 DEF day
  <2>3. /\ Listed(p) /\ DOMAIN p = 1 .. (last + 1)
        /\ \A k \in 1 .. last : p[k] = plan[k]
        /\ p[last + 1] = day
    BY <1>1, <2>2, Appended
  <2>4. \A k \in DOMAIN p : k \in 1 .. last \/ k = last + 1
    BY <1>1, <2>3
  <2> QED
    BY <1>1, <2>1, <2>3, <2>4 DEF Shaped
<1>6. ASSUME NEW n, last > 0, p = [plan EXCEPT ![1] = Append(@, New(n))] PROVE Shaped(p)
  <2>1. Listed(plan[1])
    BY <1>1, <1>6
  <2>2. Listed(Append(plan[1], New(n)))
    BY <2>1, Appended
  <2> QED
    BY <1>6, <2>2, DayShaped
<1>7. ASSUME last > 1, plan[1] # <<>>
      PROVE  p = [plan EXCEPT ![1] = Tail(@), ![last] = Append(@, plan[1][1])] => Shaped(p)
  <2> DEFINE q == [plan EXCEPT ![1] = Tail(plan[1])]
             x == plan[1][1]
             day == Append(plan[last], x)
  <2>1. Listed(plan[1]) /\ Listed(plan[last])
    BY <1>1, <1>7
  <2>2. Listed(Tail(plan[1]))
    <3>1. PICK T : plan[1] \in Seq(T)
      BY <2>1 DEF Listed
    <3>2. Tail(plan[1]) \in Seq(T)
      BY <1>7, <3>1
    <3> QED
      BY <3>2 DEF Listed
  <2>6. q[last] = plan[last]
    <3> DEFINE rest == Tail(plan[1])
    <3>1. last # 1 /\ last \in DOMAIN plan
      BY <1>1, <1>7
    <3> HIDE DEF rest, last
    <3> QED
      BY <3>1
  <2>3. Shaped(q)
    <3> DEFINE rest == Tail(plan[1])
    <3> HIDE DEF rest
    <3>1. Shaped([plan EXCEPT ![1] = rest])
      BY <2>2, DayShaped DEF rest
    <3> QED
      BY <3>1 DEF rest
  <2>4. Listed(day)
    BY <2>1, Appended
  <2>5. [plan EXCEPT ![1] = Tail(@), ![last] = Append(@, plan[1][1])] = [q EXCEPT ![last] = day]
    <3>1. day = Append(q[last], x)
      BY <2>6
    <3> QED
      BY <3>1, Zenon
  <2> HIDE DEF q, day
  <2>7. Shaped([q EXCEPT ![last] = day])
    BY <2>3, <2>4, DayShaped
  <2> QED
    BY <2>5, <2>7, Zenon
<1> QED
  BY <1>4, <1>5, <1>6, <1>7 DEF Proposals

-----------------------------------------------------------------------------
(* Every edit leaves the rows in order. *)

\* A request fits the rows: the days and the items it names are as it takes them to be.
Fits(t, o, basis) ==
  /\ o.kind \in {"add", "addNamed", "move"} => o.day \in LiveDays(t)
  /\ o.kind = "moveNext" => o.to \in LiveDays(t)
  /\ o.kind \in {"reorder", "optimize"} => \E d \in LiveDays(t) : o.order \in SetToSeqs(ItemsOf(t, d))
  /\ o.kind = "apply" => ValidDraft(t, basis)
  /\ o.kind = "hotel" => o.nights \subseteq DayNos(t)

\* An edit leaves the rows in order.
Leaves(t, o, want) == Made(t, want) /\ (~Recalculates(o) => Bill(want) = Bill(t))

\* Every edit that fits the rows leaves them in order.
LEMMA ChangeMade ==
  ASSUME NEW t, Neat(t), NEW o, NEW basis, Fits(t, o, basis), o.kind \in ByHand \cup InWords,
         NEW want \in Changes(t, o)
  PROVE  Leaves(t, o, want)
<1>0. Tables(t) /\ Made(t, t)
  BY MadeSelf DEF Neat
<1>d. \A d : Named(t, d, o.name) \subseteq LiveItems(t)
  BY DEF Named, ItemsOf
<1>1. CASE o.kind \in {"add", "addNamed"}
  <2>1. want = InsertItem(t, o.day, o.name, NextSort(t, o.day))
    BY <1>1 DEF Changes
  <2>2. o.day \in LiveDays(t)
    BY <1>1 DEF Fits
  <2> QED
    BY <1>0, <1>1, <2>1, <2>2, MadeAdd DEF Leaves, Recalculates
<1>2. CASE o.kind = "update"
  <2>1. PICK i \in LiveItems(t) : want = SetName(t, i, o.name)
    BY <1>2 DEF Changes
  <2> QED
    BY <1>0, <1>2, <2>1, MadeName DEF Leaves, Recalculates
<1>3. CASE o.kind = "move"
  <2>1. PICK i \in LiveItems(t) : want = MoveToDay(t, i, o.day)
    BY <1>3 DEF Changes
  <2>2. o.day \in LiveDays(t)
    BY <1>3 DEF Fits
  <2> QED
    BY <1>0, <1>3, <2>1, <2>2, MadeMove DEF Leaves, Recalculates
<1>4. CASE o.kind = "delete"
  <2>1. PICK i \in LiveItems(t) : want = Drop(t, i)
    BY <1>4 DEF Changes
  <2> QED
    BY <1>0, <1>4, <2>1, MadeDrop DEF Leaves, Recalculates
<1>5. CASE o.kind \in {"reorder", "optimize"}
  <2>1. want = Reorder(t, o.order)
    BY <1>5 DEF Changes
  <2>2. PICK d \in LiveDays(t) : o.order \in SetToSeqs(ItemsOf(t, d))
    BY <1>5 DEF Fits
  <2> QED
    BY <2>1, <2>2, MadeReorder DEF Leaves
<1>6. CASE o.kind = "retitle"
  <2>1. want = t
    BY <1>6 DEF Changes
  <2> QED
    BY <1>0, <2>1 DEF Leaves
<1>7. CASE o.kind = "deleteNamed"
  <2>1. PICK i \in LiveItems(t) : want = Drop(t, i)
    BY <1>d, <1>7 DEF Changes
  <2> QED
    BY <1>0, <1>7, <2>1, MadeDrop DEF Leaves, Recalculates
<1>8. CASE o.kind = "moveNext"
  <2>1. PICK i \in LiveItems(t) : want = MoveToDay(t, i, o.to)
    BY <1>d, <1>8 DEF Changes
  <2>2. o.to \in LiveDays(t)
    BY <1>8 DEF Fits
  <2> QED
    BY <1>0, <1>8, <2>1, <2>2, MadeMove DEF Leaves, Recalculates
<1>9. CASE o.kind = "retime"
  <2>1. want = t
    BY <1>9 DEF Changes
  <2> QED
    BY <1>0, <2>1 DEF Leaves
<1>10. CASE o.kind = "upgradeHotel"
  <2>1. PICK i : i \in (IF o.no = 0 THEN LiveItems(t) ELSE UNION {ItemsOf(t, d) : d \in DaysAt(t, o.no)})
                 /\ want = SetName(t, i, o.hotel)
    BY <1>10 DEF Changes
  <2>2. i \in LiveItems(t)
    BY <2>1 DEF ItemsOf
  <2> QED
    BY <1>0, <1>10, <2>1, <2>2, MadeName DEF Leaves, Recalculates
<1> QED
  BY <1>1, <1>2, <1>3, <1>4, <1>5, <1>6, <1>7, <1>8, <1>9, <1>10 DEF ByHand, InWords

\* What an instruction may become fits the rows it was made from.
LEMMA WordsFit ==
  ASSUME Neat(rows), NEW o \in WordOps, NEW basis
  PROVE  Fits(rows, o, basis)
<1>1. ASSUME NEW d \in LiveDays(rows) PROVE DayAfter(d) \in LiveDays(rows)
  <2> DEFINE n == Cardinality(LiveDays(rows))
             m == rows.days[d].no
             k == Min({m + 1, n})
  <2>1. n = rows.length /\ n \in Nat /\ DayNos(rows) = 1 .. n
    BY DayRanks DEF Neat, Tables, Tidy
  <2>2. m \in 1 .. n
    BY <2>1 DEF DayNos
  <2> HIDE DEF n, m
  <2>3. k \in 1 .. n
    <3>1. k = CHOOSE x \in {m + 1, n} : \A y \in {m + 1, n} : x <= y
      BY DEF Min
    <3>2. \E x \in {m + 1, n} : \A y \in {m + 1, n} : x <= y
      BY <2>1, <2>2
    <3>3. k \in {m + 1, n} /\ \A y \in {m + 1, n} : k <= y
      BY <3>1, <3>2
    <3> QED
      BY <2>1, <2>2, <3>3
  <2>4. DayAfter(d) = CHOOSE e \in LiveDays(rows) : rows.days[e].no = k
    BY DEF DayAfter, m, n
  <2> HIDE DEF k
  <2>5. \E e \in LiveDays(rows) : rows.days[e].no = k
    BY <2>1, <2>3 DEF DayNos
  <2> QED
    BY <2>4, <2>5
<1>2. o.kind \in {"addNamed"} => o.day \in LiveDays(rows)
  BY DEF WordOps
<1>3. o.kind = "moveNext" => o.to \in LiveDays(rows)
  BY <1>1 DEF WordOps
<1>4. o.kind \in InWords
  BY WordKinds
<1> QED
  BY <1>2, <1>3, <1>4 DEF Fits, InWords

\* An edit by hand that is accepted fits the rows.
LEMMA HandsFit ==
  ASSUME NEW o \in Ops, o.kind \in Versioned, o.kind \in ByHand => Acceptable(o), NEW basis
  PROVE  Fits(rows, o, basis)
<1>1. o.kind \in {"add", "move", "reorder", "optimize"} => o.day \in LiveDays(rows)
  BY DEF Acceptable, ByHand
<1>2. o.kind \in {"reorder", "optimize"} => o.order \in SetToSeqs(ItemsOf(rows, o.day))
  <2> SUFFICES ASSUME o.kind \in {"reorder", "optimize"} PROVE o.order \in SetToSeqs(ItemsOf(rows, o.day))
    OBVIOUS
  <2>1. o \in HandOps
    BY DEF Ops, OtherOps
  <2>2. PICK d \in SomeDay : o \in [kind : {"reorder", "optimize"} \cap scenario.kinds, day : {d},
                                    order : SetToSeqs(ItemsOf(rows, d))]
    BY <2>1 DEF HandOps
  <2> QED
    BY <2>2
<1>3. o.kind \notin {"addNamed", "moveNext", "apply", "hotel"}
  BY DEF Versioned, ByHand
<1> QED
  BY <1>1, <1>2, <1>3 DEF Fits

\* What a draft makes of the rows.
LEMMA AppliedMade ==
  ASSUME NEW c \in Clients, Neat(view[c].rows), Fits(view[c].rows, op[c], view[c].basis), Shaped(view[c].basis),
         op[c].kind \in {"apply", "hotel"}
  PROVE  Made(view[c].rows, Applied(c))
<1>1. CASE op[c].kind = "apply"
  BY <1>1, MadeDraft DEF Fits, Applied
<1>2. CASE op[c].kind = "hotel"
  BY <1>2, MadeHotel DEF Fits, Applied
<1> QED
  BY <1>1, <1>2

\* A change of the rows it was made from is written as it is.
LEMMA MadeFlush ==
  ASSUME NEW t, NEW u, Made(t, u), Neat(t)
  PROVE  Flush(t, t, u) = u /\ Neat(u)
BY FlushAlone DEF Made, Neat

-----------------------------------------------------------------------------
(* What the requests rely on while nothing crosses them. *)

\* The places of a request before its change, and the others where it holds anything.
Working == {"number", "insert", "look", "begin", "commit"}
Keeping == Working \cup {"reinsert", "propose", "save", "restore", "evictfirst"}
\* What a request has, by its place, whatever crossed it ...
Sees(past, l, o, v) ==
  /\ l \in {"insert", "reinsert"} => Neat(v.rows)
  /\ l = "propose" \/ (l = "commit" /\ o.kind \in NoRows) => Shaped(v.basis)
  /\ l = "save" => Shaped(o.plan)
  /\ l = "restore" => o.version \in DOMAIN past
  /\ l = "evictfirst" => o.kind = "restore"
\* ... and what it may rely on if nothing did.
Holds(t, alive, l, o, v) ==
  /\ l \in Working => alive
  /\ l \in Working \ {"look"} => Fits(t, o, v.basis)
  /\ l = "commit" => v.rows = t

\* The rows are in order, what is kept can be put back, and every request has what it needs.
Sound ==
  /\ there => Neat(rows) /\ bill = Bill(rows)
  /\ \A k \in DOMAIN versions : Restorable(versions[k].trip)
  /\ \A u \in Users : \A k \in DOMAIN drafts[u] : Shaped(drafts[u][k].plan)
  /\ \A c \in Clients : Sees(versions, pc[c], op[c], view[c])
  /\ \A c \in Clients : c \notin crossed => Holds(rows, there, pc[c], op[c], view[c])

\* It holds until two edits have crossed.
TidyInv == ~torn => Sound

\* What a step may make of the versions and of the drafts.
Grows ==
  /\ \A k \in DOMAIN versions : k \in DOMAIN versions'
  /\ \A k \in DOMAIN versions' : Restorable(versions'[k].trip)
Drafted == \A u \in Users : \A k \in DOMAIN drafts'[u] : Shaped(drafts'[u][k].plan)

\* A step that writes no version.
LEMMA SoundQuiet ==
  ASSUME Sound, versions' = versions
  PROVE  Grows
BY DEF Sound, Grows

\* A step that touches no draft.
LEMMA SoundDrafts ==
  ASSUME Sound, drafts' = drafts
  PROVE  Drafted
BY DEF Sound, Drafted

\* A step that leaves the rows alone.
LEMMA SoundMoves ==
  ASSUME Sound, NEW c \in Clients, NEW l, NEW o, NEW a, Moves(c, l, o, a),
         rows' = rows, bill' = bill, there' = there, crossed \subseteq crossed' \cup {c}, Grows, Drafted,
         \A q \in Clients \ {c} : view'[q] = view[q],
         Sees(versions', l, o, view'[c]), c \notin crossed' => Holds(rows, there, l, o, view'[c])
  PROVE  Sound'
<1>1. ASSUME NEW q \in Clients PROVE Sees(versions', pc'[q], op'[q], view'[q])
  <2>1. CASE q = c
    BY <2>1 DEF Moves
  <2>2. CASE q # c
    <3>1. Sees(versions, pc[q], op[q], view[q])
      BY DEF Sound
    <3>2. pc'[q] = pc[q] /\ op'[q] = op[q] /\ view'[q] = view[q]
      BY <2>2 DEF Moves
    <3> QED
      BY <3>1, <3>2 DEF Sees, Grows
  <2> QED
    BY <2>1, <2>2
<1>2. ASSUME NEW q \in Clients, q \notin crossed' PROVE Holds(rows', there', pc'[q], op'[q], view'[q])
  <2>1. CASE q = c
    BY <1>2, <2>1 DEF Moves
  <2>2. CASE q # c
    <3>1. Holds(rows, there, pc[q], op[q], view[q])
      BY <1>2, <2>2 DEF Sound
    <3>2. pc'[q] = pc[q] /\ op'[q] = op[q] /\ view'[q] = view[q]
      BY <2>2 DEF Moves
    <3> QED
      BY <3>1, <3>2
  <2> QED
    BY <2>1, <2>2
<1>3. there' => Neat(rows') /\ bill' = Bill(rows')
  BY DEF Sound
<1> QED
  BY <1>1, <1>2, <1>3 DEF Sound, Grows, Drafted

\* A committed change.
LEMMA SoundCommit ==
  ASSUME Base, Sound, NEW c \in Clients, NEW l \in {"renumber", "evict", "evictfirst"}, Goto(c, l), Committed(c),
         l = "evictfirst" => op[c].kind = "restore", Grows, Drafted,
         \A q \in Clients \ {c} : view'[q] = view[q],
         there' => Neat(rows') /\ bill' = Bill(rows')
  PROVE  Sound'
<1>0. Moves(c, l, op[c], answer[c])
  BY GotoMoves DEF Base
<1>1. ASSUME NEW q \in Clients PROVE Sees(versions', pc'[q], op'[q], view'[q])
  <2>1. CASE q = c
    BY <1>0, <2>1 DEF Moves, Sees
  <2>2. CASE q # c
    <3>1. Sees(versions, pc[q], op[q], view[q])
      BY DEF Sound
    <3>2. pc'[q] = pc[q] /\ op'[q] = op[q] /\ view'[q] = view[q]
      BY <1>0, <2>2 DEF Moves
    <3> QED
      BY <3>1, <3>2 DEF Sees, Grows
  <2> QED
    BY <2>1, <2>2
<1>2. ASSUME NEW q \in Clients, q \notin crossed' PROVE Holds(rows', there', pc'[q], op'[q], view'[q])
  <2>1. CASE q = c
    BY <1>0, <2>1 DEF Moves, Holds, Working
  <2>2. CASE q # c
    <3>1. ~Editing(q)
      BY <1>2, <2>2 DEF Committed
    <3>2. KindOf(q)
      BY DEF Base
    <3>3. pc[q] \notin Working
      BY <3>1, <3>2 DEF Editing, Writing, KindOf, Transient, Working
    <3>4. pc'[q] = pc[q]
      BY <1>0, <2>2 DEF Moves
    <3> QED
      BY <3>3, <3>4 DEF Holds, Working
  <2> QED
    BY <2>1, <2>2
<1> QED
  BY <1>1, <1>2 DEF Sound, Grows, Drafted

\* A step after which the tab holds nothing.
LEMMA SoundIdle ==
  ASSUME CrossInv, Sound, NEW c \in Clients, NEW l, NEW o, NEW a, Moves(c, l, o, a),
         UNCHANGED <<rows, bill, there, versions, drafts>>, crossed \subseteq crossed' \cup {c},
         (\E x : view' = [view EXCEPT ![c] = x]) \/ UNCHANGED view, l \notin Keeping
  PROVE  Sound'
<1>1. \A q \in Clients \ {c} : view'[q] = view[q]
  BY Viewed DEF CrossInv
<1>2. Grows /\ Drafted
  BY SoundQuiet, SoundDrafts
<1>3. Sees(versions', l, o, view'[c]) /\ Holds(rows, there, l, o, view'[c])
  BY DEF Sees, Holds, Keeping, Working
<1> QED
  BY <1>1, <1>2, <1>3, SoundMoves

\* A request that ends.
LEMMA SoundAnswer ==
  ASSUME Base, CrossInv, Sound, NEW c \in Clients, NEW a, Answer(c, a),
         UNCHANGED <<rows, bill, there, versions, drafts, crossed>>,
         (\E x : view' = [view EXCEPT ![c] = x]) \/ UNCHANGED view
  PROVE  Sound'
BY AnswerMoves, SoundIdle DEF Base, Keeping, Working

\* A request that goes on and holds nothing.
LEMMA SoundGoto ==
  ASSUME Base, CrossInv, Sound, NEW c \in Clients, NEW l, Goto(c, l),
         UNCHANGED <<rows, bill, there, versions, drafts, crossed>>,
         (\E x : view' = [view EXCEPT ![c] = x]) \/ UNCHANGED view, l \notin Keeping
  PROVE  Sound'
BY GotoMoves, SoundIdle DEF Base

\* What a transaction sees.
LEMMA SeenAll ==
  ASSUME CrossInv, NEW c \in Clients, NEW d, SeeWith(c, d)
  PROVE  /\ \A q \in Clients \ {c} : view'[q] = view[q]
         /\ view'[c].rows = rows /\ view'[c].basis = d.plan
<1> DEFINE x == [rows |-> rows, seen |-> Len(drafts[Me(c)]), top |-> Len(versions),
                 base |-> d.base, basis |-> d.plan]
<1>1. view' = [view EXCEPT ![c] = x]
  BY DEF SeeWith
<1>2. x.rows = rows /\ x.basis = d.plan
  OBVIOUS
<1> HIDE DEF x
<1> QED
  BY <1>1, <1>2, Viewed DEF CrossInv

\* A request that is sent.
LEMMA SoundStart ==
  ASSUME Base, CrossInv, Sound, NEW c \in Clients, Start(c)
  PROVE  Sound'
<1>1. PICK o \in Ops : SendEdit(c, o) \/ SendOther(c, o)
  BY DEF Start
<1>2. o.kind \in Kinds \ (InWords \cup {"none"})
  BY OpKinds
<1>3. UNCHANGED <<rows, bill, there, versions, drafts, view>> /\ crossed' = crossed \ {c}
  BY <1>1 DEF SendEdit, SendOther, Send, trip
<1>4. Grows /\ Drafted
  BY <1>3, SoundQuiet, SoundDrafts
<1>5. ASSUME Answer(c, "refused") PROVE Sound'
  BY <1>3, <1>5, AnswerMoves, SoundIdle DEF Base, Keeping, Working
<1>6. CASE SendEdit(c, o)
  <2>1. CASE /\ IF o.kind = "trash" THEN Owns(Me(c)) ELSE Writes(Me(c))
             /\ o.kind \in ByHand => Acceptable(o)
             /\ GotoWith(c, "number", o)
    <3>1. Moves(c, "number", o, answer[c])
      BY <2>1, GotoWithMoves DEF Base
    <3>2. there /\ \A b : Fits(rows, o, b)
      BY <1>6, <2>1, HandsFit DEF SendEdit, Owns, Writes
    <3>3. Sees(versions', "number", o, view'[c]) /\ Holds(rows, there, "number", o, view'[c])
      BY <3>2 DEF Sees, Holds
    <3> QED
      BY <1>3, <1>4, <3>1, <3>3, SoundMoves
  <2> QED
    BY <1>5, <1>6, <2>1 DEF SendEdit
<1>7. CASE SendOther(c, o)
  <2>1. GotoWith(c, o.kind, o) /\ o.kind \notin Versioned
    BY <1>7 DEF SendOther
  <2>2. Moves(c, o.kind, o, answer[c])
    BY <2>1, GotoWithMoves DEF Base
  <2>3. o.kind \in {"chat", "clear", "read", "apply", "hotel", "restore", "role", "join"}
    BY <1>2, <2>1 DEF Kinds
  <2>4. o.kind = "restore" => o.version \in DOMAIN versions
    BY DEF Ops, HandOps, OtherOps
  <2>5. Sees(versions', o.kind, o, view'[c]) /\ Holds(rows, there, o.kind, o, view'[c])
    BY <1>3, <2>3, <2>4 DEF Sees, Holds, Working
  <2> QED
    BY <1>3, <1>4, <2>2, <2>5, SoundMoves
<1> QED
  BY <1>1, <1>6, <1>7

\* A version that is written of rows in order can be restored.
LEMMA KeptGrows ==
  ASSUME CrossInv, Sound, NEW c \in Clients, Neat(view[c].rows), versions' = WithVersion(c)
  PROVE  Grows
<1> DEFINE v == [parent |-> view[c].top, trip |-> Content(view[c].rows)]
<1>1. versions' = Append(versions, v)
  BY DEF WithVersion
<1>2. Restorable(v.trip)
  BY ContentRestorable
<1> HIDE DEF v
<1>3. /\ DOMAIN versions' = 1 .. (Len(versions) + 1) /\ Len(versions) \in Nat
      /\ DOMAIN versions = 1 .. Len(versions)
      /\ \A k \in DOMAIN versions : k \in DOMAIN versions' /\ versions'[k] = versions[k]
      /\ versions'[Len(versions) + 1] = v
  BY <1>1, Appended DEF CrossInv
<1>4. \A k \in DOMAIN versions' : k \in DOMAIN versions \/ k = Len(versions) + 1
  BY <1>3
<1> QED
  BY <1>2, <1>3, <1>4 DEF Grows, Sound

\* The steps that write a version.
LEMMA SoundVersion ==
  ASSUME Base, CrossInv, Sound, NEW c \in Clients, VersionStep(c)
  PROVE  Sound'
<1>k. KindOf(c)
  BY DEF Base
<1>s. Sees(versions, pc[c], op[c], view[c]) /\ (c \notin crossed => Holds(rows, there, pc[c], op[c], view[c]))
  BY DEF Sound
<1>d. drafts' = drafts /\ rows' = rows /\ bill' = bill /\ there' = there /\ crossed' = crossed
  BY DEF VersionStep, TakeNumber, InsertVersion, InsertCollides, RecordVersion, Kept, trip, history
<1>e. Drafted
  BY <1>d, SoundDrafts
<1>1. CASE TakeNumber(c)
  <2>1. versions' = versions
    BY <1>1 DEF TakeNumber, trip
  <2>2. CASE Writes(Me(c))
    <3> DEFINE l == IF pc[c] = "number" THEN "insert" ELSE "reinsert"
    <3>1. Moves(c, l, op[c], answer[c]) /\ See(c)
      BY <1>1, <2>2, GotoMoves DEF TakeNumber, Base
    <3>2. \A q \in Clients \ {c} : view'[q] = view[q]
      BY <3>1, SeenAll DEF See
    <3>3. view'[c].rows = rows /\ Neat(rows) /\ there
      BY <2>2, <3>1, SeenAll DEF See, Writes, Sound
    <3>4. Sees(versions', l, op[c], view'[c])
      BY <3>3 DEF Sees
    <3>5. c \notin crossed' => Holds(rows, there, l, op[c], view'[c])
      <4>1. CASE pc[c] = "number"
        <5>1. op[c].kind \notin {"apply"}
          BY <1>k, <4>1 DEF KindOf, Transient, Versioned, ByHand, InWords
        <5> QED
          BY <1>d, <1>s, <3>3, <4>1, <5>1 DEF Holds, Working, Fits
      <4>2. CASE pc[c] # "number"
        BY <4>2 DEF Holds, Working
      <4> QED
        BY <4>1, <4>2
    <3> HIDE DEF l
    <3> QED
      BY <1>d, <1>e, <2>1, <3>1, <3>2, <3>4, <3>5, SoundQuiet, SoundMoves
  <2>3. CASE ~Writes(Me(c))
    BY <1>1, <1>d, <2>1, <2>3, SoundGoto, SoundAnswer DEF TakeNumber, Recorded, Keeping, Working
  <2> QED
    BY <2>2, <2>3
<1>2. CASE InsertVersion(c)
  <2> DEFINE l == IF op[c].kind = "words" THEN "look" ELSE "begin"
  <2>1. Moves(c, l, op[c], answer[c]) /\ Kept(c) /\ Forget(c) /\ pc[c] = "insert"
    BY <1>2, GotoMoves DEF Base, InsertVersion
  <2>2. \A q \in Clients \ {c} : view'[q] = view[q]
    BY <2>1, Viewed DEF CrossInv, Forget
  <2>3. Grows
    BY <1>s, <2>1, KeptGrows DEF Sees, Kept
  <2>4. op[c].kind \notin {"apply"}
    BY <1>k, <2>1 DEF KindOf, Transient, Versioned, ByHand, InWords
  <2>5. Sees(versions', l, op[c], view'[c]) /\ (c \notin crossed' => Holds(rows, there, l, op[c], view'[c]))
    BY <1>d, <1>s, <2>1, <2>4 DEF Sees, Holds, Working, Fits
  <2> HIDE DEF l
  <2> QED
    BY <1>d, <1>e, <2>1, <2>2, <2>3, <2>5, SoundMoves
<1>3. CASE InsertCollides(c)
  <2>1. versions' = versions /\ Forget(c) /\ pc[c] = "insert"
    BY <1>3 DEF InsertCollides, trip
  <2>2. CASE Goto(c, "number")
    <3>1. Moves(c, "number", op[c], answer[c])
      BY <2>2, GotoMoves DEF Base
    <3>2. \A q \in Clients \ {c} : view'[q] = view[q]
      BY <2>1, Viewed DEF CrossInv, Forget
    <3>3. op[c].kind \notin {"apply"}
      BY <1>k, <2>1 DEF KindOf, Transient, Versioned, ByHand, InWords
    <3>4. Sees(versions', "number", op[c], view'[c])
          /\ (c \notin crossed' => Holds(rows, there, "number", op[c], view'[c]))
      BY <1>d, <1>s, <2>1, <3>3 DEF Sees, Holds, Working, Fits
    <3> QED
      BY <1>d, <1>e, <2>1, <3>1, <3>2, <3>4, SoundQuiet, SoundMoves
  <2>3. CASE Answer(c, "broken")
    BY <1>d, <2>1, <2>3, SoundAnswer DEF Forget
  <2> QED
    BY <1>3, <2>2, <2>3 DEF InsertCollides
<1>4. CASE RecordVersion(c)
  <2>1. Forget(c) /\ pc[c] = "reinsert"
    BY <1>4 DEF RecordVersion
  <2>2. CASE NumberTaken(c)
    <3>1. versions' = versions
      BY <1>4, <2>2 DEF RecordVersion
    <3> QED
      BY <1>4, <1>d, <2>1, <2>2, <3>1, SoundGoto DEF RecordVersion, Recorded, Forget, Keeping, Working
  <2>3. CASE ~NumberTaken(c)
    <3>1. Kept(c) /\ Goto(c, Recorded(c))
      BY <1>4, <2>3 DEF RecordVersion
    <3>2. Moves(c, Recorded(c), op[c], answer[c])
      BY <3>1, GotoMoves DEF Base
    <3>3. Grows
      BY <1>s, <2>1, <3>1, KeptGrows DEF Sees, Kept
    <3>4. Sees(versions', Recorded(c), op[c], view'[c]) /\ Holds(rows, there, Recorded(c), op[c], view'[c])
      BY DEF Recorded, Sees, Holds, Working
    <3>5. \A q \in Clients \ {c} : view'[q] = view[q]
      BY <2>1, Viewed DEF CrossInv, Forget
    <3> QED
      BY <1>d, <1>e, <3>2, <3>3, <3>4, <3>5, SoundMoves
  <2> QED
    BY <2>2, <2>3
<1> QED
  BY <1>1, <1>2, <1>3, <1>4 DEF VersionStep

\* A spent draft has no plan.
LEMMA SpendShaped == ASSUME NEW d PROVE Shaped(Spend(d).plan)
BY EmptyShaped DEF Spend, Spent

\* Nor do the spent drafts of a user.
LEMMA SpendAllShaped ==
  ASSUME NEW u
  PROVE  \A k \in DOMAIN SpendAll(u) : Shaped(SpendAll(u)[k].plan)
BY SpendShaped DEF SpendAll

\* Other drafts for one user.
LEMMA DraftedBy ==
  ASSUME DraftInv, Sound, NEW u \in Users, NEW t, drafts' = [drafts EXCEPT ![u] = t],
         \A k \in DOMAIN t : Shaped(t[k].plan)
  PROVE  Drafted
BY DEF DraftInv, Sound, Drafted

\* The steps of an edit.
LEMMA SoundEdit ==
  ASSUME Base, CrossInv, DraftInv, Sound, NEW c \in Clients, EditStep(c), ~torn'
  PROVE  Sound'
<1>k. KindOf(c)
  BY DEF Base
<1>u. Me(c) \in Users
  BY TripEditAssumption DEF Me
<1>s. Sees(versions, pc[c], op[c], view[c]) /\ (c \notin crossed => Holds(rows, there, pc[c], op[c], view[c]))
  BY DEF Sound
<1>n. there => Neat(rows) /\ bill = Bill(rows)
  BY DEF Sound
<1>1. CASE Look(c)
  <2>1. UNCHANGED <<rows, bill, there, versions, drafts, view, crossed>> /\ pc[c] = "look"
    BY <1>1 DEF Look, trip, history
  <2>2. ASSUME NEW o \in WordOps, GotoWith(c, "begin", o) PROVE Sound'
    <3>1. Moves(c, "begin", o, answer[c])
      BY <2>2, GotoWithMoves DEF Base
    <3>2. c \notin crossed => there /\ \A b : Fits(rows, o, b)
      BY <1>n, <1>s, <2>1, WordsFit DEF Holds, Working
    <3>3. Sees(versions', "begin", o, view'[c]) /\ (c \notin crossed' => Holds(rows, there, "begin", o, view'[c]))
      BY <2>1, <3>2 DEF Sees, Holds
    <3> QED
      BY <2>1, <3>1, <3>3, SoundQuiet, SoundDrafts, SoundMoves
  <2>3. CASE Answer(c, "broken")
    BY <2>1, <2>3, SoundAnswer
  <2> QED
    BY <1>1, <2>2, <2>3, Zenon DEF Look
<1>2. CASE BeginEdit(c)
  <2>1. UNCHANGED <<rows, bill, there, versions, drafts, crossed>> /\ pc[c] = "begin" /\ Goto(c, "commit") /\ See(c)
    BY <1>2 DEF BeginEdit, trip, history
  <2>2. Moves(c, "commit", op[c], answer[c])
    BY <2>1, GotoMoves DEF Base
  <2>3. (\A q \in Clients \ {c} : view'[q] = view[q]) /\ view'[c].rows = rows
    BY <2>1, SeenAll DEF See
  <2>4. op[c].kind \notin NoRows
    BY <1>k, <2>1 DEF KindOf, Transient, NoRows, Versioned, ByHand, InWords
  <2>5. Sees(versions', "commit", op[c], view'[c])
        /\ (c \notin crossed' => Holds(rows, there, "commit", op[c], view'[c]))
    BY <1>s, <2>1, <2>3, <2>4 DEF Sees, Holds, Working, Fits, NoRows
  <2> QED
    BY <2>1, <2>2, <2>3, <2>5, SoundQuiet, SoundDrafts, SoundMoves
<1>3. CASE CommitEdit(c)
  <2>1. Goto(c, "renumber") /\ Committed(c) /\ Forget(c) /\ versions' = versions /\ there' = there /\ pc[c] = "commit"
    BY <1>3 DEF CommitEdit
  <2>2. c \notin crossed
    BY <2>1 DEF Committed
  <2>3. there /\ view[c].rows = rows /\ Fits(rows, op[c], view[c].basis) /\ Neat(rows) /\ bill = Bill(rows)
    BY <1>n, <1>s, <2>1, <2>2 DEF Holds, Working
  <2>4. PICK want \in Changes(rows, op[c]) :
          rows' = Flush(rows, rows, want) /\ bill' = IF Recalculates(op[c]) THEN Bill(want) ELSE bill
    BY <1>3, <2>3, Zenon DEF CommitEdit
  <2>5. Leaves(rows, op[c], want)
    BY <1>3, <2>3, ChangeMade DEF CommitEdit
  <2>6. rows' = want /\ Neat(want)
    BY <2>3, <2>4, <2>5, MadeFlush DEF Leaves
  <2>7. bill' = Bill(want)
    BY <2>3, <2>4, <2>5 DEF Leaves
  <2>8. \A q \in Clients \ {c} : view'[q] = view[q]
    BY <2>1, Viewed DEF CrossInv, Forget
  <2>9. Drafted
    <3> DEFINE mine == drafts[Me(c)]
               t == [k \in DOMAIN mine |-> IF k <= view[c].seen THEN Spend(mine[k]) ELSE mine[k]]
    <3>1. drafts' = [drafts EXCEPT ![Me(c)] = t]
      BY <1>3 DEF CommitEdit, Invalidate
    <3>2. \A k \in DOMAIN mine : Shaped(mine[k].plan)
      BY <1>u DEF Sound
    <3>3. \A k \in DOMAIN t : Shaped(t[k].plan)
      BY <3>2, SpendShaped
    <3> HIDE DEF t
    <3> QED
      BY <1>u, <3>1, <3>3, DraftedBy
  <2> QED
    BY <2>1, <2>6, <2>7, <2>8, <2>9, SoundQuiet, SoundCommit
<1>4. CASE CommitDelete(c)
  <2>1. Goto(c, "evict") /\ Committed(c) /\ Forget(c) /\ versions' = versions /\ ~there'
    BY <1>4 DEF CommitDelete
  <2>2. \A q \in Clients \ {c} : view'[q] = view[q]
    BY <2>1, Viewed DEF CrossInv, Forget
  <2>3. Drafted
    BY <1>4, SpendAllShaped DEF CommitDelete, Drafted
  <2> QED
    BY <2>1, <2>2, <2>3, SoundQuiet, SoundCommit
<1>5. CASE FailEdit(c)
  BY <1>5, SoundAnswer DEF FailEdit, Forget, trip, history
<1>6. CASE Restore(c)
  <2>1. CASE Writes(Me(c))
    <3> DEFINE snap == versions[op[c].version].trip
    <3>1. /\ Goto(c, "evictfirst") /\ Committed(c) /\ UNCHANGED <<versions, drafts, view, there>>
          /\ rows' = RestoreRows(rows, snap) /\ bill' = Bill(rows') /\ pc[c] = "restore"
      BY <1>6, <2>1 DEF Restore
    <3>2. Restorable(snap) /\ op[c].kind = "restore"
      BY <1>k, <1>s, <3>1 DEF Sees, Sound, KindOf
    <3>3. Tables(rows)
      BY <1>n, <2>1 DEF Writes, Neat
    <3> HIDE DEF snap
    <3>4. Neat(rows')
      BY <3>1, <3>2, <3>3, RestoreNeat
    <3> QED
      BY <3>1, <3>2, <3>4, SoundQuiet, SoundDrafts, SoundCommit
  <2>2. CASE ~Writes(Me(c))
    BY <1>6, <2>2, SoundAnswer DEF Restore
  <2> QED
    BY <2>1, <2>2
<1> QED
  BY <1>1, <1>2, <1>3, <1>4, <1>5, <1>6 DEF EditStep

\* The plan that the assistant is shown.
LEMMA BasisShaped ==
  ASSUME DraftInv, Sound, there, NEW u \in Users
  PROVE  Shaped(Basis(u))
<1> DEFINE same == {k \in Pending(u) : drafts[u][k].kind = "apply" /\ drafts[u][k].base = CurrentPlans(rows)}
<1>1. same \subseteq DOMAIN drafts[u]
  BY DEF Pending
<1>2. \E n \in Nat : DOMAIN drafts[u] = 1 .. n
  BY ListedIs DEF DraftInv
<1>b. Basis(u) = IF same = {} THEN Lines(CurrentPlans(rows)) ELSE drafts[u][Max(same)].plan
  BY DEF Basis
<1> HIDE DEF same
<1>3. CASE same = {}
  BY <1>3, <1>b, LinesShaped DEF Sound
<1>4. CASE same # {}
  <2>1. IsFiniteSet(same) /\ same \subseteq Nat
    <3>1. PICK n \in Nat : same \subseteq 1 .. n
      BY <1>1, <1>2
    <3>2. IsFiniteSet(1 .. n) /\ 1 .. n \subseteq Nat
      BY FS_Interval
    <3> QED
      BY <3>1, <3>2, FS_Subset
  <2>2. Max(same) \in same
    BY <1>4, <2>1, LargestNumber
  <2> QED
    BY <1>1, <1>4, <1>b, <2>2 DEF Sound
<1> QED
  BY <1>3, <1>4

\* The steps of the chat.
LEMMA SoundChat ==
  ASSUME Base, CrossInv, DraftInv, Sound, NEW c \in Clients, ChatStep(c)
  PROVE  Sound'
<1>u. Me(c) \in Users
  BY TripEditAssumption DEF Me
<1>s. Sees(versions, pc[c], op[c], view[c])
  BY DEF Sound
<1>0. UNCHANGED <<rows, bill, there, versions, crossed>>
  BY DEF ChatStep, ChatContext, Propose, SaveTurn, ClearHistory, trip, history
<1>1. CASE ChatContext(c)
  <2>1. drafts' = drafts
    BY <1>1 DEF ChatContext
  <2>2. CASE Writes(Me(c))
    <3> DEFINE x == [NoView EXCEPT !.base = CurrentPlans(rows), !.basis = Basis(Me(c))]
    <3>1. view' = [view EXCEPT ![c] = x] /\ Goto(c, "propose")
      BY <1>1, <2>2 DEF ChatContext
    <3>2. x.basis = Basis(Me(c))
      BY DEF NoView
    <3> HIDE DEF x
    <3>3. view'[c] = x /\ \A q \in Clients \ {c} : view'[q] = view[q]
      BY <3>1, Viewed DEF CrossInv
    <3>4. Moves(c, "propose", op[c], answer[c])
      BY <3>1, GotoMoves DEF Base
    <3>5. Shaped(view'[c].basis)
      BY <1>u, <2>2, <3>2, <3>3, BasisShaped DEF Writes
    <3>6. Sees(versions', "propose", op[c], view'[c]) /\ Holds(rows, there, "propose", op[c], view'[c])
      BY <3>5 DEF Sees, Holds, Working
    <3> QED
      BY <1>0, <2>1, <3>3, <3>4, <3>6, SoundQuiet, SoundDrafts, SoundMoves
  <2>3. CASE ~Writes(Me(c))
    BY <1>0, <1>1, <2>1, <2>3, SoundAnswer DEF ChatContext
  <2> QED
    BY <2>2, <2>3
<1>2. CASE Propose(c)
  <2>1. drafts' = drafts /\ Forget(c) /\ Shaped(view[c].basis)
    BY <1>2, <1>s DEF Propose, Sees
  <2>2. \A q \in Clients \ {c} : view'[q] = view[q]
    BY <2>1, Viewed DEF CrossInv, Forget
  <2>3. ASSUME NEW o, Shaped(o.plan), GotoWith(c, "save", o) PROVE Sound'
    <3>1. Moves(c, "save", o, answer[c])
      BY <2>3, GotoWithMoves DEF Base
    <3>2. Sees(versions', "save", o, view'[c]) /\ Holds(rows, there, "save", o, view'[c])
      BY <2>3 DEF Sees, Holds, Working
    <3> QED
      BY <1>0, <2>1, <2>2, <3>1, <3>2, SoundQuiet, SoundDrafts, SoundMoves
  <2>4. ASSUME NEW p \in Proposals(view[c].basis) PROVE Shaped(PlanDraft(c, p).plan)
    <3>1. PlanDraft(c, p).plan = p
      BY DEF PlanDraft, Spent
    <3> QED
      BY <2>1, <3>1, ProposalsShaped
  <2>5. ASSUME NEW h PROVE Shaped(HotelDraft(c, h).plan)
    BY EmptyShaped DEF HotelDraft, Spent
  <2>6. ASSUME NEW a, Answer(c, a) PROVE Sound'
    BY <1>0, <2>1, <2>6, SoundAnswer DEF Forget
  <2> QED
    BY <1>2, <2>3, <2>4, <2>5, <2>6 DEF Propose
<1>3. ASSUME Drafted, view' = view, NEW a, Answer(c, a) PROVE Sound'
  <2>1. Moves(c, "idle", NoOp, a)
    BY <1>3, AnswerMoves DEF Base
  <2>2. Sees(versions', "idle", NoOp, view'[c]) /\ Holds(rows, there, "idle", NoOp, view'[c])
    BY DEF Sees, Holds, Working
  <2> QED
    BY <1>0, <1>3, <2>1, <2>2, SoundQuiet, SoundMoves
<1>4. CASE SaveTurn(c)
  <2> DEFINE s == SpendAll(Me(c))
             t == Append(s, op[c])
  <2>1. drafts' = [drafts EXCEPT ![Me(c)] = t] /\ Shaped(op[c].plan) /\ view' = view
    BY <1>4, <1>s DEF SaveTurn, Sees
  <2>2. Listed(s) /\ \A k \in DOMAIN s : Shaped(s[k].plan)
    BY <1>u, SpendAllOnce, SpendAllShaped
  <2> HIDE DEF s
  <2>3. /\ DOMAIN t = 1 .. (Len(s) + 1) /\ DOMAIN s = 1 .. Len(s) /\ Len(s) \in Nat
        /\ \A k \in DOMAIN s : t[k] = s[k]
        /\ t[Len(s) + 1] = op[c]
    BY <2>2, Appended
  <2> HIDE DEF t
  <2>4. \A k \in DOMAIN t : k \in DOMAIN s \/ k = Len(s) + 1
    BY <2>3
  <2>5. \A k \in DOMAIN t : Shaped(t[k].plan)
    BY <2>1, <2>2, <2>3, <2>4
  <2>6. Drafted
    BY <1>u, <2>1, <2>5, DraftedBy
  <2> QED
    BY <1>3, <1>4, <2>1, <2>6 DEF SaveTurn
<1>5. CASE ClearHistory(c)
  <2>1. CASE drafts' = [drafts EXCEPT ![Me(c)] = SpendAll(Me(c))]
    <3>1. Drafted
      BY <1>u, <2>1, SpendAllShaped, DraftedBy
    <3> QED
      BY <1>3, <1>5, <3>1 DEF ClearHistory
  <2>2. CASE drafts' = drafts
    BY <1>3, <1>5, <2>2, SoundDrafts DEF ClearHistory
  <2> QED
    BY <1>5, <2>1, <2>2 DEF ClearHistory
<1> QED
  BY <1>1, <1>2, <1>4, <1>5 DEF ChatStep

\* The steps that apply a draft.
LEMMA SoundApply ==
  ASSUME Base, CrossInv, DraftInv, Sound, NEW c \in Clients, ApplyStep(c), ~torn'
  PROVE  Sound'
<1>k. KindOf(c)
  BY DEF Base
<1>u. Me(c) \in Users
  BY TripEditAssumption DEF Me
<1>s. Sees(versions, pc[c], op[c], view[c]) /\ (c \notin crossed => Holds(rows, there, pc[c], op[c], view[c]))
  BY DEF Sound
<1>1. CASE BeginApply(c)
  <2>1. UNCHANGED <<rows, bill, there, versions, drafts, crossed>>
    BY <1>1 DEF BeginApply, trip
  <2>2. CASE /\ Goto(c, "commit") /\ SeeWith(c, drafts[Me(c)][op[c].draft]) /\ PendingAction(Me(c), op[c])
             /\ Applicable(Me(c), op[c]) /\ Writes(Me(c))
    <3> DEFINE d == drafts[Me(c)][op[c].draft]
    <3>1. Moves(c, "commit", op[c], answer[c])
      BY <2>2, GotoMoves DEF Base
    <3>2. /\ \A q \in Clients \ {c} : view'[q] = view[q]
          /\ view'[c].rows = rows /\ view'[c].basis = d.plan
      BY <2>2, SeenAll
    <3>3. op[c].draft \in DOMAIN drafts[Me(c)]
      BY <2>2 DEF PendingAction, PendingActionAnyBase, Pending
    <3>4. Shaped(d.plan)
      BY <1>u, <3>3 DEF Sound
    <3>5. op[c].kind \in {"apply", "hotel"}
      BY <1>k, <1>1 DEF KindOf, BeginApply
    <3>6. there /\ Fits(rows, op[c], d.plan)
      BY <2>2, <3>5 DEF Writes, Applicable, Fits
    <3> HIDE DEF d
    <3>7. Sees(versions', "commit", op[c], view'[c]) /\ Holds(rows, there, "commit", op[c], view'[c])
      BY <3>2, <3>4, <3>6 DEF Sees, Holds
    <3> QED
      BY <2>1, <3>1, <3>2, <3>7, SoundQuiet, SoundDrafts, SoundMoves
  <2>3. CASE Answer(c, "refused") /\ UNCHANGED view
    BY <2>1, <2>3, SoundAnswer
  <2> QED
    BY <1>1, <2>2, <2>3 DEF BeginApply
<1>2. CASE CommitApply(c)
  <2> DEFINE t == view[c].rows
             u == Applied(c)
             w == [parent |-> view[c].top + 1, trip |-> Content(u)]
             more == WithVersion(c)
  <2>1. /\ Goto(c, "evict") /\ Committed(c) /\ Forget(c) /\ Applying(c) /\ there' = there
        /\ rows' = Flush(rows, t, u) /\ bill' = Bill(u) /\ versions' = Append(more, w)
    BY <1>2 DEF CommitApply
  <2>2. c \notin crossed /\ pc[c] = "commit" /\ op[c].kind \in NoRows
    BY <2>1 DEF Committed, Applying, NoRows
  <2>3. there /\ t = rows /\ Neat(t) /\ Fits(t, op[c], view[c].basis) /\ Shaped(view[c].basis)
    BY <1>s, <2>2 DEF Holds, Sees, Working, Sound
  <2>4. Made(t, u)
    BY <2>2, <2>3, AppliedMade DEF NoRows
  <2>5. rows' = u /\ Neat(u)
    BY <2>1, <2>3, <2>4, MadeFlush
  <2>6. Restorable(w.trip)
    BY <2>5, ContentRestorable
  <2> DEFINE v == [parent |-> view[c].top, trip |-> Content(t)]
  <2>7. more = Append(versions, v) /\ Restorable(v.trip)
    BY <2>3, ContentRestorable DEF WithVersion
  <2> HIDE DEF w, v, more, u, t
  <2>8. /\ Listed(more) /\ DOMAIN more = 1 .. (Len(versions) + 1) /\ Len(versions) \in Nat
        /\ DOMAIN versions = 1 .. Len(versions) /\ Len(more) = Len(versions) + 1
        /\ \A k \in DOMAIN versions : k \in DOMAIN more /\ more[k] = versions[k]
        /\ more[Len(versions) + 1] = v
    BY <2>7, Appended DEF CrossInv
  <2>9. /\ DOMAIN versions' = 1 .. (Len(versions) + 2)
        /\ \A k \in DOMAIN more : k \in DOMAIN versions' /\ versions'[k] = more[k]
        /\ versions'[Len(versions) + 2] = w
    <3>1. /\ DOMAIN versions' = 1 .. Len(versions') /\ Len(versions') = Len(more) + 1
          /\ \A k \in DOMAIN more : k \in DOMAIN versions' /\ versions'[k] = more[k]
          /\ versions'[Len(more) + 1] = w
      BY <2>1, <2>8, Appended
    <3> QED
      BY <2>8, <3>1
  <2>10. \A k \in DOMAIN versions' : k \in DOMAIN versions \/ k = Len(versions) + 1 \/ k = Len(versions) + 2
    BY <2>8, <2>9
  <2>11. Grows
    BY <2>6, <2>7, <2>8, <2>9, <2>10 DEF Grows, Sound
  <2>12. \A q \in Clients \ {c} : view'[q] = view[q]
    BY <2>1, Viewed DEF CrossInv, Forget
  <2>13. Drafted
    <3> DEFINE k == op[c].draft
               x == [Spent EXCEPT !.times = drafts[Me(c)][k].times + 1]
               old == drafts[Me(c)]
               new == [old EXCEPT ![k] = x]
    <3>1. drafts' = [drafts EXCEPT ![Me(c)] = new]
      BY <1>2 DEF CommitApply
    <3>2. Shaped(x.plan)
      BY EmptyShaped DEF Spent
    <3>3. \A j \in DOMAIN old : Shaped(old[j].plan)
      BY <1>u DEF Sound
    <3> HIDE DEF x, old, k
    <3>4. \A j \in DOMAIN new : j \in DOMAIN old /\ (new[j] = old[j] \/ new[j] = x)
      OBVIOUS
    <3>5. \A j \in DOMAIN new : Shaped(new[j].plan)
      BY <3>2, <3>3, <3>4
    <3> HIDE DEF new
    <3> QED
      BY <1>u, <3>1, <3>5, DraftedBy
  <2> QED
    BY <2>1, <2>5, <2>11, <2>12, <2>13, SoundCommit
<1>3. CASE FailApply(c)
  BY <1>3, SoundAnswer DEF FailApply, Forget, trip, history
<1> QED
  BY <1>1, <1>2, <1>3 DEF ApplyStep

\* The members and the readers.
LEMMA SoundRead ==
  ASSUME Base, CrossInv, Sound, NEW c \in Clients, ReadStep(c)
  PROVE  Sound'
<1>1. UNCHANGED <<rows, bill, there, versions, drafts, crossed, view>>
  BY DEF ReadStep, SetRole, Join, Evict, Get, Build, Store, trip, history
<1>2. CASE SetRole(c)
  BY <1>1, <1>2, SoundGoto, SoundAnswer DEF SetRole, Keeping, Working
<1>3. CASE Join(c)
  BY <1>1, <1>3, SoundAnswer DEF Join
<1>4. CASE Evict(c)
  BY <1>1, <1>4, SoundGoto, SoundAnswer DEF Evict, Keeping, Working
<1>5. CASE Get(c) \/ Build(c) \/ Store(c)
  BY <1>1, <1>5, SoundGoto, SoundAnswer DEF Get, Build, Store, Keeping, Working
<1> QED
  BY <1>2, <1>3, <1>4, <1>5 DEF ReadStep

\* Every step keeps it.
LEMMA TidyStep == Base /\ CrossInv /\ DraftInv /\ TidyInv /\ [Next]_vars => TidyInv'
<1> SUFFICES ASSUME Base, CrossInv, DraftInv, TidyInv, [Next]_vars, ~torn' PROVE Sound'
  BY DEF TidyInv
<1>1. CASE UNCHANGED vars
  <2>1. UNCHANGED <<pc, op, view, rows, bill, there, versions, drafts, crossed, torn>>
    BY <1>1 DEF vars, request, history, trip
  <2> QED
    BY <2>1 DEF TidyInv, Sound
<1>2. ASSUME NEW c \in Clients, Step(c) PROVE Sound'
  <2>1. ~torn
    <3>1. torn' = torn \/ Committed(c)
      BY <1>2 DEF Step, Start, SendEdit, SendOther, Send, VersionStep, TakeNumber, InsertVersion, InsertCollides,
             RecordVersion, Kept, EditStep, Look, BeginEdit, CommitEdit, FailEdit, CommitDelete, Restore,
             ChatStep, ChatContext, Propose, SaveTurn, ClearHistory, ApplyStep, BeginApply, CommitApply,
             FailApply, ReadStep, SetRole, Join, Evict, Get, Build, Store, history
    <3> QED
      BY <3>1 DEF Committed
  <2>2. Sound
    BY <2>1 DEF TidyInv
  <2> QED
    BY <1>2, <2>2, SoundStart, SoundVersion, SoundEdit, SoundChat, SoundApply, SoundRead DEF Step
<1> QED
  BY <1>1, <1>2 DEF Next, Step

\* It holds of the trip that is there at first.
LEMMA TidyInit == Init => TidyInv
<1> SUFFICES ASSUME Init PROVE Sound
  BY DEF TidyInv
<1>1. Neat(rows)
  BY TripEditAssumption DEF Init, Neat
<1> DEFINE v == [parent |-> 0, trip |-> Content(rows)]
<1>2. versions = <<v>>
  BY DEF Init
<1>3. Restorable(v.trip)
  BY <1>1, ContentRestorable
<1> HIDE DEF v
<1>4. \A k \in DOMAIN versions : Restorable(versions[k].trip)
  BY <1>2, <1>3
<1>5. \A c \in Clients : pc[c] = "idle"
  BY DEF Init
<1>6. \A u \in Users : DOMAIN drafts[u] = {}
  BY DEF Init
<1> QED
  BY <1>1, <1>4, <1>5, <1>6 DEF Init, Sound, Sees, Holds, Working

\* Unless two edits have crossed, the rows are in order and the budget is theirs.
THEOREM RowsStayTidy == Spec => []TidyUnlessCrossed
<1>1. Init => Base /\ CrossInv /\ DraftInv /\ TidyInv
  BY BaseInit, CrossInit, DraftInit, TidyInit
<1>2. TidyInv => TidyUnlessCrossed
  BY DEF TidyInv, Sound, TidyUnlessCrossed, Neat
<1> QED
  BY <1>1, <1>2, BaseStep, CrossStep, DraftStep, TidyStep, PTL DEF Spec

-----------------------------------------------------------------------------
(* What is replaced is in the history. *)

\* A tab whose second version is still due, or whose number is taken for what is there.
OwesRows(t, l, v) == l \in {"renumber", "evictfirst"} \/ (l = "reinsert" /\ v.rows = t)
Told == InVersions \/ lapsed \/ \E c \in Clients : OwesRows(rows, pc[c], view[c])

\* As long as the rows are there and nothing crossed, they are in a version or one is due.
OwedInv == there /\ ~torn => Told

\* A step that leaves the rows, and that tells or still owes what it owed.
LEMMA ToldMoves ==
  ASSUME Told, NEW c \in Clients, NEW l, NEW o, NEW a, Moves(c, l, o, a), rows' = rows,
         InVersions => InVersions', lapsed => lapsed' \/ InVersions',
         \A q \in Clients \ {c} : view'[q] = view[q],
         OwesRows(rows, pc[c], view[c]) => InVersions' \/ lapsed' \/ OwesRows(rows, l, view'[c])
  PROVE  Told'
<1>1. ASSUME NEW q \in Clients, OwesRows(rows, pc[q], view[q]) PROVE Told'
  <2>1. CASE q = c
    <3>1. pc'[c] = l
      BY DEF Moves
    <3> QED
      BY <1>1, <2>1, <3>1 DEF Told
  <2>2. CASE q # c
    <3>1. pc'[q] = pc[q] /\ view'[q] = view[q]
      BY <2>2 DEF Moves
    <3> QED
      BY <1>1, <3>1 DEF Told
  <2> QED
    BY <2>1, <2>2
<1> QED
  BY <1>1 DEF Told

\* The same for a step that writes no version.
LEMMA ToldQuiet ==
  ASSUME Told, NEW c \in Clients, NEW l, NEW o, NEW a, Moves(c, l, o, a),
         UNCHANGED <<rows, versions, lapsed>>, CrossInv,
         (\E x : view' = [view EXCEPT ![c] = x]) \/ UNCHANGED view,
         ~OwesRows(rows, pc[c], view[c]) \/ l \in {"renumber", "evictfirst"}
  PROVE  Told'
<1>1. \A q \in Clients \ {c} : view'[q] = view[q]
  BY Viewed DEF CrossInv
<1>2. InVersions => InVersions'
  BY DEF InVersions
<1> QED
  BY <1>1, <1>2, ToldMoves DEF OwesRows

\* The same for a request that goes on.
LEMMA ToldGoto ==
  ASSUME Base, CrossInv, Told, NEW c \in Clients, NEW l, Goto(c, l), UNCHANGED <<rows, versions, lapsed>>,
         (\E x : view' = [view EXCEPT ![c] = x]) \/ UNCHANGED view,
         ~OwesRows(rows, pc[c], view[c]) \/ l \in {"renumber", "evictfirst"}
  PROVE  Told'
BY GotoMoves, ToldQuiet DEF Base

\* The same for a request that ends.
LEMMA ToldAnswer ==
  ASSUME Base, CrossInv, Told, NEW c \in Clients, NEW a, Answer(c, a), UNCHANGED <<rows, versions, lapsed>>,
         (\E x : view' = [view EXCEPT ![c] = x]) \/ UNCHANGED view,
         ~OwesRows(rows, pc[c], view[c])
  PROVE  Told'
BY AnswerMoves, ToldQuiet DEF Base

\* A change whose version is due.
LEMMA ToldCommit ==
  ASSUME Base, NEW c \in Clients, NEW l \in {"renumber", "evictfirst"}, Goto(c, l)
  PROVE  Told'
<1>1. pc'[c] = l
  BY GotoMoves DEF Base, Moves
<1> QED
  BY <1>1 DEF Told, OwesRows

\* The steps that write a version: what is due is written, or known to have lapsed.
LEMMA ToldVersion ==
  ASSUME Base, CrossInv, Told, NEW c \in Clients, VersionStep(c)
  PROVE  Told'
<1>1. CASE TakeNumber(c)
  <2>1. UNCHANGED <<rows, versions>>
    BY <1>1 DEF TakeNumber, trip
  <2>2. CASE Writes(Me(c))
    <3> DEFINE l == IF pc[c] = "number" THEN "insert" ELSE "reinsert"
    <3>1. Moves(c, l, op[c], answer[c]) /\ See(c) /\ lapsed' = lapsed
      BY <1>1, <2>2, GotoMoves DEF TakeNumber, Base
    <3>2. (\A q \in Clients \ {c} : view'[q] = view[q]) /\ view'[c].rows = rows
      BY <3>1, SeenAll DEF See
    <3>3. OwesRows(rows, pc[c], view[c]) => OwesRows(rows, l, view'[c])
      BY <1>1, <3>2 DEF OwesRows, TakeNumber
    <3>4. InVersions => InVersions'
      BY <2>1 DEF InVersions
    <3> HIDE DEF l
    <3> QED
      BY <2>1, <3>1, <3>2, <3>3, <3>4, ToldMoves
  <2>3. CASE ~Writes(Me(c)) /\ pc[c] = "number"
    <3>1. Moves(c, "idle", NoOp, "refused") /\ view' = view
      BY <1>1, <2>3, AnswerMoves DEF TakeNumber, Base
    <3>2. lapsed' = (lapsed \/ pc[c] = "renumber")
      BY <1>1, <2>3, Zenon DEF TakeNumber
    <3>3. lapsed => lapsed'
      BY <3>2, Zenon
    <3>4. InVersions => InVersions'
      BY <2>1 DEF InVersions
    <3> QED
      BY <2>1, <2>3, <3>1, <3>3, <3>4, ToldMoves DEF OwesRows
  <2>4. CASE ~Writes(Me(c)) /\ pc[c] # "number"
    <3>1. pc[c] = "renumber"
      BY <1>1, <2>4, Zenon DEF TakeNumber
    <3>2. lapsed' = (lapsed \/ pc[c] = "renumber")
      BY <1>1, <2>4, Zenon DEF TakeNumber
    <3>3. lapsed'
      BY <3>1, <3>2, Zenon
    <3> QED
      BY <3>3 DEF Told
  <2> QED
    BY <2>2, <2>3, <2>4
<1>2. ASSUME NEW l, Kept(c), Forget(c), rows' = rows, Moves(c, l, op[c], answer[c]),
             pc[c] \in {"insert", "reinsert"}
      PROVE  Told'
  <2>1. InVersions => InVersions'
    BY <1>2, KeptIs
  <2>2. view[c].rows = rows => InVersions'
    BY <1>2, KeptIs
  <2>3. lapsed => lapsed' \/ InVersions'
    BY <1>2, <2>2 DEF Kept
  <2>4. \A q \in Clients \ {c} : view'[q] = view[q]
    BY <1>2, Viewed DEF CrossInv, Forget
  <2>5. OwesRows(rows, pc[c], view[c]) => InVersions'
    BY <1>2, <2>2 DEF OwesRows
  <2> QED
    BY <1>2, <2>1, <2>3, <2>4, <2>5, ToldMoves
<1>3. CASE InsertVersion(c)
  BY <1>2, <1>3, GotoMoves DEF InsertVersion, Base
<1>4. CASE InsertCollides(c)
  <2>1. UNCHANGED <<rows, versions, lapsed>> /\ Forget(c) /\ pc[c] = "insert"
    BY <1>4 DEF InsertCollides, trip, history
  <2> QED
    BY <1>4, <2>1, ToldGoto, ToldAnswer DEF InsertCollides, Forget, OwesRows
<1>5. CASE RecordVersion(c)
  <2>1. Forget(c) /\ pc[c] = "reinsert" /\ rows' = rows
    BY <1>5 DEF RecordVersion
  <2>2. CASE NumberTaken(c) /\ tries[c] + 1 < SnapshotTries
    BY <1>5, <2>2, ToldCommit DEF RecordVersion
  <2>3. CASE NumberTaken(c) /\ ~(tries[c] + 1 < SnapshotTries)
    BY <1>5, <2>3 DEF RecordVersion, Told
  <2>4. CASE ~NumberTaken(c)
    BY <1>2, <1>5, <2>1, <2>4, GotoMoves DEF RecordVersion, Base
  <2> QED
    BY <2>2, <2>3, <2>4
<1> QED
  BY <1>1, <1>3, <1>4, <1>5 DEF VersionStep

\* A draft that nothing crossed leaves its rows in the history.
LEMMA ToldApplied ==
  ASSUME Base, CrossInv, Sound, NEW c \in Clients, CommitApply(c), ~torn'
  PROVE  InVersions'
<1> DEFINE u == Applied(c)
           w == [parent |-> view[c].top + 1, trip |-> Content(u)]
<1>1. /\ Committed(c) /\ Applying(c) /\ rows' = Flush(rows, view[c].rows, u)
      /\ versions' = Append(WithVersion(c), w)
  BY DEF CommitApply
<1>2. c \notin crossed /\ pc[c] = "commit" /\ op[c].kind \in NoRows
  BY <1>1 DEF Committed, Applying, NoRows
<1>3. /\ there /\ view[c].rows = rows /\ Neat(rows)
      /\ Fits(view[c].rows, op[c], view[c].basis) /\ Shaped(view[c].basis)
  BY <1>2 DEF Holds, Sees, Working, Sound
<1>4. Made(view[c].rows, u)
  BY <1>2, <1>3, AppliedMade DEF NoRows
<1>5. rows' = u
  BY <1>1, <1>3, <1>4, MadeFlush
<1>6. w.trip = Content(u)
  OBVIOUS
<1> HIDE DEF w, u
<1>7. Listed(WithVersion(c))
  BY Appended DEF WithVersion, CrossInv
<1>8. \E k \in DOMAIN versions' : versions'[k] = w
  BY <1>1, <1>7, Appended
<1> QED
  BY <1>5, <1>6, <1>8 DEF InVersions

\* A request that is sent owes nothing yet.
LEMMA ToldStart ==
  ASSUME Base, CrossInv, Told, NEW c \in Clients, Start(c)
  PROVE  Told'
<1>1. PICK o \in Ops : SendEdit(c, o) \/ SendOther(c, o)
  BY DEF Start
<1>2. UNCHANGED <<rows, versions, lapsed, view>> /\ pc[c] = "idle"
  BY <1>1 DEF Start, SendEdit, SendOther, Send, trip
<1>3. ~OwesRows(rows, pc[c], view[c])
  BY <1>2 DEF OwesRows
<1>4. \E l, x, a : Moves(c, l, x, a)
  BY <1>1, GotoWithMoves, AnswerMoves DEF SendEdit, SendOther, Base
<1> QED
  BY <1>2, <1>3, <1>4, ToldQuiet

\* The steps of an edit: what changes the rows owes their version.
LEMMA ToldEdit ==
  ASSUME Base, CrossInv, there => Told, NEW c \in Clients, EditStep(c), there'
  PROVE  Told'
<1>t. CommitDelete(c) \/ there' = there
  BY DEF EditStep, Look, BeginEdit, CommitEdit, FailEdit, Restore, trip
<1>d. ~CommitDelete(c)
  BY DEF CommitDelete
<1>0. Told
  BY <1>t, <1>d
<1>1. CASE Look(c)
  <2>1. UNCHANGED <<rows, versions, lapsed, view>> /\ pc[c] = "look"
    BY <1>1 DEF Look, trip, history
  <2>2. \E l, x, a : Moves(c, l, x, a)
    BY <1>1, GotoWithMoves, AnswerMoves DEF Look, Base
  <2> QED
    BY <1>0, <2>1, <2>2, ToldQuiet DEF OwesRows
<1>2. CASE BeginEdit(c)
  <2>1. UNCHANGED <<rows, versions, lapsed>> /\ pc[c] = "begin" /\ Goto(c, "commit") /\ See(c)
    BY <1>2 DEF BeginEdit, trip, history
  <2> QED
    BY <1>0, <2>1, ToldGoto DEF See, SeeWith, OwesRows
<1>3. CASE CommitEdit(c)
  BY <1>3, ToldCommit DEF CommitEdit
<1>4. CASE FailEdit(c)
  BY <1>0, <1>4, ToldAnswer DEF FailEdit, Forget, trip, history, OwesRows
<1>5. CASE Restore(c)
  BY <1>0, <1>5, ToldCommit, ToldAnswer DEF Restore, OwesRows
<1> QED
  BY <1>d, <1>1, <1>2, <1>3, <1>4, <1>5 DEF EditStep

\* The steps of the chat.
LEMMA ToldChat ==
  ASSUME Base, CrossInv, Told, NEW c \in Clients, ChatStep(c)
  PROVE  Told'
<1>1. UNCHANGED <<rows, versions, lapsed>> /\ pc[c] \in {"chat", "propose", "save", "clear"}
  BY DEF ChatStep, ChatContext, Propose, SaveTurn, ClearHistory, trip, history
<1>2. (\E x : view' = [view EXCEPT ![c] = x]) \/ UNCHANGED view
  BY DEF ChatStep, ChatContext, Propose, SaveTurn, ClearHistory, Forget
<1>3. \E l, x, a : Moves(c, l, x, a)
  <2>1. (\E l : Goto(c, l)) \/ (\E l, x : GotoWith(c, l, x)) \/ \E a : Answer(c, a)
    BY DEF ChatStep, ChatContext, Propose, SaveTurn, ClearHistory
  <2> QED
    BY <2>1, GotoMoves, GotoWithMoves, AnswerMoves DEF Base
<1> QED
  BY <1>1, <1>2, <1>3, ToldQuiet DEF OwesRows

\* The steps that apply a draft.
LEMMA ToldApply ==
  ASSUME Base, CrossInv, Told, Sound, NEW c \in Clients, ApplyStep(c), ~torn'
  PROVE  Told'
<1>1. CASE BeginApply(c)
  <2>1. UNCHANGED <<rows, versions, lapsed>> /\ pc[c] \in {"apply", "hotel"}
    BY <1>1 DEF BeginApply, trip
  <2> QED
    BY <1>1, <2>1, ToldGoto, ToldAnswer DEF BeginApply, SeeWith, OwesRows
<1>2. CASE CommitApply(c)
  BY <1>2, ToldApplied DEF Told
<1>3. CASE FailApply(c)
  BY <1>3, ToldAnswer DEF FailApply, Forget, trip, history, OwesRows, Applying
<1> QED
  BY <1>1, <1>2, <1>3 DEF ApplyStep

\* The members and the readers.
LEMMA ToldRead ==
  ASSUME Base, CrossInv, Told, Sound, NEW c \in Clients, ReadStep(c)
  PROVE  Told'
<1>1. UNCHANGED <<rows, versions, lapsed, view>>
  BY DEF ReadStep, SetRole, Join, Evict, Get, Build, Store, trip, history
<1>2. CASE SetRole(c)
  BY <1>1, <1>2, ToldGoto, ToldAnswer DEF SetRole, OwesRows
<1>3. CASE Join(c)
  BY <1>1, <1>3, ToldAnswer DEF Join, OwesRows
<1>4. CASE Evict(c)
  <2>1. pc[c] = "evictfirst" => op[c].kind = "restore"
    BY DEF Sound, Sees
  <2> QED
    BY <1>1, <1>4, <2>1, ToldGoto, ToldAnswer DEF Evict, OwesRows
<1>5. CASE Get(c) \/ Build(c) \/ Store(c)
  BY <1>1, <1>5, ToldGoto, ToldAnswer DEF Get, Build, Store, OwesRows
<1> QED
  BY <1>2, <1>3, <1>4, <1>5 DEF ReadStep

\* A deleted trip stays deleted, and a torn one stays torn.
LEMMA StillThere ==
  ASSUME NEW c \in Clients, Step(c)
  PROVE  (there' => there) /\ (~torn' => ~torn)
<1>1. torn' = torn \/ Committed(c)
  BY DEF Step, Start, SendEdit, SendOther, Send, VersionStep, TakeNumber, InsertVersion, InsertCollides,
         RecordVersion, Kept, EditStep, Look, BeginEdit, CommitEdit, FailEdit, CommitDelete, Restore,
         ChatStep, ChatContext, Propose, SaveTurn, ClearHistory, ApplyStep, BeginApply, CommitApply,
         FailApply, ReadStep, SetRole, Join, Evict, Get, Build, Store, history
<1>2. there' = there \/ ~there'
  BY DEF Step, Start, SendEdit, SendOther, Send, VersionStep, TakeNumber, InsertVersion, InsertCollides,
         RecordVersion, EditStep, Look, BeginEdit, CommitEdit, FailEdit, CommitDelete, Restore,
         ChatStep, ChatContext, Propose, SaveTurn, ClearHistory, ApplyStep, BeginApply, CommitApply,
         FailApply, ReadStep, SetRole, Join, Evict, Get, Build, Store, trip
<1>3. ~torn' => ~torn
  BY <1>1 DEF Committed
<1>4. there' => there
  BY <1>2
<1> QED
  BY <1>3, <1>4

\* Every step keeps it.
LEMMA OwedStep == Base /\ CrossInv /\ TidyInv /\ OwedInv /\ [Next]_vars => OwedInv'
<1> SUFFICES ASSUME Base, CrossInv, TidyInv, OwedInv, [Next]_vars, there', ~torn' PROVE Told'
  BY DEF OwedInv
<1>1. CASE UNCHANGED vars
  <2>1. UNCHANGED <<pc, view, rows, versions, lapsed, there, torn>>
    BY <1>1 DEF vars, request, history, trip
  <2> QED
    BY <2>1 DEF OwedInv, Told, InVersions, OwesRows
<1>2. ASSUME NEW c \in Clients, Step(c) PROVE Told'
  <2>1. there /\ ~torn
    BY <1>2, StillThere
  <2>2. Sound /\ Told
    BY <2>1 DEF TidyInv, OwedInv
  <2> QED
    BY <1>2, <2>1, <2>2, ToldStart, ToldVersion, ToldEdit, ToldChat, ToldApply, ToldRead DEF Step
<1> QED
  BY <1>1, <1>2 DEF Next, Step

\* The trip that is there at first has its version.
LEMMA OwedInit == Init => OwedInv
<1> SUFFICES ASSUME Init PROVE InVersions
  BY DEF OwedInv, Told
<1> DEFINE v == [parent |-> 0, trip |-> Content(rows)]
<1>1. versions = <<v>> /\ v.trip = Content(rows)
  BY DEF Init
<1> HIDE DEF v
<1> QED
  BY <1>1 DEF InVersions

\* What a restore replaces is in the history.
LEMMA RestoreStep ==
  Base /\ OwedInv /\ [Next]_vars => (Replaced /\ Restoring /\ ~Outstanding => InHistory(rows))
<1> SUFFICES ASSUME Base, OwedInv, [Next]_vars, Replaced, Restoring, ~Outstanding PROVE InHistory(rows)
  OBVIOUS
<1>1. rows' # rows /\ ~torn'
  BY DEF Replaced
<1>2. PICK c \in Clients : Step(c)
  BY <1>1 DEF Next, Step, vars, trip
<1>3. PICK q \in Clients : pc[q] = "restore" /\ pc'[q] # "restore"
  BY DEF Restoring
<1>4. q = c
  <2>1. \E l, x, a : Moves(c, l, x, a)
    <3>1. (\E l : Goto(c, l)) \/ (\E l, x : GotoWith(c, l, x)) \/ \E a : Answer(c, a)
      BY <1>2 DEF Step, Start, SendEdit, SendOther, VersionStep, TakeNumber, InsertVersion, InsertCollides,
         RecordVersion, EditStep, Look, BeginEdit, CommitEdit, FailEdit, CommitDelete, Restore,
         ChatStep, ChatContext, Propose, SaveTurn, ClearHistory, ApplyStep, BeginApply, CommitApply,
         FailApply, ReadStep, SetRole, Join, Evict, Get, Build, Store
    <3> QED
      BY <3>1, GotoMoves, GotoWithMoves, AnswerMoves DEF Base
  <2> QED
    BY <1>3, <2>1 DEF Moves
<1>5. Restore(c)
  BY <1>2, <1>3, <1>4 DEF Step, Start, VersionStep, TakeNumber, InsertVersion, InsertCollides,
     RecordVersion, EditStep, Look, BeginEdit, CommitEdit, FailEdit, CommitDelete,
     ChatStep, ChatContext, Propose, SaveTurn, ClearHistory, ApplyStep, BeginApply, CommitApply, Applying,
     FailApply, ReadStep, SetRole, Join, Evict, Get, Build, Store
<1>6. there /\ versions' = versions
  BY <1>1, <1>5 DEF Restore, Writes
<1>7. ~torn
  BY <1>1, <1>2, StillThere
<1>8. InVersions
  BY <1>6, <1>7 DEF OwedInv, Told, OwesRows, Outstanding
<1> QED
  BY <1>6, <1>8 DEF InVersions, InHistory

\* What a restore replaces is in the history as well.
THEOREM EverythingCanBeUndone == Spec => Undoable
<1>1. Init => Base /\ CrossInv /\ DraftInv /\ TidyInv /\ OwedInv
  BY BaseInit, CrossInit, DraftInit, TidyInit, OwedInit
<1>2. Base /\ OwedInv /\ [Next]_vars => [Replaced /\ Restoring /\ ~Outstanding => InHistory(rows)]_vars
  BY RestoreStep
<1>3. Spec => [][Replaced /\ Restoring /\ ~Outstanding => InHistory(rows)]_vars
  BY <1>1, <1>2, BaseStep, CrossStep, DraftStep, TidyStep, OwedStep, PTL DEF Spec
<1> QED
  BY <1>3, EditsCanBeUndone, PTL DEF Undoable

=============================================================================
