------------------------------- MODULE Sharing -------------------------------
(***************************************************************************)
(* What the owner of a trip lets others see of it: members and the         *)
(* invitations that make them, the public link, the published template and *)
(* the trips forked from it, and the expenses that members note.  Each     *)
(* request is a transaction of its own; the two that read before they      *)
(* write, and the one that locks its row, are split where another may come *)
(* in between.                                                             *)
(***************************************************************************)
EXTENDS Integers, Sequences, FiniteSets

CONSTANTS
  Guests,      \* people other than the owner
  Invitations,
  Expenses,
  Nobody,
  MaxLinks,    \* bound: links that are made
  MaxEdits,    \* bound: edits of the trip
  MaxForks     \* bound: copies that are made

ASSUME SharingAssumption ==
  /\ Nobody \notin Guests /\ "owner" \notin Guests
  /\ MaxLinks \in Nat /\ MaxEdits \in Nat /\ MaxForks \in Nat

VARIABLES
  trip,       \* [there, archived, rows, edits]; rows: the items of each day
  invites,    \* [role, revoked, by, late], role "none" if there is no such row
  members,    \* the role of each guest, or "none"
  link,       \* share_token: [token, late]; token 0 if there is none
  template,   \* template_summary: <<>> or the rows of a day
  published,  \* for the property: every summary that was ever published
  forks,      \* the trips made from it
  expenses,   \* [on, by, day, item]
  open        \* transactions that have read and not yet committed

tripVars  == <<trip, link, template, published, forks>>
guestVars == <<invites, members>>
shareVars == <<tripVars, guestVars, expenses, open>>

NoInvite == [role |-> "none", revoked |-> FALSE, by |-> Nobody, late |-> FALSE]
NoExpense == [on |-> FALSE, by |-> Nobody, day |-> 0, item |-> "none"]
ShareInit ==
  /\ trip = [there |-> TRUE, archived |-> FALSE, rows |-> <<{"palace"}, {"lake"}>>, edits |-> 0]
  /\ invites = [i \in Invitations |-> NoInvite]
  /\ members = [g \in Guests |-> "none"]
  /\ link = [token |-> 0, late |-> FALSE]
  /\ template = <<>> /\ published = {} /\ forks = <<>>
  /\ expenses = [e \in Expenses |-> NoExpense]
  /\ open = {}

-----------------------------------------------------------------------------
(* Invitations and members.  A transaction in `open` is a record of what it is *)
(* for and what it has read.                                                   *)

Accepting(i) == {t \in open : t.for = "accept" /\ t.invite = i}
Invite(i, role) ==
  /\ trip.there /\ invites[i].role = "none"
  /\ invites' = [invites EXCEPT ![i].role = role]
  /\ UNCHANGED <<tripVars, members, expenses, open>>
\* A week later.
Overdue(i) ==
  /\ invites[i].role # "none" /\ ~invites[i].late
  /\ invites' = [invites EXCEPT ![i].late = TRUE]
  /\ UNCHANGED <<tripVars, members, expenses, open>>

\* revoke_invitation reads without a lock; its UPDATE waits for one.
RevokeRead(i) ==
  /\ trip.there /\ invites[i].role # "none" /\ invites[i].by = Nobody
  /\ open' = open \cup {[for |-> "revoke", invite |-> i, guest |-> Nobody]}
  /\ UNCHANGED <<tripVars, guestVars, expenses>>
RevokeCommit(t) ==
  /\ t.for = "revoke" /\ Accepting(t.invite) = {}
  /\ invites' = [invites EXCEPT ![t.invite].revoked = TRUE]
  /\ open' = open \ {t}
  /\ UNCHANGED <<tripVars, members, expenses>>

\* accept_invitation, up to the check for a member: the row is read under its lock.
\* Variant: it is read without one.
Acceptable(i, g) ==
  /\ trip.there /\ invites[i].role # "none" /\ ~invites[i].revoked
  /\ invites[i].by = Nobody /\ ~invites[i].late /\ members[g] = "none"
AcceptUnlocked(i, g) ==
  /\ Acceptable(i, g)
  /\ open' = open \cup {[for |-> "accept", invite |-> i, guest |-> g]}
  /\ UNCHANGED <<tripVars, guestVars, expenses>>
AcceptRead(i, g) ==
  /\ Accepting(i) = {} /\ Acceptable(i, g)
  /\ open' = open \cup {[for |-> "accept", invite |-> i, guest |-> g]}
  /\ UNCHANGED <<tripVars, guestVars, expenses>>
\* The unique key of the members decides between two invitations of one guest; who
\* loses leaves the invitation as it was.
AcceptCommit(t) ==
  /\ t.for = "accept" /\ open' = open \ {t}
  /\ IF members[t.guest] = "none"
     THEN /\ members' = [members EXCEPT ![t.guest] = invites[t.invite].role]
          /\ invites' = [invites EXCEPT ![t.invite].by = t.guest]
     ELSE UNCHANGED guestVars
  /\ UNCHANGED <<tripVars, expenses>>

UpdateRole(g, role) ==
  /\ trip.there /\ members[g] # "none" /\ members' = [members EXCEPT ![g] = role]
  /\ UNCHANGED <<tripVars, invites, expenses, open>>
RemoveMember(g) ==
  /\ trip.there /\ members[g] # "none" /\ members' = [members EXCEPT ![g] = "none"]
  /\ UNCHANGED <<tripVars, invites, expenses, open>>

-----------------------------------------------------------------------------
(* The public link: the trip is looked at in one transaction and the columns *)
(* are written in another.                                                   *)

ShareLook ==
  /\ trip.there /\ ~trip.archived
  /\ open' = open \cup {[for |-> "share", invite |-> Nobody, guest |-> Nobody]}
  /\ UNCHANGED <<tripVars, guestVars, expenses>>
ShareWrite(t) ==
  /\ t.for = "share" /\ link.token < MaxLinks
  /\ link' = [token |-> link.token + 1, late |-> FALSE]
  /\ open' = open \ {t}
  /\ UNCHANGED <<trip, template, published, forks, guestVars, expenses>>
RemoveShare ==
  /\ trip.there /\ link.token # 0 /\ link' = [token |-> 0, late |-> FALSE]
  /\ UNCHANGED <<trip, template, published, forks, guestVars, expenses, open>>
LinkOverdue ==
  /\ link.token # 0 /\ ~link.late /\ link' = [link EXCEPT !.late = TRUE]
  /\ UNCHANGED <<trip, template, published, forks, guestVars, expenses, open>>

-----------------------------------------------------------------------------
(* The template. *)

\* publish: the rows of one moment, kept beside the trip.
Summary == trip.rows
Publish ==
  /\ trip.there /\ template' = Summary
  /\ published' = published \cup {Summary}
  /\ UNCHANGED <<trip, link, forks, guestVars, expenses, open>>
Unpublish ==
  /\ trip.there /\ template # <<>> /\ template' = <<>>
  /\ UNCHANGED <<trip, link, published, forks, guestVars, expenses, open>>

\* fork: the days and items of the summary, but the number of days, the dates and the
\* money of the row as it is now.  Variant: the items of the row as well.
Copied(rows) == [d \in DOMAIN rows |-> rows[d]]
ForkFromRows == [days |-> Len(trip.rows), list |-> Copied(trip.rows)]
ForkOf == [days |-> Len(trip.rows), list |-> Copied(template)]
Fork ==
  /\ trip.there /\ template # <<>> /\ Len(forks) < MaxForks
  /\ forks' = Append(forks, ForkOf)
  /\ UNCHANGED <<trip, link, template, published, guestVars, expenses, open>>

-----------------------------------------------------------------------------
(* Expenses: of the owner and of the members who may write; a link to a day  *)
(* and to an item is checked against the rows whenever the expense is saved. *)

Writers == {"owner"} \cup {g \in Guests : members[g] = "editor"}
Linked(day, item) ==
  /\ day = 0 \/ day \in DOMAIN trip.rows
  /\ item = "none" \/ \E d \in DOMAIN trip.rows : item \in trip.rows[d] /\ (day = 0 \/ day = d)
Items == UNION {trip.rows[d] : d \in DOMAIN trip.rows}
NoteExpense(e, who) ==
  /\ trip.there /\ expenses[e] = NoExpense /\ who \in Writers
  /\ \E day \in 0 .. Len(trip.rows), item \in Items \cup {"none"} :
       /\ Linked(day, item)
       /\ expenses' = [expenses EXCEPT ![e] = [on |-> TRUE, by |-> who, day |-> day, item |-> item]]
  /\ UNCHANGED <<tripVars, guestVars, open>>
\* The owner may change every expense, a member the own ones; what is not sent stays
\* and is checked again.
MayChange(e, who) == expenses[e].on /\ who \in Writers /\ who \in {"owner", expenses[e].by}
ChangeExpense(e, who) ==
  /\ trip.there /\ MayChange(e, who)
  /\ \E day \in 0 .. Len(trip.rows) :
       /\ Linked(day, expenses[e].item)
       /\ expenses' = [expenses EXCEPT ![e].day = day]
  /\ UNCHANGED <<tripVars, guestVars, open>>
DropExpense(e, who) ==
  /\ trip.there /\ MayChange(e, who)
  /\ expenses' = [expenses EXCEPT ![e].on = FALSE]
  /\ UNCHANGED <<tripVars, guestVars, open>>

-----------------------------------------------------------------------------
(* The trip itself: archived, edited (the edits are those of TripEdit), gone. *)

Archive ==
  /\ trip.there /\ trip' = [trip EXCEPT !.archived = ~@]
  /\ UNCHANGED <<link, template, published, forks, guestVars, expenses, open>>
Edit ==
  /\ trip.there /\ trip.edits < MaxEdits
  /\ \/ Len(trip.rows) > 1 /\ trip' = [trip EXCEPT !.rows = SubSeq(@, 1, Len(@) - 1), !.edits = @ + 1]
     \/ \E d \in DOMAIN trip.rows :
          trip' = [trip EXCEPT !.rows[d] = IF "inn" \in @ THEN {"inn"} ELSE @ \cup {"inn"}, !.edits = @ + 1]
  /\ UNCHANGED <<link, template, published, forks, guestVars, expenses, open>>
DeleteTrip ==
  /\ trip.there /\ trip' = [trip EXCEPT !.there = FALSE]
  /\ UNCHANGED <<link, template, published, forks, guestVars, expenses, open>>

-----------------------------------------------------------------------------
GuestStep ==
  \/ \E i \in Invitations :
       \/ \E role \in {"editor", "viewer"} : Invite(i, role)
       \/ Overdue(i) \/ RevokeRead(i)
       \/ \E g \in Guests : AcceptRead(i, g)
  \/ \E t \in open : RevokeCommit(t) \/ AcceptCommit(t)
  \/ \E g \in Guests : RemoveMember(g) \/ \E role \in {"editor", "viewer"} : UpdateRole(g, role)
ExpenseStep ==
  \E e \in Expenses, who \in Writers :
    NoteExpense(e, who) \/ ChangeExpense(e, who) \/ DropExpense(e, who)
PublicStep ==
  \/ ShareLook \/ RemoveShare \/ LinkOverdue \/ \E t \in open : ShareWrite(t)
  \/ Publish \/ Unpublish \/ Fork \/ Archive \/ Edit
ShareNext == GuestStep \/ ExpenseStep \/ PublicStep \/ DeleteTrip

ShareSpec == ShareInit /\ [][ShareNext]_shareVars

-----------------------------------------------------------------------------
(* Properties. *)

\* An invitation makes at most one member, of its own role, and nobody joins without
\* one: who accepts and what is revoked is decided once, however the requests of
\* several guests and of the owner interleave (accept_invitation, revoke_invitation).
Consumed(i, g) == invites[i].by = Nobody /\ invites'[i].by = g
InvitationsExact == [][
  /\ \A i \in Invitations :
       /\ invites[i].by # Nobody \/ invites[i].revoked => invites'[i].by = invites[i].by
       /\ \A g \in Guests : Consumed(i, g) => members[g] = "none" /\ members'[g] = invites[i].role
  /\ \A g \in Guests : members[g] = "none" /\ members'[g] # "none" =>
       Cardinality({i \in Invitations : Consumed(i, g)}) = 1]_shareVars

\* The days and items of a copy are those its owner published at one moment, however the
\* trip was edited, published anew or taken back meanwhile; and a copy that was made is
\* not touched by anything that happens to its source (publish, fork).  The heading of a
\* copy (ForkOf: the number of its days) is that of the live row, and not of that moment.
ForkShowsTemplate == [][
  /\ \A f \in DOMAIN forks : forks'[f] = forks[f]
  /\ \A f \in DOMAIN forks' \ DOMAIN forks : forks'[f].list \in published]_shareVars
=============================================================================
