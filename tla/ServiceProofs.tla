---------------------------- MODULE ServiceProofs -----------------------------
(***************************************************************************)
(* What the services around a trip promise, for any number of workers and  *)
(* any limits: a user's own gateways, the research of a run, what is made  *)
(* beside the trip and stored with it, and the calls to the providers.     *)
(* Each argument is about what somebody has in his hands: a client made    *)
(* for a slot of the pool, an answer that is not billed yet, rows that may *)
(* be older than the trip, a task that must not be lost, a file that is    *)
(* not whole yet, a time in a lane that has not come, a call that is past  *)
(* the breaker, a day of a draft made of places the trip already had.      *)
(***************************************************************************)
EXTENDS Gateways, Research, Enrichment, Exports, Pictures, ExternalCalls, Replan, DraftTurn,
        FiniteSetTheorems, SequenceTheorems, TLAPS

-----------------------------------------------------------------------------
(* A user's own gateway: Gateways. *)

\* The stages of a leg, the requests at the settings page, and the rows of the legs.
Stages == {"idle", "runs", "called", "over"}
Requests == [at : {"idle", "read", "over"}, op : {"none", "update", "delete", "enable", "disable"},
             gate : Gateways, host : Hosts, on : BOOLEAN]
LegRows == [at : Stages, route : Routes \cup {Operator}, used : Routes \cup {Operator}, due : SUBSET Routes]
\* The shape of the rows, the requests, the legs and the cached clients.
GateTypes ==
  /\ gates \in [Gateways -> GateRows]
  /\ setting \in [Editors -> Requests]
  /\ leg \in [Legs -> LegRows]
  /\ pool \subseteq [slot : Routes, route : Routes]
  /\ readable \in BOOLEAN /\ upset \in BOOLEAN
\* A leg as it starts.
Started(r) ==
  /\ r.used = Operator /\ r.at \in {"runs", "over"}
  /\ r.at = "runs" => IF r.due = {} THEN r.route = Operator ELSE r.route \in r.due
\* One row is enabled, and a cached client is that of its slot.
OneEnabled == \A g, h \in Enabled : g = h
TrueClients == \A c \in pool : c.slot = c.route
\* A leg has the route of its start, and has used no other.
LegFaithful(l) ==
  /\ leg[l].at = "idle" => leg[l].route = Operator
  /\ leg[l].at \in {"idle", "runs"} => leg[l].used = Operator
  /\ leg[l].at \in {"runs", "called"} =>
       IF leg[l].due = {} THEN leg[l].route = Operator ELSE leg[l].route \in leg[l].due
  /\ leg[l].at = "called" => leg[l].used = leg[l].route
GateInv == GateTypes /\ OneEnabled /\ TrueClients /\ \A l \in Legs : LegFaithful(l)

\* An empty row, and a request that has just begun, are well-formed.
LEMMA UnbornRow == /\ Unborn \in GateRows
                   /\ \A at \in {"idle", "read", "over"} : NoRequest(at) \in Requests
<1>1. (CHOOSE h \in Hosts : TRUE) \in Hosts /\ (CHOOSE k \in Secrets : TRUE) \in Secrets /\ (CHOOSE g \in Gateways : TRUE) \in Gateways
  BY GatewaysAssumption
<1> QED BY <1>1 DEF Unborn, GateRows, NoRequest, Requests

\* A set whose elements are all the same has at most one, and conversely.
LEMMA AtMostOne == ASSUME NEW S, \A x, y \in S : x = y PROVE Cardinality(S) <= 1
<1>1. CASE S = {} BY <1>1, FS_EmptySet
<1>2. CASE S # {}
  <2>1. PICK x \in S : TRUE BY <1>2
  <2>2. S = {x} BY <2>1
  <2>3. Cardinality(S) = 1 BY <2>2, FS_Singleton
  <2> QED BY <2>3
<1> QED BY <1>1, <1>2

\* And conversely: of two elements of such a set none is another.
LEMMA OneOfTwo == ASSUME NEW S, IsFiniteSet(S), Cardinality(S) <= 1 PROVE \A x, y \in S : x = y
<1> SUFFICES ASSUME NEW x \in S, NEW y \in S, x # y PROVE FALSE OBVIOUS
<1>1. {x, y} \subseteq S OBVIOUS
<1>2. IsFiniteSet({x, y}) /\ Cardinality({x, y}) <= Cardinality(S) BY <1>1, FS_Subset
<1>3. Cardinality({x}) = 1 /\ IsFiniteSet({x}) BY FS_Singleton
<1>4. Cardinality({x} \cup {y}) = Cardinality({x}) + 1 BY <1>3, FS_AddElement
<1>5. {x} \cup {y} = {x, y} OBVIOUS
<1>6. Cardinality(S) \in Nat BY FS_CardinalityType
<1> QED BY <1>2, <1>3, <1>4, <1>5, <1>6

\* At the start at most one row is enabled, and no client has been made.
LEMMA GateStart == GateInit => GateInv
<1> SUFFICES ASSUME GateInit PROVE GateInv OBVIOUS
<1>1. GateTypes
  <2>1. \A on \in BOOLEAN : [Unborn EXCEPT !.is = "there", !.on = on] \in GateRows
    BY UnbornRow DEF GateRows
  <2>2. {Unborn} \cup {[Unborn EXCEPT !.is = "there", !.on = on] : on \in BOOLEAN} \subseteq GateRows
    BY <2>1, UnbornRow, Zenon
  <2>3. gates \in [Gateways -> {Unborn} \cup {[Unborn EXCEPT !.is = "there", !.on = on] : on \in BOOLEAN}]
    BY Zenon DEF GateInit
  <2>4. \A S, T : S \subseteq T => [Gateways -> S] \subseteq [Gateways -> T] OBVIOUS
  <2>5. gates \in [Gateways -> GateRows] BY <2>2, <2>3, <2>4, Zenon
  <2>6. setting = [e \in Editors |-> NoRequest("idle")] /\ pool = {} /\ readable = TRUE /\ upset = FALSE
        /\ leg = [l \in Legs |-> [at |-> "idle", route |-> Operator, used |-> Operator, due |-> {}]]
    BY Zenon DEF GateInit
  <2> QED BY <2>5, <2>6, UnbornRow DEF GateTypes, LegRows, Stages
<1>2. IsFiniteSet(Enabled) BY GatewaysAssumption, FS_Subset DEF Enabled
<1>4. Cardinality(Enabled) <= 1 BY Zenon DEF GateInit
<1>5. pool = {} /\ leg = [l \in Legs |-> [at |-> "idle", route |-> Operator, used |-> Operator, due |-> {}]]
  BY Zenon DEF GateInit
<1>3. OneEnabled BY <1>2, <1>4, OneOfTwo DEF OneEnabled
<1> QED BY <1>1, <1>3, <1>5 DEF GateInv, TrueClients, LegFaithful

\* A row is replaced: the others are as enabled as they were.
LEMMA RowReplaced ==
  ASSUME gates \in [Gateways -> GateRows], NEW g \in Gateways, NEW r \in GateRows,
         gates' = [gates EXCEPT ![g] = r]
  PROVE  /\ gates' \in [Gateways -> GateRows]
         /\ Enabled' \subseteq Gateways
         /\ \A x \in Gateways \ {g} : (x \in Enabled') <=> (x \in Enabled)
         /\ (g \in Enabled') <=> (r.is = "there" /\ r.on)
<1>1. \A x \in Gateways : gates'[x] = IF x = g THEN r ELSE gates[x] OBVIOUS
<1>2. gates' \in [Gateways -> GateRows] OBVIOUS
<1> QED BY <1>1, <1>2 DEF Enabled

\* The settings page changes rows, and leaves one enabled at most.
LEMMA RowsStep ==
  ASSUME GateInv, NEW e \in Editors,
         CreateGate(e) \/ Require(e) \/ UpdateGate(e) \/ DeleteGate(e) \/ EnableGate(e) \/ DisableGate(e)
  PROVE  GateInv'
<1> USE UnbornRow
<1>0. \A at \in {"idle", "read", "over"} : [setting EXCEPT ![e] = NoRequest(at)] \in [Editors -> Requests]
  BY DEF GateInv, GateTypes
<1>a. UNCHANGED <<leg, pool, readable, upset>>
  BY DEF CreateGate, Require, UpdateGate, DeleteGate, EnableGate, DisableGate, Commits
<1>1. setting' \in [Editors -> Requests] /\ gates' \in [Gateways -> GateRows] /\ OneEnabled'
  <2>1. CASE CreateGate(e)
    <3>1. setting' \in [Editors -> Requests] BY <1>0, <2>1 DEF CreateGate, Close
    <3>2. CASE UNCHANGED gates
      <4>1. gates' \in [Gateways -> GateRows] /\ Enabled' = Enabled
        BY <3>2 DEF GateInv, GateTypes, Enabled
      <4> QED BY <3>1, <4>1 DEF OneEnabled, GateInv
    <3>3. ASSUME NEW x \in Gateways, NEW h \in Hosts, NEW k \in Secrets,
                 gates[x].is = "unborn",
                 gates' = [gates EXCEPT ![x] = [is |-> "there", on |-> FALSE, host |-> h, key |-> k, opens |-> TRUE]]
          PROVE  gates' \in [Gateways -> GateRows] /\ Enabled' = Enabled
      <4> DEFINE r == [is |-> "there", on |-> FALSE, host |-> h, key |-> k, opens |-> TRUE]
      <4>1. r \in GateRows /\ r.on = FALSE BY DEF GateRows
      <4>2. x \notin Enabled BY <3>3 DEF Enabled
      <4> HIDE DEF r
      <4>3. gates' = [gates EXCEPT ![x] = r] BY <3>3 DEF r
      <4>4. gates \in [Gateways -> GateRows] BY DEF GateInv, GateTypes
      <4>5. /\ gates' \in [Gateways -> GateRows]
            /\ Enabled' \subseteq Gateways
            /\ \A y \in Gateways \ {x} : (y \in Enabled') <=> (y \in Enabled)
            /\ (x \in Enabled') <=> (r.is = "there" /\ r.on)
        BY <4>1, <4>3, <4>4, RowReplaced, Zenon
      <4>6. Enabled \subseteq Gateways BY DEF Enabled
      <4> QED BY <4>1, <4>2, <4>5, <4>6
    <3>4. CASE gates' # gates
      <4>1. PICK x \in Gateways, h \in Hosts, k \in Secrets :
              /\ gates[x].is = "unborn"
              /\ gates' = [gates EXCEPT ![x] = [is |-> "there", on |-> FALSE, host |-> h, key |-> k, opens |-> TRUE]]
        BY <2>1, <3>4, Zenon DEF CreateGate
      <4> QED BY <4>1, <3>3, <3>1 DEF OneEnabled, GateInv
    <3> QED BY <3>1, <3>2, <3>4 DEF GateInv, GateTypes
  <2>2. CASE Require(e)
    <3>1. setting' \in [Editors -> Requests]
      <4>1. PICK op \in {"update", "delete", "enable", "disable"}, g \in Gateways :
              \/ Close(e)
              \/ setting' = [setting EXCEPT ![e] = [at |-> "read", op |-> op, gate |-> g,
                                             host |-> gates[g].host, on |-> gates[g].on]]
        BY <2>2 DEF Require
      <4>2. gates[g].host \in Hosts /\ gates[g].on \in BOOLEAN BY DEF GateInv, GateTypes, GateRows
      <4>3. [at |-> "read", op |-> op, gate |-> g, host |-> gates[g].host, on |-> gates[g].on] \in Requests
        BY <4>2 DEF Requests
      <4> QED BY <1>0, <4>1, <4>3 DEF Close, GateInv, GateTypes
    <3> QED BY <3>1, <2>2 DEF Require, OneEnabled, Enabled, GateInv, GateTypes
  <2>3. CASE UpdateGate(e)
    <3>1. setting' \in [Editors -> Requests] BY <1>0, <2>3 DEF UpdateGate, Commits, Close
    <3>2. setting[e].gate \in Gateways /\ setting[e].host \in Hosts BY DEF GateInv, GateTypes, Requests
    <3>3. gates' \in [Gateways -> GateRows] /\ Enabled' = Enabled
      <4> DEFINE x == setting[e].gate
      <4>1. CASE UNCHANGED gates BY <4>1 DEF Enabled, GateInv, GateTypes
      <4>2. CASE gates' # gates
        <5>1. PICK r \in GateRows : /\ gates' = [gates EXCEPT ![x] = r]
                                    /\ r.is = gates[x].is /\ r.on = gates[x].on
          <6>1. gates[x] \in GateRows BY <3>2 DEF GateInv, GateTypes
          <6>2. PICK h \in Hosts :
                  LET host == IF h = setting[e].host THEN gates[x].host ELSE h IN
                  \/ gates' = [gates EXCEPT ![x].host = host]
                  \/ \E k \in Secrets : gates' = [gates EXCEPT ![x] = [@ EXCEPT !.host = host, !.key = k, !.opens = TRUE]]
            BY <2>3, <4>2 DEF UpdateGate
          <6>3. PICK host \in Hosts :
                  \/ gates' = [gates EXCEPT ![x] = [gates[x] EXCEPT !.host = host]]
                  \/ \E k \in Secrets : gates' = [gates EXCEPT ![x] =
                       [gates[x] EXCEPT !.host = host, !.key = k, !.opens = TRUE]]
            <7>1. (IF h = setting[e].host THEN gates[x].host ELSE h) \in Hosts BY <6>1 DEF GateRows
            <7> QED BY <6>1, <6>2, <7>1, <3>2 DEF GateInv, GateTypes
          <6>4. \A k \in Secrets : LET r == [gates[x] EXCEPT !.host = host, !.key = k, !.opens = TRUE] IN
                  r \in GateRows /\ r.is = gates[x].is /\ r.on = gates[x].on
            BY <6>1 DEF GateRows
          <6>5. LET r == [gates[x] EXCEPT !.host = host] IN
                  r \in GateRows /\ r.is = gates[x].is /\ r.on = gates[x].on
            BY <6>1 DEF GateRows
          <6> QED BY <6>3, <6>4, <6>5
        <5> QED BY <5>1, <3>2, RowReplaced DEF GateInv, GateTypes, Enabled
      <4> QED BY <4>1, <4>2
    <3> QED BY <3>1, <3>3 DEF OneEnabled, GateInv
  <2>4. CASE DeleteGate(e)
    <3>1. setting' \in [Editors -> Requests] BY <1>0, <2>4 DEF DeleteGate, Commits, Close
    <3>2. gates' \in [Gateways -> GateRows] /\ Enabled' \subseteq Enabled
      <4> DEFINE x == setting[e].gate
      <4>1. CASE gates' = gates BY <4>1 DEF Enabled, GateInv, GateTypes
      <4>2. CASE gates' = [gates EXCEPT ![x] = [gates[x] EXCEPT !.is = "gone", !.on = FALSE]]
        <5>1. x \in Gateways /\ gates[x] \in GateRows BY DEF GateInv, GateTypes, Requests
        <5> DEFINE r == [gates[x] EXCEPT !.is = "gone", !.on = FALSE]
        <5>2. r \in GateRows /\ r.on = FALSE BY <5>1 DEF GateRows
        <5>3. gates' = [gates EXCEPT ![x] = r] BY <4>2
        <5> HIDE DEF r, x
        <5>4. /\ gates' \in [Gateways -> GateRows]
              /\ Enabled' \subseteq Gateways
              /\ \A y \in Gateways \ {x} : (y \in Enabled') <=> (y \in Enabled)
              /\ (x \in Enabled') <=> (r.is = "there" /\ r.on)
          BY <5>1, <5>2, <5>3, RowReplaced, Zenon DEF GateInv, GateTypes
        <5> QED BY <5>2, <5>4
      <4> QED BY <2>4, <4>1, <4>2 DEF DeleteGate
    <3> QED BY <3>1, <3>2 DEF OneEnabled, GateInv
  <2>5. CASE EnableGate(e)
    <3>1. setting' \in [Editors -> Requests] BY <1>0, <2>5 DEF EnableGate, Commits, Close
    <3>2. gates' \in [Gateways -> GateRows] /\ (Enabled' = Enabled \/ Enabled' \subseteq {setting[e].gate})
      <4> DEFINE x == setting[e].gate
      <4>1. CASE gates' = gates BY <4>1 DEF Enabled, GateInv, GateTypes
      <4>2. CASE gates' = [y \in Gateways |-> [gates[y] EXCEPT !.on = (y = x)]]
        <5>1. \A y \in Gateways : [gates[y] EXCEPT !.on = (y = x)] \in GateRows
          BY DEF GateInv, GateTypes, GateRows
        <5>2. gates' \in [Gateways -> GateRows] BY <4>2, <5>1
        <5>3. \A y \in Gateways : gates'[y].on = (y = x)
          BY <4>2 DEF GateInv, GateTypes, GateRows
        <5> QED BY <5>2, <5>3 DEF Enabled
      <4> QED BY <2>5, <4>1, <4>2 DEF EnableGate, OnlyOne
    <3> QED BY <3>1, <3>2 DEF OneEnabled, GateInv
  <2>6. CASE DisableGate(e)
    <3>1. setting' \in [Editors -> Requests] BY <1>0, <2>6 DEF DisableGate, Commits, Close
    <3>2. gates' \in [Gateways -> GateRows] /\ Enabled' \subseteq Enabled
      <4> DEFINE x == setting[e].gate
      <4>1. CASE gates' = gates BY <4>1 DEF Enabled, GateInv, GateTypes
      <4>2. CASE gates' = [gates EXCEPT ![x].on = FALSE]
        <5>1. x \in Gateways /\ gates[x] \in GateRows BY DEF GateInv, GateTypes, Requests
        <5> DEFINE r == [gates[x] EXCEPT !.on = FALSE]
        <5>2. r \in GateRows /\ r.on = FALSE BY <5>1 DEF GateRows
        <5>3. gates' = [gates EXCEPT ![x] = r] BY <4>2
        <5> HIDE DEF r, x
        <5>4. /\ gates' \in [Gateways -> GateRows]
              /\ Enabled' \subseteq Gateways
              /\ \A y \in Gateways \ {x} : (y \in Enabled') <=> (y \in Enabled)
              /\ (x \in Enabled') <=> (r.is = "there" /\ r.on)
          BY <5>1, <5>2, <5>3, RowReplaced, Zenon DEF GateInv, GateTypes
        <5> QED BY <5>2, <5>4
      <4> QED BY <2>6, <4>1, <4>2 DEF DisableGate
    <3> QED BY <3>1, <3>2 DEF OneEnabled, GateInv
  <2> QED BY <2>1, <2>2, <2>3, <2>4, <2>5, <2>6
<1> QED BY <1>a, <1>1 DEF GateInv, GateTypes, TrueClients, LegFaithful

\* A leg takes a route that is enabled as it starts (llm_route_scope), and calls with
\* the client of that very route, kept or made anew.
LEMMA LegStep == ASSUME GateInv, NEW l \in Legs, StartLeg(l) \/ CallModel(l) PROVE GateInv'
<1>1. CASE StartLeg(l)
  <2>1. UNCHANGED <<gates, setting, pool, readable, upset>> BY <1>1 DEF StartLeg
  <2>2. \A g \in Gateways : RouteOf(gates[g]) \in Routes
    BY DEF GateInv, GateTypes, GateRows, RouteOf, Routes
  <2>3. Owed \subseteq Routes BY <2>2 DEF Owed, Enabled
  <2>4. leg[l].route = Operator /\ leg[l].used = Operator BY <1>1 DEF StartLeg, GateInv, LegFaithful
  <2>5. \/ /\ Owed = {}
           /\ leg' = [leg EXCEPT ![l] = [@ EXCEPT !.at = "runs", !.due = Owed]]
        \/ leg' = [leg EXCEPT ![l] = [@ EXCEPT !.at = "over", !.due = Owed]]
        \/ \E r \in Owed : leg' = [leg EXCEPT ![l] = [at |-> "runs", route |-> r, used |-> Operator, due |-> Owed]]
    BY <1>1 DEF StartLeg, Owed
  <2>6. PICK r \in LegRows : leg' = [leg EXCEPT ![l] = r] /\ Started(r)
    <3>0. leg[l] \in LegRows BY DEF GateInv, GateTypes
    <3>1. CASE Owed = {} /\ leg' = [leg EXCEPT ![l] = [@ EXCEPT !.at = "runs", !.due = Owed]]
      <4> DEFINE r == [leg[l] EXCEPT !.at = "runs", !.due = Owed]
      <4>1. r \in LegRows /\ Started(r) BY <2>3, <2>4, <3>0, <3>1 DEF Stages, LegRows, Started
      <4> QED BY <3>1, <4>1, Zenon
    <3>2. CASE leg' = [leg EXCEPT ![l] = [@ EXCEPT !.at = "over", !.due = Owed]]
      <4> DEFINE r == [leg[l] EXCEPT !.at = "over", !.due = Owed]
      <4>1. r \in LegRows /\ Started(r) BY <2>3, <2>4, <3>0 DEF Stages, LegRows, Started
      <4> QED BY <3>2, <4>1, Zenon
    <3>3. CASE \E o \in Owed : leg' = [leg EXCEPT ![l] = [at |-> "runs", route |-> o, used |-> Operator, due |-> Owed]]
      <4>1. PICK o \in Owed : leg' = [leg EXCEPT ![l] = [at |-> "runs", route |-> o, used |-> Operator, due |-> Owed]]
        BY <3>3, Zenon
      <4> DEFINE r == [at |-> "runs", route |-> o, used |-> Operator, due |-> Owed]
      <4>2. r \in LegRows /\ Started(r) BY <2>3 DEF Stages, LegRows, Started
      <4> QED BY <4>1, <4>2, Zenon
    <3> QED BY <2>5, <3>1, <3>2, <3>3, Zenon
  <2>8. leg' \in [Legs -> LegRows] BY <2>6 DEF GateInv, GateTypes
  <2>7. \A k \in Legs : LegFaithful(k)' BY <2>6 DEF GateInv, GateTypes, LegFaithful, Started
  <2> QED BY <2>1, <2>8, <2>7 DEF GateInv, GateTypes, OneEnabled, Enabled, TrueClients
<1>2. CASE CallModel(l)
  <2>1. UNCHANGED <<gates, setting, readable, upset>> BY <1>2 DEF CallModel
  <2>2. leg[l].at \in {"runs", "called"} BY <1>2 DEF CallModel
  <2>9. leg[l].route \in Routes \cup {Operator} BY DEF GateInv, GateTypes, LegRows
  <2>3. /\ leg' = [leg EXCEPT ![l] = [@ EXCEPT !.at = "called", !.used = leg[l].route]]
        /\ pool' \subseteq pool \cup {[slot |-> leg[l].route, route |-> leg[l].route]}
        /\ leg[l].route = Operator => pool' = pool
    <3>1. CASE leg[l].route = Operator
      <4>1. leg[l].used = Operator BY <2>2, <3>1 DEF GateInv, LegFaithful
      <4> QED BY <1>2, <3>1, <4>1 DEF CallModel, GateInv, GateTypes
    <3>2. CASE leg[l].route # Operator
      <4>1. \A c \in pool : c.slot = leg[l].route => c.route = leg[l].route BY DEF GateInv, TrueClients
      <4> QED BY <1>2, <3>2, <4>1 DEF CallModel, SlotOf, Roomy
    <3> QED BY <3>1, <3>2
  <2>4. leg' \in [Legs -> LegRows]
    BY <2>2, <2>9, <2>3 DEF GateInv, GateTypes, LegRows, Stages
  <2>5. pool' \subseteq [slot : Routes, route : Routes] /\ TrueClients'
    BY <2>2, <2>9, <2>3 DEF GateInv, GateTypes, TrueClients
  <2>6. \A k \in Legs : LegFaithful(k)' BY <2>2, <2>9, <2>3 DEF GateInv, GateTypes, LegFaithful
  <2> QED BY <2>1, <2>4, <2>5, <2>6 DEF GateInv, GateTypes, OneEnabled, Enabled
<1> QED BY <1>1, <1>2

\* A rotation of the key and a table that cannot be read enable nothing.
LEMMA TroubleStep == ASSUME GateInv, Rotate \/ TableFails \/ TableReturns PROVE GateInv'
<1>1. CASE Rotate
  <2>1. gates' \in [Gateways -> GateRows] /\ Enabled' = Enabled
    BY <1>1 DEF Rotate, GateInv, GateTypes, GateRows, Enabled
  <2>2. setting' \in [Editors -> Requests] BY <1>1, UnbornRow DEF Rotate, GateInv, GateTypes
  <2>3. leg' \in [Legs -> LegRows] /\ \A k \in Legs : LegFaithful(k)'
    BY <1>1 DEF Rotate, GateInv, GateTypes, LegFaithful, LegRows, Stages
  <2> QED BY <1>1, <2>1, <2>2, <2>3 DEF Rotate, GateInv, GateTypes, OneEnabled, TrueClients
<1>2. CASE TableFails \/ TableReturns
  BY <1>2 DEF TableFails, TableReturns, GateInv, GateTypes, OneEnabled, Enabled, TrueClients,
     LegFaithful
<1> QED BY <1>1, <1>2

\* For any number of rows, users at the settings and running plans: at most one row is
\* enabled, and a plan pays with what was enabled as it started (LegsPayRight).
THEOREM LegsPay == GateSpec => []LegsPayRight
<1>1. GateInv /\ [GateNext]_gateVars => GateInv'
  <2>1. CASE UNCHANGED gateVars
    BY <2>1 DEF gateVars, GateInv, GateTypes, OneEnabled, Enabled, TrueClients, LegFaithful
  <2> QED BY <2>1, RowsStep, LegStep, TroubleStep DEF GateNext
<1>2. GateInv => LegsPayRight
  BY AtMostOne DEF GateInv, OneEnabled, LegsPayRight, LegFaithful
<1> QED BY <1>1, <1>2, GateStart, PTL DEF GateSpec

-----------------------------------------------------------------------------
(* The research of a run: Research. *)

\* Who asks for leave has said what for.
WellAsked(x) ==
  /\ "at" \in DOMAIN x /\ "why" \in DOMAIN x
  /\ x.at \in {"spend", "count"} => x.why \in {"first", "word", "few"}
IsPurse(x) == "retrievals" \in DOMAIN x /\ x.retrievals \in Nat
IsBill(x) == "answered" \in DOMAIN x /\ "billed" \in DOMAIN x /\ x.answered \in Nat /\ x.billed \in Nat
\* The rows of the domains, the counters and the bill.
ResTypes ==
  /\ IsPurse(spent) /\ IsBill(bill) /\ late \in BOOLEAN
  /\ DOMAIN agent = Domains /\ \A d \in Domains : WellAsked(agent[d])
  /\ DOMAIN packs = Domains
\* The agents with an answer that is not billed yet, and what may cost a domain its evidence.
AnsweredBy == {d \in Domains : AtR(d, "answered")}
AllBilled == bill.billed + Cardinality(AnsweredBy) = bill.answered
Cause(d) == late \/ d \in failed \/ (MaxRetrievals > 0 /\ spent.retrievals >= MaxRetrievals)
LostForCause == \A d \in Domains : packs[d] = "lost" => Cause(d)
ResInv == ResTypes /\ AllBilled /\ LostForCause

\* What one domain does to the row of its agent.
Puts(d, x) == WellAsked(x) /\ agent' = [agent EXCEPT ![d] = x]
Quietly(d) == \E x : Puts(d, x) /\ x.at # "answered"
Spends == IsPurse(spent') /\ spent'.retrievals >= spent.retrievals
Same == IsBill(bill') /\ bill'.billed + bill.answered = bill.billed + bill'.answered

\* What is assumed of the limits and the domains.
LEMMA Limits == IsFiniteSet(Domains) /\ {MaxRetrievals, MaxWords, MaxTokens, MaxLlm} \subseteq Nat
BY ResearchAssumption

\* Counters only grow (record_*).
LEMMA CountSpends == ASSUME ResInv, NEW what \in {"llm", "tokens", "retrievals", "research"}, Count(what) PROVE Spends
BY DEF ResInv, ResTypes, Count, Spends, IsPurse

\* A step that leaves the counters or the bill alone takes nothing from them.
LEMMA Keeping == ASSUME ResInv PROVE /\ spent' = spent => Spends
                                     /\ bill' = bill => Same
BY DEF ResInv, ResTypes, Spends, Same, IsPurse, IsBill

\* The agents whose answer is not billed yet: a step of one of them counts it in or out.
LEMMA AnsweredChange ==
  ASSUME ResInv, NEW d \in Domains, NEW x, agent' = [agent EXCEPT ![d] = x]
  PROVE /\ Cardinality(AnsweredBy) \in Nat /\ Cardinality(AnsweredBy') \in Nat
        /\ Cardinality(AnsweredBy') + (IF AtR(d, "answered") THEN 1 ELSE 0)
             = Cardinality(AnsweredBy) + (IF x.at = "answered" THEN 1 ELSE 0)
<1>1. IsFiniteSet(AnsweredBy) BY Limits, FS_Subset DEF AnsweredBy
<1>2. AnsweredBy' = IF x.at = "answered" THEN AnsweredBy \cup {d} ELSE AnsweredBy \ {d}
  BY DEF AnsweredBy, AtR, ResInv, ResTypes
<1>3. d \in AnsweredBy <=> AtR(d, "answered") BY DEF AnsweredBy
<1>4. Cardinality(AnsweredBy) \in Nat BY <1>1, FS_CardinalityType
<1>5. CASE x.at = "answered"
  <2>1. AnsweredBy' = AnsweredBy \cup {d} BY <1>2, <1>5
  <2>2. Cardinality(AnsweredBy') = IF d \in AnsweredBy THEN Cardinality(AnsweredBy) ELSE Cardinality(AnsweredBy) + 1
    BY <1>1, <2>1, FS_AddElement
  <2> QED BY <1>3, <1>4, <1>5, <2>2
<1>6. CASE x.at # "answered"
  <2>1. AnsweredBy' = AnsweredBy \ {d} BY <1>2, <1>6
  <2>2. Cardinality(AnsweredBy') = IF d \in AnsweredBy THEN Cardinality(AnsweredBy) - 1 ELSE Cardinality(AnsweredBy)
    BY <1>1, <2>1, FS_RemoveElement
  <2>3. IsFiniteSet(AnsweredBy') BY <1>1, <2>1, FS_RemoveElement
  <2>4. Cardinality(AnsweredBy') \in Nat BY <2>3, FS_CardinalityType
  <2> QED BY <1>3, <1>4, <1>6, <2>2, <2>4
<1> QED BY <1>5, <1>6

\* A step of a domain: what it puts into its row, and what it says of the bill.
LEMMA DomainKeeps ==
  ASSUME ResInv, NEW d \in Domains, NEW x, Puts(d, x), IsBill(bill'),
         bill'.billed + (IF x.at = "answered" THEN 1 ELSE 0) + bill.answered
           = bill.billed + (IF AtR(d, "answered") THEN 1 ELSE 0) + bill'.answered,
         Spends, late' \in BOOLEAN, late => late', failed \subseteq failed', DOMAIN packs' = Domains,
         \A e \in Domains : packs'[e] = "lost" => packs[e] = "lost" \/ Cause(e)'
  PROVE ResInv'
<1>1. Cardinality(AnsweredBy) \in Nat /\ Cardinality(AnsweredBy') \in Nat BY AnsweredChange DEF Puts
<1>2. Cardinality(AnsweredBy') + (IF AtR(d, "answered") THEN 1 ELSE 0)
        = Cardinality(AnsweredBy) + (IF x.at = "answered" THEN 1 ELSE 0)
  BY AnsweredChange DEF Puts
<1>3. bill.billed \in Nat /\ bill.answered \in Nat /\ bill'.billed \in Nat /\ bill'.answered \in Nat
  BY DEF ResInv, ResTypes, IsBill
<1>4. AllBilled' BY <1>1, <1>2, <1>3 DEF ResInv, AllBilled
<1>5. ResTypes' BY DEF ResInv, ResTypes, Spends, Puts, WellAsked
<1>6. \A e \in Domains : Cause(e) => Cause(e)' BY Limits DEF Cause, Spends, ResInv, ResTypes, IsPurse
<1>7. LostForCause' BY <1>6 DEF ResInv, LostForCause
<1> QED BY <1>4, <1>5, <1>7 DEF ResInv

\* A step after which no answer is waiting to be billed that was not before.
LEMMA QuietResearch ==
  ASSUME ResInv, NEW d \in Domains, Quietly(d), ~AtR(d, "answered"), Same, Spends, late' \in BOOLEAN, late => late',
         failed \subseteq failed', DOMAIN packs' = Domains,
         \A e \in Domains : packs'[e] = "lost" => packs[e] = "lost" \/ Cause(e)'
  PROVE ResInv'
<1>1. PICK x : Puts(d, x) /\ x.at # "answered" BY DEF Quietly
<1>2. IsBill(bill') /\ IsBill(bill) BY DEF Same, ResInv, ResTypes
<1>3. bill'.billed + (IF x.at = "answered" THEN 1 ELSE 0) + bill.answered
           = bill.billed + (IF AtR(d, "answered") THEN 1 ELSE 0) + bill'.answered
  BY <1>1, <1>2 DEF Same, IsBill
<1> QED BY <1>1, <1>2, <1>3, DomainKeeps

\* Such a step, when no pack is lost.
LEMMA UnraisedKeeps ==
  ASSUME ResInv, NEW d \in Domains, Quietly(d), ~AtR(d, "answered"), Same, Spends, UNCHANGED <<late, packs, failed>>
  PROVE ResInv'
<1>1. late \in BOOLEAN /\ DOMAIN packs = Domains BY DEF ResInv, ResTypes
<1> QED BY <1>1, QuietResearch

\* A domain gives up (its subgraph raises): there is a cause.
LEMMA RaiseKeeps ==
  ASSUME ResInv, NEW d \in Domains, Raise(d), ~AtR(d, "answered"), Same, Spends, UNCHANGED late,
         failed \subseteq failed', Cause(d)'
  PROVE ResInv'
<1>1. late \in BOOLEAN /\ DOMAIN packs = Domains BY DEF ResInv, ResTypes
<1>2. Quietly(d)
  <2>1. WellAsked(Over) /\ Over.at = "over" BY DEF Over, Starting, WellAsked
  <2> QED BY <2>1 DEF Quietly, Raise, Puts
<1>3. packs' = [packs EXCEPT ![d] = "lost"] BY DEF Raise
<1>4. DOMAIN packs' = Domains /\ \A e \in Domains : packs'[e] = "lost" => packs[e] = "lost" \/ Cause(e)'
  BY <1>1, <1>3
<1> QED BY <1>1, <1>2, <1>4, QuietResearch

\* A row that does not wait for its bill.
LEMMA RowPut ==
  ASSUME NEW d \in Domains, NEW x, WellAsked(x), x.at # "answered", agent' = [agent EXCEPT ![d] = x]
  PROVE Quietly(d)
BY DEF Quietly, Puts

\* What becomes of an agent after the model, whatever it was asked for.
LEMMA Concluding == ASSUME ResInv, NEW d \in Domains, NEW v, Concluded(d, v) PROVE Quietly(d)
<1>1. WellAsked(agent[d]) BY DEF ResInv, ResTypes
<1>2. WellAsked(AfterModel(agent[d], v)) /\ AfterModel(agent[d], v).at # "answered"
  <2>1. CASE agent[d].why = "plan" BY <1>1, <2>1 DEF AfterModel, WellAsked
  <2>2. CASE agent[d].why # "plan" BY <1>1, <2>2 DEF AfterModel, WellAsked
  <2> QED BY <2>1, <2>2
<1> QED BY <1>2, RowPut DEF Concluded

\* The next node of the subgraph.
LEMMA Going ==
  ASSUME ResInv, NEW d \in Domains, NEW where, where \notin {"answered", "spend", "count"}, GoR(d, where)
  PROVE Quietly(d)
<1> DEFINE x == [agent[d] EXCEPT !.at = where]
<1>1. WellAsked(agent[d]) /\ DOMAIN agent = Domains BY DEF ResInv, ResTypes
<1>2. WellAsked(x) /\ x.at = where BY <1>1 DEF WellAsked
<1>3. agent' = [agent EXCEPT ![d] = x] BY <1>1 DEF GoR
<1> HIDE DEF x
<1> QED BY <1>2, <1>3, RowPut

\* A question to the model, and one to the quota.
LEMMA Asking ==
  ASSUME ResInv, NEW d \in Domains, NEW why
  PROVE /\ Ask(d, why) => Quietly(d)
        /\ why \in {"first", "word", "few"} /\ Spend(d, why) => Quietly(d)
<1>1. WellAsked(agent[d]) /\ DOMAIN agent = Domains BY DEF ResInv, ResTypes
<1>2. ASSUME Ask(d, why) PROVE Quietly(d)
  <2> DEFINE x == [agent[d] EXCEPT !.at = "model", !.why = why, !.attempt = 0]
  <2>1. WellAsked(x) /\ x.at = "model" BY <1>1 DEF WellAsked
  <2>2. agent' = [agent EXCEPT ![d] = x] BY <1>1, <1>2 DEF Ask
  <2> HIDE DEF x
  <2> QED BY <2>1, <2>2, RowPut
<1>3. ASSUME why \in {"first", "word", "few"}, Spend(d, why) PROVE Quietly(d)
  <2> DEFINE x == [agent[d] EXCEPT !.at = "spend", !.why = why]
  <2>1. WellAsked(x) /\ x.at = "spend" BY <1>1, <1>3 DEF WellAsked
  <2>2. agent' = [agent EXCEPT ![d] = x] BY <1>1, <1>3 DEF Spend
  <2> HIDE DEF x
  <2> QED BY <2>1, <2>2, RowPut
<1> QED BY <1>2, <1>3

\* What the quota answers leads on (_spend_research).
LEMMA Allowing ==
  ASSUME ResInv, NEW d \in Domains, agent[d].at \in {"spend", "count"}
  PROVE (May(d) => Quietly(d)) /\ (MayNot(d) => Quietly(d))
<1>1. WellAsked(agent[d]) /\ DOMAIN agent = Domains BY DEF ResInv, ResTypes
<1>2. agent[d].why \in {"first", "word", "few"} BY <1>1 DEF WellAsked
<1>3. AfterSpend[agent[d].why] \in {"tool", "web", "last"} /\ AfterRefusal[agent[d].why] \in {"tool", "few", "judge"}
  BY <1>2 DEF AfterSpend, AfterRefusal
<1>4. ASSUME May(d) PROVE Quietly(d)
  <2>1. PICK where \in {"tool", "web", "last"} : GoR(d, where) BY <1>3, <1>4 DEF May
  <2> QED BY <2>1, Going
<1>5. ASSUME MayNot(d) PROVE Quietly(d)
  <2>0. PICK where \in {"tool", "few", "judge"} :
          \E n : agent' = [agent EXCEPT ![d].at = where, ![d].words = n]
    BY <1>3, <1>5 DEF MayNot
  <2>1. PICK n : agent' = [agent EXCEPT ![d].at = where, ![d].words = n] BY <2>0
  <2> DEFINE x == [agent[d] EXCEPT !.at = where, !.words = n]
  <2>2. WellAsked(x) /\ x.at = where BY <1>1 DEF WellAsked
  <2>3. agent' = [agent EXCEPT ![d] = x] BY <1>1, <2>1
  <2> HIDE DEF x
  <2> QED BY <2>2, <2>3, RowPut
<1> QED BY <1>4, <1>5

\* What the web costs: an answer of the model that is billed at once, or none.
LEMMA Searching == ASSUME ResInv, WebSearch PROVE Spends /\ Same
<1>1. IsPurse(spent) /\ IsBill(bill) BY DEF ResInv, ResTypes
<1>2. CASE UNCHANGED <<spent, bill>> BY <1>2, Keeping
<1>3. CASE Count("retrievals") /\ UNCHANGED bill BY <1>3, CountSpends, Keeping
<1>4. ASSUME NEW used \in 1 .. 2, spent' = [Counted(used) EXCEPT !.retrievals = @ + 1],
             bill' = [Billed(spent'.tokens) EXCEPT !.answered = @ + 1]
      PROVE Spends /\ Same
  <2>1. bill' = [bill EXCEPT !.billed = @ + 1, !.answered = @ + 1] BY <1>4 DEF Billed
  <2>2. Same BY <1>1, <2>1 DEF Same, IsBill
  <2>3. spent' = [spent EXCEPT !.llm = @ + 1, !.tokens = @ + used, !.retrievals = @ + 1]
    BY <1>1, <1>4 DEF Counted, IsPurse
  <2>4. Spends BY <1>1, <2>3 DEF Spends, IsPurse
  <2> QED BY <2>2, <2>4
<1> QED BY <1>2, <1>3, <1>4 DEF WebSearch

\* Every node of a domain's subgraph keeps the books and loses nothing without a cause.
LEMMA AgentKeeps == ASSUME ResInv, NEW d \in Domains, AgentStep(d) PROVE ResInv'
<1>r. WellAsked(agent[d]) /\ DOMAIN agent = Domains /\ late \in BOOLEAN BY DEF ResInv, ResTypes
<1>k. /\ spent' = spent => Spends
      /\ bill' = bill => Same
  BY Keeping
<1>1. CASE Plan(d)
  <2>1. Quietly(d) BY <1>1, Asking DEF Plan
  <2> QED BY <1>1, <1>k, <2>1, UnraisedKeeps DEF Plan, NoTool, NoModel, AtR
<1>2. CASE CheckModel(d)
  <2>1. CASE Concluded(d, NoPlan)
    <3>1. Quietly(d) BY <2>1, Concluding
    <3> QED BY <1>2, <1>k, <3>1, UnraisedKeeps DEF CheckModel, NoTool, NoModel, AtR
  <2>2. CASE agent' = [agent EXCEPT ![d].at = "post", ![d].attempt = @ + 1]
    <3> DEFINE x == [agent[d] EXCEPT !.at = "post", !.attempt = agent[d].attempt + 1]
    <3>1. WellAsked(x) /\ x.at = "post" BY <1>r DEF WellAsked
    <3>2. agent' = [agent EXCEPT ![d] = x] BY <1>r, <2>2
    <3>3. Quietly(d)
      <4> HIDE DEF x
      <4> QED BY <3>1, <3>2, RowPut
    <3> QED BY <1>2, <1>k, <3>3, UnraisedKeeps DEF CheckModel, NoTool, NoModel, AtR
  <2> QED BY <1>2, <2>1, <2>2 DEF CheckModel
<1>3. CASE Post(d)
  <2>1. CASE GoR(d, "answered") /\ bill' = [bill EXCEPT !.answered = @ + 1]
    <3> DEFINE x == [agent[d] EXCEPT !.at = "answered"]
    <3>1. WellAsked(x) /\ x.at = "answered" BY <1>r DEF WellAsked
    <3>2. agent' = [agent EXCEPT ![d] = x] BY <1>r, <2>1 DEF GoR
    <3>3. UNCHANGED <<spent, packs, late, failed>> /\ ~AtR(d, "answered") BY <1>3 DEF Post, NoTool, AtR
    <3>4. /\ IsBill(bill') /\ bill'.billed = bill.billed /\ bill'.answered = bill.answered + 1
          /\ IsBill(bill)
      BY <2>1 DEF ResInv, ResTypes, IsBill
    <3>5. bill'.billed + (IF x.at = "answered" THEN 1 ELSE 0) + bill.answered
           = bill.billed + (IF AtR(d, "answered") THEN 1 ELSE 0) + bill'.answered
      BY <3>1, <3>3, <3>4 DEF IsBill
    <3>6. Puts(d, x) /\ DOMAIN packs' = Domains /\ Spends /\ late' \in BOOLEAN
      BY <1>k, <1>r, <3>1, <3>2, <3>3 DEF Puts, ResInv, ResTypes
    <3>7. (late => late') /\ failed \subseteq failed' /\ \A e \in Domains : packs'[e] = "lost" => packs[e] = "lost"
      BY <3>3
    <3> HIDE DEF x
    <3> QED BY <3>4, <3>5, <3>6, <3>7, DomainKeeps
  <2>2. CASE GoR(d, "model") /\ UNCHANGED bill
    <3>1. Quietly(d) BY <2>2, Going
    <3> QED BY <1>3, <1>k, <2>2, <3>1, UnraisedKeeps DEF Post, NoTool, AtR
  <2>3. CASE Concluded(d, NoPlan) /\ UNCHANGED bill
    <3>1. Quietly(d) BY <2>3, Concluding
    <3> QED BY <1>3, <1>k, <2>3, <3>1, UnraisedKeeps DEF Post, NoTool, AtR
  <2> QED BY <1>3, <2>1, <2>2, <2>3 DEF Post
<1>4. CASE TakeAnswer(d)
  <2>0. PICK used \in 1 .. 2 : /\ spent' = Counted(used) /\ bill' = Billed(spent'.tokens)
                             /\ \E v : Concluded(d, v)
    BY <1>4 DEF TakeAnswer
  <2>1. PICK v : spent' = Counted(used) /\ bill' = Billed(spent'.tokens) /\ Concluded(d, v) BY <2>0
  <2>2. AtR(d, "answered") /\ UNCHANGED <<packs, late, failed>> BY <1>4 DEF TakeAnswer, NoTool
  <2>3. PICK x : Puts(d, x) /\ x.at # "answered" BY <2>1, Concluding DEF Quietly
  <2>4. spent' = [spent EXCEPT !.llm = @ + 1, !.tokens = @ + used] BY <2>1 DEF Counted
  <2>5. Spends BY <2>4 DEF Spends, IsPurse, ResInv, ResTypes
  <2>6. bill' = [bill EXCEPT !.billed = @ + 1] BY <2>1 DEF Billed
  <2>7. IsBill(bill) /\ IsBill(bill') /\ bill'.billed = bill.billed + 1 /\ bill'.answered = bill.answered
    BY <2>6 DEF IsBill, ResInv, ResTypes
  <2>8. bill'.billed + (IF x.at = "answered" THEN 1 ELSE 0) + bill.answered
           = bill.billed + (IF AtR(d, "answered") THEN 1 ELSE 0) + bill'.answered
    BY <2>2, <2>3, <2>7 DEF IsBill
  <2>9. DOMAIN packs' = Domains /\ late' \in BOOLEAN /\ (late => late') /\ failed \subseteq failed'
        /\ \A e \in Domains : packs'[e] = "lost" => packs[e] = "lost"
    BY <1>r, <2>2 DEF ResInv, ResTypes
  <2> QED BY <2>3, <2>5, <2>7, <2>8, <2>9, DomainKeeps
<1>5. CASE SpendCheck(d)
  <2>1. CASE MayNot(d)
    <3>1. Quietly(d) BY <1>5, <2>1, Allowing DEF SpendCheck, AtR
    <3> QED BY <1>5, <1>k, <3>1, UnraisedKeeps DEF SpendCheck, NoTool, NoModel, AtR
  <2>2. CASE GoR(d, "count")
    <3> DEFINE x == [agent[d] EXCEPT !.at = "count"]
    <3>1. WellAsked(x) /\ x.at = "count" BY <1>5, <1>r DEF WellAsked, SpendCheck, AtR
    <3>2. agent' = [agent EXCEPT ![d] = x] BY <1>r, <2>2 DEF GoR
    <3>3. Quietly(d)
      <4> HIDE DEF x
      <4> QED BY <3>1, <3>2, RowPut
    <3> QED BY <1>5, <1>k, <3>3, UnraisedKeeps DEF SpendCheck, NoTool, NoModel, AtR
  <2> QED BY <1>5, <2>1, <2>2 DEF SpendCheck
<1>6. CASE SpendCount(d)
  <2>1. Quietly(d) BY <1>6, Allowing DEF SpendCount, AtR
  <2>2. Spends BY <1>6, CountSpends DEF SpendCount
  <2> QED BY <1>6, <1>k, <2>1, <2>2, UnraisedKeeps DEF SpendCount, NoTool, NoModel, AtR
<1>7. CASE Search(d)
  <2>1. Quietly(d) BY <1>7, Asking DEF Search
  <2> QED BY <1>7, <1>k, <2>1, UnraisedKeeps DEF Search, NoTool, NoModel, AtR
<1>8. CASE ToolRead(d)
  <2>1. CASE Raise(d) /\ failed' = failed \cup {d}
    <3>1. Cause(d)' BY <2>1 DEF Cause
    <3> QED BY <1>8, <1>k, <2>1, <3>1, RaiseKeeps DEF ToolRead, NoModel, AtR
  <2>2. CASE agent' = [agent EXCEPT ![d].at = "charge", ![d].read = tools.total] /\ UNCHANGED <<packs, failed>>
    <3> DEFINE x == [agent[d] EXCEPT !.at = "charge", !.read = tools.total]
    <3>1. WellAsked(x) /\ x.at = "charge" BY <1>r DEF WellAsked
    <3>2. agent' = [agent EXCEPT ![d] = x] BY <1>r, <2>2
    <3>3. Quietly(d)
      <4> HIDE DEF x
      <4> QED BY <3>1, <3>2, RowPut
    <3> QED BY <1>8, <1>k, <2>2, <3>3, UnraisedKeeps DEF ToolRead, NoModel, AtR
  <2> QED BY <1>8, <2>1, <2>2 DEF ToolRead
<1>9. CASE ToolCharge(d)
  <2> DEFINE x == [agent[d] EXCEPT !.at = "run", !.read = 0]
  <2>1. WellAsked(x) /\ x.at = "run" BY <1>r DEF WellAsked
  <2>2. agent' = [agent EXCEPT ![d] = x] BY <1>r, <1>9 DEF ToolCharge
  <2>3. Quietly(d)
    <3> HIDE DEF x
    <3> QED BY <2>1, <2>2, RowPut
  <2> QED BY <1>9, <1>k, <2>3, UnraisedKeeps DEF ToolCharge, NoModel, AtR
<1>10. CASE ToolFinds(d)
  <2>1. PICK n : agent' = [agent EXCEPT ![d].at = "found", ![d].found = n, ![d].attempt = 0]
    BY <1>10 DEF ToolFinds
  <2> DEFINE x == [agent[d] EXCEPT !.at = "found", !.found = n, !.attempt = 0]
  <2>2. WellAsked(x) /\ x.at = "found" BY <1>r DEF WellAsked
  <2>3. agent' = [agent EXCEPT ![d] = x] BY <1>r, <2>1
  <2>4. Quietly(d)
    <3> HIDE DEF x
    <3> QED BY <2>2, <2>3, RowPut
  <2>5. Spends /\ Same BY <1>10, Searching DEF ToolFinds
  <2> QED BY <1>10, <2>4, <2>5, UnraisedKeeps DEF ToolFinds, NoTool, AtR
<1>11. CASE ToolAgain(d)
  <2>1. PICK n : agent' = [agent EXCEPT ![d].attempt = n] BY <1>11 DEF ToolAgain
  <2> DEFINE x == [agent[d] EXCEPT !.attempt = n]
  <2>2. WellAsked(x) /\ x.at = "run" BY <1>r, <1>11 DEF WellAsked, ToolAgain, AtR
  <2>3. agent' = [agent EXCEPT ![d] = x] BY <1>r, <2>1
  <2>4. Quietly(d)
    <3> HIDE DEF x
    <3> QED BY <2>2, <2>3, RowPut
  <2> QED BY <1>11, <1>k, <2>4, UnraisedKeeps DEF ToolAgain, NoTool, NoModel, AtR
<1>12. CASE ToolFails(d)
  <2>1. Cause(d)' BY <1>12 DEF Cause, ToolFails
  <2> QED BY <1>12, <1>k, <2>1, RaiseKeeps DEF ToolFails, NoModel, AtR
<1>13. CASE RecordRetrieval(d)
  <2>1. Spends BY <1>13, CountSpends DEF RecordRetrieval
  <2>2. CASE MaxRetrievals > 0 /\ spent'.retrievals > MaxRetrievals /\ Raise(d)
    <3>1. Cause(d)' BY <2>1, <2>2, Limits DEF Cause, Spends, IsPurse
    <3> QED BY <1>13, <1>k, <2>1, <2>2, <3>1, RaiseKeeps DEF RecordRetrieval, NoTool, NoModel, AtR
  <2>3. CASE GoR(d, "words") /\ UNCHANGED packs
    <3>1. Quietly(d) BY <2>3, Going
    <3> QED BY <1>13, <1>k, <2>1, <2>3, <3>1, UnraisedKeeps DEF RecordRetrieval, NoTool, NoModel, AtR
  <2> QED BY <1>13, <2>2, <2>3 DEF RecordRetrieval
<1>14. CASE NextWord(d)
  <2>1. Quietly(d) BY <1>14, Asking, Going DEF NextWord
  <2> QED BY <1>14, <1>k, <2>1, UnraisedKeeps DEF NextWord, NoTool, NoModel, AtR
<1>m. ASSUME NEW where \in {"worded", "judge"}, More(d, where) PROVE Quietly(d) /\ Spends /\ Same
  <2>1. PICK m, k : agent' = [agent EXCEPT ![d].at = where, ![d].words = m, ![d].found = k]
    <3>1. PICK n \in {0, 1} :
            agent' = [agent EXCEPT ![d].at = where, ![d].words = IF @ > 0 THEN @ - 1 ELSE 0,
                              ![d].found = IF @ < Enough THEN @ + n ELSE @]
      BY <1>m DEF More
    <3> QED BY <3>1
  <2> DEFINE x == [agent[d] EXCEPT !.at = where, !.words = m, !.found = k]
  <2>2. WellAsked(x) /\ x.at = where BY <1>r DEF WellAsked
  <2>3. agent' = [agent EXCEPT ![d] = x] BY <1>r, <2>1
  <2>4. Quietly(d)
    <3> HIDE DEF x
    <3> QED BY <2>2, <2>3, RowPut
  <2> QED BY <1>m, <2>4, Searching DEF More
<1>15. CASE Web(d)
  <2>1. CASE Spent("retrievals", MaxRetrievals) /\ Raise(d) /\ NoModel /\ UNCHANGED spent
    <3>1. Cause(d)' BY <2>1 DEF Cause, Spent, NoModel
    <3> QED BY <1>15, <1>k, <2>1, <3>1, RaiseKeeps DEF Web, NoTool, NoModel, AtR
  <2>2. CASE More(d, "worded") /\ UNCHANGED packs
    <3>1. Quietly(d) /\ Spends /\ Same BY <1>m, <2>2
    <3>2. UNCHANGED <<late, packs, failed>> /\ ~AtR(d, "answered")
      BY <1>15, <2>2 DEF Web, More, NoTool, AtR
    <3> QED BY <3>1, <3>2, UnraisedKeeps
  <2> QED BY <1>15, <2>1, <2>2 DEF Web
<1>16. CASE Few(d)
  <2>1. Quietly(d) BY <1>16, Asking, Going DEF Few
  <2> QED BY <1>16, <1>k, <2>1, UnraisedKeeps DEF Few, NoTool, NoModel, AtR
<1>17. CASE LastResort(d)
  <2>1. Quietly(d) /\ Spends /\ Same BY <1>m, <1>17 DEF LastResort
  <2>2. UNCHANGED <<late, packs, failed>> /\ ~AtR(d, "answered")
    BY <1>17 DEF LastResort, More, NoTool, AtR
  <2> QED BY <2>1, <2>2, UnraisedKeeps
<1>18. CASE Judge(d)
  <2>1. Quietly(d)
    <3>1. CASE agent' = [agent EXCEPT ![d].at = "finalize", ![d].round = agent[d].round + 1]
      <4> DEFINE x == [agent[d] EXCEPT !.at = "finalize", !.round = agent[d].round + 1]
      <4>1. WellAsked(x) /\ x.at = "finalize" BY <1>r DEF WellAsked
      <4>2. agent' = [agent EXCEPT ![d] = x] BY <1>r, <3>1
      <4> HIDE DEF x
      <4> QED BY <4>1, <4>2, RowPut
    <3>2. CASE agent' = [agent EXCEPT ![d].at = "search", ![d].round = agent[d].round + 1, ![d].words = agent[d].planned + 1]
      <4> DEFINE x == [agent[d] EXCEPT !.at = "search", !.round = agent[d].round + 1, !.words = agent[d].planned + 1]
      <4>1. WellAsked(x) /\ x.at = "search" BY <1>r DEF WellAsked
      <4>2. agent' = [agent EXCEPT ![d] = x] BY <1>r, <3>2
      <4> HIDE DEF x
      <4> QED BY <4>1, <4>2, RowPut
    <3>3. CASE agent' = [agent EXCEPT ![d].at = "model", ![d].round = agent[d].round + 1,
                                   ![d].why = "judge", ![d].attempt = 0,![d].words = agent[d].planned]
      <4> DEFINE x == [agent[d] EXCEPT !.at = "model", !.round = agent[d].round + 1, !.why = "judge", !.attempt = 0,
                                    !.words = agent[d].planned]
      <4>1. WellAsked(x) /\ x.at = "model" BY <1>r DEF WellAsked
      <4>2. agent' = [agent EXCEPT ![d] = x] BY <1>r, <3>3
      <4> HIDE DEF x
      <4> QED BY <4>1, <4>2, RowPut
    <3> QED BY <1>18, <3>1, <3>2, <3>3 DEF Judge
  <2> QED BY <1>18, <1>k, <2>1, UnraisedKeeps DEF Judge, NoTool, NoModel, AtR
<1>19. CASE Finalize(d)
  <2>1. WellAsked(Over) /\ Over.at = "over" BY DEF Over, Starting, WellAsked
  <2>2. Quietly(d) BY <1>19, <2>1, RowPut DEF Finalize
  <2>3. DOMAIN packs' = Domains /\ \A e \in Domains : packs'[e] = "lost" => packs[e] = "lost"
    BY <1>19 DEF Finalize, ResInv, ResTypes
  <2> QED BY <1>19, <1>k, <1>r, <2>2, <2>3, QuietResearch DEF Finalize, NoTool, NoModel, AtR
<1> QED BY <1>1, <1>2, <1>3, <1>4, <1>5, <1>6, <1>7, <1>8, <1>9, <1>10, <1>11, <1>12, <1>13, <1>14,
        <1>15, <1>16,
           <1>17, <1>18, <1>19 DEF AgentStep

\* The deadline and the stream of the plan, which do nothing to a domain.
LEMMA StreamKeeps ==
  ASSUME ResInv, UNCHANGED <<agent, packs, failed>>, Spends, Same, late' \in BOOLEAN, late => late'
  PROVE ResInv'
<1>1. AnsweredBy' = AnsweredBy BY DEF AnsweredBy, AtR
<1>2. IsFiniteSet(AnsweredBy) BY Limits, FS_Subset DEF AnsweredBy
<1>3. Cardinality(AnsweredBy) \in Nat BY <1>2, FS_CardinalityType
<1>4. AllBilled' BY <1>1, <1>3 DEF ResInv, ResTypes, AllBilled, Same, IsBill
<1>5. ResTypes' BY DEF ResInv, ResTypes, Spends, Same
<1>6. \A e \in Domains : Cause(e) => Cause(e)' BY Limits DEF Cause, Spends, ResInv, ResTypes, IsPurse
<1> QED BY <1>4, <1>5, <1>6 DEF ResInv, LostForCause

\* Nothing is asked, billed or lost at the start.
LEMMA ResStart == ResInit => ResInv
<1> SUFFICES ASSUME ResInit PROVE ResInv OBVIOUS
<1>1. WellAsked(Starting) /\ Starting.at = "plan" BY DEF WellAsked, Starting
<1>2. ResTypes BY <1>1 DEF ResInit, ResTypes, IsPurse, IsBill
<1>3. AnsweredBy = {} BY <1>1 DEF AnsweredBy, AtR, ResInit
<1>4. AllBilled BY <1>3, FS_EmptySet DEF AllBilled, ResInit
<1>5. LostForCause BY DEF LostForCause, ResInit
<1> QED BY <1>2, <1>4, <1>5 DEF ResInv

\* For any finite number of domains and any limits: no evidence is lost without a cause,
\* and every answer of the model is billed (LimitsAreFair).
THEOREM ResearchIsFair == ResSpec => []LimitsAreFair
<1>1. ASSUME ResInv, [ResNext]_resVars PROVE ResInv'
  <2>k. /\ spent' = spent => Spends
        /\ bill' = bill => Same
    BY <1>1, Keeping
  <2>l. late \in BOOLEAN BY <1>1 DEF ResInv, ResTypes
  <2>1. CASE UNCHANGED resVars
    <3>1. UNCHANGED <<agent, packs, failed, spent, bill, late>> BY <2>1 DEF resVars
    <3> QED BY <1>1, <2>k, <2>l, <3>1, StreamKeeps
  <2>2. CASE Deadline
    <3>1. UNCHANGED <<agent, packs, failed, spent, bill>> /\ late' = TRUE BY <2>2 DEF Deadline
    <3> QED BY <1>1, <2>k, <3>1, StreamKeeps
  <2>3. CASE OpenStream \/ CutStream
    <3>1. UNCHANGED <<agent, packs, failed, spent, bill, late>>
      BY <2>3 DEF OpenStream, CutStream, RestOfRun
    <3> QED BY <1>1, <2>k, <2>l, <3>1, StreamKeeps
  <2>4. CASE EndStream
    <3>1. PICK used \in 1 .. 2 : /\ spent' = Counted(used)
                                /\ bill' = [Billed(spent'.tokens) EXCEPT !.answered = @ + 1]
      BY <2>4 DEF EndStream
    <3>2. UNCHANGED <<agent, packs, failed, late>> BY <2>4 DEF EndStream, RestOfRun
    <3>3. bill' = [bill EXCEPT !.billed = @ + 1, !.answered = @ + 1] BY <3>1 DEF Billed
    <3>4. Same BY <1>1, <3>3 DEF Same, IsBill, ResInv, ResTypes
    <3>5. spent' = [spent EXCEPT !.llm = @ + 1, !.tokens = @ + used] BY <3>1 DEF Counted
    <3>6. Spends BY <1>1, <3>5 DEF Spends, IsPurse, ResInv, ResTypes
    <3> QED BY <1>1, <2>l, <3>2, <3>4, <3>6, StreamKeeps
  <2>5. ASSUME NEW d \in Domains, AgentStep(d) PROVE ResInv' BY <1>1, <2>5, AgentKeeps
  <2> QED BY <1>1, <2>1, <2>2, <2>3, <2>4, <2>5 DEF ResNext
<1>2. ResInv => LimitsAreFair BY DEF ResInv, AllBilled, AnsweredBy, LostForCause, Cause, LimitsAreFair
<1> QED BY <1>1, <1>2, ResStart, PTL DEF ResSpec

-----------------------------------------------------------------------------
(* Suggestions: Enrichment. *)

\* The shape of the rows, notes and readers.
PlacesOr == Places \cup {CHOOSE n \in Places : TRUE}
Notes == [butler : BOOLEAN, about : SUBSET Places]
Helpers ==
  [at : {"queued", "butler", "intros", "load", "verify", "reload", "introduce", "over"},
   first : Rows, rows : Rows, since : SUBSET Places]
EditShapes ==
  [at : {"idle", "read"}, place : PlacesOr, add : BOOLEAN, rows : Rows, note : Notes, since : SUBSET Places]
EnrichTypes ==
  /\ suggested \in Rows /\ note \in Notes /\ visits \subseteq Places /\ crossed \subseteq Places
  /\ helper \in [Enrichments -> Helpers]
  /\ editor \in [Tabs -> EditShapes]
  /\ \A c \in Tabs : editor[c].at = "read" => editor[c].place \in Places

\* Rows that somebody has read tell the trip, but for the places in out.
Tells(rows, out, here, about) ==
  \A n \in Places \ out : rows[n].there => (rows[n].used <=> n \in here) /\ (n \in about => n \in here)
ReadersTell ==
  /\ Tells(suggested, crossed, visits, note.about)
  /\ \A r \in Enrichments : Tells(helper[r].rows, crossed \cup helper[r].since, visits, note.about)
  /\ \A c \in Tabs : editor[c].at = "read" =>
       Tells(editor[c].rows, crossed \cup editor[c].since, visits, note.about)
EnrichInv == EnrichTypes /\ ReadersTell

\* At the start nothing is used and nobody has read anything.
LEMMA EnrichStart == EnrichInit => EnrichInv
<1> SUFFICES ASSUME EnrichInit PROVE EnrichInv OBVIOUS
<1>1. suggested \in Rows BY DEF EnrichInit, Suggested, Rows
<1>2. note \in Notes BY DEF EnrichInit, Quiet, Notes
<1>3. helper \in [Enrichments -> Helpers] BY <1>1 DEF EnrichInit, Helpers
<1>4. editor \in [Tabs -> EditShapes] BY <1>1, <1>2 DEF EnrichInit, EditShapes, PlacesOr
<1>5. Tells(suggested, {}, {}, {}) BY DEF Tells, EnrichInit, Suggested
<1>6. /\ crossed = {} /\ visits = {} /\ note.about = {}
      /\ \A r \in Enrichments : helper[r].rows = suggested /\ helper[r].since = {}
      /\ \A c \in Tabs : editor[c].at = "idle"
  BY DEF EnrichInit, Quiet
<1>7. \A r \in Enrichments : Tells(helper[r].rows, crossed \cup helper[r].since, visits, note.about)
  BY <1>5, <1>6 DEF Tells
<1> QED BY <1>1, <1>2, <1>3, <1>4, <1>5, <1>6, <1>7 DEF EnrichInv, EnrichTypes, ReadersTell

\* A step of a helper keeps the invariant when what it has read, and what is stored,
\* tell the trip up to what has crossed since.
LEMMA HelperKeeps ==
  ASSUME EnrichInv, NEW r \in Enrichments, NEW h \in Helpers, helper' = [helper EXCEPT ![r] = h],
         suggested' \in Rows, note' \in Notes, note'.about \subseteq note.about,
         crossed \subseteq crossed', crossed' \subseteq Places, UNCHANGED <<visits, editor>>,
         Tells(h.rows, crossed' \cup h.since, visits, note.about),
         Tells(suggested', crossed', visits, note.about)
  PROVE EnrichInv'
<1>1. EnrichTypes' BY DEF EnrichInv, EnrichTypes
<1>2. ASSUME NEW rows, NEW out, Tells(rows, crossed \cup out, visits, note.about)
      PROVE Tells(rows, crossed' \cup out, visits, note'.about)
  BY <1>2 DEF Tells
<1>3. Tells(suggested', crossed', visits, note'.about) BY DEF Tells
<1>4. Tells(h.rows, crossed' \cup h.since, visits, note'.about) BY DEF Tells
<1>5. helper'[r] = h /\ \A s \in Enrichments \ {r} : helper'[s] = helper[s]
  BY DEF EnrichInv, EnrichTypes
<1>6. \A s \in Enrichments : Tells(helper'[s].rows, crossed' \cup helper'[s].since, visits, note'.about)
  BY <1>2, <1>4, <1>5 DEF EnrichInv, ReadersTell
<1>7. \A c \in Tabs : editor[c].at = "read" =>
       Tells(editor[c].rows, crossed' \cup editor[c].since, visits, note'.about)
  BY <1>2 DEF EnrichInv, ReadersTell
<1> QED BY <1>1, <1>3, <1>6, <1>7 DEF EnrichInv, ReadersTell

\* Rows that were reread and written back, some of them denied: whoever edited since the
\* rows were read has crossed.
LEMMA StoreKeeps ==
  ASSUME EnrichInv, NEW r \in Enrichments, NEW rows \in Rows, NEW where \in {"reload", "over"},
         \A n \in Places : rows[n].there => helper[r].rows[n].there /\ rows[n].used = helper[r].rows[n].used,
         rows # helper[r].rows, StoreRows(r, rows, where), UNCHANGED <<note, visits, editor>>
  PROVE EnrichInv'
<1> DEFINE h == [helper[r] EXCEPT !.at = where]
<1>1. helper[r] \in Helpers BY DEF EnrichInv, EnrichTypes
<1>2. h \in Helpers /\ h.rows = helper[r].rows /\ h.since = helper[r].since BY <1>1 DEF Helpers
<1>3. helper' = [helper EXCEPT ![r] = h] BY DEF StoreRows, Then
<1>4. suggested' = rows /\ crossed' = crossed \cup helper[r].since BY DEF StoreRows
<1>5. Tells(helper[r].rows, crossed \cup helper[r].since, visits, note.about)
  BY DEF EnrichInv, ReadersTell
<1>6. Tells(rows, crossed', visits, note.about) BY <1>4, <1>5 DEF Tells
<1>7. Tells(h.rows, crossed' \cup h.since, visits, note.about) BY <1>2, <1>4, <1>5 DEF Tells
<1>8. crossed' \subseteq Places /\ note' \in Notes /\ suggested' \in Rows
  BY <1>1, <1>4 DEF EnrichInv, EnrichTypes, Helpers
<1> HIDE DEF h
<1> QED BY <1>2, <1>3, <1>4, <1>6, <1>7, <1>8, HelperKeeps

\* Each node of the enricher: what it writes back it has read.
LEMMA HelperSteps == ASSUME EnrichInv, NEW r \in Enrichments, EnrichStep(r) PROVE EnrichInv'
<1>a. helper[r] \in Helpers /\ suggested \in Rows /\ note \in Notes /\ crossed \subseteq Places
  BY DEF EnrichInv, EnrichTypes
<1>b. /\ Tells(helper[r].rows, crossed \cup helper[r].since, visits, note.about)
      /\ Tells(suggested, crossed, visits, note.about)
  BY DEF EnrichInv, ReadersTell
<1>1. ASSUME NEW where \in {"butler", "intros", "load", "verify", "reload", "introduce", "over"},
             Then(r, where), UNCHANGED <<suggested, visits, editor, crossed>>,
             note' \in Notes, note'.about \subseteq note.about
      PROVE EnrichInv'
  <2> DEFINE h == [helper[r] EXCEPT !.at = where]
  <2>1. h \in Helpers /\ h.rows = helper[r].rows /\ h.since = helper[r].since BY <1>a DEF Helpers
  <2>2. helper' = [helper EXCEPT ![r] = h] BY <1>1 DEF Then
  <2> HIDE DEF h
  <2> QED BY <1>1, <1>a, <1>b, <2>1, <2>2, HelperKeeps
<1>2. CASE EnterTask(r)
  <2>1. PICK where \in {"butler", "over"} : helper' = [helper EXCEPT ![r].at = where, ![r].first = suggested]
    BY <1>2 DEF EnterTask
  <2> DEFINE h == [helper[r] EXCEPT !.at = where, !.first = suggested]
  <2>2. h \in Helpers /\ h.rows = helper[r].rows /\ h.since = helper[r].since BY <1>a DEF Helpers
  <2>3. helper' = [helper EXCEPT ![r] = h] BY <2>1
  <2>4. UNCHANGED <<suggested, note, visits, editor, crossed>> BY <1>2 DEF EnterTask
  <2> HIDE DEF h
  <2> QED BY <1>a, <1>b, <2>2, <2>3, <2>4, HelperKeeps
<1>3. CASE WriteNote(r)
  <2>1. note' = [butler |-> TRUE, about |-> {}] \/ note' = note BY <1>3 DEF WriteNote
  <2>2. [butler |-> TRUE, about |-> {}] \in Notes BY DEF Notes
  <2>3. note' \in Notes BY <1>a, <2>1, <2>2
  <2>4. note'.about \subseteq note.about BY <2>1
  <2> QED BY <1>1, <1>3, <2>3, <2>4 DEF WriteNote
<1>4. CASE FillIntros(r)
  <2>1. UNCHANGED <<suggested, note, visits, editor, crossed>> /\ Then(r, "load") BY <1>4 DEF FillIntros
  <2>2. note' \in Notes /\ note'.about \subseteq note.about BY <1>a, <2>1
  <2> QED BY <1>1, <2>1, <2>2
<1>5. ASSUME NEW from, NEW on \in {"verify", "introduce"}, LoadRows(r, from, on) PROVE EnrichInv'
  <2>1. PICK where \in {"verify", "introduce", "over"} :
          helper' = [helper EXCEPT ![r].rows = suggested, ![r].since = {}, ![r].at = where]
    BY <1>5 DEF LoadRows, Loaded
  <2> DEFINE h == [helper[r] EXCEPT !.rows = suggested, !.since = {}, !.at = where]
  <2>2. h \in Helpers /\ h.rows = suggested /\ h.since = {} BY <1>a DEF Helpers
  <2>3. helper' = [helper EXCEPT ![r] = h] BY <2>1
  <2>4. UNCHANGED <<suggested, note, visits, editor, crossed>> BY <1>5 DEF LoadRows
  <2>5. Tells(h.rows, crossed \cup h.since, visits, note.about) BY <1>b, <2>2 DEF Tells
  <2> HIDE DEF h
  <2> QED BY <1>a, <1>b, <2>2, <2>3, <2>4, <2>5, HelperKeeps
<1>6. CASE Verify(r)
  <2>1. CASE Unstored(r, "reload") BY <1>1, <1>6, <1>a, <2>1 DEF Verify, Unstored
  <2>2. ASSUME NEW rows \in Verified(helper[r].rows) \ {helper[r].rows}, StoreRows(r, rows, "reload") PROVE EnrichInv'
    <3>1. rows \in Rows /\ \A n \in Places :
            \/ rows[n] = helper[r].rows[n]
            \/ rows[n] = [helper[r].rows[n] EXCEPT !.checked = TRUE]
               /\ helper[r].rows[n].there
            \/ rows[n] = [helper[r].rows[n] EXCEPT !.there = FALSE]
      BY <2>2 DEF Verified
    <3>2. \A n \in Places : helper[r].rows[n] \in [there : BOOLEAN, used : BOOLEAN, checked : BOOLEAN, told : BOOLEAN]
      BY <1>a DEF Helpers, Rows
    <3>3. ASSUME NEW n \in Places, rows[n].there
          PROVE helper[r].rows[n].there /\ rows[n].used = helper[r].rows[n].used
      <4> DEFINE old == helper[r].rows[n]
      <4>1. old \in [there : BOOLEAN, used : BOOLEAN, checked : BOOLEAN, told : BOOLEAN] BY <3>2
      <4>2. rows[n] = old \/ rows[n] = [old EXCEPT !.checked = TRUE] \/ rows[n] = [old EXCEPT !.there = FALSE]
        BY <3>1
      <4> HIDE DEF old
      <4>3. old.there /\ rows[n].used = old.used BY <3>3, <4>1, <4>2
      <4> QED BY <4>3 DEF old
    <3>4. rows # helper[r].rows /\ UNCHANGED <<note, visits, editor>> BY <1>6, <2>2 DEF Verify
    <3>5. "reload" \in {"reload", "over"} OBVIOUS
    <3> QED BY <2>2, <3>1, <3>3, <3>4, <3>5, StoreKeeps
  <2> QED BY <1>6, <2>1, <2>2 DEF Verify
<1>7. CASE Introduce(r)
  <2>1. CASE Unstored(r, "over") BY <1>1, <1>7, <1>a, <2>1 DEF Introduce, Unstored
  <2>2. ASSUME NEW rows \in Introduced(helper[r].rows) \ {helper[r].rows}, StoreRows(r, rows, "over") PROVE EnrichInv'
    <3>1. rows \in Rows /\ \A n \in Places :
            \/ rows[n] = helper[r].rows[n]
            \/ rows[n] = [helper[r].rows[n] EXCEPT !.told = TRUE]
      BY <2>2 DEF Introduced
    <3>2. \A n \in Places : helper[r].rows[n] \in [there : BOOLEAN, used : BOOLEAN, checked : BOOLEAN, told : BOOLEAN]
      BY <1>a DEF Helpers, Rows
    <3>3. ASSUME NEW n \in Places, rows[n].there
          PROVE helper[r].rows[n].there /\ rows[n].used = helper[r].rows[n].used
      <4> DEFINE old == helper[r].rows[n]
      <4>1. old \in [there : BOOLEAN, used : BOOLEAN, checked : BOOLEAN, told : BOOLEAN] BY <3>2
      <4>2. rows[n] = old \/ rows[n] = [old EXCEPT !.told = TRUE] BY <3>1
      <4> HIDE DEF old
      <4>3. old.there /\ rows[n].used = old.used BY <3>3, <4>1, <4>2
      <4> QED BY <4>3 DEF old
    <3>4. rows # helper[r].rows /\ UNCHANGED <<note, visits, editor>> BY <1>7, <2>2 DEF Introduce
    <3>5. "over" \in {"reload", "over"} OBVIOUS
    <3> QED BY <2>2, <3>1, <3>3, <3>4, <3>5, StoreKeeps
  <2> QED BY <1>7, <2>1, <2>2 DEF Introduce
<1> QED BY <1>2, <1>3, <1>4, <1>5, <1>6, <1>7 DEF EnrichStep

\* An edit of a place reads the rows and the note as they are.
LEMMA BeginKeeps == ASSUME EnrichInv, NEW c \in Tabs, BeginPlace(c) PROVE EnrichInv'
<1>1. PICK n \in Places :
        editor' = [editor EXCEPT ![c] = [at |-> "read", place |-> n, add |-> n \notin visits,
                                   rows |-> suggested, note |-> note, since |-> {}]]
  BY DEF BeginPlace
<1> DEFINE e == [at |-> "read", place |-> n, add |-> n \notin visits, rows |-> suggested, note |-> note, since |-> {}]
<1>2. UNCHANGED <<suggested, note, visits, helper, crossed>> BY DEF BeginPlace
<1>3. e \in EditShapes BY DEF EditShapes, EnrichInv, EnrichTypes, PlacesOr
<1>4. EnrichTypes' BY <1>1, <1>2, <1>3 DEF EnrichInv, EnrichTypes
<1>5. editor'[c] = e /\ \A d \in Tabs \ {c} : editor'[d] = editor[d] BY <1>1 DEF EnrichInv, EnrichTypes
<1>6. Tells(e.rows, crossed \cup e.since, visits, note.about) BY DEF EnrichInv, ReadersTell, Tells
<1>7. e.rows = suggested /\ e.since = {} OBVIOUS
<1> HIDE DEF e
<1>8. \A d \in Tabs : editor'[d].at = "read" =>
         Tells(editor'[d].rows, crossed \cup editor'[d].since, visits, note.about)
  BY <1>5, <1>6 DEF EnrichInv, ReadersTell
<1>9. ReadersTell' BY <1>2, <1>8 DEF EnrichInv, ReadersTell
<1> QED BY <1>4, <1>9 DEF EnrichInv

\* It writes them back with its own place marked, and what the others hold in their
\* hands is outdated by it (_apply_suggestion_used).
LEMMA CommitKeeps == ASSUME EnrichInv, NEW c \in Tabs, CommitPlace(c) PROVE EnrichInv'
<1> DEFINE e == editor[c]
           n == e.place
<1>a. e.at = "read" BY DEF CommitPlace
<1>b. e \in EditShapes /\ n \in Places BY <1>a DEF EnrichInv, EnrichTypes
<1>c. Tells(e.rows, crossed \cup e.since, visits, note.about) BY <1>a DEF EnrichInv, ReadersTell
<1>1. CASE e.add /\ n \in visits
  <2>1. editor' = [editor EXCEPT ![c].at = "idle"] /\ UNCHANGED <<suggested, note, visits, helper, crossed>>
    BY <1>1 DEF CommitPlace
  <2>2. [e EXCEPT !.at = "idle"] \in EditShapes BY <1>b DEF EditShapes
  <2>3. EnrichTypes' BY <2>1, <2>2 DEF EnrichInv, EnrichTypes
  <2>4. \A d \in Tabs : editor'[d].at = "read" => editor'[d] = editor[d]
    BY <2>1 DEF EnrichInv, EnrichTypes
  <2>5. ReadersTell' BY <2>1, <2>4 DEF EnrichInv, ReadersTell
  <2> QED BY <2>3, <2>5 DEF EnrichInv
<1>2. CASE ~(e.add /\ n \in visits)
  <2>1. /\ visits' = IF e.add THEN visits \cup {n} ELSE visits \ {n}
        /\ suggested' = IF Changes(e) THEN Marked(e) ELSE suggested
        /\ note' = IF Found(e) /\ Reminded(e) # e.note THEN Reminded(e) ELSE note
        /\ crossed' = IF Changes(e) THEN (crossed \ {n}) \cup e.since \cup Renoted(e)
                      ELSE IF suggested[n].there THEN crossed \cup {n} ELSE crossed
        /\ helper' = [r \in Enrichments |-> [helper[r] EXCEPT !.since = @ \cup {n}]]
        /\ editor' = [d \in Tabs |->
               IF d = c THEN [e EXCEPT !.at = "idle"] ELSE [editor[d] EXCEPT !.since = @ \cup {n}]]
    BY <1>2 DEF CommitPlace
  <2>2. Reminded(e) \in Notes /\ \A m \in Places \ {n} : m \in Reminded(e).about <=> m \in e.note.about
    BY <1>b DEF Reminded, EditShapes, Notes
  <2>3. Marked(e) \in Rows /\ Marked(e)[n].used = e.add /\ \A m \in Places \ {n} : Marked(e)[m] = e.rows[m]
    BY <1>b DEF Marked, EditShapes, Rows
  <2>4. e.since \subseteq Places /\ Renoted(e) \subseteq Places BY <1>b DEF EditShapes, Renoted
  <2>5. \A r \in Enrichments : /\ helper'[r] \in Helpers /\ helper'[r].rows = helper[r].rows
                               /\ helper'[r].since = helper[r].since \cup {n}
    BY <1>b, <2>1 DEF EnrichInv, EnrichTypes, Helpers
  <2>6. \A d \in Tabs : /\ editor'[d] \in EditShapes
                        /\ editor'[d].at = "read" =>
                             /\ editor[d].at = "read" /\ editor'[d].rows = editor[d].rows
                             /\ editor'[d].since = editor[d].since \cup {n} /\ editor'[d].place = editor[d].place
    <3> SUFFICES ASSUME NEW d \in Tabs
                 PROVE /\ editor'[d] \in EditShapes
                       /\ editor'[d].at = "read" =>
                             /\ editor[d].at = "read" /\ editor'[d].rows = editor[d].rows
                             /\ editor'[d].since = editor[d].since \cup {n} /\ editor'[d].place = editor[d].place
      OBVIOUS
    <3>1. editor[d] \in EditShapes BY DEF EnrichInv, EnrichTypes
    <3>2. CASE d = c
      <4>1. editor'[d] = [e EXCEPT !.at = "idle"] BY <2>1, <3>2
      <4> QED BY <1>b, <4>1 DEF EditShapes
    <3>3. CASE d # c
      <4>1. editor'[d] = [editor[d] EXCEPT !.since = @ \cup {n}] BY <2>1, <3>3
      <4> QED BY <1>b, <3>1, <4>1 DEF EditShapes
    <3> QED BY <3>2, <3>3
  <2>7. /\ suggested' \in Rows /\ note' \in Notes /\ visits' \subseteq Places /\ crossed' \subseteq Places
    BY <1>b, <2>1, <2>2, <2>3, <2>4 DEF EnrichInv, EnrichTypes
  <2>8. EnrichTypes'
    <3>1. helper' \in [Enrichments -> Helpers] BY <2>1, <2>5
    <3>2. editor' \in [Tabs -> EditShapes] BY <2>1, <2>6
    <3>3. \A d \in Tabs : editor'[d].at = "read" => editor'[d].place \in Places
      BY <2>6 DEF EnrichInv, EnrichTypes
    <3> QED BY <2>7, <3>1, <3>2, <3>3 DEF EnrichTypes
  <2>9. \A m \in Places \ {n} : m \in visits' <=> m \in visits BY <2>1
  <2>10. n \in visits' <=> e.add BY <2>1
  <2>11. \A m \in Places \ crossed' : m # n => m \notin crossed /\ (m \in note'.about <=> m \in note.about)
    <3> SUFFICES ASSUME NEW m \in Places \ crossed', m # n
                 PROVE m \notin crossed /\ (m \in note'.about <=> m \in note.about)
      OBVIOUS
    <3>1. m \notin crossed BY <2>1
    <3>2. CASE Changes(e) BY <2>1, <2>2, <3>1, <3>2 DEF Renoted
    <3>3. CASE ~Changes(e) BY <2>1, <3>1, <3>3 DEF Changes
    <3> QED BY <3>1, <3>2, <3>3
  <2>12. ASSUME NEW rows, NEW out, Tells(rows, crossed \cup out, visits, note.about)
         PROVE Tells(rows, crossed' \cup (out \cup {n}), visits', note'.about)
    BY <2>12, <2>9, <2>11 DEF Tells
  <2>13. Tells(suggested', crossed', visits', note'.about)
    <3>1. CASE Changes(e)
      <4>1. suggested' = Marked(e) /\ crossed' = (crossed \ {n}) \cup e.since \cup Renoted(e)
        BY <2>1, <3>1
      <4>2. ASSUME NEW m \in Places \ crossed', m # n, Marked(e)[m].there
            PROVE (Marked(e)[m].used <=> m \in visits') /\ (m \in note'.about => m \in visits')
        BY <1>c, <2>3, <2>9, <2>11, <4>1, <4>2 DEF Tells
      <4>3. ASSUME n \notin crossed', ~e.add PROVE n \notin note'.about
        <5>1. n \notin Reminded(e).about BY <1>b, <4>3 DEF Reminded, EditShapes, Notes
        <5>2. CASE Reminded(e) # e.note BY <2>1, <3>1, <5>1, <5>2 DEF Changes
        <5>3. CASE Reminded(e) = e.note BY <1>b, <2>1, <4>1, <4>3, <5>1, <5>3 DEF Renoted
        <5> QED BY <5>2, <5>3
      <4> QED BY <2>3, <2>10, <4>1, <4>2, <4>3 DEF Tells
    <3>2. CASE ~Changes(e)
      <4>1. suggested' = suggested /\ (suggested[n].there => n \in crossed') BY <1>b, <2>1, <3>2
      <4> QED BY <2>9, <2>11, <4>1 DEF Tells, EnrichInv, ReadersTell
    <3> QED BY <3>1, <3>2
  <2>14. \A r \in Enrichments : Tells(helper'[r].rows, crossed' \cup helper'[r].since, visits', note'.about)
    BY <2>5, <2>12 DEF EnrichInv, ReadersTell
  <2>15. \A d \in Tabs : editor'[d].at = "read" =>
           Tells(editor'[d].rows, crossed' \cup editor'[d].since, visits', note'.about)
    BY <2>6, <2>12 DEF EnrichInv, ReadersTell
  <2> QED BY <2>8, <2>13, <2>14, <2>15 DEF EnrichInv, ReadersTell
<1> QED BY <1>1, <1>2

\* For any number of helpers, tabs and places: a suggestion is used exactly while its
\* place is in the trip, up to what crossed (UsedKept).
THEOREM SuggestionsTellTheTrip == EnrichSpec => []UsedKept
<1>1. ASSUME EnrichInv, [EnrichNext]_enrichVars PROVE EnrichInv'
  <2>1. CASE UNCHANGED enrichVars
    BY <1>1, <2>1 DEF enrichVars, EnrichInv, EnrichTypes, ReadersTell
  <2> QED BY <1>1, <2>1, HelperSteps, BeginKeeps, CommitKeeps DEF EnrichNext
<1>2. EnrichInv => UsedKept BY DEF EnrichInv, ReadersTell, Tells, UsedKept
<1> QED BY <1>1, <1>2, EnrichStart, PTL DEF EnrichSpec

-----------------------------------------------------------------------------
(* Exports: Exports. *)

\* The stages of an export, and the shape of its rows.
PrintStages == {"none", "insert", "queued", "model", "file", "row", "tell", "fail"}
PageStates == {"idle", "asking", "polling", "status", "ready", "failed", "late"}
ExportTypes ==
  /\ task \in [Exports -> [status : {"none", "RUNNING", "DONE", "FAILED"}, path : BOOLEAN]]
  /\ print \in [Exports -> [at : PrintStages, inline : BOOLEAN]]
  /\ file \in [Exports -> {"none", "partial", "whole"}]
  /\ printed \in [Exports -> PageStates]
\* Who prints has a task that runs, or has ended it and is about to tell; a row that has a
\* path has its file, also when it was marked FAILED after all.
PrintKept(e) ==
  /\ print[e].at \in {"insert", "queued", "model", "file", "row"} => task[e].status = "RUNNING"
  /\ print[e].at = "tell" => task[e].status = "DONE"
  /\ print[e].at = "fail" => task[e].status \in {"RUNNING", "DONE"}
  /\ printed[e] = "idle" => task[e].status = "none"
  /\ print[e].at = "row" => file[e] = "whole"
  /\ task[e].status = "RUNNING" => print[e].at # "none" \/ e \in orphans
  /\ task[e].status \in {"none", "RUNNING"} => ~task[e].path
  /\ task[e].path => file[e] = "whole"
  /\ task[e].status = "DONE" => task[e].path
  /\ printed[e] = "ready" => task[e].path
ExportInv == ExportTypes /\ \A e \in Exports : PrintKept(e)

\* A task on its way to its file: the row first, then the pool, or the request itself
\* when the pool is full (export_service.py:79-85).
LEMMA PrintStep ==
  ASSUME ExportInv, NEW e \in Exports,
         InsertTask(e) \/ HandToPool(e) \/ TakeQueued(e) \/ ReadModel(e) \/ WriteFile(e)
  PROVE  ExportInv'
<1>1. CASE InsertTask(e)
  BY <1>1 DEF InsertTask, PrintGoes, ExportInv, PageStates, ExportTypes, PrintKept, PrintStages
<1>2. CASE HandToPool(e)
  <2>1. \/ print' = [print EXCEPT ![e].at = "queued"] /\ printed' = [printed EXCEPT ![e] = "polling"]
        \/ print' = [print EXCEPT ![e] = [at |-> "model", inline |-> TRUE]] /\ UNCHANGED printed
    BY <1>2 DEF HandToPool, PrintGoes, Inline
  <2>2. print[e].at = "insert" /\ UNCHANGED <<task, file, orphans>> BY <1>2 DEF HandToPool
  <2>3. /\ print' \in [Exports -> [at : PrintStages, inline : BOOLEAN]]
        /\ print'[e].at \in {"queued", "model"} /\ \A x \in Exports \ {e} : print'[x] = print[x]
    <3>1. CASE print' = [print EXCEPT ![e].at = "queued"]
      BY <3>1 DEF ExportInv, PageStates, ExportTypes, PrintStages
    <3>2. CASE print' = [print EXCEPT ![e] = [at |-> "model", inline |-> TRUE]]
      <4>1. [at |-> "model", inline |-> TRUE] \in [at : PrintStages, inline : BOOLEAN]
        BY DEF PrintStages
      <4> QED BY <3>2, <4>1 DEF ExportInv, PageStates, ExportTypes
    <3> QED BY <2>1, <3>1, <3>2
  <2>4. /\ printed' \in [Exports -> PageStates]
        /\ printed'[e] \in {printed[e], "polling"} /\ \A x \in Exports \ {e} : printed'[x] = printed[x]
    BY <2>1 DEF ExportInv, PageStates, ExportTypes
  <2> QED BY <2>2, <2>3, <2>4 DEF ExportInv, PageStates, ExportTypes, PrintKept
<1>3. CASE TakeQueued(e)
  BY <1>3 DEF TakeQueued, PrintGoes, ExportInv, PageStates, ExportTypes, PrintKept, PrintStages
<1>4. CASE ReadModel(e)
  <2>1. \E where \in {"fail", "file"} : print' = [print EXCEPT ![e].at = where]
    BY <1>4 DEF ReadModel, PrintGoes
  <2>2. print[e].at = "model" /\ UNCHANGED <<task, file, printed, orphans>> BY <1>4 DEF ReadModel
  <2> QED BY <2>1, <2>2 DEF ExportInv, PageStates, ExportTypes, PrintKept, PrintStages
<1>5. CASE WriteFile(e)
  <2>1. PICK where \in {"row", "fail"}, f \in {"none", "partial", "whole"} :
          /\ file' = [file EXCEPT ![e] = f] /\ print' = [print EXCEPT ![e].at = where]
          /\ where = "row" => f = "whole"
    BY <1>5 DEF WriteFile, PrintGoes
  <2>2. print[e].at = "file" /\ UNCHANGED <<task, printed, orphans>> BY <1>5 DEF WriteFile
  <2>3. task[e].status = "RUNNING" /\ ~task[e].path BY <2>2 DEF ExportInv, PrintKept
  <2>4. /\ print' \in [Exports -> [at : PrintStages, inline : BOOLEAN]]
        /\ print'[e].at = where /\ \A x \in Exports \ {e} : print'[x] = print[x]
    BY <2>1 DEF ExportInv, ExportTypes, PrintStages
  <2>5. /\ file' \in [Exports -> {"none", "partial", "whole"}]
        /\ file'[e] = f /\ \A x \in Exports \ {e} : file'[x] = file[x]
    BY <2>1 DEF ExportInv, ExportTypes
  <2> QED BY <2>1, <2>2, <2>3, <2>4, <2>5 DEF ExportInv, PageStates, ExportTypes, PrintKept
<1> QED BY <1>1, <1>2, <1>3, <1>4, <1>5

\* A task ends: as DONE with its file, which is then told, or as FAILED when the database
\* lets it.
LEMMA EndStep ==
  ASSUME ExportInv, NEW e \in Exports, FinishTask(e) \/ TellDone(e) \/ FailTask(e)
  PROVE  ExportInv'
<1>1. CASE FinishTask(e)
  <2>1. print[e].at = "row" /\ UNCHANGED <<file, printed, orphans>> BY <1>1 DEF FinishTask
  <2>2. CASE task' = [task EXCEPT ![e] = [status |-> "DONE", path |-> TRUE]] /\ PrintGoes(e, "tell")
    <3>3. /\ task' \in [Exports -> [status : {"none", "RUNNING", "DONE", "FAILED"}, path : BOOLEAN]]
          /\ task'[e].status = "DONE" /\ task'[e].path /\ \A x \in Exports \ {e} : task'[x] = task[x]
      BY <2>2 DEF ExportInv, PageStates, ExportTypes
    <3>4. /\ print' \in [Exports -> [at : PrintStages, inline : BOOLEAN]]
          /\ print'[e].at = "tell" /\ \A x \in Exports \ {e} : print'[x] = print[x]
      BY <2>2 DEF PrintGoes, ExportInv, PageStates, ExportTypes, PrintStages
    <3>6. task[e].status = "RUNNING" /\ printed[e] \notin {"idle", "ready"}
      BY <2>1 DEF ExportInv, PrintKept
    <3> QED BY <2>1, <3>3, <3>4, <3>6 DEF ExportInv, PageStates, ExportTypes, PrintKept
  <2>3. CASE PrintGoes(e, "fail") /\ UNCHANGED task
    BY <2>1, <2>3 DEF PrintGoes, ExportInv, PageStates, ExportTypes, PrintKept, PrintStages
  <2> QED BY <1>1, <2>2, <2>3 DEF FinishTask
<1>2. CASE FailTask(e)
  <2>1. print[e].at = "fail" /\ UNCHANGED file BY <1>2 DEF FailTask
  <2>2. CASE /\ task' = [task EXCEPT ![e].status = "FAILED"] /\ PrintGoes(e, "none") /\ PrintAnswered(e)
             /\ UNCHANGED orphans
    <3>1. task'[e].status = "FAILED" BY <2>2 DEF ExportInv, PageStates, ExportTypes
    <3>2. printed' = printed \/ printed' = [printed EXCEPT ![e] = "polling"]
      BY <2>2, <3>1 DEF PrintAnswered
    <3>3. /\ task' \in [Exports -> [status : {"none", "RUNNING", "DONE", "FAILED"}, path : BOOLEAN]]
          /\ task'[e].status = "FAILED" /\ task'[e].path = task[e].path /\ \A x \in Exports \ {e} : task'[x] = task[x]
      BY <2>2 DEF ExportInv, PageStates, ExportTypes
    <3>4. /\ print' \in [Exports -> [at : PrintStages, inline : BOOLEAN]]
          /\ print'[e].at = "none" /\ \A x \in Exports \ {e} : print'[x] = print[x]
      BY <2>2 DEF PrintGoes, ExportInv, PageStates, ExportTypes, PrintStages
    <3>5. /\ printed' \in [Exports -> PageStates]
          /\ printed'[e] \in {printed[e], "polling"} /\ \A x \in Exports \ {e} : printed'[x] = printed[x]
      BY <3>2 DEF ExportInv, PageStates, ExportTypes
    <3>6. task[e].status \in {"RUNNING", "DONE"} /\ printed[e] # "idle"
      BY <2>1 DEF ExportInv, PrintKept
    <3> QED BY <2>1, <2>2, <3>3, <3>4, <3>5, <3>6 DEF ExportInv, PageStates, ExportTypes, PrintKept
  <2>3. CASE /\ PrintGoes(e, "none") /\ orphans' = orphans \cup {e} /\ UNCHANGED task
             /\ printed' = IF print[e].inline THEN [printed EXCEPT ![e] = "failed"] ELSE printed
    BY <2>1, <2>3 DEF PrintGoes, ExportInv, PageStates, ExportTypes, PrintKept, PrintStages
  <2> QED BY <1>2, <2>2, <2>3 DEF FailTask
<1>3. CASE TellDone(e)
  <2>1. print[e].at = "tell" /\ UNCHANGED <<file, orphans, task>> BY <1>3 DEF TellDone
  <2>2. PICK where \in {"none", "fail"} : print' = [print EXCEPT ![e].at = where]
    BY <1>3 DEF TellDone, PrintGoes
  <2>3. task[e].status = "DONE" /\ task[e].path /\ printed[e] # "idle"
    BY <2>1 DEF ExportInv, PrintKept
  <2>4. printed' = printed \/ printed' = [printed EXCEPT ![e] = "ready"]
    BY <1>3, <2>1, <2>3 DEF TellDone, PrintAnswered
  <2>5. /\ printed' \in [Exports -> PageStates]
        /\ printed'[e] \in {printed[e], "ready"} /\ \A x \in Exports \ {e} : printed'[x] = printed[x]
    BY <2>4 DEF ExportInv, PageStates, ExportTypes
  <2>6. /\ print' \in [Exports -> [at : PrintStages, inline : BOOLEAN]]
        /\ print'[e].at = where /\ \A x \in Exports \ {e} : print'[x] = print[x]
    BY <2>2 DEF ExportInv, PageStates, ExportTypes, PrintStages
  <2> QED BY <2>1, <2>3, <2>5, <2>6 DEF ExportInv, PageStates, ExportTypes, PrintKept
<1> QED BY <1>1, <1>2, <1>3

\* The page is told what the row says.
LEMMA PollStep ==
  ASSUME ExportInv, NEW e \in Exports, ReadStatus(e) \/ AnswerPoll(e) \/ GiveUpWaiting(e)
  PROVE  ExportInv'
<1>1. CASE AnswerPoll(e)
  <2>1. PICK w \in {"ready", "failed", "polling"} :
          printed' = [printed EXCEPT ![e] = w] /\ (w = "ready" => task[e].status = "DONE")
    BY <1>1 DEF AnswerPoll
  <2>2. printed[e] = "status" /\ UNCHANGED <<task, print, file, orphans>> BY <1>1 DEF AnswerPoll
  <2> QED BY <2>1, <2>2 DEF ExportInv, PageStates, ExportTypes, PrintKept
<1>2. CASE ReadStatus(e) \/ GiveUpWaiting(e)
  BY <1>2 DEF ReadStatus, GiveUpWaiting, ExportInv, PageStates, ExportTypes, PrintKept
<1> QED BY <1>1, <1>2

\* For any number of exports: a running task has somebody who ends it, and what is ready
\* is a whole file (ExportIsKept).
THEOREM ExportsAreKept == ExportSpec => []ExportIsKept
<1>1. ExportInit => ExportInv
  BY DEF ExportInit, ExportInv, PageStates, ExportTypes, PrintKept, PrintStages
<1>2. ExportInv /\ [ExportNext]_exportVars => ExportInv'
  <2> SUFFICES ASSUME ExportInv, [ExportNext]_exportVars PROVE ExportInv' OBVIOUS
  <2>1. CASE RemoveTrip \/ UNCHANGED exportVars
    BY <2>1 DEF RemoveTrip, exportVars, ExportInv, PageStates, ExportTypes, PrintKept
  <2>2. CASE PrintersDie
    BY <2>2 DEF PrintersDie, ExportInv, PageStates, ExportTypes, PrintKept, PrintStages
  <2> QED BY <2>1, <2>2, PrintStep, EndStep, PollStep DEF ExportNext
<1>3. ExportInv => ExportIsKept
  BY DEF ExportInv, PrintKept, ExportIsKept
<1> QED BY <1>1, <1>2, <1>3, PTL DEF ExportSpec

-----------------------------------------------------------------------------
(* Cover and photos: Pictures. *)

\* The covers and those who pick them.
CoverTypes ==
  /\ cover \in Names \cup {"default"}
  /\ store \in [Names -> {"none", "partial", "whole"}]
  /\ picker \in [Pickers -> [at : {"idle", "check", "open", "write", "columns", "over"}, file : Names]]
\* A torso has a writer, or one that failed; what is named is there.
TorsoAnswered == \A f \in Names : store[f] = "partial" =>
  f \in torn \/ \E p \in Pickers : picker[p].at = "write" /\ picker[p].file = f
NamedIsThere ==
  /\ cover # "default" => cover \in Names /\ store[cover] # "none"
  /\ \A p \in Pickers : picker[p].at \in {"write", "columns"} => store[picker[p].file] # "none"
CoverInv == CoverTypes /\ TorsoAnswered /\ NamedIsThere

\* The lookers and the pause of the wiki: who came in the cold goes past the wiki.
SpotsOr == Spots \cup {CHOOSE s \in Spots : TRUE}
LookerRows ==
  [at : {"idle", "wikipedia", "commons", "unsplash", "links", "pexels"}, spot : SpotsOr, cold : BOOLEAN]
PhotoInv ==
  /\ paused \in BOOLEAN
  /\ looker \in [Lookers -> LookerRows]
  /\ \A l \in Lookers : looker[l].cold => paused /\ looker[l].at \notin Wiki

\* Cover: whoever names a file has seen it there, and who opens one for writing is
\* its writer until it is whole.
LEMMA CoverKept == ASSUME CoverInv, CoverStep PROVE CoverInv'
<1>1. CASE HostDies
  BY <1>1 DEF HostDies, CoverInv, CoverTypes, TorsoAnswered, NamedIsThere
<1>2. ASSUME NEW p \in Pickers, Fetch(p) PROVE CoverInv'
  <2>1. PICK f \in Names, where \in {"check", "over"} : picker' = [picker EXCEPT ![p] = [at |-> where, file |-> f]]
    BY <1>2 DEF Fetch, Follows, Names
  <2>2. picker[p].at = "idle" /\ UNCHANGED <<cover, store, torn>> BY <1>2 DEF Fetch
  <2> QED BY <2>1, <2>2 DEF CoverInv, CoverTypes, TorsoAnswered, NamedIsThere
<1>3. ASSUME NEW p \in Pickers, ResetCover(p) PROVE CoverInv'
  BY <1>3 DEF ResetCover, ToStage, CoverInv, CoverTypes, TorsoAnswered, NamedIsThere
<1>4. ASSUME NEW p \in Pickers, LookForFile(p) PROVE CoverInv'
  <2>2. PICK where \in {"columns", "open"} : /\ picker' = [picker EXCEPT ![p].at = where]
                                             /\ where = "columns" => store[picker[p].file] # "none"
    BY <1>4 DEF LookForFile, ToStage, Follows
  <2>3. picker[p].at = "check" /\ UNCHANGED <<cover, store, torn>> BY <1>4 DEF LookForFile
  <2>4. /\ \A q \in Pickers : picker'[q].file = picker[q].file
        /\ \A q \in Pickers \ {p} : picker'[q] = picker[q]
        /\ picker'[p].at = where
    BY <2>2 DEF CoverInv, CoverTypes
  <2>5. CoverTypes' BY <2>2, <2>3 DEF CoverInv, CoverTypes
  <2>6. TorsoAnswered' BY <2>3, <2>4 DEF CoverInv, CoverTypes, TorsoAnswered
  <2>7. NamedIsThere' BY <2>2, <2>3, <2>4 DEF CoverInv, CoverTypes, NamedIsThere
  <2> QED BY <2>5, <2>6, <2>7 DEF CoverInv
<1>5. ASSUME NEW p \in Pickers, OpenFile(p) PROVE CoverInv'
  BY <1>5 DEF OpenFile, ToStage, CoverInv, CoverTypes, TorsoAnswered, NamedIsThere
<1>6. ASSUME NEW p \in Pickers, FillFile(p) PROVE CoverInv'
  <2>1. \/ store' = [store EXCEPT ![picker[p].file] = "whole"] /\ picker' = [picker EXCEPT ![p].at = "columns"] /\ UNCHANGED torn
        \/ torn' = torn \cup {picker[p].file} /\ picker' = [picker EXCEPT ![p].at = "over"] /\ UNCHANGED store
    BY <1>6 DEF FillFile, ToStage, Follows
  <2>2. picker[p].at = "write" /\ UNCHANGED cover BY <1>6 DEF FillFile
  <2>3. picker[p].file \in Names BY DEF CoverInv, CoverTypes
  <2>4. CASE store' = [store EXCEPT ![picker[p].file] = "whole"] /\ picker' = [picker EXCEPT ![p].at = "columns"] /\ UNCHANGED torn
    <3>1. CoverTypes' BY <2>2, <2>4 DEF CoverInv, CoverTypes
    <3>2. /\ \A q \in Pickers : picker'[q].file = picker[q].file
          /\ \A q \in Pickers \ {p} : picker'[q] = picker[q]
      BY <2>4 DEF CoverInv, CoverTypes
    <3>3. \A f \in Names : store'[f] = IF f = picker[p].file THEN "whole" ELSE store[f]
      BY <2>4 DEF CoverInv, CoverTypes
    <3>4. TorsoAnswered' BY <2>4, <3>2, <3>3 DEF CoverInv, TorsoAnswered
    <3>5. NamedIsThere' BY <2>2, <2>3, <2>4, <3>2, <3>3 DEF CoverInv, CoverTypes, NamedIsThere
    <3> QED BY <3>1, <3>4, <3>5 DEF CoverInv
  <2>5. CASE torn' = torn \cup {picker[p].file} /\ picker' = [picker EXCEPT ![p].at = "over"] /\ UNCHANGED store
    BY <2>2, <2>5 DEF CoverInv, CoverTypes, TorsoAnswered, NamedIsThere
  <2> QED BY <2>1, <2>4, <2>5
<1>7. ASSUME NEW p \in Pickers, NameFile(p) PROVE CoverInv'
  <2>1. picker[p].at = "columns" /\ UNCHANGED <<store, torn>> /\ picker' = [picker EXCEPT ![p].at = "over"]
        /\ cover' \in {cover, picker[p].file}
    BY <1>7 DEF NameFile, ToStage, Follows
  <2> QED BY <2>1 DEF CoverInv, CoverTypes, TorsoAnswered, NamedIsThere
<1> QED BY <1>1, <1>2, <1>3, <1>4, <1>5, <1>6, <1>7 DEF CoverStep

\* Photos: who starts while the wiki is paused goes past it.
LEMMA PhotoKept == ASSUME PhotoInv, PhotoStep PROVE PhotoInv'
<1>1. CASE Resume BY <1>1 DEF Resume, LookerRows, PhotoInv
<1>2. ASSUME NEW l \in Lookers, LookUp(l) PROVE PhotoInv'
  <2>1. PICK s \in Spots : looker' = [looker EXCEPT ![l] = [at |-> IF paused THEN "unsplash" ELSE "wikipedia", spot |-> s, cold |-> paused]]
    BY <1>2 DEF LookUp
  <2>2. paused' = paused BY <1>2 DEF LookUp
  <2>3. looker'[l].cold = paused /\ (paused => looker'[l].at = "unsplash")
    BY <2>1 DEF LookerRows, PhotoInv
  <2>4. looker' \in [Lookers -> LookerRows]
    BY <2>1 DEF LookerRows, PhotoInv, SpotsOr
  <2> QED BY <2>1, <2>2, <2>3, <2>4 DEF LookerRows, PhotoInv, Wiki
<1>3. ASSUME NEW l \in Lookers, AskWiki(l) PROVE PhotoInv'
  <2>1. \/ looker' = [looker EXCEPT ![l].at = "idle"] /\ paused' = paused
        \/ (\E w \in {"commons", "unsplash"} : looker' = [looker EXCEPT ![l].at = w]) /\ paused' = paused
        \/ looker' = [looker EXCEPT ![l].at = "unsplash"] /\ paused' = TRUE
    BY <1>3 DEF AskWiki, Remember, Asks
  <2>2. ~looker[l].cold BY <1>3 DEF AskWiki, LookerRows, PhotoInv, Wiki
  <2> QED BY <2>1, <2>2 DEF LookerRows, PhotoInv, Wiki
<1>4. ASSUME NEW l \in Lookers, AskUnsplash(l) \/ AskLinks(l) \/ AskPexels(l) PROVE PhotoInv'
  <2>1. \/ looker' = [looker EXCEPT ![l].at = "idle"]
        \/ looker' = [looker EXCEPT ![l].at = "pexels"]
        \/ ~paused /\ looker' = [looker EXCEPT ![l].at = "links"]
    BY <1>4 DEF AskUnsplash, AskLinks, AskPexels, AfterUnsplash, Remember, Asks
  <2>2. paused' = paused BY <1>4 DEF AskUnsplash, AskLinks, AskPexels
  <2> QED BY <2>1, <2>2 DEF LookerRows, PhotoInv, Wiki
<1> QED BY <1>1, <1>2, <1>3, <1>4 DEF PhotoStep

\* For any number of pickers and lookers: the cover is whole, and the wiki is left alone
\* while it is paused (PicturesRight).
THEOREM PicturesAreRight == PictureSpec => []PicturesRight
<1>1. PictureInit => CoverInv /\ PhotoInv
  <2> SUFFICES ASSUME PictureInit PROVE CoverInv /\ PhotoInv OBVIOUS
  <2>1. CoverInv BY DEF PictureInit, CoverInv, CoverTypes, TorsoAnswered, NamedIsThere, Names
  <2>2. PhotoInv
    <3> DEFINE start == [at |-> "idle", spot |-> CHOOSE s \in Spots : TRUE, cold |-> FALSE]
    <3>1. start \in LookerRows
      BY DEF LookerRows, SpotsOr
    <3>2. looker = [l \in Lookers |-> start] /\ paused = FALSE BY DEF PictureInit
    <3>3. start.cold = FALSE OBVIOUS
    <3> HIDE DEF start
    <3> QED BY <3>1, <3>2, <3>3 DEF LookerRows, PhotoInv
  <2> QED BY <2>1, <2>2
<1>2. CoverInv /\ PhotoInv /\ [PictureNext]_pictureVars => (CoverInv /\ PhotoInv)'
  <2> SUFFICES ASSUME CoverInv, PhotoInv, [PictureNext]_pictureVars PROVE CoverInv' /\ PhotoInv' OBVIOUS
  <2>1. UNCHANGED coverPart => CoverInv'
    BY DEF coverPart, CoverInv, CoverTypes, TorsoAnswered, NamedIsThere
  <2>2. UNCHANGED photoPart => PhotoInv' BY DEF photoPart, LookerRows, PhotoInv
  <2>3. UNCHANGED pictureVars => UNCHANGED coverPart /\ UNCHANGED photoPart
    BY DEF pictureVars, coverPart, photoPart
  <2>4. CoverStep => UNCHANGED photoPart BY DEF CoverStep
  <2>5. PhotoStep => UNCHANGED coverPart BY DEF PhotoStep
  <2> QED BY <2>1, <2>2, <2>3, <2>4, <2>5, CoverKept, PhotoKept DEF PictureNext
<1>3. CoverInv /\ PhotoInv => PicturesRight
  BY DEF CoverInv, CoverTypes, TorsoAnswered, NamedIsThere, LookerRows, PhotoInv, PicturesRight,
     CoverWhole, WikiSpared
<1> QED BY <1>1, <1>2, <1>3, PTL DEF PictureSpec

-----------------------------------------------------------------------------
(* The calls to the providers: ExternalCalls. *)

CallerType ==
  [at : {"idle", "check", "slot", "wait", "asked", "record", "store"},
   key : Topics \cup {"none"}, lane : Lanes \cup {"none"}, attempt : 0 .. Attempts,
   slot : Nat, got : {"none", "good", "empty", "failure"}]
OnLane(c) == caller[c].at \in {"check", "slot", "wait", "asked"}
OutTypes ==
  /\ clock \in Nat /\ healthy \in BOOLEAN /\ lastSlot \in [Lanes -> Int]
  /\ streak \in Nat /\ openUntil \in Nat
  /\ caller \in [Callers -> CallerType]
  /\ \A c \in Callers : OnLane(c) => caller[c].lane \in Lanes /\ caller[c].attempt \in 1 .. Attempts
  /\ pace \in [Lanes -> [first : Nat, sent : Nat]]
  /\ outage \in [since : Nat, sent : Nat, spare : Nat]

\* How many calls a lane has given a time of their own that has not come, up to t.
Waiting(l) == {c \in Callers : caller[c].at = "wait" /\ caller[c].lane = l}
Due(l, t) == {c \in Waiting(l) : caller[c].slot <= t}
Given(l) == pace[l].sent + Cardinality(Waiting(l))

\* n times that are i apart, the last of them d after the first.
Spaced(n, i, d) == n > 0 => (n - 1) * i <= d

\* The times of a lane are an interval apart, from the first to the last of them; so there
\* are never more of them up to a moment than the interval allows.
GivenPaced(l) ==
  /\ Given(l) = 0 => lastSlot[l] < 0
  /\ Given(l) > 0 => lastSlot[l] >= 0
  /\ Spaced(Given(l), Interval[l], lastSlot[l] - pace[l].first)
  /\ \A c \in Waiting(l) : caller[c].slot <= lastSlot[l]
DuePaced(l) ==
  \A t \in Nat : t >= clock =>
    Spaced(pace[l].sent + Cardinality(Due(l, t)), Interval[l], t - pace[l].first)
LanesPaced == \A l \in Lanes : GivenPaced(l) /\ DuePaced(l)

\* The attempts that the calls past the breaker have used.
UsedUp(c, k) ==
  \/ Failing(c)
  \/ caller[c].at = "asked" /\ k <= caller[c].attempt
  \/ caller[c].at \in {"slot", "wait"} /\ k < caller[c].attempt
Used == {p \in Callers \X (1 .. Attempts) : UsedUp(p[1], p[2])}

\* The calls of an outage: r have failed, and the breaker was opened o times.
Reserve == Threshold + Cardinality(Callers) - 1
Tallied == IF streak < Threshold THEN streak ELSE Threshold - 1
Soothing == (Threshold - 1) * Cardinality(Assured)
Books(r, o) ==
  /\ outage.sent <= Attempts * r + Cardinality(Used)
  /\ o > 0 => outage.since + o * OpenFor <= openUntil
  /\ clock < openUntil =>
       r + Cardinality(PastBreaker) + Soothing <= o * Reserve + outage.spare
  /\ clock >= openUntil => r + Soothing <= o * Reserve + Tallied + outage.spare
OutageBooked ==
  /\ openUntil <= clock + OpenFor
  /\ ~healthy => outage.since <= clock /\ \E r, o \in Nat : Books(r, o)

\* Nobody is in a call.
LEMMA AwayIsACaller == Away \in CallerType
<1>1. 0 \in 0 .. Attempts
  BY ExternalAssumption, SMT
<1>2. 0 \in Nat
  OBVIOUS
<1> QED
  BY <1>1, <1>2, Zenon DEF Away, CallerType

\* The numbers that the code counts with.
LEMMA OutNumbers ==
  /\ Attempts \in Nat /\ Attempts > 0 /\ Threshold \in Nat /\ Threshold > 0
  /\ OpenFor \in Nat /\ OpenFor > 0 /\ Backoff \in Nat /\ MaxWait \in Nat
  /\ \A l \in Lanes : Interval[l] \in Nat /\ Interval[l] > 0
  BY ExternalAssumption, SMT

\* The record of one caller changes.
LEMMA CallerChanged ==
  ASSUME OutTypes, NEW c \in Callers, NEW u \in CallerType, caller' = [caller EXCEPT ![c] = u]
  PROVE  /\ caller' \in [Callers -> CallerType]
         /\ caller'[c] = u
         /\ \A d \in Callers \ {c} : caller'[d] = caller[d]
  BY SMT DEF OutTypes

\* What _acquire_slot, or the loader, leaves in a caller's hands is a record of a caller.
LEMMA CallerRecords ==
  ASSUME OutTypes, NEW c \in Callers
  PROVE  /\ caller[c] \in CallerType
         /\ \A s \in {"slot", "asked", "store", "wait"} : [caller[c] EXCEPT !.at = s] \in CallerType
         /\ \A n \in Nat : [caller[c] EXCEPT !.at = "wait", !.slot = n] \in CallerType
         /\ [caller[c] EXCEPT !.at = "asked", !.slot = 0] \in CallerType
         /\ \A n \in Nat, a \in 0 .. Attempts :
              [caller[c] EXCEPT !.at = "slot", !.attempt = a, !.slot = n] \in CallerType
         /\ \A g \in {"good", "empty", "failure"} :
              [Away EXCEPT !.at = "record", !.key = caller[c].key, !.got = g] \in CallerType
         /\ \A k \in Topics, l \in Lanes, a \in 0 .. Attempts :
              [Away EXCEPT !.at = "check", !.key = k, !.lane = l, !.attempt = a] \in CallerType
<1>1. caller[c] \in CallerType
  BY SMT DEF OutTypes
<1>2. Away \in CallerType
  BY AwayIsACaller
<1>3. \A s \in {"slot", "asked", "store", "wait"} : [caller[c] EXCEPT !.at = s] \in CallerType
  BY <1>1, SMT DEF CallerType
<1>4. \A n \in Nat : [caller[c] EXCEPT !.at = "wait", !.slot = n] \in CallerType
  BY <1>1, Zenon DEF CallerType
<1>5. [caller[c] EXCEPT !.at = "asked", !.slot = 0] \in CallerType
  BY <1>1, Zenon DEF CallerType
<1>6. \A n \in Nat, a \in 0 .. Attempts :
        [caller[c] EXCEPT !.at = "slot", !.attempt = a, !.slot = n] \in CallerType
  BY <1>1, Zenon DEF CallerType
<1>7. \A g \in {"good", "empty", "failure"} :
        [Away EXCEPT !.at = "record", !.key = caller[c].key, !.got = g] \in CallerType
  BY <1>1, <1>2, Zenon DEF CallerType
<1>8. \A k \in Topics, l \in Lanes, a \in 0 .. Attempts :
        [Away EXCEPT !.at = "check", !.key = k, !.lane = l, !.attempt = a] \in CallerType
  BY <1>2, Zenon DEF CallerType
<1> QED
  BY <1>1, <1>3, <1>4, <1>5, <1>6, <1>7, <1>8

\* What a step of a thread leaves in its hands, and that it touches no other's.
Others(c) == \A d \in Callers \ {c} : caller'[d] = caller[d]
CallersAre == caller' \in [Callers -> CallerType]
LookEffect(c, l) ==
  /\ CallersAre /\ Others(c) /\ caller[c].at = "idle"
  /\ \/ caller'[c] = caller[c]
     \/ caller'[c].at = "check" /\ caller'[c].lane = l /\ caller'[c].attempt = 1
  /\ UNCHANGED <<clock, healthy, lastSlot, streak, openUntil, pace, outage>>
\* The call: the cache.
LEMMA LookDoes ==
  ASSUME OutTypes, NEW c \in Callers, NEW k \in Topics, NEW l \in Lanes, Look(c, k, l)
  PROVE  LookEffect(c, l)
<1>1. /\ UNCHANGED <<clock, healthy, lastSlot, streak, openUntil, pace, outage>>
      /\ caller[c].at = "idle"
  BY Zenon DEF Look, Now
<1>2. CASE Fresh(k)
  <2>1. caller' = caller
    BY <1>2, Zenon DEF Look
  <2> QED
    BY <2>1, <1>1, SMT DEF CallersAre, Others, OutTypes, LookEffect
<1>3. CASE ~Fresh(k)
  <2> DEFINE u == [Away EXCEPT !.at = "check", !.key = k, !.lane = l, !.attempt = 1]
  <2>1. caller' = [caller EXCEPT ![c] = u]
    BY <1>3, Zenon DEF Look
  <2>2. 1 \in 0 .. Attempts
    BY OutNumbers, SMT
  <2>3. u \in CallerType
    BY <2>2, CallerRecords
  <2>4. u.at = "check" /\ u.lane = l /\ u.attempt = 1
    BY Zenon DEF Away
  <2> HIDE DEF u
  <2> QED
    BY <2>1, <2>3, <2>4, <1>1, CallerChanged DEF CallersAre, Others, LookEffect
<1> QED
  BY <1>2, <1>3

CheckEffect(c) ==
  /\ CallersAre /\ Others(c) /\ caller[c].at = "check"
  /\ \/ caller'[c].at = "idle"
     \/ /\ clock >= openUntil /\ caller'[c].at = "slot"
        /\ caller'[c].lane = caller[c].lane /\ caller'[c].attempt = caller[c].attempt
  /\ UNCHANGED <<clock, healthy, lastSlot, streak, openUntil, pace, outage>>
\* The call: the breaker.
LEMMA CheckDoes ==
  ASSUME OutTypes, NEW c \in Callers, Check(c)
  PROVE  CheckEffect(c)
<1>1. /\ UNCHANGED <<clock, healthy, lastSlot, streak, openUntil, pace, outage>>
      /\ caller[c].at = "check"
  BY Zenon DEF Check, Now
<1>2. CASE clock < openUntil
  <2>1. caller' = [caller EXCEPT ![c] = Away]
    BY <1>2, Zenon DEF Check, Leaves
  <2>2. Away.at = "idle"
    BY Zenon DEF Away
  <2> QED
    BY <2>1, <2>2, <1>1, AwayIsACaller, CallerChanged DEF CallersAre, Others, CheckEffect
<1>3. CASE ~(clock < openUntil)
  <2> DEFINE u == [caller[c] EXCEPT !.at = "slot"]
  <2>1. caller' = [caller EXCEPT ![c] = u]
    BY <1>3, Zenon DEF Check, Goes
  <2>2. u \in CallerType /\ caller[c] \in CallerType
    BY CallerRecords
  <2>3. u.at = "slot" /\ u.lane = caller[c].lane /\ u.attempt = caller[c].attempt
    BY <2>2, SMT DEF CallerType
  <2>4. clock >= openUntil
    BY <1>3, SMT DEF OutTypes
  <2> HIDE DEF u
  <2> QED
    BY <2>1, <2>2, <2>3, <2>4, <1>1, CallerChanged DEF CallersAre, Others, CheckEffect
<1> QED
  BY <1>2, <1>3

\* A call that is told of its result.
LEMMA ToldOf ==
  ASSUME OutTypes, NEW c \in Callers, NEW g \in {"good", "empty", "failure"}, Gets(c, g)
  PROVE  /\ CallersAre /\ Others(c) /\ caller'[c].at = "record" /\ caller'[c].got = g
<1> DEFINE u == [Away EXCEPT !.at = "record", !.key = caller[c].key, !.got = g]
<1>1. caller' = [caller EXCEPT ![c] = u]
  BY Zenon DEF Gets
<1>2. u \in CallerType
  BY CallerRecords
<1>3. u.at = "record" /\ u.got = g
  BY Zenon DEF Away
<1> HIDE DEF u
<1> QED
  BY <1>1, <1>2, <1>3, CallerChanged DEF CallersAre, Others

\* The time that _acquire_slot gives.
LEMMA ScheduledIs ==
  ASSUME OutTypes, NEW l \in Lanes
  PROVE  /\ Scheduled(l) \in Nat /\ Scheduled(l) >= clock
         /\ Scheduled(l) >= lastSlot[l] + Interval[l]
<1>1. lastSlot[l] + Interval[l] \in Int /\ clock \in Nat
  BY OutNumbers, SMT DEF OutTypes
<1> QED
  BY <1>1, SMT DEF Scheduled, LaterOf

AcquireEffect(c) ==
  /\ CallersAre /\ Others(c) /\ caller[c].at = "slot"
  /\ \/ /\ \/ caller[c].attempt = 1 /\ caller'[c].at = "idle"
           \/ caller[c].attempt # 1 /\ caller'[c].at = "record" /\ caller'[c].got = "failure"
        /\ UNCHANGED <<lastSlot, pace>>
     \/ /\ caller'[c].at = "wait" /\ caller'[c].lane = caller[c].lane
        /\ caller'[c].attempt = caller[c].attempt
        /\ caller'[c].slot = Scheduled(caller[c].lane)
        /\ lastSlot' = [lastSlot EXCEPT ![caller[c].lane] = Scheduled(caller[c].lane)]
        /\ pace' = IF lastSlot[caller[c].lane] < 0
                   THEN [pace EXCEPT ![caller[c].lane].first = Scheduled(caller[c].lane)] ELSE pace
  /\ UNCHANGED <<clock, healthy, streak, openUntil, outage>>
\* _acquire_slot: none, or a time.
LEMMA AcquireDoes ==
  ASSUME OutTypes, NEW c \in Callers, AcquireSlot(c)
  PROVE  AcquireEffect(c)
<1> DEFINE l == caller[c].lane
<1>1. UNCHANGED <<clock, healthy, streak, openUntil, outage>> /\ caller[c].at = "slot"
  BY Zenon DEF AcquireSlot, Now
<1>2. CASE Scheduled(l) - clock > MaxWait /\ caller[c].attempt = 1
  <2>1. caller' = [caller EXCEPT ![c] = Away] /\ UNCHANGED <<lastSlot, pace>>
    BY <1>2, Zenon DEF AcquireSlot, Leaves
  <2>2. Away.at = "idle"
    BY Zenon DEF Away
  <2> QED
    BY <2>1, <2>2, <1>1, <1>2, AwayIsACaller, CallerChanged DEF CallersAre, Others, AcquireEffect
<1>3. CASE Scheduled(l) - clock > MaxWait /\ caller[c].attempt # 1
  <2>1. Gets(c, "failure") /\ UNCHANGED <<lastSlot, pace>>
    BY <1>3, Zenon DEF AcquireSlot
  <2> QED
    BY <2>1, <1>1, <1>3, ToldOf DEF AcquireEffect
<1>4. CASE ~(Scheduled(l) - clock > MaxWait)
  <2> DEFINE s == Scheduled(l)
             u == [caller[c] EXCEPT !.at = "wait", !.slot = s]
  <2>1. /\ caller' = [caller EXCEPT ![c].at = "wait", ![c].slot = s]
        /\ lastSlot' = [lastSlot EXCEPT ![l] = s]
        /\ pace' = IF lastSlot[l] < 0 THEN [pace EXCEPT ![l].first = s] ELSE pace
    BY <1>4, Zenon DEF AcquireSlot, Remembered
  <2>2. l \in Lanes
    BY <1>1, SMT DEF OutTypes, OnLane
  <2>3. s \in Nat
    BY <2>2, ScheduledIs
  <2> HIDE DEF s
  <2>4. caller' = [caller EXCEPT ![c] = u]
    BY <2>1, Zenon DEF OutTypes
  <2>5. u \in CallerType /\ caller[c] \in CallerType
    BY <2>3, CallerRecords
  <2>6. u.at = "wait" /\ u.slot = s /\ u.lane = l /\ u.attempt = caller[c].attempt
    BY <2>5, SMT DEF CallerType
  <2> HIDE DEF u
  <2>7. CallersAre /\ Others(c) /\ caller'[c] = u
    BY <2>4, <2>5, CallerChanged DEF CallersAre, Others
  <2> QED
    BY <2>1, <2>6, <2>7, <1>1 DEF s, AcquireEffect
<1> QED
  BY <1>2, <1>3, <1>4

SendEffect(c) ==
  /\ CallersAre /\ Others(c) /\ caller[c].at = "wait" /\ caller[c].slot <= clock
  /\ caller'[c].at = "asked" /\ caller'[c].lane = caller[c].lane
  /\ caller'[c].attempt = caller[c].attempt
  /\ pace' = [pace EXCEPT ![caller[c].lane].sent = @ + 1]
  /\ outage' = [outage EXCEPT !.sent = IF healthy THEN 0 ELSE @ + 1]
  /\ UNCHANGED <<clock, healthy, lastSlot, streak, openUntil>>
\* The loader asks.
LEMMA SendDoes ==
  ASSUME OutTypes, NEW c \in Callers, Send(c)
  PROVE  SendEffect(c)
<1> DEFINE u == [caller[c] EXCEPT !.at = "asked", !.slot = 0]
<1>1. /\ UNCHANGED <<clock, healthy, lastSlot, streak, openUntil>>
      /\ caller[c].at = "wait" /\ caller[c].slot <= clock
      /\ pace' = [pace EXCEPT ![caller[c].lane].sent = @ + 1]
      /\ outage' = [outage EXCEPT !.sent = IF healthy THEN 0 ELSE @ + 1]
      /\ caller' = [caller EXCEPT ![c].at = "asked", ![c].slot = 0]
  BY Zenon DEF Send, Now
<1>2. caller' = [caller EXCEPT ![c] = u]
  BY <1>1, Zenon DEF OutTypes
<1>3. u \in CallerType /\ caller[c] \in CallerType
  BY CallerRecords
<1>4. u.at = "asked" /\ u.lane = caller[c].lane /\ u.attempt = caller[c].attempt
  BY <1>3, Zenon DEF CallerType
<1> HIDE DEF u
<1>5. CallersAre /\ Others(c) /\ caller'[c] = u
  BY <1>2, <1>3, CallerChanged DEF CallersAre, Others
<1> QED
  BY <1>1, <1>4, <1>5 DEF SendEffect

AnswerEffect(c) ==
  /\ CallersAre /\ Others(c) /\ caller[c].at = "asked"
  /\ \/ healthy /\ caller'[c].at = "record" /\ caller'[c].got # "failure"
     \/ /\ ~healthy /\ caller[c].attempt = Attempts
        /\ caller'[c].at = "record" /\ caller'[c].got = "failure"
     \/ /\ ~healthy /\ caller[c].attempt # Attempts /\ caller'[c].at = "slot"
        /\ caller'[c].lane = caller[c].lane /\ caller'[c].attempt = caller[c].attempt + 1
  /\ UNCHANGED <<clock, healthy, lastSlot, streak, openUntil, pace, outage>>
\* _call_with_retry.
LEMMA AnswerDoes ==
  ASSUME OutTypes, NEW c \in Callers, Answer(c)
  PROVE  AnswerEffect(c)
<1>1. /\ UNCHANGED <<clock, healthy, lastSlot, streak, openUntil, pace, outage>>
      /\ caller[c].at = "asked"
  BY Zenon DEF Answer, Now
<1>2. CASE healthy
  <2> DEFINE g == IF caller[c].key \in Known THEN "good" ELSE "empty"
  <2>1. Gets(c, g)
    BY <1>2, Zenon DEF Answer
  <2>2. g \in {"good", "empty", "failure"} /\ g # "failure"
    BY Zenon
  <2> HIDE DEF g
  <2> QED
    BY <2>1, <2>2, <1>1, <1>2, ToldOf DEF AnswerEffect
<1>3. CASE ~healthy /\ caller[c].attempt = Attempts
  <2>1. Gets(c, "failure")
    BY <1>3, Zenon DEF Answer
  <2> QED
    BY <2>1, <1>1, <1>3, ToldOf DEF AnswerEffect
<1>4. CASE ~healthy /\ caller[c].attempt # Attempts
  <2> DEFINE s == clock + Backoff
             a == caller[c].attempt + 1
             u == [caller[c] EXCEPT !.at = "slot", !.attempt = a, !.slot = s]
  <2>1. caller' = [caller EXCEPT ![c].at = "slot", ![c].attempt = a, ![c].slot = s]
    BY <1>4, Zenon DEF Answer
  <2>2. s \in Nat /\ a \in 0 .. Attempts
    <3>1. caller[c].attempt \in 1 .. Attempts /\ clock \in Nat
      BY <1>1, SMT DEF OutTypes, OnLane
    <3> QED
      BY <1>4, <3>1, OutNumbers, SMT
  <2> HIDE DEF s, a
  <2>3. caller' = [caller EXCEPT ![c] = u]
    BY <2>1, Zenon DEF OutTypes
  <2>4. u \in CallerType /\ caller[c] \in CallerType
    BY <2>2, CallerRecords
  <2>5. u.at = "slot" /\ u.lane = caller[c].lane /\ u.attempt = a
    BY <2>4, Zenon DEF CallerType
  <2> HIDE DEF u
  <2>6. CallersAre /\ Others(c) /\ caller'[c] = u
    BY <2>3, <2>4, CallerChanged DEF CallersAre, Others
  <2> QED
    BY <2>5, <2>6, <1>1, <1>4 DEF a, AnswerEffect
<1> QED
  BY <1>2, <1>3, <1>4

RecordEffect(c) ==
  /\ CallersAre /\ Others(c) /\ caller[c].at = "record" /\ caller'[c].at = "store"
  /\ \/ caller[c].got # "failure" /\ streak' = 0 /\ UNCHANGED openUntil
     \/ /\ caller[c].got = "failure" /\ streak + 1 >= Threshold /\ clock >= openUntil
        /\ streak' = 0 /\ openUntil' = clock + OpenFor
     \/ /\ caller[c].got = "failure" /\ ~(streak + 1 >= Threshold /\ clock >= openUntil)
        /\ streak' = streak + 1 /\ UNCHANGED openUntil
  /\ UNCHANGED <<clock, healthy, lastSlot, pace, outage>>
\* _record_outcome.
LEMMA RecordDoes ==
  ASSUME OutTypes, NEW c \in Callers, RecordOutcome(c)
  PROVE  RecordEffect(c)
<1> DEFINE u == [caller[c] EXCEPT !.at = "store"]
<1>1. /\ UNCHANGED <<clock, healthy, lastSlot, pace, outage>>
      /\ caller[c].at = "record"
      /\ caller' = [caller EXCEPT ![c] = u]
  <2>1. Goes(c, "store") /\ Now(c, "record")
    BY Zenon DEF RecordOutcome
  <2>2. caller' = [caller EXCEPT ![c].at = "store"] /\ caller[c].at = "record"
    BY <2>1, Zenon DEF Goes, Now
  <2>3. UNCHANGED <<clock, healthy, lastSlot, pace, outage>>
    BY Zenon DEF RecordOutcome
  <2> QED
    BY <2>2, <2>3, SMT DEF OutTypes
<1>2. u \in CallerType /\ caller[c] \in CallerType
  BY CallerRecords
<1>3. u.at = "store"
  BY <1>2, SMT DEF CallerType
<1> HIDE DEF u
<1>4. CallersAre /\ Others(c) /\ caller'[c] = u
  BY <1>1, <1>2, CallerChanged DEF CallersAre, Others
<1>5. \/ caller[c].got # "failure" /\ streak' = 0 /\ UNCHANGED openUntil
      \/ /\ caller[c].got = "failure" /\ streak + 1 >= Threshold /\ clock >= openUntil
         /\ streak' = 0 /\ openUntil' = clock + OpenFor
      \/ /\ caller[c].got = "failure" /\ ~(streak + 1 >= Threshold /\ clock >= openUntil)
         /\ streak' = streak + 1 /\ UNCHANGED openUntil
  BY Zenon DEF RecordOutcome, Opens
<1> QED
  BY <1>1, <1>3, <1>4, <1>5 DEF RecordEffect

StoreEffect(c) ==
  /\ CallersAre /\ Others(c) /\ caller[c].at = "store" /\ caller'[c].at = "idle"
  /\ UNCHANGED <<clock, healthy, lastSlot, streak, openUntil, pace, outage>>
\* _store.
LEMMA StoreDoes ==
  ASSUME OutTypes, NEW c \in Callers, Store(c)
  PROVE  StoreEffect(c)
<1>1. /\ UNCHANGED <<clock, healthy, lastSlot, streak, openUntil, pace, outage>>
      /\ Now(c, "store") /\ Leaves(c)
  BY Zenon DEF Store
<1>2. Away.at = "idle"
  BY Zenon DEF Away
<1> QED
  BY <1>1, <1>2, AwayIsACaller, CallerChanged DEF CallersAre, Others, Now, Leaves, StoreEffect

(* The types. *)

\* The types of the calls at the start.
LEMMA OutTypesStart == OutInit => OutTypes
<1>1. OutInit => /\ clock \in Nat /\ healthy \in BOOLEAN /\ streak \in Nat /\ openUntil \in Nat
  BY SMT DEF OutInit
<1>2. OutInit => lastSlot \in [Lanes -> Int]
  BY OutNumbers, SMT DEF OutInit
<1>3. OutInit => caller \in [Callers -> CallerType] /\ \A c \in Callers : caller[c].at = "idle"
  <2>1. Away.at = "idle"
    BY Zenon DEF Away
  <2> QED
    BY <2>1, AwayIsACaller, SMT DEF OutInit
<1>4. OutInit => pace \in [Lanes -> [first : Nat, sent : Nat]]
  BY SMT DEF OutInit
<1>5. OutInit => outage \in [since : Nat, sent : Nat, spare : Nat]
  BY SMT DEF OutInit
<1> QED
  BY <1>1, <1>2, <1>3, <1>4, <1>5, SMT DEF OutTypes, OnLane

\* What an outage finds is a number.
LEMMA SpareIsNat ==
  ASSUME OutTypes
  PROVE  /\ IsFiniteSet(PastBreaker) /\ IsFiniteSet(Assured)
         /\ Cardinality(PastBreaker) \in Nat /\ Cardinality(Assured) \in Nat
         /\ Cardinality(PastBreaker) <= Cardinality(Callers) /\ Cardinality(Callers) \in Nat
         /\ (Threshold - 1) * Cardinality(Assured) \in Nat /\ Spare \in Nat
<1>1. PastBreaker \subseteq Callers /\ Assured \subseteq Callers
  BY Zenon DEF PastBreaker, Assured
<1>2. IsFiniteSet(Callers)
  BY ExternalAssumption, Zenon
<1>3. /\ IsFiniteSet(PastBreaker) /\ IsFiniteSet(Assured)
      /\ Cardinality(PastBreaker) \in Nat /\ Cardinality(Assured) \in Nat
      /\ Cardinality(PastBreaker) <= Cardinality(Callers) /\ Cardinality(Callers) \in Nat
  BY <1>1, <1>2, FS_Subset, FS_CardinalityType
<1>4. \A n \in Nat : (Threshold - 1) * n \in Nat
  BY OutNumbers, SMT
<1>5. (Threshold - 1) * Cardinality(Assured) \in Nat
  BY <1>3, <1>4
<1>6. Spare \in Nat
  BY <1>3, <1>5, SMT DEF Spare
<1> QED
  BY <1>3, <1>5, <1>6

\* The types after a step.
LEMMA OutTypesStep ==
  ASSUME OutTypes, [OutNext]_outVars
  PROVE  OutTypes'
<1>1. CASE UNCHANGED outVars
  BY <1>1, Zenon DEF outVars, OutTypes, OnLane
<1>2. CASE ClockTicks
  <2>1. clock' \in Nat
    BY <1>2, SMT DEF ClockTicks, OutTypes
  <2>2. UNCHANGED <<healthy, lastSlot, streak, openUntil, caller, pace, outage>>
    BY <1>2, Zenon DEF ClockTicks
  <2> QED
    BY <2>1, <2>2, Zenon DEF OutTypes, OnLane
<1>3. CASE ProviderTurns
  <2>1. UNCHANGED <<clock, lastSlot, streak, openUntil, caller, pace>>
    BY <1>3, Zenon DEF ProviderTurns
  <2>2. healthy' \in BOOLEAN
    BY <1>3, Zenon DEF ProviderTurns
  <2>3. outage' = [since |-> clock, sent |-> 0, spare |-> Spare]
    BY <1>3, Zenon DEF ProviderTurns
  <2>4. outage' \in [since : Nat, sent : Nat, spare : Nat]
    BY <2>3, SpareIsNat, SMT DEF OutTypes
  <2> QED
    BY <2>1, <2>2, <2>4, Zenon DEF OutTypes, OnLane
<1>4. ASSUME NEW c \in Callers, CallersAre, Others(c),
             OnLane(c)' => /\ caller'[c].lane \in Lanes
                           /\ caller'[c].attempt \in 1 .. Attempts,
             UNCHANGED <<clock, healthy>>, streak' \in Nat, openUntil' \in Nat,
             lastSlot' \in [Lanes -> Int], pace' \in [Lanes -> [first : Nat, sent : Nat]],
             outage' \in [since : Nat, sent : Nat, spare : Nat]
      PROVE  OutTypes'
  <2>1. ASSUME NEW d \in Callers \ {c}, OnLane(d)'
        PROVE  caller'[d].lane \in Lanes /\ caller'[d].attempt \in 1 .. Attempts
    BY <1>4, <2>1, SMT DEF Others, OnLane, OutTypes
  <2>2. \A d \in Callers : (OnLane(d) => /\ caller[d].lane \in Lanes
                                         /\ caller[d].attempt \in 1 .. Attempts)'
    BY <1>4, <2>1
  <2> QED
    BY <1>4, <2>2, Zenon DEF OutTypes, CallersAre
<1>5. ASSUME NEW c \in Callers, NEW k \in Topics, NEW l \in Lanes, Look(c, k, l)
      PROVE  OutTypes'
  <2>0. LookEffect(c, l)
    BY <1>5, LookDoes
  <2>1. 1 \in 1 .. Attempts
    BY OutNumbers, SMT
  <2>2. OnLane(c)' => /\ caller'[c].lane \in Lanes /\ caller'[c].attempt \in 1 .. Attempts
    BY <2>0, <2>1, SMT DEF LookEffect, OnLane
  <2> QED
    BY <2>0, <1>4, <2>2, Zenon DEF LookEffect, OutTypes
<1>6. ASSUME NEW c \in Callers, Check(c)
      PROVE  OutTypes'
  <2>0. CheckEffect(c)
    BY <1>6, CheckDoes
  <2>1. OnLane(c)' => /\ caller'[c].lane \in Lanes /\ caller'[c].attempt \in 1 .. Attempts
    BY <2>0, SMT DEF CheckEffect, OnLane, OutTypes
  <2> QED
    BY <2>0, <1>4, <2>1, Zenon DEF CheckEffect, OutTypes
<1>7. ASSUME NEW c \in Callers, AcquireSlot(c)
      PROVE  OutTypes'
  <2>0. AcquireEffect(c)
    BY <1>7, AcquireDoes
  <2>1. OnLane(c)' => /\ caller'[c].lane \in Lanes /\ caller'[c].attempt \in 1 .. Attempts
    BY <2>0, SMT DEF AcquireEffect, OnLane, OutTypes
  <2>2. caller[c].lane \in Lanes
    BY <2>0, SMT DEF AcquireEffect, OnLane, OutTypes
  <2> DEFINE s == Scheduled(caller[c].lane)
  <2>3. s \in Nat
    BY <2>2, ScheduledIs
  <2> HIDE DEF s
  <2>4. lastSlot' \in [Lanes -> Int]
    BY <2>0, <2>3, SMT DEF AcquireEffect, OutTypes, s
  <2>5. pace' \in [Lanes -> [first : Nat, sent : Nat]]
    BY <2>0, <2>3, SMT DEF AcquireEffect, OutTypes, s
  <2> QED
    BY <2>0, <1>4, <2>1, <2>4, <2>5, Zenon DEF AcquireEffect, OutTypes
<1>8. ASSUME NEW c \in Callers, Send(c)
      PROVE  OutTypes'
  <2>0. SendEffect(c)
    BY <1>8, SendDoes
  <2>1. OnLane(c)' => /\ caller'[c].lane \in Lanes /\ caller'[c].attempt \in 1 .. Attempts
    BY <2>0, SMT DEF SendEffect, OnLane, OutTypes
  <2>2. pace' \in [Lanes -> [first : Nat, sent : Nat]]
    <3>1. caller[c].lane \in Lanes
      BY <2>0, SMT DEF SendEffect, OnLane, OutTypes
    <3> DEFINE p == [pace[caller[c].lane] EXCEPT !.sent = @ + 1]
    <3>2. p \in [first : Nat, sent : Nat]
      BY <3>1, SMT DEF OutTypes
    <3>3. pace' = [pace EXCEPT ![caller[c].lane] = p]
      BY <2>0, Zenon DEF SendEffect
    <3> HIDE DEF p
    <3> QED
      BY <3>1, <3>2, <3>3, SMT DEF OutTypes
  <2>3. outage' \in [since : Nat, sent : Nat, spare : Nat]
    BY <2>0, SMT DEF SendEffect, OutTypes
  <2> QED
    BY <2>0, <1>4, <2>1, <2>2, <2>3, Zenon DEF SendEffect, OutTypes
<1>9. ASSUME NEW c \in Callers, Answer(c)
      PROVE  OutTypes'
  <2>0. AnswerEffect(c)
    BY <1>9, AnswerDoes
  <2>1. OnLane(c)' => /\ caller'[c].lane \in Lanes /\ caller'[c].attempt \in 1 .. Attempts
    BY <2>0, OutNumbers, SMT DEF AnswerEffect, OnLane, OutTypes
  <2> QED
    BY <2>0, <1>4, <2>1, Zenon DEF AnswerEffect, OutTypes
<1>10. ASSUME NEW c \in Callers, RecordOutcome(c)
       PROVE  OutTypes'
  <2>0. RecordEffect(c)
    BY <1>10, RecordDoes
  <2>1. ~OnLane(c)'
    BY <2>0, SMT DEF RecordEffect, OnLane
  <2>2. streak' \in Nat /\ openUntil' \in Nat
    BY <2>0, OutNumbers, SMT DEF RecordEffect, OutTypes
  <2> QED
    BY <2>0, <1>4, <2>1, <2>2, Zenon DEF RecordEffect, OutTypes
<1>11. ASSUME NEW c \in Callers, Store(c)
       PROVE  OutTypes'
  <2>0. StoreEffect(c)
    BY <1>11, StoreDoes
  <2>1. ~OnLane(c)'
    BY <2>0, SMT DEF StoreEffect, OnLane
  <2> QED
    BY <2>0, <1>4, <2>1, Zenon DEF StoreEffect, OutTypes
<1> QED
  BY <1>1, <1>2, <1>3, <1>5, <1>6, <1>7, <1>8, <1>9, <1>10, <1>11, Zenon DEF OutNext, CallStep

(* The lanes. *)

\* Times that are far enough apart stay so when there are fewer of them, or when there is
\* more room; and one more fits in after an interval.
LEMMA SpacedFacts ==
  /\ \A i \in Nat, d \in Int : Spaced(0, i, d)
  /\ \A i, d \in Nat : Spaced(1, i, d)
  /\ \A m, n, i \in Nat, d, e \in Int : Spaced(n, i, d) /\ m <= n /\ d <= e => Spaced(m, i, e)
  /\ \A n, i \in Nat, d, e \in Int : n > 0 /\ Spaced(n, i, d) /\ d + i <= e => Spaced(n + 1, i, e)
<1>1. \A m, n, i \in Nat : m <= n => m * i <= n * i
  BY SMT
<1>2. \A m, n, i \in Nat, d, e \in Int : Spaced(n, i, d) /\ m <= n /\ d <= e => Spaced(m, i, e)
  <2> SUFFICES ASSUME NEW m \in Nat, NEW n \in Nat, NEW i \in Nat, NEW d \in Int, NEW e \in Int,
                      Spaced(n, i, d), m <= n, d <= e, m > 0
               PROVE  (m - 1) * i <= e
    BY DEF Spaced
  <2>1. m - 1 \in Nat /\ n - 1 \in Nat /\ m - 1 <= n - 1 /\ n > 0
    BY SMT
  <2>2. (m - 1) * i <= (n - 1) * i
    BY <2>1, <1>1
  <2>3. (n - 1) * i <= d
    BY <2>1 DEF Spaced
  <2>4. (n - 1) * i \in Int /\ (m - 1) * i \in Int
    BY <2>1, SMT
  <2> QED
    BY <2>2, <2>3, <2>4, SMT
<1>3. \A n, i \in Nat, d, e \in Int : n > 0 /\ Spaced(n, i, d) /\ d + i <= e => Spaced(n + 1, i, e)
  <2> SUFFICES ASSUME NEW n \in Nat, NEW i \in Nat, NEW d \in Int, NEW e \in Int,
                      n > 0, Spaced(n, i, d), d + i <= e
               PROVE  n * i <= e
    BY SMT DEF Spaced
  <2>1. n * i = (n - 1) * i + i /\ (n - 1) * i \in Int
    BY SMT
  <2>2. (n - 1) * i <= d
    BY DEF Spaced
  <2> QED
    BY <2>1, <2>2, SMT
<1>4. \A i \in Nat, d \in Int : Spaced(0, i, d)
  BY SMT DEF Spaced
<1>5. \A i, d \in Nat : Spaced(1, i, d)
  BY SMT DEF Spaced
<1> QED
  BY <1>2, <1>3, <1>4, <1>5

\* The callers that wait can be counted.
LEMMA WaitingIsFinite ==
  ASSUME NEW l \in Lanes, NEW t \in Nat
  PROVE  /\ IsFiniteSet(Waiting(l)) /\ Cardinality(Waiting(l)) \in Nat
         /\ IsFiniteSet(Due(l, t)) /\ Cardinality(Due(l, t)) \in Nat
         /\ Cardinality(Due(l, t)) <= Cardinality(Waiting(l))
<1>1. Waiting(l) \subseteq Callers /\ Due(l, t) \subseteq Waiting(l)
  BY Zenon DEF Waiting, Due
<1>2. IsFiniteSet(Callers)
  BY ExternalAssumption, Zenon
<1>3. IsFiniteSet(Waiting(l))
  BY <1>1, <1>2, FS_Subset
<1> QED
  BY <1>1, <1>3, FS_Subset, FS_CardinalityType

\* Who waits, and for what, is as it was.
StillWaiting ==
  \A d \in Callers : /\ caller'[d].at = "wait" <=> caller[d].at = "wait"
                     /\ caller[d].at = "wait" => caller'[d] = caller[d]

\* Nothing is given and nothing is sent: the lanes stay paced while time goes on.
LEMMA QuietLanes ==
  ASSUME OutTypes, LanesPaced, StillWaiting, UNCHANGED <<lastSlot, pace>>,
         clock' \in Nat, clock' >= clock
  PROVE  LanesPaced'
<1> SUFFICES ASSUME NEW l \in Lanes
             PROVE  GivenPaced(l)' /\ DuePaced(l)'
  BY Zenon DEF LanesPaced
<1>1. Waiting(l)' = Waiting(l) /\ \A c \in Waiting(l) : caller'[c] = caller[c]
  BY SMT DEF Waiting, StillWaiting
<1>2. \A t : Due(l, t)' = Due(l, t)
  BY <1>1, SMT DEF Due
<1>3. Given(l)' = Given(l)
  BY <1>1, Zenon DEF Given
<1>4. GivenPaced(l)'
  BY <1>1, <1>3, Zenon DEF GivenPaced, LanesPaced
<1>5. \A t \in Nat : t >= clock' => t >= clock
  BY SMT DEF OutTypes
<1>6. DuePaced(l)'
  BY <1>2, <1>5, Zenon DEF DuePaced, LanesPaced
<1> QED
  BY <1>4, <1>6

\* _acquire_slot gives a time of its own, an interval after the last one.
LEMMA AcquireKeepsLanes ==
  ASSUME OutTypes, LanesPaced, NEW c \in Callers, AcquireEffect(c), caller'[c].at = "wait"
  PROVE  LanesPaced'
<1> SUFFICES ASSUME NEW l \in Lanes
             PROVE  GivenPaced(l)' /\ DuePaced(l)'
  BY Zenon DEF LanesPaced
<1>0. /\ caller[c].at = "slot" /\ caller'[c].lane = caller[c].lane /\ caller[c].lane \in Lanes
      /\ caller'[c].slot = Scheduled(caller[c].lane)
      /\ lastSlot' = [lastSlot EXCEPT ![caller[c].lane] = Scheduled(caller[c].lane)]
      /\ pace' = IF lastSlot[caller[c].lane] < 0
                 THEN [pace EXCEPT ![caller[c].lane].first = Scheduled(caller[c].lane)]
                 ELSE pace
      /\ \A d \in Callers \ {c} : caller'[d] = caller[d]
      /\ clock' = clock
  <2>1. caller[c].at = "slot" /\ caller[c].lane \in Lanes
    BY SMT DEF AcquireEffect, OutTypes, OnLane
  <2>2. "wait" # "idle" /\ "wait" # "record"
    OBVIOUS
  <2> QED
    BY <2>1, <2>2, Zenon DEF AcquireEffect, Others
<1>a. GivenPaced(l) /\ DuePaced(l)
  BY Zenon DEF LanesPaced
<1>1. CASE l # caller[c].lane
  <2>1. lastSlot'[l] = lastSlot[l] /\ pace'[l] = pace[l]
    BY <1>0, <1>1, SMT DEF OutTypes
  <2>2. Waiting(l)' = Waiting(l) /\ \A d \in Waiting(l) : caller'[d] = caller[d]
    BY <1>0, <1>1, SMT DEF Waiting
  <2>3. \A t : Due(l, t)' = Due(l, t)
    BY <2>2, SMT DEF Due
  <2>4. Given(l)' = Given(l)
    BY <2>1, <2>2, Zenon DEF Given
  <2>5. GivenPaced(l)'
    BY <2>1, <2>2, <2>4, <1>a, Zenon DEF GivenPaced
  <2>6. DuePaced(l)'
    BY <2>1, <2>3, <1>0, <1>a, Zenon DEF DuePaced
  <2> QED
    BY <2>5, <2>6
<1>2. CASE l = caller[c].lane
  <2> DEFINE s == Scheduled(l)
             first == pace[l].first
             n == Given(l)
             i == Interval[l]
             next == IF lastSlot[l] < 0 THEN s ELSE first
  <2>1. s \in Nat /\ s >= clock /\ s >= lastSlot[l] + i /\ i \in Nat /\ i > 0
    BY ScheduledIs, OutNumbers
  <2>2. lastSlot[l] \in Int /\ first \in Nat /\ pace[l].sent \in Nat /\ clock \in Nat
    BY SMT DEF OutTypes
  <2>3. lastSlot'[l] = s
    BY <1>0, <1>2, SMT DEF OutTypes
  <2>4. pace'[l].first = next /\ pace'[l].sent = pace[l].sent
    <3>1. CASE lastSlot[l] < 0
      <4>1. pace' = [pace EXCEPT ![l].first = s]
        BY <1>0, <1>2, <3>1, Zenon
      <4>2. s \in Nat
        BY <2>1
      <4> HIDE DEF s
      <4>3. pace'[l] = [pace[l] EXCEPT !.first = s]
        BY <4>1, Zenon DEF OutTypes
      <4>4. pace[l] \in [first : Nat, sent : Nat]
        BY SMT DEF OutTypes
      <4>5. pace'[l].first = s /\ pace'[l].sent = pace[l].sent
        BY <4>3, <4>4, SMT
      <4> QED
        BY <4>5, <3>1
    <3>2. CASE ~(lastSlot[l] < 0)
      BY <1>0, <1>2, <3>2, Zenon
    <3> QED
      BY <3>1, <3>2
  <2>5. c \notin Waiting(l) /\ Waiting(l)' = Waiting(l) \cup {c}
    BY <1>0, <1>2, SMT DEF Waiting
  <2>6. \A d \in Waiting(l) : d # c /\ caller'[d] = caller[d]
    BY <1>0, <2>5, SMT DEF Waiting
  <2>7. Cardinality(Waiting(l)') = Cardinality(Waiting(l)) + 1 /\ Cardinality(Waiting(l)) \in Nat
    BY <2>5, WaitingIsFinite, FS_AddElement
  <2>8. Given(l)' = n + 1 /\ n \in Nat
    BY <2>2, <2>4, <2>7, SMT DEF Given
  <2>9. /\ n = 0 => lastSlot[l] < 0
        /\ n > 0 => lastSlot[l] >= 0
        /\ Spaced(n, i, lastSlot[l] - first)
        /\ \A d \in Waiting(l) : caller[d].slot <= lastSlot[l]
    BY <1>a, Zenon DEF GivenPaced
  <2>10. next \in Nat
    BY <2>1, <2>2, SMT
  <2>11. Spaced(n + 1, i, s - next)
    <3>1. CASE n = 0
      <4>1. s - next = 0
        BY <2>1, <2>9, <3>1, SMT
      <4>2. Spaced(1, i, 0)
        BY <2>1, SpacedFacts
      <4>3. n + 1 = 1
        BY <3>1
      <4> QED
        BY <4>1, <4>2, <4>3
    <3>2. CASE n > 0
      <4>1. next = first
        BY <2>2, <2>9, <3>2, SMT
      <4>2. (lastSlot[l] - first) + i <= s - next /\ lastSlot[l] - first \in Int /\ s - next \in Int
        BY <2>1, <2>2, <4>1, SMT
      <4> QED
        BY <2>1, <2>8, <2>9, <3>2, <4>2, SpacedFacts
    <3> QED
      BY <2>8, <3>1, <3>2, SMT
  <2>12. \A d \in Waiting(l)' : caller'[d].slot <= s
    <3>1. ASSUME NEW d \in Waiting(l)
          PROVE  caller'[d].slot <= s
      <4>1. caller[d].slot \in Nat /\ caller[d].slot <= lastSlot[l]
        BY <2>9, SMT DEF OutTypes, CallerType, Waiting
      <4> QED
        BY <4>1, <2>1, <2>2, <2>6, SMT
    <3>2. caller'[c].slot <= s
      BY <1>0, <1>2, <2>1, SMT
    <3> QED
      BY <3>1, <3>2, <2>5
  <2>13. GivenPaced(l)'
    <3>1. n + 1 # 0 /\ s >= 0
      BY <2>1, <2>8, SMT
    <3> HIDE DEF s, n, i, next
    <3> QED
      BY <3>1, <2>3, <2>4, <2>8, <2>11, <2>12, Zenon DEF GivenPaced, i
  <2>14. ASSUME NEW t \in Nat, t >= clock
         PROVE  Spaced(pace[l].sent + Cardinality(Due(l, t)'), i, t - next)
    <3>1. Spaced(pace[l].sent + Cardinality(Due(l, t)), i, t - first)
      BY <2>14, <1>a, Zenon DEF DuePaced
    <3>2. /\ IsFiniteSet(Due(l, t)) /\ Cardinality(Due(l, t)) \in Nat
          /\ Cardinality(Due(l, t)) <= Cardinality(Waiting(l))
      BY WaitingIsFinite
    <3>3. CASE t < s
      <4>1. Due(l, t)' = Due(l, t)
        BY <1>0, <1>2, <2>1, <2>5, <2>6, <3>3, SMT DEF Due
      <4>2. CASE lastSlot[l] < 0
        <5>1. pace[l].sent + Cardinality(Due(l, t)) = 0
          BY <2>2, <2>7, <2>8, <2>9, <3>2, <4>2, SMT DEF Given
        <5> QED
          BY <4>1, <5>1, <2>1, <2>10, SpacedFacts
      <4>3. CASE ~(lastSlot[l] < 0)
        BY <3>1, <4>1, <4>3
      <4> QED
        BY <4>2, <4>3
    <3>4. CASE t >= s
      <4>1. /\ Cardinality(Due(l, t)') \in Nat
            /\ Cardinality(Due(l, t)') <= Cardinality(Waiting(l)')
        <5>1. Due(l, t)' \subseteq Waiting(l)'
          BY Zenon DEF Due
        <5>2. IsFiniteSet(Waiting(l)')
          BY <2>5, WaitingIsFinite, FS_AddElement
        <5> QED
          BY <5>1, <5>2, FS_Subset, FS_CardinalityType
      <4>2. /\ pace[l].sent + Cardinality(Due(l, t)') <= n + 1
            /\ pace[l].sent + Cardinality(Due(l, t)') \in Nat
        BY <4>1, <2>2, <2>7, SMT DEF Given
      <4>3. s - next \in Int /\ t - next \in Int /\ s - next <= t - next /\ n + 1 \in Nat
        BY <2>1, <2>8, <2>10, <3>4, SMT
      <4> HIDE DEF n, next, s, i
      <4> QED
        BY <4>2, <4>3, <2>1, <2>11, SpacedFacts
    <3> QED
      BY <2>1, <3>3, <3>4, SMT
  <2>15. DuePaced(l)'
    <3> HIDE DEF next, i
    <3> QED
      BY <2>4, <2>14, <1>0, Zenon DEF DuePaced, i
  <2> QED
    BY <2>13, <2>15
<1> QED
  BY <1>1, <1>2

\* A call that is sent was due.
LEMMA SendKeepsLanes ==
  ASSUME OutTypes, LanesPaced, NEW c \in Callers, SendEffect(c)
  PROVE  LanesPaced'
<1> SUFFICES ASSUME NEW l \in Lanes
             PROVE  GivenPaced(l)' /\ DuePaced(l)'
  BY Zenon DEF LanesPaced
<1>0. /\ caller[c].at = "wait" /\ caller[c].slot <= clock /\ caller'[c].at = "asked"
      /\ caller[c].lane \in Lanes
      /\ pace' = [pace EXCEPT ![caller[c].lane].sent = @ + 1]
      /\ \A d \in Callers \ {c} : caller'[d] = caller[d]
      /\ clock' = clock /\ lastSlot' = lastSlot
  <2>1. caller[c].at = "wait" /\ caller[c].lane \in Lanes
    BY SMT DEF SendEffect, OutTypes, OnLane
  <2> QED
    BY <2>1, Zenon DEF SendEffect, Others
<1>a. GivenPaced(l) /\ DuePaced(l)
  BY Zenon DEF LanesPaced
<1>1. CASE l # caller[c].lane
  <2>1. pace'[l] = pace[l]
    BY <1>0, <1>1, SMT DEF OutTypes
  <2>2. Waiting(l)' = Waiting(l) /\ \A d \in Waiting(l) : caller'[d] = caller[d]
    BY <1>0, <1>1, SMT DEF Waiting
  <2>3. \A t : Due(l, t)' = Due(l, t)
    BY <2>2, SMT DEF Due
  <2>4. Given(l)' = Given(l)
    BY <2>1, <2>2, Zenon DEF Given
  <2>5. GivenPaced(l)'
    BY <1>0, <2>1, <2>2, <2>4, <1>a, Zenon DEF GivenPaced
  <2>6. DuePaced(l)'
    BY <2>1, <2>3, <1>0, <1>a, Zenon DEF DuePaced
  <2> QED
    BY <2>5, <2>6
<1>2. CASE l = caller[c].lane
  <2>1. pace'[l].first = pace[l].first /\ pace'[l].sent = pace[l].sent + 1
    <3>1. pace'[l] = [pace[l] EXCEPT !.sent = @ + 1]
      BY <1>0, <1>2, Zenon DEF OutTypes
    <3>2. pace[l] \in [first : Nat, sent : Nat]
      BY SMT DEF OutTypes
    <3> QED
      BY <3>1, <3>2, SMT
  <2>2. c \in Waiting(l) /\ Waiting(l)' = Waiting(l) \ {c}
    BY <1>0, <1>2, SMT DEF Waiting
  <2>3. \A d \in Waiting(l)' : caller'[d] = caller[d]
    BY <1>0, <2>2, SMT DEF Waiting
  <2>4. \A t \in Nat : t >= clock => c \in Due(l, t) /\ Due(l, t)' = Due(l, t) \ {c}
    <3> SUFFICES ASSUME NEW t \in Nat, t >= clock
                 PROVE  c \in Due(l, t) /\ Due(l, t)' = Due(l, t) \ {c}
      OBVIOUS
    <3>1. caller[c].slot <= t
      <4>1. caller[c].slot \in Nat /\ clock \in Nat
        BY SMT DEF OutTypes, CallerType
      <4> QED
        BY <4>1, <1>0, SMT
    <3> QED
      BY <2>2, <2>3, <3>1, SMT DEF Due
  <2>5. pace[l].sent \in Nat
    BY SMT DEF OutTypes
  <2>6. Cardinality(Waiting(l)') = Cardinality(Waiting(l)) - 1 /\ Cardinality(Waiting(l)) \in Nat
    <3>1. 0 \in Nat
      OBVIOUS
    <3> QED
      BY <2>2, <3>1, WaitingIsFinite, FS_RemoveElement
  <2>7. Given(l)' = Given(l)
    BY <2>1, <2>5, <2>6, SMT DEF Given
  <2>8. GivenPaced(l)'
    BY <1>0, <2>1, <2>2, <2>3, <2>7, <1>a, Zenon DEF GivenPaced
  <2>9. ASSUME NEW t \in Nat, t >= clock
        PROVE  pace'[l].sent + Cardinality(Due(l, t)') = pace[l].sent + Cardinality(Due(l, t))
    <3>1. /\ Cardinality(Due(l, t)') = Cardinality(Due(l, t)) - 1
          /\ Cardinality(Due(l, t)) \in Nat
      BY <2>4, <2>9, WaitingIsFinite, FS_RemoveElement
    <3> QED
      BY <3>1, <2>1, <2>5, SMT
  <2>10. DuePaced(l)'
    BY <2>1, <2>9, <1>0, <1>a, Zenon DEF DuePaced
  <2> QED
    BY <2>8, <2>10
<1> QED
  BY <1>1, <1>2

(* The outage. *)

\* The sets that the books count are finite, and a call past the breaker has Attempts
\* attempts to use.
LEMMA UsedIsFinite ==
  ASSUME OutTypes
  PROVE  /\ IsFiniteSet(Used) /\ Cardinality(Used) \in Nat
         /\ Cardinality(Used) <= Attempts * Cardinality(PastBreaker)
<1>1. Used \subseteq PastBreaker \X (1 .. Attempts)
  <2> SUFFICES ASSUME NEW p \in Used
               PROVE  p \in PastBreaker \X (1 .. Attempts)
    OBVIOUS
  <2>1. p \in Callers \X (1 .. Attempts) /\ UsedUp(p[1], p[2])
    BY Zenon DEF Used
  <2>2. p[1] \in PastBreaker
    BY <2>1, SMT DEF UsedUp, PastBreaker
  <2> QED
    BY <2>1, <2>2
<1>2. IsFiniteSet(1 .. Attempts) /\ Cardinality(1 .. Attempts) = Attempts
  BY FS_Interval, OutNumbers, SMT
<1>3. IsFiniteSet(PastBreaker) /\ Cardinality(PastBreaker) \in Nat
  BY SpareIsNat
<1>4. /\ IsFiniteSet(PastBreaker \X (1 .. Attempts))
      /\ Cardinality(PastBreaker \X (1 .. Attempts)) = Cardinality(PastBreaker) * Attempts
  BY <1>2, <1>3, FS_Product
<1>5. Cardinality(PastBreaker) * Attempts = Attempts * Cardinality(PastBreaker)
  BY <1>3, OutNumbers, SMT
<1> QED
  BY <1>1, <1>4, <1>5, FS_Subset, FS_CardinalityType

\* What a step of c uses up, or makes available, is of c.
LEMMA UsedOfOthers ==
  ASSUME NEW c \in Callers, Others(c), NEW d \in Callers \ {c}, NEW k
  PROVE  UsedUp(d, k)' <=> UsedUp(d, k)
  BY Zenon DEF UsedUp, Failing, Others

\* Who else is past the breaker, or has an answer, is as it was.
LEMMA PastOthers ==
  ASSUME NEW c \in Callers, Others(c), NEW d \in Callers \ {c}
  PROVE  /\ d \in PastBreaker' <=> d \in PastBreaker
         /\ d \in Assured' <=> d \in Assured
  BY Zenon DEF PastBreaker, Failing, Assured, Others

\* c does not give back what it has used.
LEMMA UsedStays ==
  ASSUME OutTypes, OutTypes', NEW c \in Callers, Others(c),
         \A k \in 1 .. Attempts : UsedUp(c, k) => UsedUp(c, k)'
  PROVE  Cardinality(Used) <= Cardinality(Used')
<1>1. Used \subseteq Used'
  <2> SUFFICES ASSUME NEW p \in Used
               PROVE  p \in Used'
    OBVIOUS
  <2>1. p \in Callers \X (1 .. Attempts) /\ UsedUp(p[1], p[2])
    BY Zenon DEF Used
  <2>2. PICK d \in Callers, k \in 1 .. Attempts : p = <<d, k>>
    BY <2>1
  <2>3. UsedUp(d, k)
    BY <2>1, <2>2
  <2>4. UsedUp(d, k)'
    BY <2>3, UsedOfOthers
  <2>5. UsedUp(p[1], p[2])'
    BY <2>4, <2>2
  <2> QED
    BY <2>1, <2>5, Zenon DEF Used
<1>2. IsFiniteSet(Used')
  <2>1. (OutTypes => IsFiniteSet(Used))'
    BY UsedIsFinite, PTL
  <2> QED
    BY <2>1
<1> QED
  BY <1>1, <1>2, FS_Subset

\* Nothing of what is counted changes for the worse: the books balance as they did.
LEMMA QuietBooks ==
  ASSUME OutTypes, OutTypes', OutageBooked, NEW c \in Callers, Others(c),
         \A k \in 1 .. Attempts : UsedUp(c, k) => UsedUp(c, k)',
         c \in PastBreaker' => c \in PastBreaker \/ clock >= openUntil,
         c \in Assured' => c \in Assured \/ healthy,
         UNCHANGED <<clock, healthy, streak, openUntil, outage>>
  PROVE  OutageBooked'
<1>1. CASE healthy
  BY <1>1, Zenon DEF OutageBooked
<1>2. CASE ~healthy
  <2>1. PICK r \in Nat, o \in Nat : Books(r, o)
    BY <1>2, Zenon DEF OutageBooked
  <2>2. Cardinality(Used) <= Cardinality(Used')
    BY UsedStays
  <2>3. /\ Cardinality(Used) \in Nat /\ Cardinality(PastBreaker) \in Nat
        /\ Cardinality(Assured) \in Nat /\ IsFiniteSet(PastBreaker) /\ IsFiniteSet(Assured)
    BY UsedIsFinite, SpareIsNat
  <2>4. /\ Cardinality(Used') \in Nat /\ Cardinality(PastBreaker') \in Nat
        /\ Cardinality(Assured') \in Nat
    <3>1. (OutTypes => /\ Cardinality(Used) \in Nat /\ Cardinality(PastBreaker) \in Nat
                       /\ Cardinality(Assured) \in Nat)'
      BY UsedIsFinite, SpareIsNat, PTL
    <3> QED
      BY <3>1
  <2>5. Assured' \subseteq Assured
    BY <1>2, PastOthers, Zenon DEF Assured
  <2>6. Cardinality(Assured') <= Cardinality(Assured)
    BY <2>3, <2>5, FS_Subset
  <2>7. Soothing' <= Soothing /\ Soothing \in Nat /\ Soothing' \in Nat
    <3>1. \A t, m, n \in Nat : t > 0 /\ m <= n =>
             (t - 1) * m <= (t - 1) * n /\ (t - 1) * m \in Nat /\ (t - 1) * n \in Nat
      BY SMT
    <3> QED
      BY <2>3, <2>4, <2>6, <3>1, OutNumbers DEF Soothing
  <2>8. clock < openUntil => Cardinality(PastBreaker') <= Cardinality(PastBreaker)
    <3> SUFFICES ASSUME clock < openUntil
                 PROVE  Cardinality(PastBreaker') <= Cardinality(PastBreaker)
      OBVIOUS
    <3>1. ~(clock >= openUntil)
      BY SMT DEF OutTypes
    <3>2. PastBreaker' \subseteq PastBreaker
      BY <3>1, PastOthers, Zenon DEF PastBreaker
    <3> QED
      BY <2>3, <3>2, FS_Subset
  <2>9. Tallied' = Tallied
    BY Zenon DEF Tallied
  <2> DEFINE a == Attempts * r
             b == o * Reserve
  <2>10. a \in Int /\ b \in Int /\ Tallied \in Int
    BY OutNumbers, SpareIsNat, SMT DEF Reserve, Tallied, OutTypes
  <2>11. /\ outage.sent <= a + Cardinality(Used)
         /\ o > 0 => outage.since + o * OpenFor <= openUntil
         /\ clock < openUntil => r + Cardinality(PastBreaker) + Soothing <= b + outage.spare
         /\ clock >= openUntil => r + Soothing <= b + Tallied + outage.spare
    BY <2>1, Zenon DEF Books
  <2> HIDE DEF a, b
  <2>12. outage.sent \in Nat /\ outage.spare \in Nat
    BY SMT DEF OutTypes
  <2>13. /\ outage.sent <= a + Cardinality(Used')
         /\ clock < openUntil => r + Cardinality(PastBreaker') + Soothing' <= b + outage.spare
         /\ clock >= openUntil => r + Soothing' <= b + Tallied + outage.spare
    BY <2>2, <2>3, <2>4, <2>7, <2>8, <2>10, <2>11, <2>12, SMT
  <2>14. Books(r, o)'
    BY <2>9, <2>11, <2>13, Zenon DEF Books, a, b, Reserve
  <2> QED
    BY <2>14, Zenon DEF OutageBooked
<1> QED
  BY <1>1, <1>2

\* A call that is sent uses up an attempt.
LEMMA SendKeepsBooks ==
  ASSUME OutTypes, OutTypes', OutageBooked, NEW c \in Callers, SendEffect(c)
  PROVE  OutageBooked'
<1>0. /\ caller[c].at = "wait" /\ caller'[c].at = "asked"
      /\ caller'[c].attempt = caller[c].attempt /\ caller[c].attempt \in 1 .. Attempts
      /\ outage' = [outage EXCEPT !.sent = IF healthy THEN 0 ELSE @ + 1]
      /\ Others(c) /\ UNCHANGED <<clock, healthy, streak, openUntil>>
  <2>1. caller[c].at = "wait" /\ caller[c].attempt \in 1 .. Attempts
    BY SMT DEF SendEffect, OutTypes, OnLane
  <2> QED
    BY <2>1, Zenon DEF SendEffect
<1>1. CASE healthy
  BY <1>0, <1>1, Zenon DEF OutageBooked
<1>2. CASE ~healthy
  <2> DEFINE k == caller[c].attempt
  <2>1. /\ outage'.sent = outage.sent + 1 /\ outage'.since = outage.since
        /\ outage'.spare = outage.spare /\ outage.sent \in Nat
    BY <1>0, <1>2, SMT DEF OutTypes
  <2>2. \A j \in 1 .. Attempts : UsedUp(c, j)' <=> UsedUp(c, j) \/ j = k
    BY <1>0, SMT DEF UsedUp, Failing
  <2>3. ~UsedUp(c, k)
    BY <1>0, SMT DEF UsedUp, Failing
  <2>4. Used' = Used \cup {<<c, k>>}
    <3>1. ASSUME NEW d \in Callers, NEW j \in 1 .. Attempts
          PROVE  <<d, j>> \in Used' <=> <<d, j>> \in Used \/ <<d, j>> = <<c, k>>
      <4>1. <<d, j>> \in Used <=> UsedUp(d, j)
        BY SMT DEF Used
      <4>2. <<d, j>> \in Used' <=> UsedUp(d, j)'
        BY SMT DEF Used
      <4>3. CASE d = c
        BY <4>1, <4>2, <4>3, <2>2, SMT
      <4>4. CASE d # c
        BY <4>1, <4>2, <4>4, <1>0, UsedOfOthers, Zenon
      <4> QED
        BY <4>3, <4>4
    <3>2. Used \subseteq Callers \X (1 .. Attempts) /\ Used' \subseteq Callers \X (1 .. Attempts)
      BY Zenon DEF Used
    <3>3. ASSUME NEW p \in Callers \X (1 .. Attempts)
          PROVE  p \in Used' <=> p \in Used \/ p = <<c, k>>
      <4>1. PICK d \in Callers, j \in 1 .. Attempts : p = <<d, j>>
        OBVIOUS
      <4> QED
        BY <3>1, <4>1
    <3>4. <<c, k>> \in Callers \X (1 .. Attempts)
      BY <1>0
    <3> HIDE DEF k
    <3> QED
      BY <3>2, <3>3, <3>4, Zenon
  <2>5. <<c, k>> \notin Used
    BY <2>3, SMT DEF Used
  <2>6. Cardinality(Used') = Cardinality(Used) + 1 /\ Cardinality(Used) \in Nat
    BY <2>4, <2>5, UsedIsFinite, FS_AddElement
  <2>7. PastBreaker' = PastBreaker /\ Assured' = Assured
    <3>1. c \in PastBreaker /\ c \in PastBreaker' /\ c \notin Assured /\ c \notin Assured'
      BY <1>0, SMT DEF PastBreaker, Assured
    <3>2. /\ PastBreaker \subseteq Callers /\ PastBreaker' \subseteq Callers
          /\ Assured \subseteq Callers /\ Assured' \subseteq Callers
      BY Zenon DEF PastBreaker, Assured
    <3>3. ASSUME NEW d \in Callers \ {c}
          PROVE  /\ d \in PastBreaker' <=> d \in PastBreaker
                 /\ d \in Assured' <=> d \in Assured
      BY <1>0, PastOthers
    <3> QED
      BY <3>1, <3>2, <3>3, SMT
  <2>8. PICK r \in Nat, o \in Nat : Books(r, o)
    BY <1>2, Zenon DEF OutageBooked
  <2>9. outage'.sent <= Attempts * r + Cardinality(Used')
    <3>1. outage.sent <= Attempts * r + Cardinality(Used) /\ Attempts * r \in Int
      BY <2>8, OutNumbers, SMT DEF Books
    <3> QED
      BY <3>1, <2>1, <2>6, SMT
  <2>10. Books(r, o)'
    BY <2>1, <2>7, <2>8, <2>9, <1>0, Zenon DEF Books, Soothing, Tallied, Reserve
  <2> QED
    BY <2>1, <2>10, <1>0, <1>2, Zenon DEF OutageBooked
<1> QED
  BY <1>1, <1>2

\* The steps that neither send nor record.
LEMMA OtherStepsKeepBooks ==
  ASSUME OutTypes, OutTypes', OutageBooked, NEW c \in Callers,
         \/ \E l \in Lanes : LookEffect(c, l)
         \/ CheckEffect(c) \/ AcquireEffect(c) \/ AnswerEffect(c) \/ StoreEffect(c)
  PROVE  OutageBooked'
<1>1. CASE \E l \in Lanes : LookEffect(c, l)
  <2>1. PICK l \in Lanes : LookEffect(c, l)
    BY <1>1
  <2>2. /\ \A k \in 1 .. Attempts : UsedUp(c, k) => UsedUp(c, k)'
        /\ c \notin PastBreaker' /\ c \notin Assured'
    BY <2>1, SMT DEF LookEffect, UsedUp, Failing, PastBreaker, Assured
  <2> QED
    BY <2>1, <2>2, QuietBooks, Zenon DEF LookEffect
<1>2. CASE CheckEffect(c)
  <2>2. /\ \A k \in 1 .. Attempts : UsedUp(c, k) => UsedUp(c, k)'
        /\ c \in PastBreaker' => clock >= openUntil
        /\ c \notin Assured'
    BY <1>2, SMT DEF CheckEffect, UsedUp, Failing, PastBreaker, Assured
  <2> QED
    BY <1>2, <2>2, QuietBooks, Zenon DEF CheckEffect
<1>3. CASE AcquireEffect(c)
  <2>2. /\ \A k \in 1 .. Attempts : UsedUp(c, k) => UsedUp(c, k)'
        /\ c \in PastBreaker /\ c \notin Assured'
    BY <1>3, SMT DEF AcquireEffect, UsedUp, Failing, PastBreaker, Assured
  <2> QED
    BY <1>3, <2>2, QuietBooks, Zenon DEF AcquireEffect
<1>4. CASE AnswerEffect(c)
  <2>1. CASE healthy
    BY <1>4, <2>1, Zenon DEF AnswerEffect, OutageBooked
  <2>2. CASE ~healthy
    <3>1. /\ \A k \in 1 .. Attempts : UsedUp(c, k) => UsedUp(c, k)'
          /\ c \in PastBreaker /\ c \notin Assured'
      <4>1. caller[c].attempt \in 1 .. Attempts
        BY <1>4, SMT DEF AnswerEffect, OutTypes, OnLane
      <4> QED
        BY <1>4, <2>2, <4>1, SMT DEF AnswerEffect, UsedUp, Failing, PastBreaker, Assured
    <3> QED
      BY <1>4, <3>1, QuietBooks, Zenon DEF AnswerEffect
  <2> QED
    BY <2>1, <2>2
<1>5. CASE StoreEffect(c)
  <2>2. /\ \A k \in 1 .. Attempts : UsedUp(c, k) => UsedUp(c, k)'
        /\ c \notin PastBreaker' /\ c \notin Assured'
    BY <1>5, SMT DEF StoreEffect, UsedUp, Failing, PastBreaker, Assured
  <2> QED
    BY <1>5, <2>2, QuietBooks, Zenon DEF StoreEffect
<1> QED
  BY <1>1, <1>2, <1>3, <1>4, <1>5

\* An answer that was taken makes the breaker count anew: it was in the books.
LEMMA SuccessKeepsBooks ==
  ASSUME OutTypes, OutTypes', OutageBooked, NEW c \in Callers, RecordEffect(c),
         caller[c].got # "failure", ~healthy
  PROVE  OutageBooked'
<1>0. /\ caller[c].at = "record" /\ caller'[c].at = "store" /\ Others(c)
      /\ UNCHANGED <<clock, healthy, outage, openUntil>> /\ streak' = 0
  BY Zenon DEF RecordEffect
<1>1. PastBreaker' = PastBreaker /\ c \in Assured /\ Assured' = Assured \ {c}
  <2>1. c \notin PastBreaker /\ c \notin PastBreaker' /\ c \in Assured /\ c \notin Assured'
    BY <1>0, SMT DEF PastBreaker, Assured, Failing
  <2>2. /\ PastBreaker \subseteq Callers /\ PastBreaker' \subseteq Callers
        /\ Assured \subseteq Callers /\ Assured' \subseteq Callers
    BY Zenon DEF PastBreaker, Assured
  <2>3. ASSUME NEW d \in Callers \ {c}
        PROVE  /\ d \in PastBreaker' <=> d \in PastBreaker
               /\ d \in Assured' <=> d \in Assured
    BY <1>0, PastOthers
  <2> QED
    BY <2>1, <2>2, <2>3, SMT
<1>2. \A k \in 1 .. Attempts : UsedUp(c, k) => UsedUp(c, k)'
  BY <1>0, SMT DEF UsedUp, Failing
<1>3. Cardinality(Used) <= Cardinality(Used')
  BY <1>0, <1>2, UsedStays
<1>4. /\ Cardinality(Used) \in Nat /\ Cardinality(PastBreaker) \in Nat
      /\ Cardinality(Assured) \in Nat /\ IsFiniteSet(Assured) /\ Soothing \in Nat
  BY UsedIsFinite, SpareIsNat DEF Soothing
<1>5. Cardinality(Used') \in Nat
  <2>1. (OutTypes => Cardinality(Used) \in Nat)'
    BY UsedIsFinite, PTL
  <2> QED
    BY <2>1
<1>6. Cardinality(Assured') = Cardinality(Assured) - 1
  BY <1>1, <1>4, FS_RemoveElement
<1>7. Soothing' = Soothing - (Threshold - 1)
  <2>1. \A t, n \in Nat : (t - 1) * (n - 1) = (t - 1) * n - (t - 1)
    BY SMT
  <2>2. Threshold \in Nat
    BY OutNumbers
  <2> QED
    BY <1>4, <1>6, <2>1, <2>2 DEF Soothing
<1>8. PICK r \in Nat, o \in Nat : Books(r, o)
  BY Zenon DEF OutageBooked
<1>9. Tallied' = 0 /\ Tallied <= Threshold - 1 /\ Tallied \in Nat
  BY <1>0, OutNumbers, SMT DEF Tallied, OutTypes
<1> DEFINE a == Attempts * r
           b == o * Reserve
<1>10. a \in Int /\ b \in Int
  BY OutNumbers, SpareIsNat, SMT DEF Reserve
<1>11. /\ outage.sent <= a + Cardinality(Used)
       /\ o > 0 => outage.since + o * OpenFor <= openUntil
       /\ clock < openUntil => r + Cardinality(PastBreaker) + Soothing <= b + outage.spare
       /\ clock >= openUntil => r + Soothing <= b + Tallied + outage.spare
  BY <1>8, Zenon DEF Books
<1>12. outage.sent \in Nat /\ outage.spare \in Nat
  BY SMT DEF OutTypes
<1> HIDE DEF a, b
<1>13. /\ outage.sent <= a + Cardinality(Used')
       /\ clock < openUntil => r + Cardinality(PastBreaker) + Soothing' <= b + outage.spare
       /\ clock >= openUntil => r + Soothing' <= b + Tallied' + outage.spare
  BY <1>3, <1>4, <1>5, <1>7, <1>9, <1>10, <1>11, <1>12, OutNumbers, SMT
<1>14. Books(r, o)'
  BY <1>0, <1>1, <1>11, <1>13, Zenon DEF Books, a, b, Reserve
<1> QED
  BY <1>0, <1>14, Zenon DEF OutageBooked

\* A failure is recorded: the breaker counts it, opens for it, or is open already.
LEMMA FailureKeepsBooks ==
  ASSUME OutTypes, OutTypes', OutageBooked, NEW c \in Callers, RecordEffect(c),
         caller[c].got = "failure", ~healthy
  PROVE  OutageBooked'
<1>0. /\ caller[c].at = "record" /\ caller'[c].at = "store" /\ Others(c)
      /\ UNCHANGED <<clock, healthy, outage>>
      /\ \/ /\ streak + 1 >= Threshold /\ clock >= openUntil
            /\ streak' = 0 /\ openUntil' = clock + OpenFor
         \/ /\ ~(streak + 1 >= Threshold /\ clock >= openUntil)
            /\ streak' = streak + 1 /\ UNCHANGED openUntil
  BY Zenon DEF RecordEffect
<1>1. Assured' = Assured /\ c \in PastBreaker /\ PastBreaker' = PastBreaker \ {c}
  <2>1. c \in PastBreaker /\ c \notin PastBreaker' /\ c \notin Assured /\ c \notin Assured'
    BY <1>0, SMT DEF PastBreaker, Assured, Failing
  <2>2. /\ PastBreaker \subseteq Callers /\ PastBreaker' \subseteq Callers
        /\ Assured \subseteq Callers /\ Assured' \subseteq Callers
    BY Zenon DEF PastBreaker, Assured
  <2>3. ASSUME NEW d \in Callers \ {c}
        PROVE  /\ d \in PastBreaker' <=> d \in PastBreaker
               /\ d \in Assured' <=> d \in Assured
    BY <1>0, PastOthers
  <2> QED
    BY <2>1, <2>2, <2>3, SMT
<1>2. /\ Cardinality(Used) \in Nat /\ Cardinality(PastBreaker) \in Nat
      /\ IsFiniteSet(PastBreaker) /\ Soothing \in Nat
      /\ Cardinality(PastBreaker) <= Cardinality(Callers) /\ Cardinality(Callers) \in Nat
  BY UsedIsFinite, SpareIsNat DEF Soothing
<1>3. Cardinality(PastBreaker') = Cardinality(PastBreaker) - 1
  BY <1>1, <1>2, FS_RemoveElement
<1>4. Cardinality(Used) <= Cardinality(Used') + Attempts /\ Cardinality(Used') \in Nat
  <2> DEFINE own == {c} \X (1 .. Attempts)
  <2>1. IsFiniteSet(own) /\ Cardinality(own) = Attempts
    <3>1. IsFiniteSet(1 .. Attempts) /\ Cardinality(1 .. Attempts) = Attempts
      BY FS_Interval, OutNumbers, SMT
    <3>2. IsFiniteSet({c}) /\ Cardinality({c}) = 1
      BY FS_Singleton
    <3>3. IsFiniteSet(own) /\ Cardinality(own) = 1 * Attempts
      BY <3>1, <3>2, FS_Product
    <3> QED
      BY <3>3, OutNumbers, SMT
  <2>2. IsFiniteSet(Used') /\ Cardinality(Used') \in Nat
    <3>1. (OutTypes => IsFiniteSet(Used) /\ Cardinality(Used) \in Nat)'
      BY UsedIsFinite, PTL
    <3> QED
      BY <3>1
  <2>3. Used \subseteq Used' \cup own
    <3> SUFFICES ASSUME NEW p \in Used
                 PROVE  p \in Used' \cup own
      OBVIOUS
    <3>1. PICK d \in Callers, k \in 1 .. Attempts : p = <<d, k>> /\ UsedUp(d, k)
      BY SMT DEF Used
    <3>2. CASE d = c
      BY <3>1, <3>2
    <3>3. CASE d # c
      <4>1. UsedUp(d, k)'
        BY <1>0, <3>1, <3>3, UsedOfOthers
      <4> QED
        BY <3>1, <4>1, SMT DEF Used
    <3> QED
      BY <3>2, <3>3
  <2>4. /\ IsFiniteSet(Used' \cup own)
        /\ Cardinality(Used' \cup own) = Cardinality(Used') + Attempts - Cardinality(Used' \cap own)
    BY <2>1, <2>2, FS_Union
  <2>5. Cardinality(Used' \cap own) \in Nat
    <3>1. IsFiniteSet(Used' \cap own)
      BY <2>1, FS_Intersection
    <3> QED
      BY <3>1, FS_CardinalityType
  <2>6. Cardinality(Used) <= Cardinality(Used' \cup own)
    BY <2>3, <2>4, FS_Subset
  <2> QED
    BY <1>2, <2>2, <2>4, <2>5, <2>6, OutNumbers, SMT
<1>5. PICK r \in Nat, o \in Nat : Books(r, o)
  BY Zenon DEF OutageBooked
<1> DEFINE a == Attempts * r
           b == o * Reserve
           open == o * OpenFor
<1>6. /\ a \in Int /\ b \in Int /\ open \in Nat
      /\ Attempts * (r + 1) = a + Attempts /\ (o + 1) * Reserve = b + Reserve
      /\ (o + 1) * OpenFor = open + OpenFor
      /\ Reserve = Threshold + Cardinality(Callers) - 1
  <2>1. \A x, n \in Int : /\ x * (n + 1) = x * n + x /\ (n + 1) * x = n * x + x
                         /\ x * n \in Int /\ n * x \in Int
    BY SMT
  <2>2. \A x, n \in Nat : n * x \in Nat
    BY SMT
  <2>3. /\ Reserve \in Int /\ Attempts \in Int /\ OpenFor \in Nat /\ OpenFor \in Int
        /\ r \in Int /\ o \in Int
    BY <1>2, OutNumbers, SMT DEF Reserve
  <2> QED
    BY <2>1, <2>2, <2>3 DEF Reserve
<1>7. /\ outage.sent <= a + Cardinality(Used)
      /\ o > 0 => outage.since + open <= openUntil
      /\ clock < openUntil => r + Cardinality(PastBreaker) + Soothing <= b + outage.spare
      /\ clock >= openUntil => r + Soothing <= b + Tallied + outage.spare
  BY <1>5, Zenon DEF Books
<1>8. /\ outage.sent \in Nat /\ outage.spare \in Nat /\ outage.since \in Nat
      /\ clock \in Nat /\ openUntil \in Nat /\ streak \in Nat
  BY SMT DEF OutTypes
<1>9. outage.since <= clock /\ openUntil <= clock + OpenFor
  BY Zenon DEF OutageBooked
<1>10. Soothing' = Soothing
  BY <1>1, Zenon DEF Soothing
<1>11. o = 0 => open = 0
  BY OutNumbers, SMT
<1>12. Tallied = IF streak < Threshold THEN streak ELSE Threshold - 1
  BY DEF Tallied
<1>13. Tallied' = IF streak' < Threshold THEN streak' ELSE Threshold - 1
  BY DEF Tallied
<1> HIDE DEF a, b, open
<1>14. outage.sent <= (a + Attempts) + Cardinality(Used')
  BY <1>2, <1>4, <1>6, <1>7, <1>8, OutNumbers, SMT
<1>15. CASE streak + 1 >= Threshold /\ clock >= openUntil
  <2>1. streak' = 0 /\ openUntil' = clock + OpenFor /\ clock' = clock
    BY <1>0, <1>15, Zenon
  <2>2. outage.since + (open + OpenFor) <= clock + OpenFor
    BY <1>6, <1>7, <1>8, <1>9, <1>11, <1>15, OutNumbers, SMT
  <2>3. (r + 1) + Cardinality(PastBreaker') + Soothing <= (b + Reserve) + outage.spare
    <3>1. r + Soothing <= b + Tallied + outage.spare /\ Tallied <= Threshold - 1 /\ Tallied \in Int
      BY <1>7, <1>8, <1>12, <1>15, OutNumbers, SMT
    <3> QED
      BY <3>1, <1>2, <1>3, <1>6, <1>8, OutNumbers, SMT
  <2>4. clock < clock + OpenFor /\ ~(clock >= clock + OpenFor)
    BY <1>8, OutNumbers, SMT
  <2>5. Books(r + 1, o + 1)'
    BY <1>0, <1>6, <1>10, <1>14, <2>1, <2>2, <2>3, <2>4, Zenon DEF Books, Reserve, a, b, open
  <2>6. r + 1 \in Nat /\ o + 1 \in Nat /\ openUntil' <= clock + OpenFor
    BY <2>1, <1>8, OutNumbers, SMT
  <2> QED
    BY <1>0, <1>9, <2>5, <2>6, Zenon DEF OutageBooked
<1>16. CASE ~(streak + 1 >= Threshold /\ clock >= openUntil)
  <2>1. streak' = streak + 1 /\ openUntil' = openUntil /\ clock' = clock
    BY <1>0, <1>16, Zenon
  <2>2. clock < openUntil =>
          (r + 1) + Cardinality(PastBreaker') + Soothing <= b + outage.spare
    BY <1>2, <1>3, <1>6, <1>7, <1>8, SMT
  <2>3. clock >= openUntil => (r + 1) + Soothing <= b + Tallied' + outage.spare
    BY <1>2, <1>6, <1>7, <1>8, <1>12, <1>13, <1>16, <2>1, OutNumbers, SMT
  <2>4. Books(r + 1, o)'
    BY <1>0, <1>6, <1>7, <1>10, <1>14, <2>1, <2>2, <2>3, Zenon DEF Books, Reserve, a, b, open
  <2>5. r + 1 \in Nat
    OBVIOUS
  <2> QED
    BY <1>0, <1>9, <2>1, <2>4, <2>5, Zenon DEF OutageBooked
<1> QED
  BY <1>15, <1>16

\* Time goes on, and may close the breaker: then the calls it had let past count no more.
LEMMA TickKeepsBooks ==
  ASSUME OutTypes, OutageBooked, ClockTicks
  PROVE  OutageBooked'
<1>0. clock' = clock + 1 /\ UNCHANGED <<healthy, streak, openUntil, caller, outage>>
  BY Zenon DEF ClockTicks
<1>1. clock \in Nat /\ openUntil \in Nat /\ outage.since \in Nat
  BY SMT DEF OutTypes
<1>2. openUntil <= clock + OpenFor /\ (~healthy => outage.since <= clock)
  BY Zenon DEF OutageBooked
<1>3. openUntil <= clock' + OpenFor /\ (~healthy => outage.since <= clock')
  BY <1>0, <1>1, <1>2, OutNumbers, SMT
<1>4. CASE healthy
  BY <1>0, <1>3, <1>4, Zenon DEF OutageBooked
<1>5. CASE ~healthy
  <2>1. PICK r \in Nat, o \in Nat : Books(r, o)
    BY <1>5, Zenon DEF OutageBooked
  <2>2. Used' = Used /\ PastBreaker' = PastBreaker /\ Assured' = Assured
    BY <1>0, Zenon DEF Used, UsedUp, Failing, PastBreaker, Assured
  <2>3. Soothing' = Soothing /\ Tallied' = Tallied
    BY <1>0, <2>2, Zenon DEF Soothing, Tallied
  <2> DEFINE b == o * Reserve
  <2>4. Cardinality(PastBreaker) \in Nat /\ Soothing \in Nat /\ Tallied \in Nat /\ b \in Int
    BY SpareIsNat, OutNumbers, SMT DEF Soothing, Tallied, OutTypes, Reserve
  <2>5. /\ clock < openUntil => r + Cardinality(PastBreaker) + Soothing <= b + outage.spare
        /\ clock >= openUntil => r + Soothing <= b + Tallied + outage.spare
    BY <2>1, Zenon DEF Books
  <2>6. outage.spare \in Nat
    BY SMT DEF OutTypes
  <2> HIDE DEF b
  <2>7. /\ clock' < openUntil => r + Cardinality(PastBreaker) + Soothing <= b + outage.spare
        /\ clock' >= openUntil => r + Soothing <= b + Tallied + outage.spare
    BY <1>0, <1>1, <2>4, <2>5, <2>6, SMT
  <2>8. Books(r, o)'
    BY <1>0, <2>1, <2>2, <2>3, <2>7, Zenon DEF Books, b, Reserve
  <2> QED
    BY <1>0, <1>3, <2>8, Zenon DEF OutageBooked
<1> QED
  BY <1>4, <1>5

\* An outage begins with what it finds, or ends.
LEMMA TurnKeepsBooks ==
  ASSUME OutTypes, OutageBooked, ProviderTurns
  PROVE  OutageBooked'
<1>0. /\ healthy' = ~healthy /\ UNCHANGED <<clock, streak, openUntil, caller>>
      /\ outage' = [since |-> clock, sent |-> 0, spare |-> Spare]
  BY Zenon DEF ProviderTurns
<1>1. outage'.since = clock /\ outage'.sent = 0 /\ outage'.spare = Spare
  BY <1>0, Zenon
<1>2. openUntil <= clock + OpenFor /\ clock \in Nat
  BY SMT DEF OutageBooked, OutTypes
<1>3. Used' = Used /\ PastBreaker' = PastBreaker /\ Assured' = Assured
  BY <1>0, Zenon DEF Used, UsedUp, Failing, PastBreaker, Assured
<1>4. Soothing' = Soothing /\ Tallied' = Tallied
  BY <1>0, <1>3, Zenon DEF Soothing, Tallied
<1>5. Cardinality(Used) \in Nat /\ Cardinality(PastBreaker) \in Nat /\ Soothing \in Nat
  BY UsedIsFinite, SpareIsNat DEF Soothing
<1>6. Tallied \in Nat
  BY OutNumbers, SMT DEF Tallied, OutTypes
<1>7. Spare = (IF clock < openUntil THEN Cardinality(PastBreaker) ELSE 0) + Soothing
  BY DEF Spare, Soothing
<1>8. /\ 0 <= Attempts * 0 + Cardinality(Used)
      /\ clock < openUntil => 0 + Cardinality(PastBreaker) + Soothing <= 0 * Reserve + Spare
      /\ clock >= openUntil => 0 + Soothing <= 0 * Reserve + Tallied + Spare
  <2>1. Attempts * 0 = 0 /\ 0 * Reserve = 0
    BY OutNumbers, SpareIsNat, SMT DEF Reserve
  <2>2. openUntil \in Nat
    BY SMT DEF OutTypes
  <2> QED
    BY <1>2, <1>5, <1>6, <1>7, <2>1, <2>2, SMT
<1>9. ~(0 > 0) /\ clock <= clock /\ 0 \in Nat
  BY <1>2, SMT
<1> DEFINE zero == 0
<1> HIDE DEF zero
<1>10. Books(zero, zero)'
  BY <1>0, <1>1, <1>3, <1>4, <1>8, <1>9, Zenon DEF Books, Reserve, zero
<1>11. zero \in Nat
  BY DEF zero
<1> QED
  BY <1>0, <1>1, <1>2, <1>9, <1>10, <1>11, Zenon DEF OutageBooked

\* Nobody has asked for anything.
LEMMA OutStart == OutInit => LanesPaced /\ OutageBooked
<1> SUFFICES ASSUME OutInit
             PROVE  LanesPaced /\ OutageBooked
  OBVIOUS
<1>0. OutTypes
  BY OutTypesStart
<1>1. \A c \in Callers : caller[c].at = "idle"
  <2>1. Away.at = "idle"
    BY Zenon DEF Away
  <2> QED
    BY <2>1, SMT DEF OutInit
<1>2. ASSUME NEW l \in Lanes
      PROVE  GivenPaced(l) /\ DuePaced(l)
  <2>1. Waiting(l) = {} /\ \A t : Due(l, t) = {}
    BY <1>1, SMT DEF Waiting, Due
  <2>2. Cardinality({}) = 0
    BY FS_EmptySet
  <2>3. pace[l] = [first |-> 0, sent |-> 0]
    BY Zenon DEF OutInit
  <2>4. pace[l].sent = 0 /\ pace[l].first = 0
    BY <2>3, SMT
  <2>5. lastSlot[l] = 0 - Interval[l] /\ Interval[l] \in Nat /\ Interval[l] > 0
    BY OutNumbers, SMT DEF OutInit
  <2>6. Given(l) = 0
    BY <2>1, <2>2, <2>4, SMT DEF Given
  <2>7. Spaced(0, Interval[l], lastSlot[l] - pace[l].first) /\ lastSlot[l] < 0
    BY <2>4, <2>5, SMT DEF Spaced
  <2>8. GivenPaced(l)
    <3>1. ~(0 > 0)
      BY SMT
    <3> QED
      BY <2>1, <2>6, <2>7, <3>1, Zenon DEF GivenPaced
  <2>9. ASSUME NEW t \in Nat
        PROVE  Spaced(pace[l].sent + Cardinality(Due(l, t)), Interval[l], t - pace[l].first)
    <3>1. pace[l].sent + Cardinality(Due(l, t)) = 0
      BY <2>1, <2>2, <2>4, SMT
    <3> QED
      BY <3>1, SMT DEF Spaced
  <2> QED
    BY <2>8, <2>9, Zenon DEF DuePaced
<1>3. OutageBooked
  <2>1. clock = 0 /\ streak = 0 /\ openUntil = 0 /\ outage = [since |-> 0, sent |-> 0, spare |-> 0]
    BY Zenon DEF OutInit
  <2>2. outage.since = 0 /\ outage.sent = 0 /\ outage.spare = 0
    BY <2>1, Zenon
  <2>3. Assured = {}
    BY <1>1, SMT DEF Assured
  <2>4. Soothing = 0
    BY <2>3, OutNumbers, FS_EmptySet, SMT DEF Soothing
  <2>5. Cardinality(Used) \in Nat /\ Tallied \in Nat
    BY <1>0, UsedIsFinite, OutNumbers, SMT DEF Tallied, OutTypes
  <2> DEFINE zero == 0
  <2>6. Attempts * zero = 0 /\ zero * Reserve = 0 /\ zero \in Nat
    BY <1>0, OutNumbers, SpareIsNat, SMT DEF Reserve
  <2>7. zero = 0
    OBVIOUS
  <2> HIDE DEF zero
  <2>8. Books(zero, zero)
    BY <2>1, <2>2, <2>4, <2>5, <2>6, <2>7, SMT DEF Books
  <2>9. openUntil <= clock + OpenFor /\ outage.since <= clock
    BY <2>1, <2>2, OutNumbers, SMT
  <2> QED
    BY <2>6, <2>8, <2>9, Zenon DEF OutageBooked
<1> QED
  BY <1>2, <1>3, Zenon DEF LanesPaced

\* Every step keeps the lanes paced and the books in balance.
LEMMA OutKeeps ==
  ASSUME OutTypes, OutTypes', LanesPaced, OutageBooked, [OutNext]_outVars
  PROVE  LanesPaced' /\ OutageBooked'
<1>0. clock \in Nat /\ clock >= clock
  BY SMT DEF OutTypes
<1>1. CASE UNCHANGED outVars
  <2>1. UNCHANGED <<clock, healthy, streak, openUntil, caller, outage, lastSlot, pace>>
    BY <1>1, Zenon DEF outVars
  <2>2. LanesPaced'
    BY <2>1, <1>0, QuietLanes, Zenon DEF StillWaiting
  <2>3. OutageBooked'
    BY <2>1, Zenon DEF OutageBooked, Books, Used, UsedUp, Failing, PastBreaker, Assured, Soothing,
                       Tallied, Reserve
  <2> QED
    BY <2>2, <2>3
<1>2. CASE ClockTicks
  <2>1. UNCHANGED <<caller, lastSlot, pace>> /\ clock' = clock + 1
    BY <1>2, Zenon DEF ClockTicks
  <2>2. clock' \in Nat /\ clock' >= clock
    BY <1>0, <2>1, SMT
  <2> QED
    BY <1>2, <2>1, <2>2, QuietLanes, TickKeepsBooks, Zenon DEF StillWaiting
<1>3. CASE ProviderTurns
  <2>1. UNCHANGED <<caller, lastSlot, pace, clock>>
    BY <1>3, Zenon DEF ProviderTurns
  <2> QED
    BY <1>0, <1>3, <2>1, QuietLanes, TurnKeepsBooks, Zenon DEF StillWaiting
<1>4. ASSUME NEW c \in Callers, Others(c), caller[c].at # "wait", caller'[c].at # "wait",
             UNCHANGED <<clock, lastSlot, pace>>
      PROVE  LanesPaced'
  <2>1. StillWaiting
    BY <1>4, SMT DEF StillWaiting, Others
  <2> QED
    BY <1>0, <1>4, <2>1, QuietLanes
<1>5. ASSUME NEW c \in Callers, NEW k \in Topics, NEW l \in Lanes, Look(c, k, l)
      PROVE  LanesPaced' /\ OutageBooked'
  <2>1. LookEffect(c, l)
    BY <1>5, LookDoes
  <2>2. caller[c].at # "wait" /\ caller'[c].at # "wait"
    BY <2>1, SMT DEF LookEffect
  <2> QED
    BY <2>1, <2>2, <1>4, OtherStepsKeepBooks, Zenon DEF LookEffect
<1>6. ASSUME NEW c \in Callers, Check(c)
      PROVE  LanesPaced' /\ OutageBooked'
  <2>1. CheckEffect(c)
    BY <1>6, CheckDoes
  <2>2. caller[c].at # "wait" /\ caller'[c].at # "wait"
    BY <2>1, SMT DEF CheckEffect
  <2> QED
    BY <2>1, <2>2, <1>4, OtherStepsKeepBooks, Zenon DEF CheckEffect
<1>7. ASSUME NEW c \in Callers, AcquireSlot(c)
      PROVE  LanesPaced' /\ OutageBooked'
  <2>1. AcquireEffect(c)
    BY <1>7, AcquireDoes
  <2>2. CASE caller'[c].at = "wait"
    BY <2>1, <2>2, AcquireKeepsLanes, OtherStepsKeepBooks
  <2>3. CASE caller'[c].at # "wait"
    <3>1. caller[c].at # "wait" /\ UNCHANGED <<clock, lastSlot, pace>>
      BY <2>1, <2>3, SMT DEF AcquireEffect
    <3> QED
      BY <2>1, <2>3, <3>1, <1>4, OtherStepsKeepBooks, Zenon DEF AcquireEffect
  <2> QED
    BY <2>2, <2>3
<1>8. ASSUME NEW c \in Callers, Send(c)
      PROVE  LanesPaced' /\ OutageBooked'
  <2>1. SendEffect(c)
    BY <1>8, SendDoes
  <2> QED
    BY <2>1, SendKeepsLanes, SendKeepsBooks
<1>9. ASSUME NEW c \in Callers, Answer(c)
      PROVE  LanesPaced' /\ OutageBooked'
  <2>1. AnswerEffect(c)
    BY <1>9, AnswerDoes
  <2>2. caller[c].at # "wait" /\ caller'[c].at # "wait"
    BY <2>1, SMT DEF AnswerEffect
  <2> QED
    BY <2>1, <2>2, <1>4, OtherStepsKeepBooks, Zenon DEF AnswerEffect
<1>10. ASSUME NEW c \in Callers, RecordOutcome(c)
       PROVE  LanesPaced' /\ OutageBooked'
  <2>1. RecordEffect(c)
    BY <1>10, RecordDoes
  <2>2. caller[c].at # "wait" /\ caller'[c].at # "wait"
    BY <2>1, SMT DEF RecordEffect
  <2>3. LanesPaced'
    BY <2>1, <2>2, <1>4, Zenon DEF RecordEffect
  <2>4. CASE ~healthy
    <3>1. CASE caller[c].got = "failure"
      BY <2>1, <2>3, <2>4, <3>1, FailureKeepsBooks
    <3>2. CASE caller[c].got # "failure"
      BY <2>1, <2>3, <2>4, <3>2, SuccessKeepsBooks
    <3> QED
      BY <3>1, <3>2
  <2>5. CASE healthy
    <3>1. clock' = clock /\ (openUntil' = openUntil \/ openUntil' = clock + OpenFor)
      BY <2>1, Zenon DEF RecordEffect
    <3>2. openUntil <= clock + OpenFor
      BY Zenon DEF OutageBooked
    <3>3. openUntil' <= clock' + OpenFor
      BY <1>0, <3>1, <3>2, OutNumbers, SMT
    <3>4. healthy' = healthy
      BY <2>1, Zenon DEF RecordEffect
    <3>5. healthy'
      BY <2>5, <3>4
    <3> QED
      BY <2>3, <3>3, <3>5, Zenon DEF OutageBooked
  <2> QED
    BY <2>3, <2>4, <2>5
<1>11. ASSUME NEW c \in Callers, Store(c)
       PROVE  LanesPaced' /\ OutageBooked'
  <2>1. StoreEffect(c)
    BY <1>11, StoreDoes
  <2>2. caller[c].at # "wait" /\ caller'[c].at # "wait"
    BY <2>1, SMT DEF StoreEffect
  <2> QED
    BY <2>1, <2>2, <1>4, OtherStepsKeepBooks, Zenon DEF StoreEffect
<1> QED
  BY <1>1, <1>2, <1>3, <1>5, <1>6, <1>7, <1>8, <1>9, <1>10, <1>11, Zenon DEF OutNext, CallStep

\* o cooldowns fit between the beginning of an outage and the last opening's end.
LEMMA OpeningsBound ==
  ASSUME OutTypes, OutageBooked, ~healthy, NEW o \in Nat,
         o > 0 => outage.since + o * OpenFor <= openUntil
  PROVE  /\ Openings \in Nat /\ o <= Openings
         /\ clock >= openUntil => o + 1 <= Openings
<1> DEFINE since == outage.since
           x == clock - since
           open == o * OpenFor
<1>1. /\ since \in Nat /\ clock \in Nat /\ openUntil \in Nat
      /\ since <= clock /\ openUntil <= clock + OpenFor
  BY SMT DEF OutTypes, OutageBooked
<1>2. x \in Nat /\ OpenFor \in Nat /\ OpenFor > 0
  BY <1>1, OutNumbers, SMT
<1>3. \A y, n, d \in Nat : d > 0 /\ n * d <= y => y \div d >= n /\ y \div d \in Nat
  BY SMT
<1>4. x \div OpenFor \in Nat
  BY <1>2, SMT
<1>5. Openings = 1 + (x \div OpenFor)
  BY DEF Openings
<1>6. CASE o = 0
  BY <1>4, <1>5, <1>6, SMT
<1>7. CASE o > 0
  <2>1. open \in Nat /\ (o - 1) * OpenFor = open - OpenFor /\ o - 1 \in Nat
    BY <1>2, <1>7, SMT
  <2>2. since + open <= openUntil
    BY <1>7
  <2>3. (o - 1) * OpenFor <= x
    BY <1>1, <1>2, <2>1, <2>2, SMT
  <2>4. x \div OpenFor >= o - 1
    BY <1>2, <1>3, <2>1, <2>3
  <2>5. clock >= openUntil => open <= x
    <3> HIDE DEF open
    <3> QED
      BY <1>1, <2>1, <2>2, SMT
  <2>6. clock >= openUntil => x \div OpenFor >= o
    BY <1>2, <1>3, <2>5
  <2> HIDE DEF x
  <2> QED
    BY <1>4, <1>5, <2>4, <2>6, SMT
<1> QED
  BY <1>6, <1>7, SMT

\* The lanes and the books bound what the provider is asked.
LEMMA BooksSpare ==
  ASSUME OutTypes, LanesPaced, OutageBooked
  PROVE  ProviderSpared
<1>1. ASSUME NEW l \in Lanes, pace[l].sent > 0
      PROVE  (pace[l].sent - 1) * Interval[l] <= clock - pace[l].first
  <2>1. clock \in Nat /\ clock >= clock /\ pace[l].sent \in Nat /\ pace[l].first \in Nat
    BY SMT DEF OutTypes
  <2> DEFINE n == pace[l].sent + Cardinality(Due(l, clock))
  <2>2. Spaced(n, Interval[l], clock - pace[l].first)
    BY <2>1, Zenon DEF LanesPaced, DuePaced
  <2>3. n \in Nat /\ pace[l].sent <= n
    BY <2>1, WaitingIsFinite, SMT
  <2>4. Interval[l] \in Nat /\ clock - pace[l].first \in Int
        /\ clock - pace[l].first <= clock - pace[l].first
    BY <2>1, OutNumbers, SMT
  <2> HIDE DEF n
  <2>5. Spaced(pace[l].sent, Interval[l], clock - pace[l].first)
    BY <2>1, <2>2, <2>3, <2>4, SpacedFacts
  <2> QED
    BY <1>1, <2>5 DEF Spaced
<1>2. ASSUME ~healthy
      PROVE  outage.sent <= Charged * Attempts
  <2>1. PICK r \in Nat, o \in Nat : Books(r, o)
    BY <1>2, Zenon DEF OutageBooked
  <2> DEFINE p == Cardinality(PastBreaker)
             b == o * Reserve
  <2>2. /\ outage.sent <= Attempts * r + Cardinality(Used)
        /\ o > 0 => outage.since + o * OpenFor <= openUntil
        /\ clock < openUntil => r + p + Soothing <= b + outage.spare
        /\ clock >= openUntil => r + Soothing <= b + Tallied + outage.spare
    BY <2>1, Zenon DEF Books
  <2>3. /\ Openings \in Nat /\ o <= Openings
        /\ clock >= openUntil => o + 1 <= Openings
    BY <1>2, <2>2, OpeningsBound
  <2>4. /\ p \in Nat /\ Soothing \in Nat /\ p <= Cardinality(Callers)
        /\ Cardinality(Callers) \in Nat
    BY SpareIsNat DEF Soothing
  <2>5. /\ Reserve \in Nat /\ Reserve = Threshold + Cardinality(Callers) - 1
        /\ Tallied \in Nat /\ Tallied <= Threshold - 1
    BY <2>4, OutNumbers, SMT DEF Reserve, Tallied, OutTypes
  <2>6. /\ outage.sent \in Nat /\ outage.spare \in Nat /\ clock \in Nat /\ openUntil \in Nat
    BY SMT DEF OutTypes
  <2>7. Charged = Openings * Reserve + outage.spare
    BY DEF Charged, Reserve
  <2>8. \A m, n, x \in Nat : m <= n => m * x <= n * x /\ m * x \in Nat /\ n * x \in Nat
    BY SMT
  <2>9. b <= Openings * Reserve /\ b \in Nat /\ Openings * Reserve \in Nat
    BY <2>3, <2>5, <2>8
  <2>10. clock >= openUntil => b + Reserve <= Openings * Reserve
    <3>1. (o + 1) * Reserve = b + Reserve
      BY <2>5, SMT
    <3>2. o + 1 \in Nat
      OBVIOUS
    <3> QED
      BY <2>3, <2>5, <2>8, <3>1, <3>2
  <2> DEFINE q == Openings * Reserve
  <2> HIDE DEF b, q, p
  <2>11. r + p <= Charged /\ Charged \in Nat
    <3>1. q \in Nat /\ b \in Nat /\ b <= q /\ (clock >= openUntil => b + Reserve <= q)
          /\ Charged = q + outage.spare
      BY <2>7, <2>9, <2>10 DEF q
    <3>2. CASE clock < openUntil
      BY <2>2, <2>4, <2>6, <3>1, <3>2, SMT
    <3>3. CASE clock >= openUntil
      BY <2>2, <2>4, <2>5, <2>6, <3>1, <3>3, OutNumbers, SMT
    <3> QED
      BY <2>6, <3>2, <3>3, SMT
  <2>12. Cardinality(Used) <= Attempts * p /\ Cardinality(Used) \in Nat
    BY UsedIsFinite DEF p
  <2>13. /\ Attempts * (r + p) = Attempts * r + Attempts * p
         /\ Attempts * r \in Nat /\ Attempts * p \in Nat
         /\ Attempts * (r + p) = (r + p) * Attempts
    BY <2>4, OutNumbers, SMT
  <2>14. r + p \in Nat
    BY <2>4, SMT
  <2>15. (r + p) * Attempts <= Charged * Attempts /\ Charged * Attempts \in Nat
    BY <2>8, <2>11, <2>14, OutNumbers
  <2> QED
    BY <2>2, <2>6, <2>12, <2>13, <2>15, SMT
<1> QED
  BY <1>1, <1>2 DEF ProviderSpared

\* For any number of threads, lanes, retries and outages: the provider never has more calls of
\* a lane than its interval allows, and an outage costs it a bounded number of calls
\* (_acquire_slot, _breaker_open, _record_outcome, _call_with_retry).
THEOREM ProvidersAreSpared == OutSpec => []ProviderSpared
<1>1. OutInit => OutTypes /\ LanesPaced /\ OutageBooked
  BY OutTypesStart, OutStart
<1>2. OutTypes /\ LanesPaced /\ OutageBooked /\ [OutNext]_outVars
        => (OutTypes /\ LanesPaced /\ OutageBooked)'
  BY OutTypesStep, OutKeeps
<1>3. OutTypes /\ LanesPaced /\ OutageBooked => ProviderSpared
  BY BooksSpare
<1> QED
  BY <1>1, <1>2, <1>3, PTL DEF OutSpec

-----------------------------------------------------------------------------
(* Rearranging days: Replan. *)

KeepTurn(locked, acc, x) == KeepOne(locked, acc, x)
Keeps(q, k, acc) == acc \in [kept : Seq(Stops), sights : Int]
KeepFold == INSTANCE FoldLaws WITH Op <- KeepTurn, Kept <- Keeps

StandTurn(none, acc, x) == StandOne(acc, x)
Stands(items, k, acc) == acc \in Seq(Stops) /\ ToSet(acc) = {items[i] : i \in {m \in 1 .. k : ~Active(items[m])}}
StandFold == INSTANCE FoldLaws WITH Op <- StandTurn, Kept <- Stands

TimeTurn(day, st, i) == Timed(st, day.items[i], day.money)
Clock(st) ==
  /\ st \in [clock : Int, prev : Placeable \cup {"none"}, spent : Int, busy : Int, way : Int,
             list : Seq(Stops), out : Seq(Placeable)]
  /\ IF st.list = <<>> THEN st.prev = "none"
     ELSE LET last == st.list[Len(st.list)] IN st.prev = last.name /\ st.clock = last.from + last.long
  /\ \A i \in 1 .. (Len(st.list) - 1) :
       st.list[i].from + st.list[i].long + Hours(st.list[i].name, st.list[i + 1].name) <= st.list[i + 1].from
TimesSo(q, k, st) == Clock(st)
TimeFold == INSTANCE FoldLaws WITH Op <- TimeTurn, Kept <- TimesSo

RecallTurn(j, acc, n) == Recall(j, acc, n)
DiscoverTurn(j, acc, x) == Discover(j, acc, x)
Finds(q, k, acc) == acc \in Seq(Stops)
RecallFold == INSTANCE FoldLaws WITH Op <- RecallTurn, Kept <- Finds
DiscoverFold == INSTANCE FoldLaws WITH Op <- DiscoverTurn, Kept <- Finds

LEMMA DayOfStops ==
  ASSUME NEW items \in Seq(Stops)
  PROVE  Len(items) \in Nat /\ DOMAIN items = 1 .. Len(items) /\ \A i \in DOMAIN items : items[i] \in Stops
  OBVIOUS

LEMMA KeptStops ==
  ASSUME NEW items \in Seq(Stops), NEW locked
  PROVE  KeptOf(items, locked) \in Seq(Stops)
<1> DEFINE base == [kept |-> <<>>, sights |-> 0]
<1>1. Keeps(0, 0, base)
  BY DEF Keeps
<1>2. KeptOf(items, locked) = KeepFold!Fold(locked, base, items).kept
  BY DEF KeptOf, KeepFold!Fold, KeepTurn, FoldLeft, KeepFold!FoldLeft, MapThenFoldSet, KeepFold!MapThenFoldSet,
         Max, KeepFold!Max
<1> HIDE DEF base
<1>3. \A k \in 0 .. (Len(items) - 1) : \A a : Keeps(0, k, a) => Keeps(0, k + 1, KeepTurn(locked, a, items[k + 1]))
  <2> SUFFICES ASSUME NEW k \in 0 .. (Len(items) - 1), NEW a, Keeps(0, k, a)
               PROVE  Keeps(0, k + 1, KeepTurn(locked, a, items[k + 1]))
    OBVIOUS
  <2>1. items[k + 1] \in Stops
    BY DayOfStops
  <2> DEFINE x == items[k + 1]
  <2>2. a \in [kept : Seq(Stops), sights : Int]
    BY DEF Keeps
  <2>3. Append(a.kept, x) \in Seq(Stops) /\ a.sights + (IF x.type = "sight" THEN 1 ELSE 0) \in Int
    BY <2>1, <2>2
  <2> HIDE DEF x
  <2>4. KeepOne(locked, a, x) \in [kept : Seq(Stops), sights : Int]
    BY <2>2, <2>3 DEF KeepOne
  <2> QED
    BY <2>4 DEF x, KeepTurn, Keeps
<1>4. Keeps(0, Len(items), KeepFold!Fold(locked, base, items))
  BY <1>1, <1>3, DayOfStops, KeepFold!FoldKeeps
<1> QED
  BY <1>2, <1>4 DEF Keeps

LEMMA StandingStops ==
  ASSUME NEW items \in Seq(Stops)
  PROVE  Standing(items) \in Seq(Stops) /\ ToSet(Standing(items)) = {x \in ToSet(items) : ~Active(x)}
<1>1. Stands(items, 0, <<>>)
  BY DEF Stands, ToSet
<1>2. Standing(items) = StandFold!Fold(0, <<>>, items)
  BY DEF Standing, StandFold!Fold, StandTurn, FoldLeft, StandFold!FoldLeft, MapThenFoldSet,
         StandFold!MapThenFoldSet, Max, StandFold!Max
<1>3. \A k \in 0 .. (Len(items) - 1) : \A a : Stands(items, k, a) => Stands(items, k + 1, StandTurn(0, a, items[k + 1]))
  <2> SUFFICES ASSUME NEW k \in 0 .. (Len(items) - 1), NEW a, Stands(items, k, a)
               PROVE  Stands(items, k + 1, StandTurn(0, a, items[k + 1]))
    OBVIOUS
  <2>1. items[k + 1] \in Stops
    BY DayOfStops
  <2>2. a \in Seq(Stops) /\ ToSet(a) = {items[i] : i \in {m \in 1 .. k : ~Active(items[m])}}
    BY DEF Stands
  <2>3. CASE Active(items[k + 1])
    <3>1. {m \in 1 .. (k + 1) : ~Active(items[m])} = {m \in 1 .. k : ~Active(items[m])}
      BY <2>3
    <3> QED
      BY <2>2, <2>3, <3>1 DEF StandTurn, StandOne, Stands
  <2>4. CASE ~Active(items[k + 1])
    <3>1. {m \in 1 .. (k + 1) : ~Active(items[m])} = {m \in 1 .. k : ~Active(items[m])} \cup {k + 1}
      BY <2>4
    <3>2. Append(a, items[k + 1]) \in Seq(Stops) /\ ToSet(Append(a, items[k + 1])) = ToSet(a) \cup {items[k + 1]}
      <4> DEFINE x == items[k + 1]
      <4>1. x \in Stops /\ a \in Seq(Stops) /\ Append(a, x) \in Seq(Stops)
        BY <2>1, <2>2
      <4> HIDE DEF x
      <4>2. /\ DOMAIN Append(a, x) = DOMAIN a \cup {Len(a) + 1} /\ Append(a, x)[Len(a) + 1] = x
            /\ \A i \in DOMAIN a : Append(a, x)[i] = a[i]
        BY <4>1
      <4>3. ToSet(Append(a, x)) = ToSet(a) \cup {x}
        BY <4>1, <4>2 DEF ToSet
      <4> QED
        BY <4>1, <4>3 DEF x
    <3> QED
      BY <2>2, <2>4, <3>1, <3>2 DEF StandTurn, StandOne, Stands
  <2> QED
    BY <2>3, <2>4
<1>4. Stands(items, Len(items), StandFold!Fold(0, <<>>, items))
  BY <1>1, <1>3, DayOfStops, StandFold!FoldKeeps
<1>5. {items[i] : i \in {m \in 1 .. Len(items) : ~Active(items[m])}} = {x \in ToSet(items) : ~Active(x)}
  BY DayOfStops DEF ToSet
<1> QED
  BY <1>2, <1>4, <1>5 DEF Stands

LEMMA Ways == \A p, q \in Placeable : Hours(p, q) \in Nat
  BY ReplanAssumption DEF Hours

LEMMA TimedKeeps ==
  ASSUME NEW st, Clock(st), NEW x \in Stops, NEW money \in Int
  PROVE  Clock(Timed(st, x, money))
<1>1. /\ st \in [clock : Int, prev : Placeable \cup {"none"}, spent : Int, busy : Int, way : Int,
                 list : Seq(Stops), out : Seq(Placeable)]
      /\ x \in [name : Placeable, type : STRING, long : Nat, open : Int \X Int, cost : Int, from : Int]
  BY DEF Clock, Stops
<1>q. x.open[1] \in Int /\ x.name # "none" /\ Append(st.out, x.name) \in Seq(Placeable)
  BY <1>1, ReplanAssumption
<1>l. \A y \in Stops : /\ Append(st.list, y) \in Seq(Stops) /\ Len(st.list) \in Nat
                       /\ Len(Append(st.list, y)) = Len(st.list) + 1
                       /\ Append(st.list, y)[Len(st.list) + 1] = y
                       /\ \A i \in 1 .. Len(st.list) : Append(st.list, y)[i] = st.list[i]
  <2> DEFINE l == st.list
  <2>1. l \in Seq(Stops)
    BY <1>1
  <2> HIDE DEF l
  <2>2. \A y \in Stops : /\ Append(l, y) \in Seq(Stops) /\ Len(l) \in Nat
                         /\ Len(Append(l, y)) = Len(l) + 1
                         /\ Append(l, y)[Len(l) + 1] = y
                         /\ \A i \in 1 .. Len(l) : Append(l, y)[i] = l[i]
    BY <2>1
  <2> QED
    BY <2>2 DEF l
<1>2. CASE ~Fits(st, x, money)
  <2>1. Timed(st, x, money) = [st EXCEPT !.out = Append(@, x.name)]
    BY <1>2 DEF Timed
  <2>2. Append(st.out, x.name) \in Seq(Placeable)
    BY <1>q
  <2> DEFINE t == Timed(st, x, money)
  <2>3. /\ t \in [clock : Int, prev : Placeable \cup {"none"}, spent : Int, busy : Int, way : Int,
                  list : Seq(Stops), out : Seq(Placeable)]
        /\ t.list = st.list /\ t.prev = st.prev /\ t.clock = st.clock
    BY <1>1, <2>1, <2>2
  <2> HIDE DEF t
  <2>4. Clock(t)
    BY <2>3 DEF Clock
  <2> QED
    BY <2>4 DEF t
<1>3. CASE Fits(st, x, money)
  <2> DEFINE b == Begins(st, x)
             way == IF st.prev = "none" THEN 0 ELSE Hours(st.prev, x.name)
             y == [x EXCEPT !.from = b]
             t == Timed(st, x, money)
  <2>1. way \in Int /\ x.name \in Placeable /\ x.name # "none"
    BY <1>1, <1>q, Ways
  <2>2. b \in Int /\ b >= st.clock + way
    <3>1. b = IF st.clock + way < x.open[1] THEN x.open[1] ELSE st.clock + way
      BY DEF Begins
    <3>2. st.clock \in Int
      BY <1>1
    <3> HIDE DEF b, way
    <3> QED
      BY <1>q, <2>1, <3>1, <3>2
  <2>3. y \in Stops /\ y.from = b /\ y.name = x.name /\ y.long = x.long
    BY <1>1, <2>2 DEF Stops
  <2>4. /\ t \in [clock : Int, prev : Placeable \cup {"none"}, spent : Int, busy : Int, way : Int,
                  list : Seq(Stops), out : Seq(Placeable)]
        /\ t.list = Append(st.list, y) /\ t.prev = x.name /\ t.clock = b + x.long
    <3>1. t = [st EXCEPT !.clock = b + x.long, !.prev = x.name, !.spent = @ + x.cost, !.busy = @ + x.long,
                 !.way = @ + way, !.list = Append(@, y)]
      BY <1>3 DEF Timed
    <3> HIDE DEF t, y, b, way
    <3>4. /\ st.spent \in Int /\ st.busy \in Int /\ st.way \in Int /\ x.long \in Nat /\ x.cost \in Int
          /\ x.name \in Placeable
      BY <1>1
    <3>2. /\ Append(st.list, y) \in Seq(Stops) /\ b + x.long \in Int /\ st.spent + x.cost \in Int
          /\ st.busy + x.long \in Int /\ st.way + way \in Int /\ x.name \in Placeable \cup {"none"}
      BY <1>l, <2>1, <2>2, <2>3, <3>4
    <3>3. t = [clock |-> b + x.long, prev |-> x.name, spent |-> st.spent + x.cost, busy |-> st.busy + x.long,
               way |-> st.way + way, list |-> Append(st.list, y), out |-> st.out]
      BY <1>1, <3>1
    <3> QED
      BY <1>1, <3>2, <3>3
  <2> HIDE DEF t, y, b
  <2> DEFINE n == Len(st.list)
  <2>5. n \in Nat /\ Len(t.list) = n + 1 /\ t.list[n + 1] = y /\ \A i \in 1 .. n : t.list[i] = st.list[i]
    BY <1>l, <2>3, <2>4
  <2>6. t.list # <<>>
    BY <2>5
  <2>7. ASSUME NEW i \in 1 .. n
        PROVE  t.list[i].from + t.list[i].long + Hours(t.list[i].name, t.list[i + 1].name) <= t.list[i + 1].from
    <3>1. CASE i = n
      <4>1. st.list # <<>> /\ st.prev = st.list[n].name /\ st.clock = st.list[n].from + st.list[n].long
        BY <1>1, <3>1 DEF Clock
      <4>2. st.list[n] \in Stops
        BY <1>1, <3>1
      <4>3. st.prev # "none" /\ way = Hours(st.list[n].name, x.name)
        BY <4>1, <4>2, ReplanAssumption DEF Stops
      <4> HIDE DEF way, n
      <4> QED
        BY <2>2, <2>3, <2>5, <3>1, <4>1, <4>3
    <3>2. CASE i # n
      <4>1. i \in 1 .. (n - 1) /\ i + 1 \in 1 .. n
        BY <3>2, <2>5
      <4> HIDE DEF way
      <4> QED
        BY <2>5, <4>1 DEF Clock
    <3> QED
      BY <3>1, <3>2
  <2> HIDE DEF n, way
  <2>9. t.list[Len(t.list)] = y /\ 1 .. (Len(t.list) - 1) = 1 .. n
    BY <2>5
  <2>a. IF t.list = <<>> THEN t.prev = "none"
        ELSE LET last == t.list[Len(t.list)] IN t.prev = last.name /\ t.clock = last.from + last.long
    BY <2>3, <2>4, <2>6, <2>9
  <2>b. \A i \in 1 .. (Len(t.list) - 1) :
          t.list[i].from + t.list[i].long + Hours(t.list[i].name, t.list[i + 1].name) <= t.list[i + 1].from
    BY <2>7, <2>9
  <2>8. Clock(t)
    BY <2>4, <2>a, <2>b DEF Clock
  <2> QED
    BY <2>8 DEF t
<1> QED
  BY <1>2, <1>3

LEMMA ScheduleInTime ==
  ASSUME NEW items \in Seq(Stops), NEW order \in [DOMAIN items -> DOMAIN items], NEW money \in Int
  PROVE  Clock(Schedule(items, order, money))
<1> DEFINE day == [items |-> items, money |-> money]
           n == Len(items)
<1>1. Schedule(items, order, money) = TimeFold!Fold(day, Idle, order)
  BY DEF Schedule, TimeFold!Fold, TimeTurn, FoldLeft, TimeFold!FoldLeft, MapThenFoldSet,
         TimeFold!MapThenFoldSet, Max, TimeFold!Max
<1>2. TimesSo(0, 0, Idle)
  BY ReplanAssumption DEF TimesSo, Clock, Idle
<1>3. n \in Nat /\ DOMAIN order = 1 .. n /\ \A i \in 1 .. n : items[order[i]] \in Stops
  OBVIOUS
<1>4. \A k \in 0 .. (n - 1) : \A a : TimesSo(0, k, a) => TimesSo(0, k + 1, TimeTurn(day, a, order[k + 1]))
  <2> SUFFICES ASSUME NEW k \in 0 .. (n - 1), NEW a, Clock(a)
               PROVE  Clock(Timed(a, items[order[k + 1]], money))
    BY DEF TimesSo, TimeTurn
  <2>1. k + 1 \in 1 .. n
    BY <1>3
  <2> HIDE DEF n
  <2> QED
    BY <1>3, <2>1, TimedKeeps
<1> HIDE DEF day, n
<1>5. TimesSo(0, n, TimeFold!Fold(day, Idle, order))
  BY <1>2, <1>3, <1>4, TimeFold!FoldKeeps
<1> QED
  BY <1>1, <1>5 DEF TimesSo

LEMMA FromTripStop ==
  ASSUME NEW j \in Jobs, NEW n, InTrip(j, n)
  PROVE  FromTrip(j, n) \in Stops
<1> DEFINE days == {d \in DOMAIN j.plans : n \in NamesIn(j.plans[d])}
           last == Max(days)
           hits == {i \in DOMAIN j.plans[last] : j.plans[last][i].name = n}
<1>1. Len(j.plans) \in Nat /\ DOMAIN j.plans = 1 .. Len(j.plans)
      /\ \A d \in DOMAIN j.plans : j.plans[d] \in Seq(Stops)
  BY ReplanAssumption
<1>2. days # {} /\ days \in SUBSET (1 .. Len(j.plans))
  BY <1>1 DEF InTrip
<1> HIDE DEF days
<1>3. last \in days
  BY <1>1, <1>2, KeepFold!LargestOf DEF Max, KeepFold!Max
<1> HIDE DEF last
<1>4. j.plans[last] \in Seq(Stops) /\ n \in NamesIn(j.plans[last])
  BY <1>1, <1>3 DEF days
<1>5. hits # {} /\ hits \in SUBSET (1 .. Len(j.plans[last])) /\ Len(j.plans[last]) \in Nat
  BY <1>4 DEF NamesIn, ToSet
<1> HIDE DEF hits
<1>6. Max(hits) \in hits
  BY <1>5, KeepFold!LargestOf DEF Max, KeepFold!Max
<1>7. j.plans[last][Max(hits)] \in Stops
  <2> DEFINE i == Max(hits)  items == j.plans[last]
  <2>1. items \in Seq(Stops) /\ i \in DOMAIN items
    <3>1. items \in Seq(Stops) /\ i \in 1 .. Len(items)
      BY <1>4, <1>5, <1>6
    <3> HIDE DEF items, i
    <3> QED
      BY <3>1
  <2> HIDE DEF i, items
  <2>2. items[i] \in Stops
    BY <2>1
  <2> QED
    BY <2>2 DEF i, items
<1> QED
  BY <1>7 DEF FromTrip, hits, last, days

LEMMA WantedStops ==
  ASSUME NEW j \in Jobs, NEW found \in Seq(Stops)
  PROVE  Wanted(j, found) \in Seq(Stops)
<1> DEFINE recalled == RecallFold!Fold(j, <<>>, j.wanted)
<1>1. j.wanted \in Seq(STRING)
  BY ReplanAssumption
<1>2. Wanted(j, found) = DiscoverFold!Fold(j, recalled, found)
  BY DEF Wanted, RecallFold!Fold, RecallTurn, DiscoverFold!Fold, DiscoverTurn, FoldLeft, RecallFold!FoldLeft,
         DiscoverFold!FoldLeft, MapThenFoldSet, RecallFold!MapThenFoldSet, DiscoverFold!MapThenFoldSet, Max,
         RecallFold!Max, DiscoverFold!Max
<1>3. \A k \in 0 .. (Len(j.wanted) - 1) : \A a :
        Finds(0, k, a) => Finds(0, k + 1, RecallTurn(j, a, j.wanted[k + 1]))
  <2> SUFFICES ASSUME NEW k \in 0 .. (Len(j.wanted) - 1), NEW a \in Seq(Stops)
               PROVE  Recall(j, a, j.wanted[k + 1]) \in Seq(Stops)
    BY DEF Finds, RecallTurn
  <2> DEFINE n == j.wanted[k + 1]
  <2>1. InTrip(j, n) => Append(a, FromTrip(j, n)) \in Seq(Stops)
    BY FromTripStop
  <2> HIDE DEF n
  <2>2. Recall(j, a, n) \in Seq(Stops)
    BY <2>1 DEF Recall
  <2> QED
    BY <2>2 DEF n
<1>4. Finds(0, 0, <<>>)
  BY DEF Finds
<1>5. recalled \in Seq(Stops)
  <2>1. Len(j.wanted) \in Nat /\ DOMAIN j.wanted = 1 .. Len(j.wanted)
    BY <1>1
  <2>2. Finds(0, Len(j.wanted), recalled)
    BY <1>3, <1>4, <2>1, RecallFold!FoldKeeps
  <2> QED
    BY <2>2 DEF Finds
<1> HIDE DEF recalled
<1>6. \A k \in 0 .. (Len(found) - 1) : \A a :
        Finds(0, k, a) => Finds(0, k + 1, DiscoverTurn(j, a, found[k + 1]))
  <2> SUFFICES ASSUME NEW k \in 0 .. (Len(found) - 1), NEW a \in Seq(Stops)
               PROVE  Discover(j, a, found[k + 1]) \in Seq(Stops)
    BY DEF Finds, DiscoverTurn
  <2>1. found[k + 1] \in Stops
    BY DayOfStops
  <2>2. Append(a, found[k + 1]) \in Seq(Stops)
    BY <2>1
  <2> QED
    BY <2>2 DEF Discover
<1>7. Finds(0, Len(found), DiscoverFold!Fold(j, recalled, found))
  <2>1. Finds(0, 0, recalled) /\ Len(found) \in Nat /\ DOMAIN found = 1 .. Len(found)
    BY <1>5 DEF Finds
  <2> QED
    BY <1>6, <2>1, DiscoverFold!FoldKeeps
<1> QED
  BY <1>2, <1>7 DEF Finds

LEMMA ReplacedStops ==
  ASSUME NEW items \in Seq(Stops), NEW given \in Seq(Stops), NEW locked
  PROVE  /\ ReplacedDay(items, given, locked) \in Seq(Stops)
         /\ {x \in ToSet(items) : ~Active(x)} \subseteq ToSet(ReplacedDay(items, given, locked))
<1> DEFINE n == Len(items)
           free == {i \in DOMAIN items : Active(items[i]) /\ items[i].name \notin locked}
           nth(i) == Cardinality({k \in free : k <= i})
           takes(i) == i \in free /\ nth(i) <= Len(given) /\ given[nth(i)].name # items[i].name
           new == [i \in DOMAIN items |-> IF takes(i) THEN given[nth(i)] ELSE items[i]]
<1>0. ReplacedDay(items, given, locked) = new
  BY DEF ReplacedDay
<1>1. n \in Nat /\ DOMAIN items = 1 .. n /\ \A i \in 1 .. n : items[i] \in Stops
  OBVIOUS
<1>2. IsFiniteSet(free)
  <2>1. IsFiniteSet(1 .. n) /\ free \subseteq 1 .. n
    BY <1>1, FS_Interval
  <2> HIDE DEF free
  <2> QED
    BY <2>1, FS_Subset
<1>3. \A i \in free : nth(i) \in Nat \ {0} /\ i \in 1 .. n
  <2> SUFFICES ASSUME NEW i \in free PROVE nth(i) \in Nat \ {0} /\ i \in 1 .. n
    OBVIOUS
  <2> DEFINE below == {k \in free : k <= i}
  <2>1. below \subseteq free /\ i \in below /\ i \in 1 .. n
    BY <1>1
  <2>2. nth(i) = Cardinality(below)
    OBVIOUS
  <2> HIDE DEF below, free, nth
  <2>3. IsFiniteSet(below)
    BY <1>2, <2>1, FS_Subset
  <2>4. Cardinality(below) \in Nat /\ Cardinality(below) # 0
    BY <2>1, <2>3, FS_CardinalityType, FS_EmptySet
  <2> QED
    BY <2>1, <2>2, <2>4
<1>4. \A i \in free : Active(items[i])
  OBVIOUS
<1> HIDE DEF free, nth
<1>5. DOMAIN new = 1 .. n /\ \A i \in 1 .. n : new[i] = items[i] \/ (i \in free /\ new[i] \in Stops)
  <2> SUFFICES ASSUME NEW i \in 1 .. n PROVE new[i] = items[i] \/ (i \in free /\ new[i] \in Stops)
    BY <1>1
  <2>1. CASE takes(i)
    <3>1. nth(i) \in 1 .. Len(given)
      BY <1>3, <2>1
    <3>2. new[i] = given[nth(i)]
      BY <1>1, <2>1
    <3> HIDE DEF new
    <3> QED
      BY <2>1, <3>1, <3>2
  <2>2. CASE ~takes(i)
    BY <1>1, <2>2
  <2> QED
    BY <2>1, <2>2
<1>6. new \in Seq(Stops)
  <2>1. new \in [1 .. n -> Stops]
    <3>1. new = [i \in 1 .. n |-> new[i]]
      BY <1>1
    <3> HIDE DEF new
    <3> QED
      BY <1>1, <1>5, <3>1
  <2> HIDE DEF new
  <2> QED
    BY <1>1, <2>1
<1> HIDE DEF new
<1>7. ASSUME NEW x \in ToSet(items), ~Active(x) PROVE x \in ToSet(new)
  <2>1. PICK i \in 1 .. n : x = items[i]
    BY <1>1 DEF ToSet
  <2>2. new[i] = x /\ i \in DOMAIN new
    BY <1>4, <1>5, <1>7, <2>1
  <2> QED
    BY <2>2 DEF ToSet
<1> QED
  BY <1>0, <1>6, <1>7

\* Where the answer stands: the days that were not come to yet are as they were asked.
ReplanTypes ==
  job \in [at : {"asked", "days", "over"}, asked : Jobs, given : Seq(Stops), todo : Seq(Nat),
           out : Seq(Seq(Stops)), bad : BOOLEAN]
ReplanInv ==
  /\ ReplanTypes
  /\ job.at # "asked" =>
       /\ Len(job.out) = Len(Asked.plans)
       /\ \A d \in DOMAIN Asked.plans : DayKept(d, job.out[d])
  /\ ToSet(job.todo) \subseteq ToSet(Asked.days)

LEMMA JobDays ==
  ASSUME NEW j \in Jobs
  PROVE  /\ j.plans \in Seq(Seq(Stops)) /\ j.days \in Seq(DOMAIN j.plans) /\ j.money \in Int
         /\ ToSet(j.days) \subseteq DOMAIN j.plans /\ Len(j.plans) \in Nat /\ DOMAIN j.plans = 1 .. Len(j.plans)
         /\ \A d \in DOMAIN j.plans : j.plans[d] \in Seq(Stops)
<1>1. j.plans \in Seq(Seq(Stops)) /\ j.days \in Seq(DOMAIN j.plans) /\ j.money \in Int
  BY ReplanAssumption
<1> DEFINE p == j.plans  s == j.days
<1> HIDE DEF p, s
<1>2. s \in Seq(DOMAIN p) /\ p \in Seq(Seq(Stops))
  BY <1>1 DEF p, s
<1>3. ToSet(s) \subseteq DOMAIN p
  BY <1>2 DEF ToSet
<1>4. Len(p) \in Nat /\ DOMAIN p = 1 .. Len(p) /\ \A d \in DOMAIN p : p[d] \in Seq(Stops)
  BY <1>2
<1> QED
  BY <1>1, <1>3, <1>4 DEF p, s

\* A day as it was is as it should be.
LEMMA SameDay ==
  ASSUME job.asked \in Jobs, NEW d \in DOMAIN Asked.plans
  PROVE  DayKept(d, Asked.plans[d])
<1>1. Asked.plans[d] \in Seq(Stops)
  BY JobDays DEF Asked
<1>2. ToSet(Standing(Asked.plans[d])) \subseteq ToSet(Asked.plans[d])
  BY <1>1, StandingStops
<1> QED
  BY <1>2 DEF DayKept, DayLocked

\* What the optimizer made of a day, with what has no time behind it.
LEMMA NewDay ==
  ASSUME job.asked \in Jobs, job.given \in Seq(Stops), NEW d \in ToSet(Asked.days),
         NEW s, s \in OptimizedDays(ReplacedDay(Asked.plans[d], job.given, DayLocked(d)), DayLocked(d), Asked.money),
         Accept(d, s)
  PROVE  LET new == s.list \o Standing(ReplacedDay(Asked.plans[d], job.given, DayLocked(d)))
         IN  new \in Seq(Stops) /\ DayKept(d, new)
<1> DEFINE old == Asked.plans[d]
           working == ReplacedDay(old, job.given, DayLocked(d))
           active == KeptOf(working, DayLocked(d))
           rest == Standing(working)
           list == s.list
           new == list \o rest
<1>1. old \in Seq(Stops) /\ Asked.money \in Int
  BY JobDays DEF Asked
<1>2. working \in Seq(Stops) /\ {x \in ToSet(old) : ~Active(x)} \subseteq ToSet(working)
  BY <1>1, ReplacedStops
<1>3. active \in Seq(Stops)
  BY <1>2, KeptStops
<1>4. rest \in Seq(Stops) /\ ToSet(rest) = {x \in ToSet(working) : ~Active(x)}
  BY <1>2, StandingStops
<1>5. ToSet(Standing(old)) = {x \in ToSet(old) : ~Active(x)}
  BY <1>1, StandingStops
<1>6. PICK o \in BestOrders(active, DayLocked(d), Asked.money) : s = Schedule(active, o, Asked.money)
  BY DEF OptimizedDays
<1> HIDE DEF working, active
<1>7. o \in [DOMAIN active -> DOMAIN active]
  <2>1. o \in Orders(active, DayLocked(d))
    BY <1>6 DEF BestOrders
  <2> QED
    BY <1>3, <2>1 DEF Orders
<1>8. Clock(s)
  BY <1>1, <1>3, <1>6, <1>7, ScheduleInTime
<1>9. list \in Seq(Stops) /\ \A i \in 1 .. (Len(list) - 1) :
        list[i].from + list[i].long + Hours(list[i].name, list[i + 1].name) <= list[i + 1].from
  BY <1>8 DEF Clock
<1> HIDE DEF rest, list
<1>10. /\ new \in Seq(Stops) /\ Len(new) = Len(list) + Len(rest) /\ Len(list) \in Nat /\ Len(rest) \in Nat
       /\ \A i \in 1 .. Len(list) : new[i] = list[i]
       /\ \A i \in 1 .. Len(rest) : new[Len(list) + i] = rest[i]
  BY <1>4, <1>9
<1>11. ToSet(new) = ToSet(list) \cup ToSet(rest)
  <2>1. DOMAIN new = 1 .. Len(new) /\ DOMAIN list = 1 .. Len(list) /\ DOMAIN rest = 1 .. Len(rest)
    BY <1>4, <1>9, <1>10
  <2> HIDE DEF new
  <2>2. \A i \in 1 .. Len(new) : i \in 1 .. Len(list) \/ (i - Len(list) \in 1 .. Len(rest) /\ i = Len(list) + (i - Len(list)))
    BY <1>10
  <2>3. \A i \in 1 .. Len(new) : new[i] \in ToSet(list) \cup ToSet(rest)
    <3> SUFFICES ASSUME NEW i \in 1 .. Len(new) PROVE new[i] \in ToSet(list) \cup ToSet(rest)
      OBVIOUS
    <3>1. CASE i \in 1 .. Len(list)
      BY <1>10, <2>1, <3>1 DEF ToSet
    <3>2. CASE i - Len(list) \in 1 .. Len(rest) /\ i = Len(list) + (i - Len(list))
      <4>1. new[i] = rest[i - Len(list)]
        BY <1>10, <3>2
      <4> QED
        BY <2>1, <3>2, <4>1 DEF ToSet
    <3> QED
      BY <2>2, <3>1, <3>2
  <2>4. \A i \in 1 .. Len(list) : list[i] \in ToSet(new)
    <3> SUFFICES ASSUME NEW i \in 1 .. Len(list) PROVE list[i] \in ToSet(new)
      OBVIOUS
    <3>1. i \in 1 .. Len(new)
      BY <1>10
    <3> QED
      BY <1>10, <2>1, <3>1 DEF ToSet
  <2>5. \A i \in 1 .. Len(rest) : rest[i] \in ToSet(new)
    <3> SUFFICES ASSUME NEW i \in 1 .. Len(rest) PROVE rest[i] \in ToSet(new)
      OBVIOUS
    <3>1. Len(list) + i \in 1 .. Len(new)
      BY <1>10
    <3> QED
      BY <1>10, <2>1, <3>1 DEF ToSet
  <2> QED
    BY <2>1, <2>3, <2>4, <2>5 DEF ToSet
<1>12. DayLocked(d) \subseteq NamesIn(new)
  <2>1. DayLocked(d) \subseteq NamesIn(list) \cup NamesIn(Standing(old))
    BY DEF Accept, list
  <2>2. ToSet(Standing(old)) \subseteq ToSet(rest)
    BY <1>2, <1>4, <1>5
  <2> HIDE DEF new
  <2> QED
    BY <1>11, <2>1, <2>2 DEF NamesIn
<1>13. ToSet(Standing(old)) \subseteq ToSet(new)
  BY <1>2, <1>4, <1>5, <1>11
<1>14. InTime(new)
  <2> HIDE DEF new
  <2> SUFFICES ASSUME NEW i \in 1 .. (Len(new) - 1), Active(new[i]), Active(new[i + 1])
               PROVE  new[i].from + new[i].long + Hours(new[i].name, new[i + 1].name) <= new[i + 1].from
    BY DEF InTime
  <2>1. CASE i + 1 <= Len(list)
    <3>1. i \in 1 .. (Len(list) - 1) /\ i \in 1 .. Len(list) /\ i + 1 \in 1 .. Len(list)
      BY <1>10, <2>1
    <3> QED
      BY <1>9, <1>10, <3>1
  <2>2. CASE ~(i + 1 <= Len(list))
    <3>1. i + 1 - Len(list) \in 1 .. Len(rest) /\ i + 1 = Len(list) + (i + 1 - Len(list))
      BY <1>10, <2>2
    <3>2. new[i + 1] = rest[i + 1 - Len(list)]
      BY <1>10, <3>1
    <3>3. new[i + 1] \in ToSet(rest)
      BY <1>4, <3>1, <3>2 DEF ToSet
    <3> QED
      BY <1>4, <3>3
  <2> QED
    BY <2>1, <2>2
<1> HIDE DEF new
<1>15. DayKept(d, new)
  BY <1>12, <1>13, <1>14 DEF DayKept
<1> QED
  BY <1>10, <1>15 DEF new, list, rest, working

LEMMA CollectKeeps == ASSUME ReplanInv, Collect PROVE ReplanInv'
<1>1. PICK found \in {<<>>, Shop} :
        LET given == Wanted(Asked, found)
            unknown == ToSet(Asked.wanted) \ (NamesIn(given) \cup Asked.locked)
        IN  job' = IF unknown # {}
                   THEN [job EXCEPT !.at = "over", !.out = Asked.plans, !.bad = TRUE]
                   ELSE [job EXCEPT !.at = "days", !.out = Asked.plans, !.todo = Asked.days, !.given = given]
  BY DEF Collect
<1>2. found \in Seq(Stops)
  <2>1. <<>> \in Seq(Stops) /\ Shop \in Seq(Stops)
    BY ReplanAssumption
  <2> QED
    BY <2>1
<1> DEFINE given == Wanted(Asked, found)
<1>3. job.asked \in Jobs /\ given \in Seq(Stops)
  BY <1>2, WantedStops DEF ReplanInv, ReplanTypes, Asked
<1> HIDE DEF given
<1>4. /\ Asked.plans \in Seq(Seq(Stops)) /\ Asked.days \in Seq(Nat)
  <2> DEFINE p == Asked.plans  s == Asked.days
  <2>1. p \in Seq(Seq(Stops)) /\ s \in Seq(DOMAIN p) /\ DOMAIN p = 1 .. Len(p) /\ Len(p) \in Nat
    BY <1>3, JobDays DEF Asked
  <2> HIDE DEF p, s
  <2>2. s \in Seq(Nat)
    BY <2>1
  <2> QED
    BY <2>1, <2>2 DEF p, s
<1>5. ReplanTypes' /\ job'.asked = job.asked /\ job'.out = Asked.plans /\ job'.at # "asked"
      /\ (job'.todo = job.todo \/ job'.todo = Asked.days)
  <2>1. job' = [job EXCEPT !.at = "over", !.out = Asked.plans, !.bad = TRUE]
        \/ job' = [job EXCEPT !.at = "days", !.out = Asked.plans, !.todo = Asked.days, !.given = given]
    BY <1>1 DEF given
  <2>2. ReplanTypes
    BY DEF ReplanInv
  <2> QED
    BY <1>3, <1>4, <2>1, <2>2 DEF ReplanTypes
<1>6. \A d \in DOMAIN Asked.plans : DayKept(d, Asked.plans[d])
  BY <1>3, SameDay
<1> QED
  BY <1>5, <1>6 DEF ReplanInv, Asked, DayKept, DayLocked

LEMMA RearrangeKeeps == ASSUME ReplanInv, RearrangeDay PROVE ReplanInv'
<1> DEFINE d == Head(job.todo)
           working == ReplacedDay(Asked.plans[d], job.given, DayLocked(d))
<1>1. /\ ReplanTypes /\ job.at = "days" /\ job.todo # <<>> /\ job.asked \in Jobs /\ job.given \in Seq(Stops)
      /\ Len(job.out) = Len(Asked.plans) /\ \A e \in DOMAIN Asked.plans : DayKept(e, job.out[e])
      /\ ToSet(job.todo) \subseteq ToSet(Asked.days) /\ job.out \in Seq(Seq(Stops)) /\ job.todo \in Seq(Nat)
  BY DEF ReplanInv, ReplanTypes, RearrangeDay
<1>2. d \in ToSet(Asked.days) /\ Tail(job.todo) \in Seq(Nat) /\ ToSet(Tail(job.todo)) \subseteq ToSet(Asked.days)
  <2> DEFINE s == job.todo
  <2> HIDE DEF s
  <2>1. s \in Seq(Nat) /\ s # <<>>
    BY <1>1 DEF s
  <2>2. Head(s) = s[1] /\ Tail(s) \in Seq(Nat) /\ Len(Tail(s)) = Len(s) - 1 /\ Len(s) \in Nat \ {0}
        /\ DOMAIN s = 1 .. Len(s) /\ DOMAIN Tail(s) = 1 .. Len(Tail(s))
        /\ \A i \in 1 .. (Len(s) - 1) : Tail(s)[i] = s[i + 1] /\ i + 1 \in 1 .. Len(s)
    BY <2>1
  <2>3. Head(s) \in ToSet(s) /\ ToSet(Tail(s)) \subseteq ToSet(s)
    BY <2>2 DEF ToSet
  <2> QED
    BY <1>1, <2>2, <2>3 DEF s
<1> HIDE DEF d
<1>3. d \in DOMAIN Asked.plans /\ DOMAIN job.out = DOMAIN Asked.plans
  <2> DEFINE o == job.out
  <2>1. o \in Seq(Seq(Stops)) /\ Len(o) = Len(Asked.plans)
    BY <1>1
  <2> HIDE DEF o
  <2>2. DOMAIN o = 1 .. Len(o)
    BY <2>1
  <2> QED
    BY <1>1, <1>2, <2>1, <2>2, JobDays DEF Asked, o
<1>4. ASSUME NEW out \in Seq(Seq(Stops)), Len(out) = Len(Asked.plans),
             \A e \in DOMAIN Asked.plans : DayKept(e, out[e]),
             NEW bad \in BOOLEAN, job' = [job EXCEPT !.todo = Tail(@), !.out = out, !.bad = bad]
      PROVE  ReplanInv'
  <2>1. ReplanTypes' /\ job'.asked = job.asked /\ job'.out = out /\ job'.todo = Tail(job.todo)
    BY <1>1, <1>2, <1>4 DEF ReplanTypes
  <2> QED
    BY <1>2, <1>4, <2>1 DEF ReplanInv, Asked, DayKept, DayLocked
<1>5. CASE job' = [job EXCEPT !.todo = Tail(@), !.bad = TRUE]
  <2>1. job' = [job EXCEPT !.todo = Tail(@), !.out = job.out, !.bad = TRUE]
    BY <1>1, <1>5 DEF ReplanTypes
  <2> QED
    BY <1>1, <1>4, <2>1
<1>6. ASSUME NEW s \in OptimizedDays(working, DayLocked(d), Asked.money),
             job' = [job EXCEPT !.todo = Tail(@),
                       !.out = IF Accept(d, s) THEN [@ EXCEPT ![d] = s.list \o Standing(working)] ELSE @,
                       !.bad = @ \/ ~Accept(d, s) \/ LeftOut(s, DayLocked(d)) > 0]
      PROVE  ReplanInv'
  <2> DEFINE new == s.list \o Standing(working)
             out == IF Accept(d, s) THEN [job.out EXCEPT ![d] = new] ELSE job.out
             bad == job.bad \/ ~Accept(d, s) \/ LeftOut(s, DayLocked(d)) > 0
  <2>1. job' = [job EXCEPT !.todo = Tail(@), !.out = out, !.bad = bad]
    BY <1>6
  <2>2. bad \in BOOLEAN
    OBVIOUS
  <2>3. Accept(d, s) => new \in Seq(Stops) /\ DayKept(d, new)
    BY <1>1, <1>2, <1>6, NewDay
  <2> HIDE DEF new, bad
  <2>4. out \in Seq(Seq(Stops)) /\ Len(out) = Len(Asked.plans) /\ \A e \in DOMAIN Asked.plans : DayKept(e, out[e])
    <3>1. CASE Accept(d, s)
      <4> DEFINE o == job.out
      <4>1. o \in Seq(Seq(Stops)) /\ d \in DOMAIN o /\ new \in Seq(Stops)
        BY <1>1, <1>3, <2>3, <3>1
      <4> HIDE DEF o
      <4>2. /\ [o EXCEPT ![d] = new] \in Seq(Seq(Stops)) /\ Len([o EXCEPT ![d] = new]) = Len(o)
            /\ \A e \in DOMAIN o : [o EXCEPT ![d] = new][e] = IF e = d THEN new ELSE o[e]
        BY <4>1
      <4> QED
        BY <1>1, <1>3, <2>3, <3>1, <4>2 DEF o
    <3>2. CASE ~Accept(d, s)
      BY <1>1, <3>2
    <3> QED
      BY <3>1, <3>2
  <2> HIDE DEF out
  <2> QED
    BY <1>4, <2>1, <2>2, <2>4
<1> QED
  BY <1>5, <1>6 DEF RearrangeDay, d

LEMMA ReplanStart == ReplanInit => ReplanInv
<1> SUFFICES ASSUME ReplanInit PROVE ReplanInv
  OBVIOUS
<1>1. ReplanTypes /\ job.at = "asked" /\ job.todo = <<>>
  <2>1. <<>> \in Seq(Stops) /\ <<>> \in Seq(Nat) /\ <<>> \in Seq(Seq(Stops)) /\ FALSE \in BOOLEAN
    OBVIOUS
  <2>2. job \in [at : {"asked"}, asked : Jobs, given : {<<>>}, todo : {<<>>}, out : {<<>>}, bad : {FALSE}]
    BY DEF ReplanInit
  <2>3. /\ job = [at |-> job.at, asked |-> job.asked, given |-> job.given, todo |-> job.todo, out |-> job.out,
                  bad |-> job.bad]
        /\ job.at = "asked" /\ job.asked \in Jobs /\ job.given = <<>> /\ job.todo = <<>> /\ job.out = <<>>
        /\ job.bad = FALSE
    BY <2>2
  <2> QED
    BY <2>1, <2>3 DEF ReplanTypes
<1> QED
  BY <1>1 DEF ReplanInv, ToSet

LEMMA ReplanStep == ReplanInv /\ [ReplanNext]_replanVars => ReplanInv'
<1> SUFFICES ASSUME ReplanInv, [ReplanNext]_replanVars PROVE ReplanInv'
  OBVIOUS
<1>1. CASE EndReplan
  <2>1. ReplanTypes' /\ job'.asked = job.asked /\ job'.out = job.out /\ job'.todo = job.todo /\ job.at # "asked"
    BY <1>1 DEF EndReplan, ReplanInv, ReplanTypes
  <2> QED
    BY <2>1 DEF ReplanInv, Asked, DayKept, DayLocked
<1>2. CASE UNCHANGED replanVars
  BY <1>2 DEF replanVars, ReplanInv, ReplanTypes, Asked, DayKept, DayLocked
<1> QED
  BY <1>1, <1>2, CollectKeeps, RearrangeKeeps DEF ReplanNext

\* Whatever is asked for and whatever the search finds, a rearranged trip keeps the days
\* nobody asked for, the locked places and the hotels, and one gets from stop to stop.
THEOREM LockedPlacesStay == ReplanSpec => []LockedKept
<1>1. ReplanInv => LockedKept
  BY DEF ReplanInv, LockedKept
<1> QED
  BY <1>1, ReplanStart, ReplanStep, PTL DEF ReplanSpec

-----------------------------------------------------------------------------
(* The draft of a turn: DraftTurn. *)

\* What the trip had, and what may stand in a draft: an item of the trip, or a new one.
Had(t, x) == \E d \in DOMAIN t : \E i \in DOMAIN t[d] :
  t[d][i].id = x.id /\ t[d][i].name = x.name /\ t[d][i].cost = x.cost /\ (x.id = 0 => t[d][i].type = x.type)
Proper(t, x) == Item(x) /\ (Added(x) \/ Had(t, x))
\* The days of a draft, those of the generator aside.
Rearranged(t, plans, fresh) ==
  /\ Itinerary(plans) /\ UsedOnce(plans)
  /\ \A d \in DOMAIN plans \ fresh : \A i \in DOMAIN plans[d] : Proper(t, plans[d][i])
\* An item in other words: at another time.
Alike(x, y) == Item(x) /\ x.id = y.id /\ x.name = y.name /\ x.cost = y.cost /\ x.type = y.type
Single(items) == \A i, j \in DOMAIN items : items[i].id = items[j].id /\ items[i].id # 0 => i = j
\* A list of some items of another, and one with an item more.
Drawn(items, s) == Listing(s) /\ Single(s) /\ \A i \in DOMAIN s : \E j \in DOMAIN items : Alike(s[i], items[j])
Joined(items, x, s) ==
  Listing(s) /\ Single(s) /\ \A i \in DOMAIN s : s[i] = x \/ \E j \in DOMAIN items : s[i] = items[j]
\* A draft that does not have an item.
Nowhere(plans, x) == x.id # 0 => \A d \in DOMAIN plans : \A i \in DOMAIN plans[d] : plans[d][i].id # x.id

\* A list is a sequence of its elements.
LEMMA ListingSeq ==
  ASSUME NEW s, Listing(s), NEW S, \A i \in 1 .. Len(s) : s[i] \in S
  PROVE  s \in Seq(S) /\ DOMAIN s = 1 .. Len(s) /\ Len(s) \in Nat
<1>1. Len(s) \in Nat /\ s = [k \in 1 .. Len(s) |-> s[k]] BY DEF Listing
<1>2. s \in [1 .. Len(s) -> S] BY <1>1
<1> QED BY <1>1, <1>2

\* A sequence is a list.
LEMMA SeqListing ==
  ASSUME NEW S, NEW s \in Seq(S)
  PROVE  Listing(s) /\ DOMAIN s = 1 .. Len(s) /\ Len(s) \in Nat
BY LenProperties DEF Listing

\* RemoveAt: the items before the place, and those behind it, one place earlier.
LEMMA Removing ==
  ASSUME NEW items, Listing(items), NEW k \in DOMAIN items
  PROVE  /\ Listing(RemoveAt(items, k)) /\ DOMAIN RemoveAt(items, k) = 1 .. (Len(items) - 1)
         /\ \A i \in 1 .. (Len(items) - 1) : RemoveAt(items, k)[i] = items[IF i < k THEN i ELSE i + 1]
<1> DEFINE n == Len(items)
           S == {items[j] : j \in 1 .. n}
           a == SubSeq(items, 1, k - 1)
           b == SubSeq(items, k + 1, n)
<1>1. items \in Seq(S) /\ DOMAIN items = 1 .. n /\ n \in Nat /\ k \in 1 .. n BY ListingSeq
<1>2. a \in Seq(S) /\ Len(a) = k - 1 /\ \A i \in 1 .. (k - 1) : a[i] = items[i]
  <2>1. \A i \in 1 .. (k - 1) : items[i] \in S BY <1>1
  <2> HIDE DEF S, n
  <2>2. /\ a \in Seq(S) /\ Len(a) = (IF 1 <= k - 1 THEN (k - 1) - 1 + 1 ELSE 0)
        /\ \A i \in 1 .. ((k - 1) - 1 + 1) : a[i] = items[1 + i - 1]
    BY <1>1, <2>1, SubSeqProperties, SMTT(30)
  <2> HIDE DEF a
  <2> QED BY <1>1, <2>2
<1>3. b \in Seq(S) /\ Len(b) = n - k /\ \A i \in 1 .. (n - k) : b[i] = items[k + i]
  <2>1. \A i \in (k + 1) .. n : items[i] \in S BY <1>1
  <2> HIDE DEF S, n
  <2>2. /\ b \in Seq(S) /\ Len(b) = (IF k + 1 <= n THEN n - (k + 1) + 1 ELSE 0)
        /\ \A i \in 1 .. (n - (k + 1) + 1) : b[i] = items[(k + 1) + i - 1]
    BY <1>1, <2>1, SubSeqProperties, SMTT(30)
  <2> HIDE DEF b
  <2> QED BY <1>1, <2>2
<1>4. RemoveAt(items, k) = a \o b BY DEF RemoveAt
<1> HIDE DEF S, n, a, b
<1> DEFINE c == a \o b
<1>5. /\ c \in Seq(S) /\ Len(c) = Len(a) + Len(b)
      /\ \A i \in 1 .. (Len(a) + Len(b)) : c[i] = IF i <= Len(a) THEN a[i] ELSE b[i - Len(a)]
  BY <1>2, <1>3, ConcatProperties
<1>6. RemoveAt(items, k) = c BY <1>4
<1> HIDE DEF c
<1>7. Listing(c) /\ DOMAIN c = 1 .. (n - 1)
  BY <1>1, <1>2, <1>3, <1>5, SeqListing
<1>8. \A i \in 1 .. (n - 1) : c[i] = items[IF i < k THEN i ELSE i + 1]
  <2> SUFFICES ASSUME NEW i \in 1 .. (n - 1) PROVE c[i] = items[IF i < k THEN i ELSE i + 1] OBVIOUS
  <2>1. i \in Int /\ k \in Int /\ i \in 1 .. (Len(a) + Len(b)) BY <1>1, <1>2, <1>3
  <2>2. c[i] = IF i <= k - 1 THEN a[i] ELSE b[i - (k - 1)] BY <2>1, <1>2, <1>5
  <2>3. CASE i < k BY <2>1, <2>2, <2>3, <1>2
  <2>4. CASE i >= k
    <3>1. i - (k - 1) \in 1 .. (n - k) /\ k + (i - (k - 1)) = i + 1 BY <2>1, <2>4, <1>1
    <3>2. c[i] = b[i - (k - 1)] BY <2>1, <2>2, <2>4
    <3>3. b[i - (k - 1)] = items[k + (i - (k - 1))] BY <3>1, <1>3
    <3> QED BY <2>1, <2>4, <3>1, <3>2, <3>3
  <2> QED BY <2>1, <2>3, <2>4
<1> QED BY <1>6, <1>7, <1>8 DEF n

\* InsertAt: the items before the place, the new one, and the others one place later.
LEMMA Inserting ==
  ASSUME NEW items, Listing(items), NEW k \in 1 .. (Len(items) + 1), NEW x
  PROVE  /\ Listing(InsertAt(items, k, x)) /\ DOMAIN InsertAt(items, k, x) = 1 .. (Len(items) + 1)
         /\ \A i \in 1 .. (Len(items) + 1) :
              InsertAt(items, k, x)[i] = IF i < k THEN items[i] ELSE IF i = k THEN x ELSE items[i - 1]
<1> DEFINE n == Len(items)
           S == {items[j] : j \in 1 .. n} \cup {x}
           a == SubSeq(items, 1, k - 1)
           b == SubSeq(items, k, n)
<1>1. items \in Seq(S) /\ DOMAIN items = 1 .. n /\ n \in Nat /\ k \in 1 .. (n + 1) BY ListingSeq
<1>2. a \in Seq(S) /\ Len(a) = k - 1 /\ \A i \in 1 .. (k - 1) : a[i] = items[i]
  <2>1. \A i \in 1 .. (k - 1) : items[i] \in S BY <1>1
  <2> HIDE DEF S, n
  <2>2. /\ a \in Seq(S) /\ Len(a) = (IF 1 <= k - 1 THEN (k - 1) - 1 + 1 ELSE 0)
        /\ \A i \in 1 .. ((k - 1) - 1 + 1) : a[i] = items[1 + i - 1]
    BY <1>1, <2>1, SubSeqProperties, SMTT(30)
  <2> HIDE DEF a
  <2> QED BY <1>1, <2>2
<1>3. b \in Seq(S) /\ Len(b) = n - k + 1 /\ \A i \in 1 .. (n - k + 1) : b[i] = items[k + i - 1]
  <2>1. \A i \in k .. n : items[i] \in S BY <1>1
  <2> HIDE DEF S, n
  <2>2. /\ b \in Seq(S) /\ Len(b) = (IF k <= n THEN n - k + 1 ELSE 0)
        /\ \A i \in 1 .. (n - k + 1) : b[i] = items[k + i - 1]
    BY <1>1, <2>1, SubSeqProperties, SMTT(30)
  <2> HIDE DEF b
  <2> QED BY <1>1, <2>2
<1>4. <<x>> \in Seq(S) /\ Len(<<x>>) = 1 /\ <<x>>[1] = x OBVIOUS
<1>5. InsertAt(items, k, x) = (a \o <<x>>) \o b BY DEF InsertAt
<1> HIDE DEF S, n, a, b
<1> DEFINE c == a \o <<x>>
<1>6. c \in Seq(S) /\ Len(c) = k /\ \A i \in 1 .. k : c[i] = IF i < k THEN items[i] ELSE x
  <2>1. /\ c \in Seq(S) /\ Len(c) = Len(a) + 1
        /\ \A i \in 1 .. (Len(a) + 1) : c[i] = IF i <= Len(a) THEN a[i] ELSE <<x>>[i - Len(a)]
    BY <1>2, <1>4, ConcatProperties
  <2> HIDE DEF c
  <2> QED BY <1>1, <1>2, <1>4, <2>1
<1> HIDE DEF c
<1> DEFINE e == c \o b
<1>7. /\ e \in Seq(S) /\ Len(e) = Len(c) + Len(b)
      /\ \A i \in 1 .. (Len(c) + Len(b)) : e[i] = IF i <= Len(c) THEN c[i] ELSE b[i - Len(c)]
  BY <1>3, <1>6, ConcatProperties
<1>8. InsertAt(items, k, x) = e BY <1>5 DEF c
<1> HIDE DEF e
<1>9. Listing(e) /\ DOMAIN e = 1 .. (n + 1)
  BY <1>1, <1>3, <1>6, <1>7, SeqListing
<1>10. \A i \in 1 .. (n + 1) : e[i] = IF i < k THEN items[i] ELSE IF i = k THEN x ELSE items[i - 1]
  <2> SUFFICES ASSUME NEW i \in 1 .. (n + 1)
               PROVE  e[i] = IF i < k THEN items[i] ELSE IF i = k THEN x ELSE items[i - 1]
    OBVIOUS
  <2>1. i \in Int /\ k \in Int /\ i \in 1 .. (Len(c) + Len(b)) BY <1>1, <1>3, <1>6
  <2>2. e[i] = IF i <= k THEN c[i] ELSE b[i - k] BY <2>1, <1>6, <1>7
  <2>3. CASE i <= k BY <2>1, <2>2, <2>3, <1>6
  <2>4. CASE i > k
    <3>1. i - k \in 1 .. (n - k + 1) /\ k + (i - k) - 1 = i - 1 BY <2>1, <2>4, <1>1
    <3>2. e[i] = b[i - k] BY <2>1, <2>2, <2>4
    <3>3. b[i - k] = items[k + (i - k) - 1] BY <3>1, <1>3
    <3> QED BY <2>1, <2>4, <3>1, <3>2, <3>3
  <2> QED BY <2>1, <2>3, <2>4
<1> QED BY <1>8, <1>9, <1>10 DEF n

\* Append is an insertion at the end.
LEMMA Appending ==
  ASSUME NEW items, Listing(items), NEW x
  PROVE  /\ Listing(Append(items, x)) /\ DOMAIN Append(items, x) = 1 .. (Len(items) + 1)
         /\ \A i \in 1 .. Len(items) : Append(items, x)[i] = items[i]
         /\ Append(items, x)[Len(items) + 1] = x /\ Len(items) \in Nat /\ DOMAIN items = 1 .. Len(items)
<1> DEFINE S == {items[j] : j \in 1 .. Len(items)} \cup {x}
<1>1. items \in Seq(S) /\ DOMAIN items = 1 .. Len(items) /\ Len(items) \in Nat BY ListingSeq
<1>2. x \in S OBVIOUS
<1> HIDE DEF S
<1> DEFINE c == Append(items, x)
<1>3. /\ c \in Seq(S) /\ Len(c) = Len(items) + 1
      /\ \A i \in 1 .. Len(items) : c[i] = items[i]
      /\ c[Len(items) + 1] = x
  BY <1>1, <1>2, AppendProperties
<1> HIDE DEF c
<1>4. Listing(c) /\ DOMAIN c = 1 .. (Len(items) + 1) BY <1>3, SeqListing
<1> QED BY <1>1, <1>3, <1>4 DEF c

\* A list without repetition is drawn from itself.
LEMMA DrawnSelf ==
  ASSUME NEW items, Listing(items), Single(items), \A i \in DOMAIN items : Item(items[i])
  PROVE  Drawn(items, items)
BY DEF Drawn, Alike

\* A list without one of its items is drawn from it, and that item is gone.
LEMMA DrawnOut ==
  ASSUME NEW items, Listing(items), Single(items), \A i \in DOMAIN items : Item(items[i]), NEW k \in DOMAIN items
  PROVE  /\ Drawn(items, RemoveAt(items, k))
         /\ items[k].id # 0 => \A i \in DOMAIN RemoveAt(items, k) : RemoveAt(items, k)[i].id # items[k].id
<1> DEFINE s == RemoveAt(items, k)
           o(i) == IF i < k THEN i ELSE i + 1
<1>1. Listing(s) /\ DOMAIN s = 1 .. (Len(items) - 1) /\ \A i \in 1 .. (Len(items) - 1) : s[i] = items[o(i)]
  BY Removing
<1>2. Len(items) \in Nat /\ DOMAIN items = 1 .. Len(items) BY DEF Listing
<1>3. \A i \in DOMAIN s : s[i] = items[o(i)] /\ o(i) \in DOMAIN items /\ o(i) # k BY <1>1, <1>2
<1>4. \A i, j \in DOMAIN s : o(i) = o(j) => i = j BY <1>1, <1>2
<1> HIDE DEF s, o
<1>5. Single(s) BY <1>3, <1>4 DEF Single
<1>6. \A i \in DOMAIN s : Alike(s[i], items[o(i)]) BY <1>3 DEF Alike
<1>7. Drawn(items, s) BY <1>1, <1>3, <1>5, <1>6 DEF Drawn
<1>8. items[k].id # 0 => \A i \in DOMAIN s : s[i].id # items[k].id BY <1>3 DEF Single
<1> QED BY <1>7, <1>8 DEF s

\* An item that is not in a list can be put anywhere in it.
LEMMA JoinedIn ==
  ASSUME NEW items, Listing(items), Single(items), NEW k \in 1 .. (Len(items) + 1), NEW x,
         x.id # 0 => \A i \in DOMAIN items : items[i].id # x.id
  PROVE  Joined(items, x, InsertAt(items, k, x))
<1> DEFINE s == InsertAt(items, k, x)
           o(i) == IF i < k THEN i ELSE i - 1
<1>1. Listing(s) /\ DOMAIN s = 1 .. (Len(items) + 1)
      /\ \A i \in 1 .. (Len(items) + 1) : s[i] = IF i < k THEN items[i] ELSE IF i = k THEN x ELSE items[i - 1]
  BY Inserting
<1>2. Len(items) \in Nat /\ DOMAIN items = 1 .. Len(items) BY DEF Listing
<1>3. \A i \in DOMAIN s : IF i = k THEN s[i] = x ELSE s[i] = items[o(i)] /\ o(i) \in DOMAIN items BY <1>1, <1>2
<1>4. \A i, j \in DOMAIN s : i # k /\ j # k /\ o(i) = o(j) => i = j BY <1>1, <1>2
<1> HIDE DEF s, o
<1>5. Single(s) BY <1>3, <1>4 DEF Single
<1> QED BY <1>1, <1>3, <1>5 DEF Joined, s

\* And at its end.
LEMMA JoinedAtEnd ==
  ASSUME NEW items, Listing(items), Single(items), NEW x, x.id # 0 => \A i \in DOMAIN items : items[i].id # x.id
  PROVE  Joined(items, x, Append(items, x))
<1> DEFINE s == Append(items, x)
           n == Len(items)
<1>1. /\ Listing(s) /\ DOMAIN s = 1 .. (n + 1) /\ \A i \in 1 .. n : s[i] = items[i]
      /\ s[n + 1] = x /\ n \in Nat /\ DOMAIN items = 1 .. n
  BY Appending
<1> HIDE DEF s, n
<1>2. \A i \in DOMAIN s : IF i = n + 1 THEN s[i] = x ELSE s[i] = items[i] /\ i \in DOMAIN items BY <1>1
<1>3. Single(s) BY <1>2 DEF Single
<1> QED BY <1>1, <1>2, <1>3 DEF Joined, s

\* What is alike is as proper.
LEMMA AlikeProper == ASSUME NEW t, NEW x, NEW y, Proper(t, y), Alike(x, y) PROVE Proper(t, x)
BY DEF Proper, Alike, Had, Added

\* A day of a draft is a list without repetition.
LEMMA DayOfDraft ==
  ASSUME NEW t, NEW fresh, NEW plans, Rearranged(t, plans, fresh), NEW d \in DOMAIN plans
  PROVE  Listing(plans[d]) /\ Single(plans[d]) /\ \A i \in DOMAIN plans[d] : Item(plans[d][i])
BY DEF Rearranged, Itinerary, UsedOnce, Single

\* Days drawn from those of a draft are a draft.
LEMMA DrawnDays ==
  ASSUME NEW t, NEW fresh, NEW plans, NEW q, Rearranged(t, plans, fresh), Listing(q), DOMAIN q \subseteq DOMAIN plans,
         \A d \in DOMAIN q : Drawn(plans[d], q[d])
  PROVE  Rearranged(t, q, fresh)
<1>1. Itinerary(q) BY DEF Itinerary, Drawn, Alike
<1>2. UsedOnce(q)
  <2> SUFFICES ASSUME NEW d \in DOMAIN q, NEW e \in DOMAIN q, NEW i \in DOMAIN q[d], NEW j \in DOMAIN q[e],
                      q[d][i].id = q[e][j].id, q[d][i].id # 0
               PROVE  d = e /\ i = j
    BY DEF UsedOnce
  <2>1. PICK k \in DOMAIN plans[d] : Alike(q[d][i], plans[d][k]) BY DEF Drawn
  <2>2. PICK m \in DOMAIN plans[e] : Alike(q[e][j], plans[e][m]) BY DEF Drawn
  <2>3. d = e BY <2>1, <2>2 DEF Alike, Rearranged, UsedOnce
  <2>4. Single(q[d]) BY DEF Drawn
  <2> QED BY <2>3, <2>4 DEF Single
<1>3. ASSUME NEW d \in DOMAIN q \ fresh, NEW i \in DOMAIN q[d] PROVE Proper(t, q[d][i])
  <2>1. PICK k \in DOMAIN plans[d] : Alike(q[d][i], plans[d][k]) BY DEF Drawn
  <2> QED BY <2>1, AlikeProper DEF Rearranged
<1> QED BY <1>1, <1>2, <1>3 DEF Rearranged

\* A day with one item more, that is nowhere else in the draft.
LEMMA JoinedDay ==
  ASSUME NEW t, NEW plans, Rearranged(t, plans, {}), NEW d \in DOMAIN plans, NEW x, Proper(t, x), NEW s, Joined(plans[d], x, s),
         Nowhere(plans, x)
  PROVE  Rearranged(t, [plans EXCEPT ![d] = s], {})
<1> DEFINE q == [plans EXCEPT ![d] = s]
<1>1. Listing(plans) BY DEF Rearranged, Itinerary
<1>2. DOMAIN q = DOMAIN plans /\ q[d] = s /\ \A e \in DOMAIN plans : e # d => q[e] = plans[e] OBVIOUS
<1>3. Listing(q)
  <2>1. Len(plans) \in Nat /\ DOMAIN plans = 1 .. Len(plans) BY <1>1 DEF Listing
  <2>2. q \in Seq({q[e] : e \in 1 .. Len(plans)})
    <3>1. q = [e \in 1 .. Len(plans) |-> q[e]] BY <2>1
    <3> HIDE DEF q
    <3> QED BY <2>1, <3>1
  <2> HIDE DEF q
  <2> QED BY <2>2, SeqListing
<1> HIDE DEF q
<1>4. \A e \in DOMAIN q : Listing(q[e]) /\ Single(q[e]) BY <1>2, DayOfDraft DEF Joined
<1>5. ASSUME NEW e \in DOMAIN q, NEW i \in DOMAIN q[e]
      PROVE  (e = d /\ q[e][i] = x) \/ \E k \in DOMAIN plans[e] : q[e][i] = plans[e][k]
  BY <1>2 DEF Joined
<1>6. \A e \in DOMAIN q : \A i \in DOMAIN q[e] : Proper(t, q[e][i])
  BY <1>2, <1>5 DEF Rearranged
<1>7. UsedOnce(q)
  <2> SUFFICES ASSUME NEW e \in DOMAIN q, NEW f \in DOMAIN q, NEW i \in DOMAIN q[e], NEW j \in DOMAIN q[f],
                      q[e][i].id = q[f][j].id, q[e][i].id # 0
               PROVE  e = f /\ i = j
    BY DEF UsedOnce
  <2>1. e = f
    <3>1. CASE e = d /\ q[e][i] = x BY <3>1, <1>2, <1>5 DEF Nowhere
    <3>2. CASE f = d /\ q[f][j] = x BY <3>2, <1>2, <1>5 DEF Nowhere
    <3>3. CASE \E k \in DOMAIN plans[e] : q[e][i] = plans[e][k] /\ \E m \in DOMAIN plans[f] : q[f][j] = plans[f][m]
      BY <3>3, <1>2 DEF Rearranged, UsedOnce
    <3> QED BY <1>5, <3>1, <3>2, <3>3
  <2> QED BY <2>1, <1>4 DEF Single
<1>8. Itinerary(q) BY <1>3, <1>4, <1>6 DEF Itinerary, Proper
<1> QED BY <1>6, <1>7, <1>8 DEF Rearranged, q

\* A list is one when its elements are given place by place.
LEMMA MappedListing ==
  ASSUME NEW n \in Nat, NEW s, s = [i \in 1 .. n |-> s[i]]
  PROVE  Listing(s) /\ DOMAIN s = 1 .. n /\ Len(s) = n
<1>1. s \in Seq({s[i] : i \in 1 .. n}) /\ Len(s) = n OBVIOUS
<1> QED BY <1>1, SeqListing

\* A draft with a day drawn from what it was.
LEMMA DrawnDay ==
  ASSUME NEW t, NEW plans, Rearranged(t, plans, {}), NEW d \in DOMAIN plans, NEW s, Drawn(plans[d], s)
  PROVE  Rearranged(t, [plans EXCEPT ![d] = s], {})
<1> DEFINE q == [plans EXCEPT ![d] = s]
<1>1. Listing(plans) BY DEF Rearranged, Itinerary
<1>2. DOMAIN q = DOMAIN plans /\ q[d] = s /\ \A e \in DOMAIN plans : e # d => q[e] = plans[e] OBVIOUS
<1>3. Len(plans) \in Nat /\ DOMAIN plans = 1 .. Len(plans) BY <1>1 DEF Listing
<1>4. q = [e \in 1 .. Len(plans) |-> q[e]] BY <1>3
<1> HIDE DEF q
<1>5. Listing(q) BY <1>3, <1>4, MappedListing
<1>6. \A e \in DOMAIN q : Drawn(plans[e], q[e]) BY <1>2, DayOfDraft, DrawnSelf
<1> QED BY <1>2, <1>5, <1>6, DrawnDays DEF q

\* Where an item is, if the draft has it.
LEMMA WhereFound ==
  ASSUME NEW plans, NEW n, NEW m, DOMAIN plans = 1 .. m, DayOf(plans, n) # 0
  PROVE  /\ n # 0 /\ DayOf(plans, n) \in DOMAIN plans
         /\ PlaceOf(plans[DayOf(plans, n)], n) \in DOMAIN plans[DayOf(plans, n)]
         /\ plans[DayOf(plans, n)][PlaceOf(plans[DayOf(plans, n)], n)].id = n
<1>1. HasId(plans, DayOf(plans, n), n) /\ DayOf(plans, n) \in DOMAIN plans BY DEF DayOf
<1> DEFINE items == plans[DayOf(plans, n)]
<1>2. n # 0 /\ \E i \in DOMAIN items : items[i].id = n BY <1>1 DEF HasId
<1> HIDE DEF items
<1>3. PlaceOf(items, n) \in DOMAIN items /\ items[PlaceOf(items, n)].id = n BY <1>2 DEF PlaceOf
<1> QED BY <1>1, <1>2, <1>3 DEF items

\* The draft while the patches are applied: m days, and the items moved without a time.
Patchy(t, m, st) ==
  /\ st = [days |-> st.days, moved |-> st.moved] /\ IsFiniteSet(st.moved)
  /\ DOMAIN st.days = 1 .. m /\ Rearranged(t, st.days, {})

\* An item that is retimed is the same item.
LEMMA RetimedAlike == ASSUME NEW x, NEW p, Item(x) PROVE Alike(Retimed(x, p), x)
<1> DEFINE y == IF p.from = NoTime THEN x ELSE [x EXCEPT !.from = p.from]
<1>1. Alike(y, x) /\ Item(y)
  <2>1. CASE p.from = NoTime BY <2>1 DEF Alike
  <2>2. CASE p.from # NoTime BY <2>2 DEF Alike, Item
  <2> QED BY <2>1, <2>2
<1>2. Retimed(x, p) = y \/ \E h : Retimed(x, p) = [y EXCEPT !.to = h] BY DEF Retimed
<1> HIDE DEF y
<1>3. \A h : Alike([y EXCEPT !.to = h], x) BY <1>1 DEF Alike, Item
<1> QED BY <1>1, <1>2, <1>3

\* A list with some of its items at other times is drawn from it.
LEMMA DrawnAlike ==
  ASSUME NEW items, Listing(items), Single(items), NEW s, s = [i \in DOMAIN items |-> s[i]],
         \A i \in DOMAIN items : Alike(s[i], items[i])
  PROVE  Drawn(items, s)
<1>1. Len(items) \in Nat /\ DOMAIN items = 1 .. Len(items) BY DEF Listing
<1>2. Listing(s) /\ DOMAIN s = DOMAIN items BY <1>1, MappedListing
<1>3. Single(s) BY <1>2 DEF Single, Alike
<1> QED BY <1>2, <1>3 DEF Drawn

\* A day drawn from what it was, whatever becomes of the moved ones.
LEMMA PatchyDay ==
  ASSUME NEW t, NEW m, NEW st, Patchy(t, m, st), NEW d \in 1 .. m, NEW s, Drawn(st.days[d], s), NEW moved, IsFiniteSet(moved)
  PROVE  Patchy(t, m, [days |-> [st.days EXCEPT ![d] = s], moved |-> moved])
<1>1. Rearranged(t, [st.days EXCEPT ![d] = s], {}) BY DrawnDay DEF Patchy
<1>2. DOMAIN [st.days EXCEPT ![d] = s] = 1 .. m BY DEF Patchy
<1> QED BY <1>1, <1>2 DEF Patchy

\* Deleting takes an item out of its day, or leaves it.
LEMMA DeletePatchy ==
  ASSUME NEW t, NEW m, NEW s, NEW n, NEW st, Patchy(t, m, st), NEW p, DayOf(st.days, p.id) # 0
  PROVE  Patchy(t, m, Delete(s, n, st, p))
<1> DEFINE d == DayOf(st.days, p.id)
           r == Without(st.days[d], p.id)
<1>1. d \in 1 .. m /\ PlaceOf(st.days[d], p.id) \in DOMAIN st.days[d] BY WhereFound DEF Patchy
<1>2. Drawn(st.days[d], r) BY <1>1, DayOfDraft, DrawnOut DEF Patchy, Without
<1>3. Delete(s, n, st, p) = st \/ Delete(s, n, st, p) = [st EXCEPT !.days[d] = Without(@, p.id)] BY DEF Delete
<1>4. [st EXCEPT !.days[d] = Without(@, p.id)] = [days |-> [st.days EXCEPT ![d] = r], moved |-> st.moved]
  BY <1>1 DEF Patchy
<1> HIDE DEF d, r
<1>5. Patchy(t, m, [days |-> [st.days EXCEPT ![d] = r], moved |-> st.moved])
  BY <1>1, <1>2, PatchyDay DEF Patchy
<1> QED BY <1>3, <1>4, <1>5

\* An update retimes an item where it is.
LEMMA UpdatePatchy ==
  ASSUME NEW t, NEW m, NEW st, Patchy(t, m, st), NEW p, DayOf(st.days, p.id) # 0
  PROVE  Patchy(t, m, Update(st, p))
<1> DEFINE d == DayOf(st.days, p.id)
           items == st.days[d]
           r == [i \in DOMAIN items |-> IF items[i].id = p.id THEN Retimed(items[i], p) ELSE items[i]]
           moved == IF p.from # NoTime THEN st.moved \ {p.id} ELSE st.moved
<1>1. d \in 1 .. m BY WhereFound DEF Patchy
<1>2. Listing(items) /\ Single(items) /\ \A i \in DOMAIN items : Item(items[i]) BY <1>1, DayOfDraft DEF Patchy
<1>3. Update(st, p) = [days |-> [st.days EXCEPT ![d] = r], moved |-> moved] BY <1>1 DEF Patchy, Update
<1>4. \A i \in DOMAIN items : Alike(r[i], items[i])
  <2> SUFFICES ASSUME NEW i \in DOMAIN items PROVE Alike(r[i], items[i]) OBVIOUS
  <2>1. Alike(Retimed(items[i], p), items[i]) BY <1>2, RetimedAlike
  <2>2. Alike(items[i], items[i]) BY <1>2 DEF Alike
  <2> QED BY <2>1, <2>2
<1>5. r = [i \in DOMAIN items |-> r[i]] OBVIOUS
<1>6. IsFiniteSet(moved) BY FS_Subset DEF Patchy
<1> HIDE DEF r, moved
<1>7. Drawn(items, r) BY <1>2, <1>4, <1>5, DrawnAlike
<1> HIDE DEF items
<1>8. items = st.days[d] BY DEF items
<1> HIDE DEF d
<1> QED BY <1>1, <1>3, <1>6, <1>7, <1>8, PatchyDay

\* Without an item, the draft has it nowhere.
LEMMA GoneFrom ==
  ASSUME NEW t, NEW m, NEW plans, DOMAIN plans = 1 .. m, Rearranged(t, plans, {}),
         NEW d \in DOMAIN plans, NEW k \in DOMAIN plans[d], NEW x, x = plans[d][k],
         NEW left, left = [plans EXCEPT ![d] = RemoveAt(plans[d], k)]
  PROVE  /\ DOMAIN left = 1 .. m /\ Rearranged(t, left, {}) /\ Proper(t, x) /\ Nowhere(left, x)
<1> DEFINE r == RemoveAt(plans[d], k)
<1>1. Drawn(plans[d], r) /\ (x.id # 0 => \A i \in DOMAIN r : r[i].id # x.id) BY DayOfDraft, DrawnOut
<1> HIDE DEF r
<1>2. Rearranged(t, left, {}) BY <1>1, DrawnDay DEF r
<1>3. Proper(t, x) BY DEF Rearranged
<1>4. x.id # 0 => \A e \in DOMAIN plans : e # d => \A i \in DOMAIN plans[e] : plans[e][i].id # x.id
  BY DEF Rearranged, UsedOnce
<1>5. DOMAIN left = DOMAIN plans /\ left[d] = r /\ \A e \in DOMAIN plans : e # d => left[e] = plans[e] BY DEF r
<1>6. Nowhere(left, x) BY <1>1, <1>4, <1>5 DEF Nowhere
<1> QED BY <1>2, <1>3, <1>5, <1>6

\* A move takes an item out of its day and puts it into another, once.
LEMMA MovePatchy ==
  ASSUME NEW t, NEW m \in Nat, NEW n \in 0 .. m, NEW st, Patchy(t, m, st), NEW p, p.pos \in Nat, DayOf(st.days, p.id) # 0
  PROVE  Patchy(t, m, Move(n, st, p))
<1> DEFINE d == DayOf(st.days, p.id)
           k == PlaceOf(st.days[d], p.id)
           item == st.days[d][k]
           left == [st.days EXCEPT ![d] = RemoveAt(st.days[d], k)]
           place == IF p.pos > Len(left[p.day]) THEN Len(left[p.day]) ELSE p.pos
           r == InsertAt(left[p.day], place + 1, item)
<1>1. d \in 1 .. m /\ d \in DOMAIN st.days /\ k \in DOMAIN st.days[d] BY WhereFound DEF Patchy
<1>2. /\ DOMAIN left = 1 .. m /\ Rearranged(t, left, {}) /\ Proper(t, item) /\ Nowhere(left, item)
  BY <1>1, GoneFrom DEF Patchy
<1>3. left = [st.days EXCEPT ![d] = Without(@, p.id)] BY <1>1 DEF Without
<1>4. item = ItemIn(st.days[d], p.id) BY DEF ItemIn
<1>5. CASE p.day \in 1 .. n
  <2>1. p.day \in DOMAIN left BY <1>2, <1>5
  <2>2. Move(n, st, p) = [days |-> [left EXCEPT ![p.day] = r], moved |-> st.moved \cup {p.id}]
    BY <1>3, <1>4, <1>5, <2>1 DEF Move
  <2> HIDE DEF left, item, k, d
  <2>3. Listing(left[p.day]) /\ Single(left[p.day]) BY <1>2, <2>1, DayOfDraft
  <2>4. place + 1 \in 1 .. (Len(left[p.day]) + 1) BY <2>3 DEF Listing
  <2> HIDE DEF place
  <2>5. Joined(left[p.day], item, r) BY <1>2, <2>1, <2>3, <2>4, JoinedIn DEF Nowhere
  <2> HIDE DEF r
  <2>6. Rearranged(t, [left EXCEPT ![p.day] = r], {}) BY <1>2, <2>1, <2>5, JoinedDay
  <2>7. IsFiniteSet(st.moved \cup {p.id}) BY FS_AddElement DEF Patchy
  <2> QED BY <1>2, <2>2, <2>6, <2>7 DEF Patchy
<1>6. CASE p.day \notin 1 .. n BY <1>6 DEF Move
<1> QED BY <1>5, <1>6

\* What is added is an item of the model's, and no hotel.
LEMMA AddPatchy ==
  ASSUME NEW t, NEW m \in Nat, NEW n \in 0 .. m, NEW st, Patchy(t, m, st), NEW p, Item(p.item), p.item.id = 0
  PROVE  Patchy(t, m, AddItem(n, st, p))
<1> DEFINE x == [p.item EXCEPT !.cost = 0]
           r == Append(st.days[p.day], x)
<1>1. CASE p.day \in 1 .. n /\ p.item.type # "hotel"
  <2>1. Proper(t, x) /\ x.id = 0 BY <1>1 DEF Proper, Item, Added
  <2>2. p.day \in DOMAIN st.days BY <1>1 DEF Patchy
  <2>3. AddItem(n, st, p) = [days |-> [st.days EXCEPT ![p.day] = r], moved |-> st.moved]
    BY <1>1, <2>2 DEF AddItem, Patchy
  <2> HIDE DEF x
  <2>4. Joined(st.days[p.day], x, r) BY <2>1, <2>2, DayOfDraft, JoinedAtEnd DEF Patchy
  <2> HIDE DEF r
  <2>5. Rearranged(t, [st.days EXCEPT ![p.day] = r], {}) BY <2>1, <2>2, <2>4, JoinedDay DEF Patchy, Nowhere
  <2> QED BY <2>3, <2>5 DEF Patchy
<1>2. CASE ~(p.day \in 1 .. n /\ p.item.type # "hotel") BY <1>2 DEF AddItem
<1> QED BY <1>1, <1>2

\* So every patch keeps the draft.
LEMMA PatchedPatchy ==
  ASSUME NEW t, NEW m \in Nat, NEW n \in 0 .. m, NEW s, NEW st, Patchy(t, m, st), NEW p, p.pos \in Nat,
         p.op = "add" => Item(p.item) /\ p.item.id = 0
  PROVE  Patchy(t, m, Patched(s, n, st, p))
<1>1. CASE p.op = "add" BY <1>1, AddPatchy DEF Patched
<1>2. CASE p.op # "add" /\ DayOf(st.days, p.id) # 0
  BY <1>2, DeletePatchy, UpdatePatchy, MovePatchy DEF Patched
<1>3. CASE p.op # "add" /\ DayOf(st.days, p.id) = 0 BY <1>3 DEF Patched
<1> QED BY <1>1, <1>2, <1>3

\* What each turn of the folds keeps.
PatchTurn(p, a, x) == Patched(p[1], p[2], a, x)
PatchKept(q, k, a) == Patchy(q[1], q[2], a)
PatchFold == INSTANCE FoldLaws WITH Op <- PatchTurn, Kept <- PatchKept

\* And so do all of them, one after the other.
LEMMA PatchesPatchy ==
  ASSUME NEW t, NEW m \in Nat, NEW n \in 0 .. m, NEW s, NEW base, Patchy(t, m, base), NEW patches, Listing(patches),
         \A k \in DOMAIN patches :
           patches[k].pos \in Nat /\ (patches[k].op = "add" => Item(patches[k].item) /\ patches[k].item.id = 0)
  PROVE  Patchy(t, m, PatchFold!Fold(<<s, n>>, base, patches))
<1> DEFINE q == <<t, m>>
           par == <<s, n>>
           k0 == Len(patches)
<1>1. k0 \in Nat /\ DOMAIN patches = 1 .. k0 BY DEF Listing
<1>2. PatchKept(q, 0, base) BY DEF PatchKept
<1>3. \A k \in 0 .. (k0 - 1) : \A a : PatchKept(q, k, a) => PatchKept(q, k + 1, PatchTurn(par, a, patches[k + 1]))
  <2> SUFFICES ASSUME NEW k \in 0 .. (k0 - 1), NEW a, PatchKept(q, k, a)
               PROVE  PatchKept(q, k + 1, PatchTurn(par, a, patches[k + 1]))
    OBVIOUS
  <2> DEFINE x == patches[k + 1]
  <2>1. k + 1 \in DOMAIN patches BY <1>1
  <2>2. Patchy(t, m, a) BY DEF PatchKept
  <2>3. x.pos \in Nat /\ (x.op = "add" => Item(x.item) /\ x.item.id = 0) BY <2>1
  <2> HIDE DEF x
  <2>4. Patchy(t, m, Patched(s, n, a, x)) BY <2>2, <2>3, PatchedPatchy
  <2> QED BY <2>4 DEF PatchKept, PatchTurn, x
<1> HIDE DEF k0, q, par
<1>4. PatchKept(q, k0, PatchFold!Fold(par, base, patches)) BY <1>1, <1>2, <1>3, PatchFold!FoldKeeps
<1> QED BY <1>4 DEF PatchKept, q, par

\* An item at another hour is drawn as it was.
LEMMA RescheduledSo ==
  ASSUME NEW t, NEW m, NEW days, DOMAIN days = 1 .. m, Rearranged(t, days, {}), NEW id
  PROVE  DOMAIN Rescheduled(days, id) = 1 .. m /\ Rearranged(t, Rescheduled(days, id), {})
<1> DEFINE d == DayOf(days, id)
           items == days[d]
           At(h, e) == [i \in DOMAIN items |-> IF items[i].id = id THEN [items[i] EXCEPT !.from = h, !.to = e] ELSE items[i]]
<1>1. \/ Rescheduled(days, id) = days
      \/ d # 0 /\ \E h, e : Rescheduled(days, id) = [days EXCEPT ![d] = At(h, e)]
  <2> DEFINE item == ItemIn(days[d], id)
             free(h) == /\ h + item.long <= LastHour
                        /\ \A x \in Busy(Without(days[d], id)) : h + item.long <= x.from \/ End(x) <= h
             hours == {h \in FirstHour..(LastHour - item.long) : free(h)}
             hour == CHOOSE h \in hours : \A g \in hours : h <= g
             same == d = 0 \/ item.long = 0 \/ (item.from # NoTime /\ free(item.from)) \/ hours = {}
  <2>1. Rescheduled(days, id) = IF same THEN days ELSE [days EXCEPT ![d] = At(hour, hour + item.long)]
    BY Zenon DEF Rescheduled
  <2>2. ~same => d # 0 OBVIOUS
  <2> HIDE DEF same, hour, item, At, items, d
  <2> QED BY <2>1, <2>2
<1>2. ASSUME NEW h, NEW e, d # 0
      PROVE  DOMAIN [days EXCEPT ![d] = At(h, e)] = 1 .. m /\ Rearranged(t, [days EXCEPT ![d] = At(h, e)], {})
  <2> DEFINE r == At(h, e)
  <2>1. d \in DOMAIN days BY <1>2, WhereFound
  <2>2. Listing(items) /\ Single(items) /\ \A i \in DOMAIN items : Item(items[i]) BY <2>1, DayOfDraft
  <2>3. \A i \in DOMAIN items : Alike(r[i], items[i])
    <3> SUFFICES ASSUME NEW i \in DOMAIN items PROVE Alike(r[i], items[i]) OBVIOUS
    <3> DEFINE x == items[i]
           y == [x EXCEPT !.from = h]
    <3>1. r[i] = x \/ r[i] = [x EXCEPT !.from = h, !.to = e] OBVIOUS
    <3>2. Item(x) BY <2>2
    <3>3. [x EXCEPT !.from = h, !.to = e] = [y EXCEPT !.to = e] OBVIOUS
    <3> HIDE DEF x, r, y
    <3>4. Alike(x, x) BY <3>2 DEF Alike
    <3>5. Alike(y, x) /\ Item(y) BY <3>2 DEF Alike, Item, y
    <3>6. Alike([y EXCEPT !.to = e], x) BY <3>5 DEF Alike, Item
    <3> QED BY <3>1, <3>3, <3>4, <3>6 DEF x
  <2>4. r = [i \in DOMAIN items |-> r[i]] OBVIOUS
  <2> HIDE DEF r
  <2>5. Drawn(items, r) BY <2>2, <2>3, <2>4, DrawnAlike
  <2>6. Rearranged(t, [days EXCEPT ![d] = r], {}) BY <2>1, <2>5, DrawnDay
  <2> QED BY <2>6 DEF r
<1> HIDE DEF At, items, d
<1> QED BY <1>1, <1>2

\* A set of places that is not empty has a first and a last one.
LEMMA EndsOf ==
  ASSUME NEW n \in Nat, NEW s \in SUBSET (1 .. n), s # {}
  PROVE  (\E k \in s : \A j \in s : k <= j) /\ (\E k \in s : \A j \in s : k >= j)
BY PatchFold!LeastOf, PatchFold!LargestOf

\* A day with ordinary items has a last one.
LEMMA LastOrdinary ==
  ASSUME NEW items, Listing(items), Ordinary(items) > 1
  PROVE  \E k \in DOMAIN items : items[k].type # "hotel" /\ \A j \in (k + 1) .. Len(items) : items[j].type = "hotel"
<1> DEFINE s == {i \in DOMAIN items : items[i].type # "hotel"}
<1>1. Len(items) \in Nat /\ DOMAIN items = 1 .. Len(items) BY DEF Listing
<1>2. s # {}
  <2> SUFFICES ASSUME s = {} PROVE FALSE OBVIOUS
  <2>1. Cardinality({}) = 0 BY FS_EmptySet
  <2> QED BY <2>1 DEF Ordinary
<1>3. s \in SUBSET (1 .. Len(items)) BY <1>1
<1>4. PICK k \in s : \A j \in s : k >= j BY <1>1, <1>2, <1>3, EndsOf
<1>5. \A j \in (k + 1) .. Len(items) : items[j].type = "hotel"
  <2> SUFFICES ASSUME NEW j \in (k + 1) .. Len(items), items[j].type # "hotel" PROVE FALSE OBVIOUS
  <2>1. j \in DOMAIN items /\ j > k BY <1>1
  <2> QED BY <1>1, <1>4, <2>1
<1> QED BY <1>4, <1>5

\* Filling a blank day moves one item from the fullest day.
LEMMA FilledSo ==
  ASSUME NEW t, NEW m \in Nat, NEW days, DOMAIN days = 1 .. m, Rearranged(t, days, {}), NEW d \in 1 .. m
  PROVE  DOMAIN FilledDay(days, d) = 1 .. m /\ Rearranged(t, FilledDay(days, d), {})
<1> DEFINE full == {e \in DOMAIN days : Ordinary(days[e]) > 1 /\ \A f \in DOMAIN days : Ordinary(days[f]) <= Ordinary(days[e])}
           from == CHOOSE e \in full : \A f \in full : e <= f
           k == CHOOSE i \in DOMAIN days[from] :
                  days[from][i].type # "hotel" /\ \A j \in (i + 1) .. Len(days[from]) : days[from][j].type = "hotel"
           left == [days EXCEPT ![from] = RemoveAt(days[from], k)]
           x == days[from][k]
<1>0. FilledDay(days, d) = IF days[d] # <<>> \/ full = {} THEN days ELSE [left EXCEPT ![d] = <<x>>]
  BY Zenon DEF FilledDay
<1>1. CASE days[d] # <<>> \/ full = {}
  <2> HIDE DEF full, left, x
  <2> QED BY <1>0, <1>1
<1>2. CASE days[d] = <<>> /\ full # {}
  <2>1. full \in SUBSET (1 .. m) OBVIOUS
  <2> HIDE DEF full
  <2>2. \E e \in full : \A f \in full : e <= f BY <1>2, <2>1, EndsOf
  <2>3. from \in full BY <2>2
  <2> HIDE DEF from
  <2>4. from \in DOMAIN days /\ Ordinary(days[from]) > 1 BY <2>3 DEF full
  <2>5. Listing(days[from]) BY <2>4, DayOfDraft
  <2>6. k \in DOMAIN days[from] BY <2>4, <2>5, LastOrdinary
  <2>7. from # d
    <3> SUFFICES ASSUME from = d PROVE FALSE OBVIOUS
    <3>1. Ordinary(<<>>) = 0
      <4>1. {i \in DOMAIN <<>> : <<>>[i].type # "hotel"} = {} OBVIOUS
      <4> QED BY <4>1, FS_EmptySet DEF Ordinary
    <3> QED BY <1>2, <2>4, <3>1
  <2> HIDE DEF k
  <2>13. left = [days EXCEPT ![from] = RemoveAt(days[from], k)] /\ x = days[from][k] OBVIOUS
  <2> HIDE DEF left, x
  <2>9. /\ DOMAIN left = 1 .. m /\ Rearranged(t, left, {}) /\ Proper(t, x) /\ Nowhere(left, x)
    BY <2>4, <2>6, <2>13, GoneFrom
  <2>10. left[d] = <<>> BY <1>2, <2>7, <2>13
  <2>8. FilledDay(days, d) = [left EXCEPT ![d] = <<x>>] BY <1>0, <1>2
  <2>11. Joined(left[d], x, <<x>>)
    <3>1. <<x>> \in Seq({x}) /\ DOMAIN <<x>> = {1} /\ <<x>>[1] = x OBVIOUS
    <3>2. Listing(<<x>>) BY <3>1, SeqListing
    <3> QED BY <3>1, <3>2 DEF Joined, Single
  <2>12. Rearranged(t, [left EXCEPT ![d] = <<x>>], {}) BY <2>9, <2>11, JoinedDay
  <2> QED BY <2>8, <2>9, <2>12
<1> QED BY <1>1, <1>2

RescheduleTurn(p, a, x) == Rescheduled(a, x)
FillTurn(p, a, x) == FilledDay(a, x)
DaysKept(q, k, a) == DOMAIN a = 1 .. q[2] /\ Rearranged(q[1], a, {})
RescheduleFold == INSTANCE FoldLaws WITH Op <- RescheduleTurn, Kept <- DaysKept
FillFold == INSTANCE FoldLaws WITH Op <- FillTurn, Kept <- DaysKept

\* All the moved items, one after the other.
LEMMA AllRescheduled ==
  ASSUME NEW t, NEW m \in Nat, NEW days, DOMAIN days = 1 .. m, Rearranged(t, days, {}), NEW n \in Nat, NEW ids, DOMAIN ids = 1 .. n
  PROVE  LET r == FoldLeft(Rescheduled, days, ids) IN DOMAIN r = 1 .. m /\ Rearranged(t, r, {})
<1> DEFINE q == <<t, m>>
<1>1. DaysKept(q, 0, days) BY DEF DaysKept
<1>2. \A k \in 0 .. (n - 1) : \A a : DaysKept(q, k, a) => DaysKept(q, k + 1, RescheduleTurn(0, a, ids[k + 1]))
  BY RescheduledSo DEF DaysKept, RescheduleTurn
<1> HIDE DEF q
<1>3. DaysKept(q, n, RescheduleFold!Fold(0, days, ids)) BY <1>1, <1>2, RescheduleFold!FoldKeeps
<1>4. RescheduleFold!Fold(0, days, ids) = FoldLeft(Rescheduled, days, ids)
  BY DEF RescheduleFold!Fold, RescheduleTurn, FoldLeft, RescheduleFold!FoldLeft, MapThenFoldSet, RescheduleFold!MapThenFoldSet,
         Max, RescheduleFold!Max
<1>5. q[1] = t /\ q[2] = m BY DEF q
<1> DEFINE r == FoldLeft(Rescheduled, days, ids)
<1>6. DaysKept(q, n, r) BY <1>3, <1>4
<1> HIDE DEF r
<1>7. DOMAIN r = 1 .. m /\ Rearranged(t, r, {}) BY <1>5, <1>6 DEF DaysKept
<1> QED BY <1>7 DEF r

\* All the days, one after the other.
LEMMA AllFilled ==
  ASSUME NEW t, NEW m \in Nat, NEW days, DOMAIN days = 1 .. m, Rearranged(t, days, {}), NEW ids, ids = [d \in 1 .. m |-> d]
  PROVE  LET r == FoldLeft(FilledDay, days, ids) IN DOMAIN r = 1 .. m /\ Rearranged(t, r, {})
<1> DEFINE q == <<t, m>>
<1>1. DaysKept(q, 0, days) BY DEF DaysKept
<1>2. \A k \in 0 .. (m - 1) : \A a : DaysKept(q, k, a) => DaysKept(q, k + 1, FillTurn(0, a, ids[k + 1]))
  <2> SUFFICES ASSUME NEW k \in 0 .. (m - 1), NEW a, DaysKept(q, k, a) PROVE DaysKept(q, k + 1, FillTurn(0, a, ids[k + 1]))
    OBVIOUS
  <2>1. k + 1 \in 1 .. m OBVIOUS
  <2>2. ids[k + 1] \in 1 .. m BY <2>1
  <2>3. DOMAIN a = 1 .. m /\ Rearranged(t, a, {}) BY DEF DaysKept
  <2>4. DOMAIN FilledDay(a, ids[k + 1]) = 1 .. m /\ Rearranged(t, FilledDay(a, ids[k + 1]), {}) BY <2>2, <2>3, FilledSo
  <2> QED BY <2>4 DEF DaysKept, FillTurn
<1> HIDE DEF q
<1>3. DaysKept(q, m, FillFold!Fold(0, days, ids)) BY <1>1, <1>2, FillFold!FoldKeeps
<1>4. FillFold!Fold(0, days, ids) = FoldLeft(FilledDay, days, ids)
  BY DEF FillFold!Fold, FillTurn, FoldLeft, FillFold!FoldLeft, MapThenFoldSet, FillFold!MapThenFoldSet, Max, FillFold!Max
<1>5. q[1] = t /\ q[2] = m BY DEF q
<1> DEFINE r == FoldLeft(FilledDay, days, ids)
<1>6. DaysKept(q, m, r) BY <1>3, <1>4
<1> HIDE DEF r
<1>7. DOMAIN r = 1 .. m /\ Rearranged(t, r, {}) BY <1>5, <1>6 DEF DaysKept
<1> QED BY <1>7 DEF r

\* A list made of the first k items of another, none of them twice.
SoFar(items, k, s) == Listing(s) /\ Single(s) /\ \A i \in DOMAIN s : \E j \in 1 .. k : s[i] = items[j]
TimeTurnOf(p, a, x) == InsertAt(a, Cardinality({i \in DOMAIN a : Hour(a[i]) <= Hour(x)}) + 1, x)
PickTurn(p, a, i) == IF Repeated(p[1], p[2], i) THEN a ELSE Append(a, p[1][p[2]][i])
HourFold == INSTANCE FoldLaws WITH Op <- TimeTurnOf, Kept <- SoFar
PickFold == INSTANCE FoldLaws WITH Op <- PickTurn, Kept <- SoFar

\* Nothing is made of nothing.
LEMMA EmptySoFar == ASSUME NEW items PROVE SoFar(items, 0, <<>>)
<1>1. <<>> \in Seq({}) /\ DOMAIN <<>> = {} OBVIOUS
<1>2. Listing(<<>>) BY <1>1, SeqListing
<1> QED BY <1>1, <1>2 DEF SoFar, Single

\* The next item can be put anywhere among those before it.
LEMMA SoFarNext ==
  ASSUME NEW items, Listing(items), Single(items), NEW k \in 0 .. (Len(items) - 1), NEW a, SoFar(items, k, a)
  PROVE  /\ SoFar(items, k + 1, a) /\ SoFar(items, k + 1, Append(a, items[k + 1]))
         /\ \A j \in 1 .. (Len(a) + 1) : SoFar(items, k + 1, InsertAt(a, j, items[k + 1]))
<1> DEFINE x == items[k + 1]
<1>1. Len(items) \in Nat /\ DOMAIN items = 1 .. Len(items) /\ k + 1 \in DOMAIN items BY DEF Listing
<1>2. Listing(a) /\ Single(a) BY DEF SoFar
<1>3. \A i \in DOMAIN a : \E j \in 1 .. k : a[i] = items[j] BY DEF SoFar
<1>4. x.id # 0 => \A i \in DOMAIN a : a[i].id # x.id
  <2> SUFFICES ASSUME x.id # 0, NEW i \in DOMAIN a, a[i].id = x.id PROVE FALSE OBVIOUS
  <2>1. PICK j \in 1 .. k : a[i] = items[j] BY <1>3
  <2>2. j \in DOMAIN items /\ j # k + 1 BY <1>1
  <2> QED BY <1>1, <2>1, <2>2 DEF Single
<1>5. SoFar(items, k + 1, a) BY <1>2, <1>3 DEF SoFar
<1>6. \A s : Joined(a, x, s) => SoFar(items, k + 1, s)
  <2> SUFFICES ASSUME NEW s, Joined(a, x, s) PROVE SoFar(items, k + 1, s) OBVIOUS
  <2> SUFFICES ASSUME NEW i \in DOMAIN s PROVE \E j \in 1 .. (k + 1) : s[i] = items[j] BY DEF SoFar, Joined
  <2>1. CASE s[i] = x BY <2>1
  <2>2. CASE s[i] # x
    <3>1. PICK m \in DOMAIN a : s[i] = a[m] BY <2>2 DEF Joined
    <3>2. PICK j \in 1 .. k : a[m] = items[j] BY <1>3
    <3> QED BY <3>1, <3>2
  <2> QED BY <2>1, <2>2
<1> HIDE DEF x
<1>7. Joined(a, x, Append(a, x)) BY <1>2, <1>4, JoinedAtEnd
<1>8. \A j \in 1 .. (Len(a) + 1) : Joined(a, x, InsertAt(a, j, x)) BY <1>2, <1>4, JoinedIn
<1> QED BY <1>5, <1>6, <1>7, <1>8 DEF x

\* What is made of all items is drawn from them.
LEMMA SoFarDrawn ==
  ASSUME NEW items, Listing(items), \A i \in DOMAIN items : Item(items[i]), NEW s, SoFar(items, Len(items), s)
  PROVE  Drawn(items, s)
<1>1. DOMAIN items = 1 .. Len(items) BY DEF Listing
<1> QED BY <1>1 DEF SoFar, Drawn, Alike

\* A day by its hours is drawn from it.
LEMMA ByTimeDrawn ==
  ASSUME NEW items, Listing(items), Single(items), \A i \in DOMAIN items : Item(items[i])
  PROVE  Drawn(items, ByTime(items))
<1> DEFINE n == Len(items)
<1>1. n \in Nat /\ DOMAIN items = 1 .. n BY DEF Listing
<1>2. ASSUME NEW k \in 0 .. (n - 1), NEW a, SoFar(items, k, a) PROVE SoFar(items, k + 1, TimeTurnOf(0, a, items[k + 1]))
  <2> DEFINE s == {i \in DOMAIN a : Hour(a[i]) <= Hour(items[k + 1])}
  <2>1. DOMAIN a = 1 .. Len(a) /\ Len(a) \in Nat BY <1>2 DEF SoFar, Listing
  <2>2. IsFiniteSet(DOMAIN a) /\ Cardinality(DOMAIN a) = Len(a)
    <3> DEFINE z == Len(a)
    <3>1. z \in Int /\ 1 \in Int /\ z >= 0 BY <2>1
    <3> HIDE DEF z
    <3>2. IsFiniteSet(1 .. z) /\ Cardinality(1 .. z) = IF 1 > z THEN 0 ELSE z - 1 + 1 BY <3>1, FS_Interval
    <3>3. Cardinality(1 .. z) = z BY <3>1, <3>2
    <3> QED BY <2>1, <3>2, <3>3 DEF z
  <2>3. s \subseteq DOMAIN a OBVIOUS
  <2> HIDE DEF s
  <2>4. Cardinality(s) <= Len(a) /\ Cardinality(s) \in Nat BY <2>2, <2>3, FS_Subset, FS_CardinalityType
  <2>5. Cardinality(s) + 1 \in 1 .. (Len(a) + 1) BY <2>1, <2>4
  <2>6. SoFar(items, k + 1, InsertAt(a, Cardinality(s) + 1, items[k + 1])) BY <1>2, <2>5, SoFarNext
  <2> QED BY <2>6 DEF TimeTurnOf, s
<1> HIDE DEF n
<1>3. SoFar(items, n, HourFold!Fold(0, <<>>, items)) BY <1>1, <1>2, EmptySoFar, HourFold!FoldKeeps
<1>4. HourFold!Fold(0, <<>>, items) = ByTime(items)
  BY DEF ByTime, HourFold!Fold, TimeTurnOf, FoldLeft, HourFold!FoldLeft, MapThenFoldSet, HourFold!MapThenFoldSet, Max, HourFold!Max
<1> QED BY <1>3, <1>4, SoFarDrawn DEF n

\* A draft without repeated names is drawn from it, day by day.
LEMMA DedupedDrawn ==
  ASSUME NEW t, NEW fresh, NEW plans, Rearranged(t, plans, fresh)
  PROVE  Rearranged(t, Deduped(plans), fresh) /\ DOMAIN Deduped(plans) = DOMAIN plans /\ Len(Deduped(plans)) = Len(plans)
<1> DEFINE q == Deduped(plans)
           n == Len(plans)
<1>1. n \in Nat /\ DOMAIN plans = 1 .. n BY DEF Rearranged, Itinerary, Listing
<1>2. ASSUME NEW d \in DOMAIN plans PROVE Drawn(plans[d], q[d])
  <2> DEFINE items == plans[d]
             m == Len(items)
             places == [i \in DOMAIN items |-> i]
             par == <<plans, d>>
  <2>1. Listing(items) /\ Single(items) /\ \A i \in DOMAIN items : Item(items[i]) BY <1>2, DayOfDraft
  <2>2. m \in Nat /\ DOMAIN items = 1 .. m BY <2>1 DEF Listing
  <2>3. DOMAIN places = 1 .. m /\ \A k \in 0 .. (m - 1) : places[k + 1] = k + 1 BY <2>2
  <2>4. par[1] = plans /\ par[2] = d OBVIOUS
  <2>5. PickFold!Fold(par, <<>>, places)
        = FoldLeft(LAMBDA kept, i : IF Repeated(plans, d, i) THEN kept ELSE Append(kept, plans[d][i]), <<>>, places)
    BY DEF par, PickFold!Fold, PickTurn, FoldLeft, PickFold!FoldLeft, MapThenFoldSet, PickFold!MapThenFoldSet, Max, PickFold!Max
  <2>7. q[d] = PickFold!Fold(par, <<>>, places) BY <1>2, <2>5 DEF Deduped
  <2> HIDE DEF places, par, q, items
  <2>8. ASSUME NEW k \in 0 .. (m - 1), NEW a, SoFar(items, k, a) PROVE SoFar(items, k + 1, PickTurn(par, a, places[k + 1]))
    <3>1. PickTurn(par, a, places[k + 1]) = a \/ PickTurn(par, a, places[k + 1]) = Append(a, items[k + 1])
      BY <2>3, <2>4 DEF PickTurn, items
    <3> QED BY <2>1, <2>8, <3>1, SoFarNext
  <2>9. SoFar(items, m, PickFold!Fold(par, <<>>, places)) BY <2>2, <2>3, <2>8, EmptySoFar, PickFold!FoldKeeps
  <2> QED BY <2>1, <2>7, <2>9, SoFarDrawn DEF items
<1>3. q = [d \in 1 .. n |-> q[d]] BY <1>1 DEF Deduped
<1> HIDE DEF q, n
<1>5. Listing(q) /\ DOMAIN q = 1 .. n /\ Len(q) = n BY <1>1, <1>3, MappedListing
<1>6. Rearranged(t, q, fresh) BY <1>1, <1>2, <1>5, DrawnDays
<1> QED BY <1>1, <1>5, <1>6 DEF q, n

\* The plans of the request are a draft of their own.
LEMMA TripSo ==
  ASSUME NEW t \in Trips
  PROVE  Rearranged(t, t, {}) /\ Len(t) \in Nat /\ DOMAIN t = 1 .. Len(t)
<1>1. Itinerary(t) /\ UsedOnce(t) BY DraftTurnAssumption
<1>2. \A d \in DOMAIN t : \A i \in DOMAIN t[d] : Proper(t, t[d][i]) BY <1>1 DEF Proper, Had, Itinerary
<1> QED BY <1>1, <1>2 DEF Rearranged, Itinerary, Listing

\* The first days of a draft, each drawn from what it was.
LEMMA FirstDays ==
  ASSUME NEW t, NEW m \in Nat, NEW plans, DOMAIN plans = 1 .. m, Rearranged(t, plans, {}), NEW n \in 0 .. m,
         NEW q, q = [d \in 1 .. n |-> q[d]], \A d \in 1 .. n : q[d] = plans[d] \/ q[d] = ByTime(plans[d])
  PROVE  Rearranged(t, q, {}) /\ DOMAIN q = 1 .. n /\ Len(q) = n
<1>1. Listing(q) /\ DOMAIN q = 1 .. n /\ Len(q) = n BY MappedListing
<1>2. ASSUME NEW d \in 1 .. n PROVE Drawn(plans[d], q[d])
  <2>1. d \in DOMAIN plans OBVIOUS
  <2>2. Listing(plans[d]) /\ Single(plans[d]) /\ \A i \in DOMAIN plans[d] : Item(plans[d][i]) BY <2>1, DayOfDraft
  <2>3. Drawn(plans[d], plans[d]) /\ Drawn(plans[d], ByTime(plans[d])) BY <2>2, DrawnSelf, ByTimeDrawn
  <2> QED BY <2>3
<1> QED BY <1>1, <1>2, DrawnDays

\* The trip with blank days behind it.
LEMMA LongSo ==
  ASSUME NEW t \in Trips, NEW m \in Nat, m >= Len(t), NEW q, q = [d \in 1 .. m |-> IF d <= Len(t) THEN t[d] ELSE <<>>]
  PROVE  Rearranged(t, q, {}) /\ DOMAIN q = 1 .. m
<1>1. Rearranged(t, t, {}) /\ Len(t) \in Nat /\ DOMAIN t = 1 .. Len(t) BY TripSo
<1>2. q = [d \in 1 .. m |-> q[d]] OBVIOUS
<1>3. Listing(q) /\ DOMAIN q = 1 .. m BY <1>2, MappedListing
<1>4. \A d \in 1 .. m : (d \in DOMAIN t /\ q[d] = t[d]) \/ q[d] = <<>> BY <1>1
<1>5. Listing(<<>>) /\ DOMAIN <<>> = {} BY EmptySoFar DEF SoFar
<1>6. Itinerary(q) BY <1>1, <1>3, <1>4, <1>5 DEF Itinerary, Rearranged
<1>7. UsedOnce(q) BY <1>1, <1>3, <1>4, <1>5 DEF UsedOnce, Rearranged
<1>8. \A d \in DOMAIN q : \A i \in DOMAIN q[d] : Proper(t, q[d][i]) BY <1>1, <1>3, <1>4, <1>5 DEF Rearranged
<1> QED BY <1>3, <1>6, <1>7, <1>8 DEF Rearranged

\* The elements of a finite set one after the other.
LEMMA SetInOrder == ASSUME NEW s, IsFiniteSet(s) PROVE Cardinality(s) \in Nat /\ DOMAIN SetToSeq(s) = 1 .. Cardinality(s)
<1>1. Cardinality(s) \in Nat /\ ExistsBijection(1 .. Cardinality(s), s) BY FS_CardinalityType, FS_CountingElements
<1>2. \E f \in [1 .. Cardinality(s) -> s] : IsInjective(f)
  BY <1>1 DEF ExistsBijection, Bijection, Injection, IsInjective
<1>3. SetToSeq(s) \in [1 .. Cardinality(s) -> s] BY <1>2 DEF SetToSeq
<1> QED BY <1>1, <1>3

\* What the patches make is a draft of as many days as were asked for.
LEMMA PatchedPlansSo ==
  ASSUME turn.trip \in Trips, NEW s \in Sayings, NEW data \in Decisions, data.mode = "plan_update",
         PatchedPlans(s, data) # NoPlans
  PROVE  Rearranged(turn.trip, PatchedPlans(s, data), {}) /\ Len(PatchedPlans(s, data)) = Target(s, data)
<1> DEFINE t == turn.trip
           n == Target(s, data)
           m == IF n > Days THEN n ELSE Days
           long == [d \in 1..(IF n > Days THEN n ELSE Days) |-> IF d <= Days THEN Trip[d] ELSE <<>>]
           base == [days |-> long, moved |-> {}]
           st == FoldLeft(LAMBDA a, p : Patched(s, n, a, p), base, data.patches)
           timed == FoldLeft(Rescheduled, st.days, SetToSeq(st.moved))
           short == [d \in 1..n |-> timed[d]]
           blank == [d \in 1..n |-> d]
           refilled == FoldLeft(FilledDay, short, blank)
           filled == IF n > Days THEN refilled ELSE short
           r == [d \in 1..n |-> ByTime(filled[d])]
<1>1. PatchedPlans(s, data) = IF n \notin 1..MaxTripDays THEN NoPlans ELSE r BY Zenon DEF PatchedPlans
<1> HIDE DEF r, st, n
<1>2. n \in 1 .. MaxTripDays /\ PatchedPlans(s, data) = r BY <1>1
<1>3. Days = Len(t) /\ Trip = t /\ Days \in Nat /\ t \in Trips BY TripSo DEF Days, Trip
<1>4. n \in Nat /\ m \in Nat /\ n \in 0 .. m /\ m >= Len(t) BY <1>2, <1>3, DraftTurnAssumption
<1> HIDE DEF t
<1>5. long = [d \in 1 .. m |-> IF d <= Len(t) THEN t[d] ELSE <<>>] BY <1>3
<1> HIDE DEF long, m
<1>6. Rearranged(t, long, {}) /\ DOMAIN long = 1 .. m BY <1>3, <1>4, <1>5, LongSo
<1>7. IsFiniteSet({}) BY FS_EmptySet
<1>8. Patchy(t, m, base) BY <1>6, <1>7 DEF Patchy
<1> HIDE DEF base
<1>9. Listing(data.patches) /\ \A k \in DOMAIN data.patches :
        data.patches[k].pos \in Nat /\ (data.patches[k].op = "add" => Item(data.patches[k].item) /\ data.patches[k].item.id = 0)
  BY DraftTurnAssumption
<1>10. Patchy(t, m, st)
  <2>1. Patchy(t, m, PatchFold!Fold(<<s, n>>, base, data.patches)) BY <1>4, <1>8, <1>9, PatchesPatchy
  <2>2. PatchFold!Fold(<<s, n>>, base, data.patches) = st
    BY DEF st, PatchFold!Fold, PatchTurn, FoldLeft, PatchFold!FoldLeft, MapThenFoldSet, PatchFold!MapThenFoldSet, Max, PatchFold!Max
  <2> HIDE DEF st
  <2> QED BY <2>1, <2>2
<1>11. Rearranged(t, st.days, {}) /\ DOMAIN st.days = 1 .. m /\ IsFiniteSet(st.moved) BY <1>10 DEF Patchy
<1>12. Rearranged(t, timed, {}) /\ DOMAIN timed = 1 .. m BY <1>4, <1>11, SetInOrder, AllRescheduled
<1> HIDE DEF timed
<1>13. short = [d \in 1 .. n |-> short[d]] /\ \A d \in 1 .. n : short[d] = timed[d] OBVIOUS
<1> HIDE DEF short
<1>14. Rearranged(t, short, {}) /\ DOMAIN short = 1 .. n BY <1>4, <1>12, <1>13, FirstDays
<1>15. Rearranged(t, refilled, {}) /\ DOMAIN refilled = 1 .. n BY <1>4, <1>14, AllFilled
<1> HIDE DEF refilled, blank
<1>16. Rearranged(t, filled, {}) /\ DOMAIN filled = 1 .. n BY <1>14, <1>15
<1> HIDE DEF filled
<1>17. r = [d \in 1 .. n |-> r[d]] /\ \A d \in 1 .. n : r[d] = ByTime(filled[d]) BY DEF r
<1>18. n \in 0 .. n BY <1>4
<1>19. Rearranged(t, r, {}) /\ Len(r) = n BY <1>4, <1>16, <1>17, <1>18, FirstDays
<1> QED BY <1>2, <1>19 DEF t, n

\* An item of a document that can be brought back to the trip is one of the trip's, or a new one.
LEMMA HydratedProper ==
  ASSUME turn.trip \in Trips, NEW x, Item(x), IF x.id = 0 THEN x.type # "hotel"
                                              ELSE DayOf(Trip, x.id) # 0 /\ x.name = TheItem(x.id).name
  PROVE  Proper(turn.trip, Hydrated(x)) /\ Hydrated(x).id = x.id
<1> DEFINE c == IF x.id = 0 THEN 0 ELSE TheItem(x.id).cost
           y == [x EXCEPT !.cost = c]
<1>1. Hydrated(x) = y BY DEF Hydrated
<1>2. Item(y) /\ y.id = x.id /\ y.name = x.name /\ y.type = x.type /\ y.cost = c BY DEF Item
<1>3. CASE x.id = 0 BY <1>1, <1>2, <1>3 DEF Proper, Added
<1>4. CASE x.id # 0
  <2> DEFINE d == DayOf(Trip, x.id)
             k == PlaceOf(Trip[d], x.id)
  <2>1. DOMAIN Trip = 1 .. Len(Trip) BY TripSo DEF Trip
  <2>2. d \in DOMAIN Trip /\ k \in DOMAIN Trip[d] /\ Trip[d][k].id = x.id BY <1>4, <2>1, WhereFound
  <2>3. TheItem(x.id) = Trip[d][k] BY DEF TheItem, ItemIn
  <2> HIDE DEF d, k
  <2>4. x.name = Trip[d][k].name /\ c = Trip[d][k].cost BY <1>4, <2>3
  <2> HIDE DEF y, c
  <2>5. Had(turn.trip, y) BY <1>2, <1>4, <2>2, <2>4 DEF Had, Trip
  <2> QED BY <1>1, <1>2, <2>5 DEF Proper
<1> QED BY <1>3, <1>4

\* A document that is accepted is a draft of as many days as were asked for.
LEMMA DocumentPlansSo ==
  ASSUME turn.trip \in Trips, NEW s \in Sayings, NEW data \in Decisions, data.mode = "rewrite_plan",
         DocumentPlans(s, data) # NoPlans
  PROVE  Rearranged(turn.trip, DocumentPlans(s, data), {}) /\ Len(DocumentPlans(s, data)) = Target(s, data)
<1> DEFINE doc == data.document
           r == [d \in DOMAIN doc |-> [i \in DOMAIN doc[d] |-> Hydrated(doc[d][i])]]
<1>1. Len(doc) = Target(s, data) /\ Hydratable(doc) /\ DocumentPlans(s, data) = r BY DEF DocumentPlans
<1>2. Itinerary(doc) BY DraftTurnAssumption
<1> HIDE DEF doc
<1>3. Len(doc) \in Nat /\ DOMAIN doc = 1 .. Len(doc) BY <1>2 DEF Itinerary, Listing
<1>4. UsedOnce(doc) BY <1>1 DEF Hydratable
<1>5. ASSUME NEW d \in DOMAIN doc, NEW i \in DOMAIN doc[d]
      PROVE  Proper(turn.trip, Hydrated(doc[d][i])) /\ Hydrated(doc[d][i]).id = doc[d][i].id
  <2> DEFINE x == doc[d][i]
  <2>1. Item(x) BY <1>2, <1>5 DEF Itinerary
  <2>2. x \in ToSet(doc[d]) BY <1>5 DEF ToSet
  <2>3. IF x.id = 0 THEN x.type # "hotel" ELSE DayOf(Trip, x.id) # 0 /\ x.name = TheItem(x.id).name
    BY <1>1, <2>2 DEF Hydratable, HydratableLoosely
  <2> HIDE DEF x
  <2>4. Proper(turn.trip, Hydrated(x)) /\ Hydrated(x).id = x.id BY <2>1, <2>3, HydratedProper
  <2> QED BY <2>4 DEF x
<1>6. r = [d \in 1 .. Len(doc) |-> r[d]] BY <1>3
<1>7. \A d \in DOMAIN doc : /\ r[d] = [i \in 1 .. Len(doc[d]) |-> r[d][i]] /\ Len(doc[d]) \in Nat
                            /\ DOMAIN doc[d] = 1 .. Len(doc[d])
  BY <1>2 DEF Itinerary, Listing
<1>8. \A d \in DOMAIN doc : \A i \in DOMAIN doc[d] : r[d][i] = Hydrated(doc[d][i]) OBVIOUS
<1> HIDE DEF r
<1>9. Listing(r) /\ DOMAIN r = DOMAIN doc /\ Len(r) = Len(doc) BY <1>3, <1>6, MappedListing
<1>10. \A d \in DOMAIN r : Listing(r[d]) /\ DOMAIN r[d] = DOMAIN doc[d] BY <1>7, <1>9, MappedListing
<1>11. \A d \in DOMAIN r : \A i \in DOMAIN r[d] : Proper(turn.trip, r[d][i]) /\ r[d][i].id = doc[d][i].id
  BY <1>5, <1>8, <1>9, <1>10
<1>12. Itinerary(r) BY <1>9, <1>10, <1>11 DEF Itinerary, Proper
<1>13. UsedOnce(r) BY <1>4, <1>9, <1>10, <1>11 DEF UsedOnce
<1> QED BY <1>1, <1>9, <1>11, <1>12, <1>13 DEF Rearranged

\* And so is the trip thinned out, or cut.
LEMMA ReducedSo ==
  ASSUME turn.trip \in Trips, NEW s
  PROVE  Rearranged(turn.trip, Reduced(s), {})
<1> DEFINE t == turn.trip
           plans == Deduped(t)
           n == IF s.fewer \in 1..(Days - 1) THEN s.fewer ELSE Days
           r == [d \in 1..n |-> ByTime(plans[d])]
<1>1. Reduced(s) = r BY DEF Reduced, Trip
<1>2. Rearranged(t, t, {}) /\ Len(t) \in Nat /\ DOMAIN t = 1 .. Len(t) BY TripSo
<1>3. Rearranged(t, plans, {}) /\ DOMAIN plans = 1 .. Len(t) BY <1>2, DedupedDrawn
<1>4. n \in 0 .. Len(t) BY <1>2 DEF Days, Trip
<1> HIDE DEF n, plans, t
<1>5. r = [d \in 1 .. n |-> r[d]] /\ \A d \in 1 .. n : r[d] = ByTime(plans[d]) OBVIOUS
<1> HIDE DEF r
<1>6. Rearranged(t, r, {}) BY <1>2, <1>3, <1>4, <1>5, FirstDays
<1> QED BY <1>1, <1>6 DEF t

\* The days of the generator, behind those of the trip.
LEMMA ExtendedSo ==
  ASSUME NEW t \in Trips, NEW m \in Nat, m > Len(t), NEW days \in [(Len(t) + 1) .. m -> NewDays \cup {<<>>}],
         NEW q, q = [d \in 1 .. m |-> IF d <= Len(t) THEN t[d] ELSE days[d]], NEW fresh, fresh = {d \in 1 .. m : d > Len(t)}
  PROVE  Rearranged(t, q, fresh) /\ Len(q) = m
<1>1. Rearranged(t, t, {}) /\ Len(t) \in Nat /\ DOMAIN t = 1 .. Len(t) BY TripSo
<1>2. q = [d \in 1 .. m |-> q[d]] OBVIOUS
<1>3. Listing(q) /\ DOMAIN q = 1 .. m /\ Len(q) = m BY <1>2, MappedListing
<1>4. \A d \in 1 .. m : (d \in DOMAIN t /\ q[d] = t[d]) \/ (d \in fresh /\ q[d] \in NewDays \cup {<<>>}) BY <1>1
<1>5. Listing(<<>>) /\ DOMAIN <<>> = {} BY EmptySoFar DEF SoFar
<1>6. \A s \in NewDays \cup {<<>>} : Listing(s) /\ \A i \in DOMAIN s : Item(s[i]) /\ s[i].id = 0
  BY <1>5, DraftTurnAssumption
<1>7. Itinerary(q) BY <1>1, <1>3, <1>4, <1>6 DEF Itinerary, Rearranged
<1>8. UsedOnce(q) BY <1>1, <1>3, <1>4, <1>6 DEF UsedOnce, Rearranged
<1>9. \A d \in DOMAIN q \ fresh : \A i \in DOMAIN q[d] : Proper(t, q[d][i]) BY <1>1, <1>3, <1>4 DEF Rearranged
<1> QED BY <1>3, <1>7, <1>8, <1>9 DEF Rearranged

-----------------------------------------------------------------------------
\* A turn: its record, and the draft that is to be checked.
TurnIs(u) ==
  /\ u = [at |-> u.at, trip |-> u.trip, said |-> u.said, decision |-> u.decision, plans |-> u.plans,
          by |-> u.by, reply |-> u.reply, cards |-> u.cards]
  /\ u.trip \in Trips /\ u.said \in Sayings
  /\ u.at # "over" => u.reply = "none"
  /\ u.at = "decided" => u.decision \in Decisions
NewOnes(u) == {d \in DOMAIN u.plans : u.by = "extend" /\ d > Len(u.trip)}
DraftOf(u) ==
  /\ Rearranged(u.trip, u.plans, NewOnes(u))
  /\ u.said.days # 0 /\ u.by # "reduce" => Len(u.plans) = u.said.days
HotelNamesOf(t) == {x.name : x \in {y \in ToSet(FlattenSeq(t)) : y.type = "hotel"}}
\* What is sound about an answer, of any turn.
Sound(u) ==
  /\ u.reply = "no_cards" /\ u.said.named = {} => {h \in Priced : h.name \notin HotelNamesOf(u.trip)} = {}
  /\ u.reply = "draft" => /\ DraftOf(u)
                          /\ Len(u.plans) = Len(u.trip) => HotelSignature(u.plans) = HotelSignature(u.trip)
TurnInv == TurnIs(turn) /\ (turn.at = "check" => DraftOf(turn)) /\ Sound(turn)

\* A sound turn has a sound answer.
LEMMA SoundAnswer == ASSUME Sound(turn) PROVE AnswerIsSound
<1>1. turn.reply = "no_cards" /\ Said.named = {} => {h \in Priced : h.name \notin CurrentNames} = {}
  BY DEF Sound, Said, CurrentNames, HotelNamesOf, Trip
<1>2. ASSUME turn.reply = "draft"
      PROVE  /\ UsedOnce(turn.plans)
             /\ \A d \in DOMAIN turn.plans : ~Generated(d) => \A i \in DOMAIN turn.plans[d] :
                  Added(turn.plans[d][i]) \/ Planned(turn.plans[d][i])
             /\ Len(turn.plans) = Days => HotelSignature(turn.plans) = HotelSignature(Trip)
             /\ Said.days # 0 /\ turn.by # "reduce" => Len(turn.plans) = Said.days
  <2>1. DraftOf(turn) /\ (Len(turn.plans) = Days => HotelSignature(turn.plans) = HotelSignature(Trip))
    BY <1>2 DEF Sound, Days, Trip
  <2>2. UsedOnce(turn.plans) BY <2>1 DEF DraftOf, Rearranged
  <2>3. Said.days # 0 /\ turn.by # "reduce" => Len(turn.plans) = Said.days BY <2>1 DEF DraftOf, Said
  <2>4. ASSUME NEW d \in DOMAIN turn.plans, ~Generated(d), NEW i \in DOMAIN turn.plans[d]
        PROVE  Added(turn.plans[d][i]) \/ Planned(turn.plans[d][i])
    <3>1. d \notin NewOnes(turn) BY <2>4 DEF Generated, NewOnes, Days, Trip
    <3>2. Proper(turn.trip, turn.plans[d][i]) BY <2>1, <2>4, <3>1 DEF DraftOf, Rearranged
    <3> DEFINE x == turn.plans[d][i]
    <3>3. Added(x) \/ Had(turn.trip, x) BY <3>2 DEF Proper
    <3> HIDE DEF x
    <3>4. Had(turn.trip, x) => Planned(x) BY DEF Had, Planned, Trip
    <3> QED BY <3>3, <3>4 DEF x
  <2> QED BY <2>1, <2>2, <2>3, <2>4
<1> QED BY <1>1, <1>2 DEF AnswerIsSound

\* The turn ends with a few words, that are neither a draft nor a want of cards.
LEMMA EndedSo ==
  ASSUME TurnInv, NEW words, words \notin {"no_cards", "draft"}, Ended(words)
  PROVE  TurnInv'
<1>1. TurnIs(turn') BY DEF TurnInv, TurnIs, Ended
<1>2. turn'.at = "over" /\ turn'.reply = words BY DEF TurnInv, TurnIs, Ended
<1>3. Sound(turn') BY <1>2 DEF Sound
<1> QED BY <1>1, <1>2, <1>3 DEF TurnInv

\* Nobody who asks for another hotel goes without a card when there is one.
LEMMA SomeCard ==
  ASSUME NEW s, s.named = {}, NEW intent \in Understood(s), {} \in Offers(intent)
  PROVE  {h \in Priced : h.name \notin CurrentNames} = {}
<1> DEFINE wanted == {h \in Priced : h.name \notin CurrentNames}
           others == {h.tier : h \in OtherPriced(intent)}
<1>1. intent.names = {} BY DEF Understood
<1>2. OtherPriced(intent) = wanted BY <1>1 DEF OtherPriced
<1>3. PICK tiers \in Tiers(intent) :
        {} \in kSubset(Min({MaxCards, Cardinality(Candidates(intent, tiers))}), Candidates(intent, tiers))
  BY DEF Offers
<1> DEFINE all == Candidates(intent, tiers)
<1>4. all = {h \in wanted : h.tier \in tiers} BY <1>1 DEF Candidates
<1>5. IsFiniteSet(all) BY <1>4, FS_Subset, DraftTurnAssumption DEF Priced
<1>6. Cardinality(all) \in Nat /\ Cardinality({}) = 0 BY <1>5, FS_CardinalityType, FS_EmptySet
<1> HIDE DEF all, wanted
<1>7. Min({MaxCards, Cardinality(all)}) = 0 BY <1>3, <1>6 DEF kSubset, all
<1>8. Cardinality(all) = 0
  <2> DEFINE c == Cardinality(all)
  <2>1. c \in Nat /\ MaxCards \in Nat \ {0} BY <1>6, DraftTurnAssumption
  <2> HIDE DEF c
  <2>2. \E x \in {MaxCards, c} : \A y \in {MaxCards, c} : x <= y BY <2>1
  <2>3. Min({MaxCards, c}) \in {MaxCards, c} BY <2>2 DEF Min
  <2> QED BY <1>7, <2>1, <2>3 DEF c
<1>9. all = {} BY <1>5, <1>8, FS_EmptySet
<1>10. others # {} => \E t \in tiers : t \in others
  <2> SUFFICES ASSUME others # {} PROVE \E t \in tiers : t \in others OBVIOUS
  <2> HIDE DEF others
  <2>1. CASE intent.tier \in others BY <1>3, <2>1 DEF Tiers, others
  <2>2. CASE intent.tier \notin others
    <3>1. PICK t \in others : tiers = {intent.tier} \cup {t} BY <1>1, <1>3, <2>2 DEF Tiers, others
    <3> QED BY <3>1
  <2> QED BY <2>1, <2>2
<1>11. wanted = {}
  <2> SUFFICES ASSUME wanted # {} PROVE FALSE OBVIOUS
  <2>1. others # {} BY <1>2
  <2>2. PICK h \in wanted : h.tier \in tiers BY <1>2, <1>10, <2>1
  <2> QED BY <1>4, <1>9, <2>2 DEF all
<1> QED BY <1>11 DEF wanted

\* Cards are offered, or there are none to offer.
LEMMA ProposedSo ==
  ASSUME TurnInv, Propose(Said, Understood(Said))
  PROVE  TurnInv'
<1>1. CASE Nights = {} /\ ~Said.scope BY <1>1, EndedSo DEF Propose
<1>2. CASE ~(Nights = {} /\ ~Said.scope) /\ Said.beyond BY <1>2, EndedSo DEF Propose
<1>3. CASE ~(Nights = {} /\ ~Said.scope) /\ ~Said.beyond
  <2>0. PICK intent \in Understood(Said) : \E cards \in Offers(intent) :
          turn' = [turn EXCEPT !.at = "over", !.cards = cards, !.reply = IF cards = {} THEN "no_cards" ELSE "cards"]
    BY <1>3 DEF Propose
  <2>1. PICK cards \in Offers(intent) :
          turn' = [turn EXCEPT !.at = "over", !.cards = cards, !.reply = IF cards = {} THEN "no_cards" ELSE "cards"]
    BY <2>0
  <2>2. TurnIs(turn') BY <2>1 DEF TurnInv, TurnIs
  <2>3. /\ turn'.at = "over" /\ turn'.trip = turn.trip /\ turn'.said = turn.said
        /\ turn'.reply = IF cards = {} THEN "no_cards" ELSE "cards"
    BY <2>1 DEF TurnInv, TurnIs
  <2>4. cards = {} /\ Said.named = {} => {h \in Priced : h.name \notin CurrentNames} = {} BY <2>1, SomeCard
  <2>5. Said = turn.said /\ CurrentNames = HotelNamesOf(turn.trip) BY DEF Said, CurrentNames, HotelNamesOf, Trip
  <2>6. Sound(turn') BY <2>3, <2>4, <2>5 DEF Sound
  <2> QED BY <2>2, <2>3, <2>6 DEF TurnInv
<1> QED BY <1>1, <1>2, <1>3

\* A proposal of the model that can be applied is a draft.
LEMMA AppliedSo ==
  ASSUME TurnInv, NEW data \in Decisions, data.mode \in {"plan_update", "rewrite_plan"}, Applied(Said, data) # NoPlans,
         NEW u, u.trip = turn.trip, u.said = turn.said, u.plans = Applied(Said, data), u.by = data.mode
  PROVE  DraftOf(u)
<1>1. turn.trip \in Trips /\ Said \in Sayings BY DEF TurnInv, TurnIs, Said
<1>2. Rearranged(turn.trip, Applied(Said, data), {}) /\ Len(Applied(Said, data)) = Target(Said, data)
  BY <1>1, PatchedPlansSo, DocumentPlansSo DEF Applied
<1>3. NewOnes(u) = {} BY DEF NewOnes
<1>4. Said.days # 0 => Target(Said, data) = Said.days BY DEF Target
<1> QED BY <1>2, <1>3, <1>4 DEF DraftOf, Said

\* The model's answer is applied, or the turn ends.
LEMMA RouteSo == ASSUME TurnInv, Route PROVE TurnInv'
<1> DEFINE data == turn.decision
           plans == Applied(Said, data)
<1>1. turn.at = "decided" /\ data \in Decisions BY DEF Route, TurnInv, TurnIs
<1>2. CASE Propose(Said, Understood(Said)) BY <1>2, ProposedSo
<1>3. CASE Ended("as_it_is") BY <1>3, EndedSo
<1>4. CASE /\ data.mode \in {"plan_update", "rewrite_plan"}
           /\ turn' = [turn EXCEPT !.at = IF plans = NoPlans THEN "repair" ELSE "check",
                                   !.plans = plans, !.by = data.mode]
  <2> DEFINE at == IF plans = NoPlans THEN "repair" ELSE "check"
  <2>1. /\ turn' = [at |-> at, trip |-> turn.trip, said |-> turn.said, decision |-> turn.decision, plans |-> plans,
                    by |-> data.mode, reply |-> turn.reply, cards |-> turn.cards]
    BY <1>4 DEF TurnInv, TurnIs
  <2>2. turn.reply = "none" BY <1>1 DEF TurnInv, TurnIs
  <2>3. at \in {"repair", "check"} /\ (at = "check" => plans # NoPlans) OBVIOUS
  <2> HIDE DEF at, plans
  <2>4. TurnIs(turn') BY <2>1, <2>2, <2>3 DEF TurnInv, TurnIs
  <2>5. Sound(turn') BY <2>1, <2>2 DEF Sound
  <2>6. turn'.at = "check" => DraftOf(turn')
    <3> SUFFICES ASSUME turn'.at = "check" PROVE DraftOf(turn') OBVIOUS
    <3>1. plans # NoPlans BY <2>1, <2>3
    <3>2. turn'.trip = turn.trip /\ turn'.said = turn.said /\ turn'.plans = plans /\ turn'.by = data.mode BY <2>1
    <3> QED BY <1>1, <1>4, <3>1, <3>2, AppliedSo DEF plans
  <2> QED BY <2>4, <2>5, <2>6 DEF TurnInv
<1> QED BY <1>1, <1>2, <1>3, <1>4 DEF Route

\* The second proposal is applied as the first.
LEMMA RepairSo == ASSUME TurnInv, Repair PROVE TurnInv'
<1>1. turn.at = "repair" /\ turn.reply = "none" BY DEF Repair, TurnInv, TurnIs
<1>2. CASE turn' = [turn EXCEPT !.at = "fallback"]
  <2>1. turn' = [at |-> "fallback", trip |-> turn.trip, said |-> turn.said, decision |-> turn.decision, plans |-> turn.plans,
                 by |-> turn.by, reply |-> turn.reply, cards |-> turn.cards]
    BY <1>2 DEF TurnInv, TurnIs
  <2>2. TurnIs(turn') BY <1>1, <2>1 DEF TurnInv, TurnIs
  <2> QED BY <1>1, <2>1, <2>2 DEF TurnInv, Sound
<1>3. CASE \E data \in {x \in Decisions : x.mode \in {"plan_update", "rewrite_plan"}} :
             /\ Applied(Said, data) # NoPlans
             /\ turn' = [turn EXCEPT !.at = "check", !.plans = Applied(Said, data), !.by = data.mode, !.decision = data]
  <2>1. PICK data \in Decisions :
          /\ data.mode \in {"plan_update", "rewrite_plan"} /\ Applied(Said, data) # NoPlans
          /\ turn' = [turn EXCEPT !.at = "check", !.plans = Applied(Said, data), !.by = data.mode, !.decision = data]
    BY <1>3
  <2> DEFINE plans == Applied(Said, data)
  <2>2. turn' = [at |-> "check", trip |-> turn.trip, said |-> turn.said, decision |-> data, plans |-> plans,
                 by |-> data.mode, reply |-> turn.reply, cards |-> turn.cards]
    BY <2>1 DEF TurnInv, TurnIs
  <2> HIDE DEF plans
  <2>3. TurnIs(turn') BY <1>1, <2>2 DEF TurnInv, TurnIs
  <2>4. turn'.trip = turn.trip /\ turn'.said = turn.said /\ turn'.plans = plans /\ turn'.by = data.mode BY <2>2
  <2>5. DraftOf(turn') BY <2>1, <2>4, AppliedSo DEF plans
  <2>6. Sound(turn') BY <1>1, <2>2 DEF Sound
  <2> QED BY <2>3, <2>5, <2>6 DEF TurnInv
<1> QED BY <1>2, <1>3 DEF Repair

\* The trip is thinned out or made longer without the model.
LEMMA FallbackSo == ASSUME TurnInv, Fallback PROVE TurnInv'
<1>1. turn.at = "fallback" /\ turn.reply = "none" /\ turn.trip \in Trips /\ turn.said \in Sayings
  BY DEF Fallback, TurnInv, TurnIs
<1>2. CASE Ended("no_safe_draft") BY <1>2, EndedSo
<1>3. ASSUME NEW plans, NEW by, turn' = [turn EXCEPT !.at = "check", !.plans = plans, !.by = by]
      PROVE  /\ turn'.trip = turn.trip /\ turn'.said = turn.said /\ turn'.plans = plans /\ turn'.by = by
             /\ DraftOf(turn') => TurnInv'
  <2>1. turn' = [at |-> "check", trip |-> turn.trip, said |-> turn.said, decision |-> turn.decision, plans |-> plans,
                 by |-> by, reply |-> turn.reply, cards |-> turn.cards]
    BY <1>3 DEF TurnInv, TurnIs
  <2>2. TurnIs(turn') BY <1>1, <2>1 DEF TurnInv, TurnIs
  <2>3. Sound(turn') BY <1>1, <2>1 DEF Sound
  <2> QED BY <2>1, <2>2, <2>3 DEF TurnInv
<1>4. CASE turn' = [turn EXCEPT !.at = "check", !.plans = Reduced(Said), !.by = "reduce"]
  <2>1. Rearranged(turn.trip, Reduced(Said), {}) BY <1>1, ReducedSo
  <2> DEFINE plans == Reduced(Said)
  <2> HIDE DEF plans
  <2>2. turn' = [turn EXCEPT !.at = "check", !.plans = plans, !.by = "reduce"] BY <1>4 DEF plans
  <2>3. /\ turn'.trip = turn.trip /\ turn'.plans = plans /\ turn'.by = "reduce"
        /\ DraftOf(turn') => TurnInv'
    BY <1>3, <2>2
  <2>4. NewOnes(turn') = {} BY <2>3 DEF NewOnes
  <2>5. DraftOf(turn') BY <2>1, <2>3, <2>4 DEF DraftOf, plans
  <2> QED BY <2>3, <2>5
<1>5. CASE /\ Said.more \in (Days + 1)..MaxTripDays
           /\ \E days \in [(Days + 1)..Said.more -> NewDays \cup {<<>>}] :
                turn' = [turn EXCEPT !.at = "check", !.by = "extend",
                           !.plans = [d \in 1..Said.more |-> IF d <= Days THEN Trip[d] ELSE days[d]]]
  <2> DEFINE t == turn.trip
             m == turn.said.more
  <2>1. t = Trip /\ m = Said.more /\ Len(t) = Days /\ Len(t) \in Nat /\ t \in Trips BY <1>1, TripSo DEF Trip, Said, Days
  <2>2. m \in (Len(t) + 1)..MaxTripDays BY <1>5, <2>1
  <2>3. m \in Nat /\ m > Len(t) /\ m # 0 BY <2>1, <2>2, DraftTurnAssumption
  <2>4. turn.said.days = m BY <1>1, <2>3, DraftTurnAssumption
  <2>5. PICK days \in [(Len(t) + 1)..m -> NewDays \cup {<<>>}] :
          turn' = [turn EXCEPT !.at = "check", !.by = "extend",
                     !.plans = [d \in 1..Said.more |-> IF d <= Days THEN Trip[d] ELSE days[d]]]
    BY <1>5, <2>1
  <2> HIDE DEF t, m
  <2> DEFINE plans == [d \in 1..m |-> IF d <= Len(t) THEN t[d] ELSE days[d]]
  <2>6. [d \in 1..Said.more |-> IF d <= Days THEN Trip[d] ELSE days[d]] = plans BY <2>1
  <2> DEFINE fresh == {d \in 1..m : d > Len(t)}
  <2>7. Rearranged(t, plans, fresh) /\ Len(plans) = m /\ DOMAIN plans = 1 .. m BY <2>1, <2>3, ExtendedSo
  <2> HIDE DEF plans
  <2>8. turn' = [turn EXCEPT !.at = "check", !.plans = plans, !.by = "extend"]
    <3>1. turn' = [turn EXCEPT !.at = "check", !.by = "extend", !.plans = plans] BY <2>5, <2>6
    <3> QED BY <3>1 DEF TurnInv, TurnIs
  <2>9. /\ turn'.trip = turn.trip /\ turn'.said = turn.said /\ turn'.plans = plans /\ turn'.by = "extend"
        /\ DraftOf(turn') => TurnInv'
    BY <1>3, <2>8
  <2>10. NewOnes(turn') = fresh BY <2>7, <2>9 DEF NewOnes, t
  <2>11. DraftOf(turn') BY <2>4, <2>7, <2>9, <2>10 DEF DraftOf, t
  <2> QED BY <2>9, <2>11
<1> QED BY <1>2, <1>4, <1>5 DEF Fallback

\* The check drops repeated names, and lets no draft through that changes the hotels of a trip of as many days.
LEMMA CheckSo == ASSUME TurnInv, CheckDraft PROVE TurnInv'
<1> DEFINE plans == Deduped(turn.plans)
           words == IF HotelSignature(plans) # HotelSignature(Trip) /\ Len(plans) = Days THEN "choose_a_hotel"
                    ELSE IF Signature(plans) = Signature(Trip) THEN "nothing_changes"
                    ELSE IF Conflict(plans) THEN "times_overlap"
                    ELSE "draft"
           t == turn.trip
<1>1. turn.at = "check" /\ DraftOf(turn) BY DEF CheckDraft, TurnInv
<1>2. turn' = [turn EXCEPT !.at = "over", !.plans = plans, !.reply = words] BY Zenon DEF CheckDraft
<1>3. words # "no_cards" /\ (words = "draft" /\ Len(plans) = Len(t) => HotelSignature(plans) = HotelSignature(t))
  <2> HIDE DEF plans
  <2> QED BY DEF Days, Trip
<1> HIDE DEF plans, words, t
<1>4. turn' = [at |-> "over", trip |-> t, said |-> turn.said, decision |-> turn.decision, plans |-> plans,
               by |-> turn.by, reply |-> words, cards |-> turn.cards]
  BY <1>2 DEF TurnInv, TurnIs, t
<1>5. TurnIs(turn') BY <1>4 DEF TurnInv, TurnIs, t
<1>6. Rearranged(t, plans, NewOnes(turn)) /\ DOMAIN plans = DOMAIN turn.plans /\ Len(plans) = Len(turn.plans)
  BY <1>1, DedupedDrawn DEF DraftOf, plans, t
<1>7. /\ turn'.trip = t /\ turn'.said = turn.said /\ turn'.plans = plans /\ turn'.by = turn.by
      /\ turn'.at = "over" /\ turn'.reply = words
  BY <1>4
<1>8. NewOnes(turn') = NewOnes(turn) BY <1>6, <1>7 DEF NewOnes, t
<1>9. DraftOf(turn') BY <1>1, <1>6, <1>7, <1>8 DEF DraftOf, t
<1>10. Sound(turn') BY <1>3, <1>7, <1>9 DEF Sound
<1> QED BY <1>5, <1>7, <1>10 DEF TurnInv

\* The model answers, or does not.
LEMMA DecideSo == ASSUME TurnInv, Decide PROVE TurnInv'
<1>1. turn.at = "asked" /\ turn.reply = "none" BY DEF Decide, TurnInv, TurnIs
<1>2. CASE Ended("not_readable") BY <1>2, EndedSo
<1>3. CASE Ended("unavailable") BY <1>3, EndedSo
<1>4. CASE Propose(Said, Understood(Said)) BY <1>4, ProposedSo
<1>5. CASE \E data \in Decisions : turn' = [turn EXCEPT !.at = "decided", !.decision = data]
  <2>1. PICK data \in Decisions : turn' = [turn EXCEPT !.at = "decided", !.decision = data] BY <1>5
  <2>2. turn' = [at |-> "decided", trip |-> turn.trip, said |-> turn.said, decision |-> data, plans |-> turn.plans,
                 by |-> turn.by, reply |-> turn.reply, cards |-> turn.cards]
    BY <2>1 DEF TurnInv, TurnIs
  <2>3. TurnIs(turn') BY <1>1, <2>2 DEF TurnInv, TurnIs
  <2> QED BY <1>1, <2>2, <2>3 DEF TurnInv, Sound
<1> QED BY <1>2, <1>3, <1>4, <1>5 DEF Decide

\* The turn begins with nothing said of it.
LEMMA TurnInit == ASSUME DraftInit PROVE TurnInv
<1>1. TurnIs(turn) /\ turn.at = "asked" /\ turn.reply = "none" BY DEF DraftInit, TurnIs
<1> QED BY <1>1 DEF TurnInv, Sound

\* Every step keeps the invariant.
LEMMA TurnStep == ASSUME TurnInv, DraftNext PROVE TurnInv'
<1>1. CASE Refuse BY <1>1, EndedSo DEF Refuse
<1> QED BY <1>1, DecideSo, RouteSo, RepairSo, FallbackSo, CheckSo DEF DraftNext

\* AnswerIsSound: whatever the model proposes, the user is asked to accept his own trip
\* rearranged, at its own prices and with its own hotels, and of as many days as he asked for;
\* and who asks for another hotel gets a card if there is one.
THEOREM TurnSound == DraftSpec => []AnswerIsSound
<1>1. DraftInit => TurnInv BY TurnInit
<1>2. TurnInv /\ [DraftNext]_draftVars => TurnInv'
  <2>1. ASSUME TurnInv, UNCHANGED draftVars PROVE TurnInv'
    <3>1. turn' = turn BY <2>1 DEF draftVars
    <3>2. TurnIs(turn') /\ Sound(turn') /\ (turn'.at = "check" => DraftOf(turn')) BY <2>1, <3>1 DEF TurnInv
    <3> QED BY <3>2 DEF TurnInv
  <2> QED BY <2>1, TurnStep
<1>3. TurnInv => AnswerIsSound BY SoundAnswer DEF TurnInv
<1> QED BY <1>1, <1>2, <1>3, PTL DEF DraftSpec
=============================================================================
