------------------------------ MODULE Gateways ------------------------------
(***************************************************************************)
(* The gateways a user brings along (llm_gateway_service.py): rows with an *)
(* address and an encrypted key, of which one at most is enabled, and the  *)
(* legs of work that pay with it.  A leg (a trip, a day, a turn of the     *)
(* chat) resolves its route once, when it starts, and every call of it     *)
(* takes the client of that route out of a small cache (llm_client.py).    *)
(* The rows are those of one user; other users' rows are never touched.    *)
(***************************************************************************)
EXTENDS Naturals, FiniteSets

CONSTANTS
  Gateways,       \* ids a row can get, each once
  Hosts,          \* base_url with its model, of public addresses: others are refused (400)
  Secrets,        \* API keys
  Editors,        \* requests of the settings page
  Legs,           \* legs of work that call the model
  ClientCapacity  \* _ROUTE_CLIENT_CAPACITY

ASSUME GatewaysAssumption ==
  /\ ClientCapacity \in Nat \ {0}
  /\ Hosts # {} /\ Secrets # {} /\ Gateways # {} /\ IsFiniteSet(Gateways)

VARIABLES
  gates,      \* each row: [is, on, host, key, opens]; opens: its cipher can be decrypted
  setting,    \* each request: [at, op, gate, host, on]: the row's columns as they were read
  leg,        \* each leg: [at, route, used, due]
  pool,       \* _route_clients: [slot, route] of each client
  readable,   \* user_llm_gateway can be read
  upset       \* bound: the encryption key changes or the table fails, once

gateVars == <<gates, setting, leg, pool, readable, upset>>

Operator == <<"operator", "operator">>  \* the default channel, which the operator pays
Routes == Hosts \X Secrets
GateRows == [is : {"unborn", "there", "gone"}, on : BOOLEAN, host : Hosts, key : Secrets, opens : BOOLEAN]
RouteOf(row) == <<row.host, row.key>>
Enabled == {g \in Gateways : gates[g].is = "there" /\ gates[g].on}
\* What a leg that starts now has to pay with; only a table that is read binds it.
Owed == IF readable THEN {RouteOf(gates[g]) : g \in Enabled} ELSE {}

Unborn == [is |-> "unborn", on |-> FALSE, host |-> CHOOSE h \in Hosts : TRUE,
           key |-> CHOOSE k \in Secrets : TRUE, opens |-> TRUE]
NoRequest(at) == [at |-> at, op |-> "none", gate |-> CHOOSE g \in Gateways : TRUE, host |-> Unborn.host, on |-> FALSE]
\* The user has added some gateways already, and enabled one at most.
GateInit ==
  /\ gates \in [Gateways -> {Unborn} \cup {[Unborn EXCEPT !.is = "there", !.on = on] : on \in BOOLEAN}]
  /\ Cardinality(Enabled) <= 1
  /\ setting = [e \in Editors |-> NoRequest("idle")]
  /\ leg = [l \in Legs |-> [at |-> "idle", route |-> Operator, used |-> Operator, due |-> {}]]
  /\ pool = {} /\ readable = TRUE /\ upset = FALSE

-----------------------------------------------------------------------------
(* The settings page *)

Close(e) == setting' = [setting EXCEPT ![e] = NoRequest("over")]

\* create_config: an address that is not public, or a name that is taken, changes nothing.
CreateGate(e) ==
  /\ setting[e].at = "idle" /\ Close(e)
  /\ \/ UNCHANGED gates
     \/ \E g \in Gateways, h \in Hosts, k \in Secrets :
          /\ readable /\ gates[g].is = "unborn"
          /\ gates' = [gates EXCEPT ![g] = [is |-> "there", on |-> FALSE, host |-> h, key |-> k, opens |-> TRUE]]
  /\ UNCHANGED <<leg, pool, readable, upset>>

\* _require_row; enabling also decrypts the key, and answers 409 when it cannot.
Require(e) ==
  /\ setting[e].at = "idle"
  /\ \E op \in {"update", "delete", "enable", "disable"}, g \in Gateways :
       IF ~readable \/ gates[g].is # "there" \/ (op = "enable" /\ ~gates[g].opens) THEN Close(e)
       ELSE setting' = [setting EXCEPT ![e] = [at |-> "read", op |-> op, gate |-> g,
                                             host |-> gates[g].host, on |-> gates[g].on]]
  /\ UNCHANGED <<gates, leg, pool, readable, upset>>

Commits(e, op) ==
  /\ setting[e].at = "read" /\ setting[e].op = op /\ Close(e)
  /\ UNCHANGED <<leg, pool, readable, upset>>
\* The row is still there; else, or without the table, the flush fails and is rolled back.
Lands(e) == readable /\ gates[setting[e].gate].is = "there"

\* update_config: only the columns that differ from what was read; a key is encrypted anew.
UpdateGate(e) ==
  /\ Commits(e, "update")
  /\ \/ UNCHANGED gates
     \/ /\ Lands(e)
        /\ \E g \in {setting[e].gate}, h \in Hosts :
             LET host == IF h = setting[e].host THEN gates[g].host ELSE h IN
             \/ gates' = [gates EXCEPT ![g].host = host]
             \/ \E k \in Secrets : gates' = [gates EXCEPT ![g] = [@ EXCEPT !.host = host, !.key = k, !.opens = TRUE]]
\* delete_config: for good; the enabled one included.
DeleteGate(e) ==
  /\ Commits(e, "delete")
  /\ gates' = IF Lands(e) THEN [gates EXCEPT ![setting[e].gate] = [@ EXCEPT !.is = "gone", !.on = FALSE]]
              ELSE gates
\* enable_config: one transaction clears the others and sets this one.  Variant: it only sets.
AlsoOne(g) == [gates EXCEPT ![g].on = TRUE]
OnlyOne(g) == [x \in Gateways |-> [gates[x] EXCEPT !.on = (x = g)]]
EnableGate(e) ==
  /\ Commits(e, "enable")
  /\ gates' = IF Lands(e) THEN OnlyOne(setting[e].gate) ELSE gates
\* disable_config: no write when it was read as not enabled.
DisableGate(e) ==
  /\ Commits(e, "disable")
  /\ gates' = IF Lands(e) /\ setting[e].on THEN [gates EXCEPT ![setting[e].gate].on = FALSE]
              ELSE gates

-----------------------------------------------------------------------------
(* Legs of work *)

\* resolve_route: no enabled row, or a table that cannot be read, is the default channel; a
\* key that cannot be decrypted ends the leg.
StartLeg(l) ==
  /\ leg[l].at = "idle"
  /\ \/ ~readable /\ leg' = [leg EXCEPT ![l] = [@ EXCEPT !.at = "runs", !.due = Owed]]
     \/ readable /\ Enabled = {} /\ leg' = [leg EXCEPT ![l] = [@ EXCEPT !.at = "runs", !.due = Owed]]
     \/ /\ readable
        /\ \E g \in Enabled :
             leg' = [leg EXCEPT ![l] =
               IF gates[g].opens THEN [at |-> "runs", route |-> RouteOf(gates[g]), used |-> Operator, due |-> Owed]
               ELSE [@ EXCEPT !.at = "over", !.due = Owed]]
  /\ UNCHANGED <<gates, setting, pool, readable, upset>>

\* The key of the cache: address, model and a digest of the API key.  Variant: address alone.
SlotByHost(route) == <<route[1]>>
SlotOf(route) == route
\* _routed_client: a full cache is emptied before a client is added.
Roomy == IF Cardinality(pool) >= ClientCapacity THEN {} ELSE pool
CallModel(l) ==
  /\ leg[l].at \in {"runs", "called"}
  /\ IF leg[l].route = Operator
       THEN leg' = [leg EXCEPT ![l].at = "called"] /\ UNCHANGED pool
       ELSE LET slot == SlotOf(leg[l].route)
                kept == {c \in pool : c.slot = slot} IN
            IF kept = {}
              THEN /\ leg' = [leg EXCEPT ![l] = [@ EXCEPT !.at = "called", !.used = leg[l].route]]
                   /\ pool' = Roomy \cup {[slot |-> slot, route |-> leg[l].route]}
              ELSE /\ \E c \in kept : leg' = [leg EXCEPT ![l] = [@ EXCEPT !.at = "called", !.used = c.route]]
                   /\ UNCHANGED pool
  /\ UNCHANGED <<gates, setting, readable, upset>>

\* The process starts again with another encryption key: nothing that is stored opens.
Rotate ==
  /\ ~upset /\ upset' = TRUE
  /\ gates' = [g \in Gateways |-> [gates[g] EXCEPT !.opens = FALSE]]
  /\ setting' = [e \in Editors |-> IF setting[e].at = "read" THEN NoRequest("over") ELSE setting[e]]
  /\ leg' = [l \in Legs |-> IF leg[l].at = "idle" THEN leg[l] ELSE [leg[l] EXCEPT !.at = "over"]]
  /\ pool' = {} /\ UNCHANGED readable
TableFails == readable /\ ~upset /\ readable' = FALSE /\ upset' = TRUE /\ UNCHANGED <<gates, setting, leg, pool>>
TableReturns == ~readable /\ readable' = TRUE /\ UNCHANGED <<gates, setting, leg, pool, upset>>

GateNext ==
  \/ \E e \in Editors : CreateGate(e) \/ Require(e) \/ UpdateGate(e) \/ DeleteGate(e) \/ EnableGate(e) \/ DisableGate(e)
  \/ \E l \in Legs : StartLeg(l) \/ CallModel(l)
  \/ Rotate \/ TableFails \/ TableReturns

GateSpec == GateInit /\ [][GateNext]_gateVars

-----------------------------------------------------------------------------
\* At most one row is enabled (models.py), and a leg pays with what was enabled when it
\* started: address and key as they were then, whatever is edited, rotated or cached while
\* it runs, and never with the operator's account while a row was enabled and readable.
LegsPayRight ==
  /\ Cardinality(Enabled) <= 1
  /\ \A l \in Legs : leg[l].at = "called" => leg[l].used \in (IF leg[l].due = {} THEN {Operator} ELSE leg[l].due)
=============================================================================
