------------------------------ MODULE MCStream ------------------------------
(***************************************************************************)
(* The streams a client reads of a trip: its progress events, the          *)
(* conversation about it, and the plan itself at the agent's own           *)
(* interface.  They share no state; a behaviour is of one scene, so that   *)
(* what does not touch is not multiplied out.                              *)
(***************************************************************************)
EXTENDS EventStream, ChatPanel, WorkerBridge

VARIABLE view
streams == <<view, vars, chatVars, bridgeVars>>

StreamsInit ==
  /\ view \in {"events", "chat", "bridge"}
  /\ Init /\ ChatInit /\ BridgeInit
  /\ view # "events" => ~gen
StreamsNext ==
  \/ view = "events" /\ Next /\ UNCHANGED <<view, chatVars, bridgeVars>>
  \/ view = "chat" /\ ChatNext /\ UNCHANGED <<view, vars, bridgeVars>>
  \/ view = "bridge" /\ BridgeNext /\ UNCHANGED <<view, vars, chatVars>>

\* The threads of the chat pool go on: a model call ends, by its own timeout if need be.
TurnsGoOn == \A t \in Turns : WF_chatVars(ServeTurn(t))
\* So do the thread of the graph and the worker of the bridge.
BridgeGoesOn ==
  WF_bridgeVars(view = "bridge" /\ NodeStep) /\ WF_bridgeVars(view = "bridge" /\ WorkerStep)
StreamsSpec == StreamsInit /\ [][StreamsNext]_streams /\ Fairness /\ TurnsGoOn /\ BridgeGoesOn

\* Whoever waits for a stream is let go: a connection whose trip is over is closed
\* (event_hub.py:51-57), a worker of the chat hands its outcome over to whoever is left
\* (itinerary_chat.py:659), and the worker of a trip stream ends after its caller
\* (agent.py:106-110).
StreamsEnd == ConnectionsEnd /\ WorkersReturn /\ BridgeReturns
=============================================================================
