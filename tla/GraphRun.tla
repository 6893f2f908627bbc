------------------------------- MODULE GraphRun -------------------------------
(***************************************************************************)
(* What the planner and the recovery rely on when they run a day's graph:  *)
(* a run leaves an open checkpoint from its first step on, a run that      *)
(* comes to its end leaves its outcome there, an interrupted run can be    *)
(* taken up again and comes to an end as well, and an outcome, once left,  *)
(* is the answer whoever asks.  Module Generation is written against this  *)
(* (its variable ckpt); module TripGraph is shown to keep it.              *)
(***************************************************************************)
EXTENDS Naturals

CONSTANT Outcomes   \* how a run may end
VARIABLES
  phase,     \* "idle", "running", "dead" (the process is gone), "over"
  ckpt,      \* "none", "open" or an outcome
  answer     \* what the run returned: "none" or an outcome

absVars == <<phase, ckpt, answer>>

AbsInit == phase = "idle" /\ ckpt = "none" /\ answer = "none"

Begin  == phase = "idle" /\ phase' = "running" /\ ckpt' = "open" /\ UNCHANGED answer
Settle == phase = "running" /\ ckpt = "open" /\ ckpt' \in Outcomes /\ UNCHANGED <<phase, answer>>
Return == phase = "running" /\ ckpt \in Outcomes /\ phase' = "over" /\ answer' = ckpt /\ UNCHANGED ckpt
Die    == phase = "running" /\ phase' = "dead" /\ UNCHANGED <<ckpt, answer>>
Revive == phase = "dead" /\ phase' = "running" /\ UNCHANGED <<ckpt, answer>>

AbsNext == Begin \/ Settle \/ Return \/ Die \/ Revive
AbsSpec == AbsInit /\ [][AbsNext]_absVars
\* Whoever has begun a run gets an answer, the process that began it or the next one.
AbsAnswers == phase = "running" ~> phase = "over"
=============================================================================
