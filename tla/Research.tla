------------------------------ MODULE Research ------------------------------
(***************************************************************************)
(* The research before a plan: the domains look for evidence side by side, *)
(* each in a thread that plans with the model, calls one tool of the       *)
(* registry, asks the web for more words and lets the model judge, twice   *)
(* at most; then the plan is streamed.  They share the limits of the run,  *)
(* which nobody locks: what is checked and what is counted are two steps.  *)
(***************************************************************************)
EXTENDS Integers, FiniteSets

CONSTANTS
  Domains,
  MaxResearch, MaxRetrievals, MaxLlm, MaxTokens, \* RunLimits; MaxResearch 0: no limit
  ToolMax, PerTool,   \* tool_max_calls, ToolSpec.max_calls
  ToolRetries,        \* _effective_retries
  LlmAttempts, Rounds, Enough,
  MaxWords            \* bound: words that a plan or a verdict asks for

ASSUME ResearchAssumption ==
  /\ IsFiniteSet(Domains)
  /\ {MaxResearch, MaxRetrievals, MaxLlm, MaxTokens, ToolMax, PerTool, ToolRetries, MaxWords} \subseteq Nat
  /\ {LlmAttempts, Rounds, Enough} \subseteq Nat \ {0}

VARIABLES
  spent,   \* RunLimits: [llm, tokens, retrievals, research]
  tools,   \* the tool budget: [total, by]
  late,    \* the deadline of the run has passed
  agent,   \* each domain: [at, round, words, planned, found, why, attempt, read]
  packs,   \* the EvidencePack of each: "none", "full", "empty", or "lost" if it raised
  failed,  \* for the properties: domains whose tool failed or was refused
  bill,    \* for the properties: model calls [answered, billed]
  stream   \* the whole-trip stream: "off", "open", "done", "cancelled", "refused"

resVars == <<spent, tools, late, agent, packs, failed, bill, stream>>

Starting == [at |-> "plan", round |-> 0, words |-> 0, planned |-> 0, found |-> 0,
             why |-> "none", attempt |-> 0, read |-> 0]
Over == [Starting EXCEPT !.at = "over"]
ResInit ==
  /\ spent = [llm |-> 0, tokens |-> 0, retrievals |-> 0, research |-> 0]
  /\ tools = [total |-> 0, by |-> [d \in Domains |-> 0]]
  /\ late = FALSE
  /\ agent = [d \in Domains |-> Starting]
  /\ packs = [d \in Domains |-> "none"]
  /\ failed = {}
  /\ bill = [answered |-> 0, billed |-> 0]
  /\ stream = "off"

-----------------------------------------------------------------------------
AtR(d, where) == agent[d].at = where
GoR(d, where) == agent' = [agent EXCEPT ![d].at = where]
\* An exception leaves the graph of the domain: the supervisor puts an empty pack.
Raise(d) == packs' = [packs EXCEPT ![d] = "lost"] /\ agent' = [agent EXCEPT ![d] = Over]
NoTool == UNCHANGED <<tools, failed>>
NoModel == UNCHANGED <<bill, stream, late>>

Spent(what, max) == late \/ (max > 0 /\ spent[what] >= max)
Count(what) == spent' = [spent EXCEPT ![what] = @ + 1]

-----------------------------------------------------------------------------
(* The model: chat_response, called to plan and to judge.  Whatever it raises is     *)
(* caught, and the default taken.                                                    *)

Verdicts == {[words |-> w, good |-> g] : w \in 0 .. MaxWords, g \in BOOLEAN}
NoPlan == [words |-> 0, good |-> TRUE]
\* _plan_node; _evaluate_node with its routes, and _refine_node, which adds the words
\* asked for to those of the plan.
AfterModel(row, v) ==
  IF row.why = "plan"
  THEN [row EXCEPT !.at = "search", !.attempt = 0, !.words = v.words, !.planned = v.words]
  ELSE [row EXCEPT !.at = IF v.good THEN "finalize" ELSE "search", !.attempt = 0,
                   !.words = row.words + IF v.good THEN 0 ELSE v.words]
Concluded(d, v) == agent' = [agent EXCEPT ![d] = AfterModel(agent[d], v)]
Ask(d, why) == agent' = [agent EXCEPT ![d].at = "model", ![d].why = why, ![d].attempt = 0]

Plan(d) == AtR(d, "plan") /\ Ask(d, "plan") /\ NoTool /\ NoModel /\ UNCHANGED <<spent, packs>>
\* Before every attempt; what was refused counts as no call.
CheckModel(d) ==
  /\ AtR(d, "model")
  /\ IF late \/ spent.llm >= MaxLlm THEN Concluded(d, NoPlan)
     ELSE agent' = [agent EXCEPT ![d].at = "post", ![d].attempt = @ + 1]
  /\ NoTool /\ NoModel /\ UNCHANGED <<spent, packs>>
Post(d) ==
  /\ AtR(d, "post")
  /\ \/ GoR(d, "answered") /\ bill' = [bill EXCEPT !.answered = @ + 1]
     \/ agent[d].attempt < LlmAttempts /\ GoR(d, "model") /\ UNCHANGED bill
     \/ Concluded(d, NoPlan) /\ UNCHANGED bill
  /\ NoTool /\ UNCHANGED <<spent, packs, late, stream>>
\* The call is billed, then counted; the one that goes over the limit raises.  Variant:
\* it is counted first.
BilledUnlessOver(tokens) == IF tokens > MaxTokens THEN bill ELSE [bill EXCEPT !.billed = @ + 1]
Billed(tokens) == [bill EXCEPT !.billed = @ + 1]
Counted(used) == [spent EXCEPT !.llm = @ + 1, !.tokens = @ + used]
TakeAnswer(d) ==
  /\ AtR(d, "answered")
  /\ \E used \in 1 .. 2 :
       /\ spent' = Counted(used)
       /\ bill' = Billed(spent'.tokens)
       /\ IF spent'.tokens > MaxTokens THEN Concluded(d, NoPlan)
          ELSE \E v \in Verdicts : Concluded(d, v)
  /\ NoTool /\ UNCHANGED <<packs, late, stream>>

-----------------------------------------------------------------------------
(* _spend_research: a look at the quota and a count, and neither raises.          *)

Spend(d, why) == agent' = [agent EXCEPT ![d].at = "spend", ![d].why = why]
AfterSpend == [first |-> "tool", word |-> "web", few |-> "last"]
May(d) == GoR(d, AfterSpend[agent[d].why])
\* The first search is made all the same; no more words are looked up.
AfterRefusal == [first |-> "tool", word |-> "few", few |-> "judge"]
MayNot(d) ==
  agent' = [agent EXCEPT ![d].at = AfterRefusal[agent[d].why],
                         ![d].words = IF agent[d].why = "word" THEN 0 ELSE @]
SpendCheck(d) ==
  /\ AtR(d, "spend")
  /\ IF Spent("research", MaxResearch) THEN MayNot(d) ELSE GoR(d, "count")
  /\ NoTool /\ NoModel /\ UNCHANGED <<spent, packs>>
OverCounted == MaxResearch > 0 /\ spent'.research > MaxResearch
SpendCount(d) ==
  /\ AtR(d, "count") /\ Count("research")
  /\ IF OverCounted THEN MayNot(d) ELSE May(d)
  /\ UNCHANGED packs
  /\ NoTool /\ NoModel

-----------------------------------------------------------------------------
(* ToolRegistry.invoke: the budget is read and written without a lock. *)

Search(d) ==
  /\ AtR(d, "search") /\ Spend(d, "first")
  /\ NoTool /\ NoModel /\ UNCHANGED <<spent, packs>>
ToolRead(d) ==
  /\ AtR(d, "tool")
  /\ IF late \/ tools.total >= ToolMax \/ tools.by[d] >= PerTool
     THEN Raise(d) /\ failed' = failed \cup {d}
     ELSE /\ agent' = [agent EXCEPT ![d].at = "charge", ![d].read = tools.total]
          /\ UNCHANGED <<packs, failed>>
  /\ NoModel /\ UNCHANGED <<spent, tools>>
ToolCharge(d) ==
  /\ AtR(d, "charge") /\ agent' = [agent EXCEPT ![d].at = "run", ![d].read = 0]
  /\ tools' = [total |-> agent[d].read + 1, by |-> [tools.by EXCEPT ![d] = @ + 1]]
  /\ NoModel /\ UNCHANGED <<spent, packs, failed>>
\* search_places_via_web: an answer of the cache, nothing because the retrievals are used
\* up, or one more retrieval that the model answers, or does not.
WebSearch ==
  \/ UNCHANGED <<spent, bill>>
  \/ /\ ~Spent("retrievals", MaxRetrievals)
     /\ \/ Count("retrievals") /\ UNCHANGED bill
        \/ /\ spent.llm < MaxLlm
           /\ \E used \in 1 .. 2 : spent' = [Counted(used) EXCEPT !.retrievals = @ + 1]
           /\ bill' = [Billed(spent'.tokens) EXCEPT !.answered = @ + 1]

\* The tool asks the web too; what it finds takes the place of what the domain had.
ToolFinds(d) ==
  /\ AtR(d, "run") /\ WebSearch
  /\ \E n \in {0, 1, Enough} :
       agent' = [agent EXCEPT ![d].at = "found", ![d].found = n, ![d].attempt = 0]
  /\ NoTool /\ UNCHANGED <<packs, stream, late>>
\* _dispatch: an error of an idempotent tool is tried again.
ToolAgain(d) ==
  /\ AtR(d, "run") /\ agent[d].attempt < ToolRetries
  /\ agent' = [agent EXCEPT ![d].attempt = @ + 1]
  /\ NoTool /\ NoModel /\ UNCHANGED <<spent, packs>>
\* The last error, or a tool that takes too long: it is left behind, and nobody waits
\* for it.
ToolFails(d) ==
  /\ AtR(d, "run") /\ Raise(d) /\ failed' = failed \cup {d}
  /\ NoModel /\ UNCHANGED <<spent, tools>>
\* record_retrieval, of the tool or of a word: the last one over the limit raises.
RecordRetrieval(d) ==
  /\ agent[d].at \in {"found", "worded"} /\ Count("retrievals")
  /\ IF MaxRetrievals > 0 /\ spent'.retrievals > MaxRetrievals THEN Raise(d)
     ELSE GoR(d, "words") /\ UNCHANGED packs
  /\ NoTool /\ NoModel

-----------------------------------------------------------------------------
(* The web, word by word, and once more when there is too little. *)

NextWord(d) ==
  /\ AtR(d, "words")
  /\ IF agent[d].words > 0 THEN Spend(d, "word") ELSE GoR(d, "few")
  /\ NoTool /\ NoModel /\ UNCHANGED <<spent, packs>>
More(d, at) ==
  /\ WebSearch /\ UNCHANGED <<stream, late>>
  /\ \E n \in {0, 1} :
       agent' = [agent EXCEPT ![d].at = at, ![d].words = IF @ > 0 THEN @ - 1 ELSE 0,
                              ![d].found = IF @ < Enough THEN @ + n ELSE @]
Web(d) ==
  /\ AtR(d, "web")
  /\ IF Spent("retrievals", MaxRetrievals) THEN Raise(d) /\ NoModel /\ UNCHANGED spent
     ELSE More(d, "worded") /\ UNCHANGED packs
  /\ NoTool
Few(d) ==
  /\ AtR(d, "few")
  /\ IF agent[d].found < Enough THEN Spend(d, "few") ELSE GoR(d, "judge")
  /\ NoTool /\ NoModel /\ UNCHANGED <<spent, packs>>
LastResort(d) == AtR(d, "last") /\ More(d, "judge") /\ NoTool /\ UNCHANGED packs

\* evaluate_research: without evidence, or without what the user meant, more is wanted
\* and the model is not asked.
Judge(d) ==
  LET r == agent[d].round + 1 IN
  /\ AtR(d, "judge")
  /\ \/ r >= Rounds /\ agent' = [agent EXCEPT ![d].at = "finalize", ![d].round = r]
     \/ /\ r < Rounds /\ MaxWords > 0
        /\ agent' = [agent EXCEPT ![d].at = "search", ![d].round = r, ![d].words = agent[d].planned + 1]
     \/ /\ r < Rounds /\ agent[d].found > 0
        /\ agent' = [agent EXCEPT ![d].at = "model", ![d].round = r, ![d].why = "judge", ![d].attempt = 0,
                                  ![d].words = agent[d].planned]
  /\ NoTool /\ NoModel /\ UNCHANGED <<spent, packs>>
Finalize(d) ==
  /\ AtR(d, "finalize") /\ agent' = [agent EXCEPT ![d] = Over]
  /\ packs' = [packs EXCEPT ![d] = IF agent[d].found > 0 THEN "full" ELSE "empty"]
  /\ NoTool /\ NoModel /\ UNCHANGED spent

-----------------------------------------------------------------------------
(* synthesize, once every pack is there, and the stream of the plan. *)

RestOfRun == UNCHANGED <<tools, late, agent, packs, failed>>
OpenStream ==
  /\ stream = "off" /\ \A d \in Domains : packs[d] # "none"
  /\ IF late \/ spent.llm >= MaxLlm THEN stream' = "refused"
     ELSE stream' = "open"
  /\ UNCHANGED <<spent, bill>> /\ RestOfRun
\* The client goes away, or the connection breaks: how much was used is not known.
CutStream == stream = "open" /\ stream' = "cancelled" /\ UNCHANGED <<spent, bill>> /\ RestOfRun
EndStream ==
  /\ stream = "open"
  /\ \E used \in 1 .. 2 :
       /\ spent' = Counted(used)
       /\ bill' = [Billed(spent'.tokens) EXCEPT !.answered = @ + 1]
       /\ stream' = IF spent'.tokens > MaxTokens THEN "refused" ELSE "done"
  /\ RestOfRun
Deadline == ~late /\ late' = TRUE /\ UNCHANGED <<spent, tools, agent, packs, failed, bill, stream>>

AgentStep(d) ==
  \/ Plan(d) \/ CheckModel(d) \/ Post(d) \/ TakeAnswer(d)
  \/ SpendCheck(d) \/ SpendCount(d) \/ Search(d) \/ ToolRead(d) \/ ToolCharge(d)
  \/ ToolFinds(d) \/ ToolAgain(d) \/ ToolFails(d) \/ RecordRetrieval(d) \/ NextWord(d) \/ Web(d) \/ Few(d) \/ LastResort(d) \/ Judge(d) \/ Finalize(d)
ResNext == Deadline \/ OpenStream \/ CutStream \/ EndStream \/ \E d \in Domains : AgentStep(d)

ResSpec == ResInit /\ [][ResNext]_resVars

-----------------------------------------------------------------------------
(* Properties. *)

\* That the quota of the research is used up is no failure: a domain only comes without
\* evidence it had when its tool failed or was refused, the retrievals of the run are
\* used up or its deadline has passed, whoever counts first (_spend_research).  And every
\* answer of the model is billed, the one that breaks the budget too (chat_response,
\* stream_chat_deltas).
LimitsAreFair ==
  /\ \A d \in Domains : packs[d] = "lost" =>
       late \/ d \in failed \/ (MaxRetrievals > 0 /\ spent.retrievals >= MaxRetrievals)
  /\ bill.billed + Cardinality({d \in Domains : AtR(d, "answered")}) = bill.answered
=============================================================================
