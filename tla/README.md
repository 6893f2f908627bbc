# Sinan travel assistant: TLA+ models, checks and proofs

This directory models the part of the repository in which order and failure
matter: how a generated trip comes into being, is planned day by day, survives
a crash, and is reported to the browser. The code is the Python service under
`src/travel-agent-python/app` (below: `app/`). Every action names its code in
`PROJECT.json` ("map"); this file says what the system is, what the models keep
and leave out, and what the checks and the proofs show.

Contents: 1 the system, 2 the modules, 3 the runs, 4 the proofs, 5 what the
code does against its documents, 6 what is not modelled, 7 the plan.

## 1. The system

One Python process (FastAPI) with bounded thread pools, a cron thread per job,
an event loop for the SSE connections, MySQL for everything that must last,
Redis for marks, counters and cache entries (optional: each use has a fallback
in the process), and a SQLite file with the checkpoints of the agent graphs.

```
 POST generate ─ shell (MySQL) ─ submit_planning ─► generation_pool ─► plan_days
                     │   registry _ACTIVE_PLANNING ◄────────┤  per day: lock, graph,
                     │                ▲ probe               │  persist, fail, finish
 cron ─► recover ─ targets ─ recover_one ─ checkpoints ─────┘        │
                                   │                                 ▼
        try_mark / unmark (Redis + local table + breaker)     event_hub.broadcast
                                                                     │
 GET events ─ read row ─ subscribe ─ snapshot ─ bounded queue ◄──────┘
```

### Components, their state, their operations

| Component | State | Operations | Hard behaviour | Correct when | Model |
|---|---|---|---|---|---|
| Generation request (`services/itinerary_generation.py`, `generate`) | main row, day rows, idempotency key | create the shell in one transaction, queue a planner, 429 on a full pool | the shell is committed before the pool is asked; retries with the same key | a refused request is never planned; one trip per key | `Generation`, `Idempotency` |
| Planner (`plan_days`, `_stream_days`, `_finish`) | the rows, `_ACTIVE_PLANNING`, a slot of `generation_pool` | route, research, whole-trip stream, final validation, per-day loop, terminal state, failure paths | every step is a transaction of its own; exceptions anywhere; day locks | delivered days stay, no day is skipped, the end state tells the truth | `Generation` |
| Recovery scan (`services/generation_recovery.py`) | its targets, the resume mark, `gen_resumed` | scan, probe, decide, resume from checkpoints, resubmit | works on old reads; runs beside planners; after a crash | never plans a trip a second time; no trip stays GENERATING | `Generation` |
| Trip graph, checkpoints, whole-trip stream (`agent/generation`, `agent/runtime/checkpoint.py`, `api/agent.py`) | the graph's state, one checkpoint thread per trip and day, the client's copy | nodes of three modes, attempts, repairs, refills, fall-backs, save, resume | a run that died half-way; days sent before the hotel is spread; a cancel at any step | a run ends, a resumed one answers as the interrupted one, the client's copy is the plan, its lines come in order | `TripGraph`, `GraphRun`, `WorkerBridge` |
| Plan rules and grounding (`agent/grounding`, `agent/generation/output`, `content`) | verdicts remembered per city, the check budget | match rows, ask four sources, drop what is denied, price, validate, judge | certain and uncertain answers, a budget that ends between two asks | a denied place is in no plan; "ready" is clean | `Landing` |
| Local replanning (`agent/editing/local_replan.py`, `agent/generation/output/schedule_optimizer.py`) | none | replace what is not locked, order and time a day | limits of hours, money and sights meet | locked places stay, times can be kept | `Replan` |
| Research and its limits (`agent/research`, `agent/runtime/run_limits.py`) | `RunLimits`, the tool budget, one loop per domain | plan, tool, words, judge, rounds | three threads check and count without a lock | evidence only goes missing for a stated reason; every answer is billed | `Research` |
| One-shot marks and breaker (`services/state_and_sessions.py`, `common/redis_client.py`) | Redis keys, `_marks` table (bounded), breaker deadline | `try_mark`, `unmark`, `note_failure` | Redis leaves, returns, loses an answer; table full | a mark has one holder; nothing is left behind | `Marks` |
| Windows, limits, sign-ins (the same file, `services/rate_limit.py`, `common/token_revocation.py`) | sliding windows, session registry, revocation list, each in Redis or a table | `sliding_hit`, login, logout, logout everywhere | two stores that never exchange what they hold; a hit opens the breaker | signed out stays out; the day quota holds | `Sessions` |
| Key-value cache (`common/cache_store.py`) | Redis or bounded local table | reserve, get, set, delete | two stores; a full table gives entries up | a reservation is taken once | `CacheStore` |
| Progress events (`common/event_hub.py`, `common/event_publisher.py`, the events route) | subscriptions, a bounded queue each, numbers of frames | subscribe, offer/put, take, unsubscribe, terminal snapshot; number and publish | publishers in other threads, slow and vanishing clients, limit of 5; a counter that is lost | no slot leaks, no silent gap, the numbers rise | `EventStream`, `EventSeq` |
| Trip commands, history, chat drafts, detail cache (`services/itinerary_command.py`, `_plan_apply`, `_version`, `_chat`, `_query`) | day and item rows, versions, drafts, cached details | edit, reorder, restore, propose, confirm, apply, delete, read | overlapping transactions on old snapshots; soft-deleted keys | an error changes nothing, a draft is applied once and to its base, a cached detail is current | `TripEdit`, `TripRows` |
| A turn of the chat (`agent/editing/chat_draft`) | none | patches, document, repair, fall-back, hotel cards | a model that repeats, drops or alters items | the draft is the trip's own places rearranged | `DraftTurn` |
| Enrichment (`services/itinerary_enricher.py`) | two whole columns | note, introductions, checks of suggestions | read, minutes of calls, write back, beside edits | a mark `used` is right | `Enrichment` |
| Pictures (`services/cover_service.py`, `poi_photo.py`) | files and four columns; photo cache, cooldown | set and reset a cover, look a photo up | shared files, half-written ones | a cover is a whole file | `Pictures` |
| Export (`services/export_service.py`) | task rows, files, a pool | submit, print, fall back inline, poll | full pool, failing statement, dead process | printed once or ended | `Exports` |
| Collaboration and sharing (`services/collaboration_service.py`, `share_service.py`, `template_service.py`, `expense_service.py`) | members, invitations, links, templates, forks, expenses | invite, accept, revoke, publish, fork, note | revoke races accept | an invitation ends one way; the days of a copy are of one moment | `Sharing` |
| Outside calls (`common/external_client.py`) | cache, breaker, lanes | check, wait, send, retry, record, store | locks released between the steps | the provider is spared | `ExternalCalls` |
| Web client (`travel-frontend-vue/src`) | page state, session storage, requests under way | submit, resume, poll, chat, confirm, reset, refresh | answers in any order, reloads, broken streams | a reload repeats nothing; a card is none that another draft replaced | `HomePage`, `ChatPanel`, `DetailPage` |
| Model gateway, tools, traces and usage (`services/llm_gateway_service.py`, `common/llm_client.py`) | a user's gateway rows, a pool of clients, usage rows | add, enable, change, delete a gateway; resolve the route of a leg; model calls with billing | edits while a leg runs; a key that is changed; billing of failed attempts | at most one gateway is enabled; a leg pays with what was enabled as it started | `Gateways`; calls and billing in `Research` |
| Service interface, database, utilities | rows | routing, migrations, single-transaction services | none of their own | (functional) | not modelled |

How they interact: `generate` and the recovery share the registry and the pool;
planner and recovery share the rows, the day locks and the checkpoints; both
take marks; the planner and `_finish` publish to the hub; the events route reads
the row that the planner ends; the enricher writes columns that the commands
write; every edit evicts the cached detail of every reader and outdates the drafts
of the chat; marks, windows, sessions, cache and events fall back together when
the one breaker of Redis opens; each page of the client follows rows, streams and
drafts through calls that overtake each other. `PROJECT.json` lists the 25
components with their sources, and 40 hazards, each at its line, with the
properties that watch it.

## 2. The modules

| Module | Models | Extended by | Proofs |
|---|---|---|---|
| `Generation` | shell, pool, planner, recovery, crash | `MCGeneration` | `GenerationProofs` |
| `TripGraph` over `Landing` | the graph that writes a plan, in its three modes; a day from the model's answer to the plan | `MCTripGraph` | `TripGraphProofs` |
| `GraphRun` | what `Generation` relies on of a day's graph; implemented by `TripGraph` | | `TripGraphProofs` |
| `Idempotency` over `CacheStore` | the idempotency key of `generate`, and the store under it | `MCIdempotency` | `IdempotencyProofs` |
| `Marks` | the locks `Generation` takes, when Redis does not behave | `Sessions` | `AccessProofs` |
| `Sessions` | sign-ins, revocation and windows behind the breaker of `Marks` | `MCServices` | `AccessProofs` |
| `EventStream` | the progress stream of one trip | `MCStream` | `DeliveryProofs` |
| `ChatPanel` | the conversation of a panel with its server | `MCStream` | `DeliveryProofs` |
| `WorkerBridge` | a whole trip streamed to one caller of the agent's own interface | `MCStream` | `DeliveryProofs` |
| `EventSeq` | the numbers of the frames | `MCServices` | `DeliveryProofs` |
| `TripEdit` over `TripRows` | edits, history, drafts, cached detail of one trip | `MCTripEdit`, then `MCTabs` | `TripEditProofs` |
| `DraftTurn` | a turn of the chat | `MCDraftTurn`, then `MCServices` | |
| `Replan` | rearranging days | `MCReplan`, then `MCServices` | `ServiceProofs` |
| `Sharing` | the guests of a trip, and what of it is public | `MCServices` | `AccessProofs` |
| `HomePage` | the page on which a trip is asked for and followed | `MCTabs` | `DeliveryProofs` |
| `DetailPage` | the page of one trip | `MCServices` | `DeliveryProofs` |
| `Gateways`, `ExternalCalls`, `Research`, `Enrichment`, `Exports`, `Pictures` | the gateways a user brings along, and the components of these names | `MCServices` | `ServiceProofs` |
| `FoldLaws` | no code: what a fold keeps, for the proofs | the instances in `TripGraphProofs`, `ServiceProofs`, `TripEditProofs` | `FoldLaws` |

`MCServices`, `MCStream` and `MCTabs` put components side by side. A variable
(`scene`, `view`, `shown`) is drawn in the initial state and says which of them
moves: components that share nothing are not multiplied out, those that do share
(marks, sessions and windows share Redis and the breaker) are in one module.

The operators called a *variant* in the comments (`RedoAlways`, `PlannedNever`,
...) are plausible slips of the code beside the definition that has it right.
No specification uses them: each is a mutant of `PROJECT.json`, substituted to
see that the property it belongs to would notice.

### Generation

*State.* `gen`, `status`, `resumed`, `fresh` are columns of `itinerary_main`
(`fresh`: `updated_at` is after the cutoff of the next scan); `day`, `dayFp`,
`dayFresh` are columns of `itinerary_day`; `ckpt` is the checkpoint file;
`shared` and `locals` are the marks in Redis and in the process; `active` is
`_ACTIVE_PLANNING`; `pc`, `trip`, `dno`, `ctx`, `fp` are the locals of the task
behind each slot of the pool, and `rpc ... rctx` those of the recovery thread.

*Actions.* One per transaction or outside call, in the order of the code:

- `CreateShell`, `RequestPlanning`, `RejectRequest`, `DeleteTrip`: the request.
- `StartTask`, `ResolveRoute`, `RouteBroken`, `Begin`, `Research`,
  `SaveContext`: the head of `plan_days`. `RouteBroken` is outside the
  try/finally of the code and can therefore leave the registry entry behind.
- `StreamDay`, `StreamPersist`, `StreamEnd`, `Revalidate`: the whole-trip stream,
  which may deliver days in any order, patch delivered ones and break at any
  point; the validation may send delivered days back to PENDING.
- `LoopDay`, `GraphStart`, `GraphEnd`, `PersistDay`, `KeepDay`, `DayFailed`: one
  turn of the per-day loop. `LoopDay` has its three ways out: locked (skipped in
  silence), refused (an exception), claimed or already delivered. `KeepDay` is what
  follows `persist`: for the first day the theme of the trip, a transaction of its
  own that may fail (`DbError`) and then ends in `DayFailed`, although the day is
  delivered; then the lock goes.
- `Finish`, `FinishTail`, `Fail`, `Exit`, `DbError`: the end of the planner.
- `Scan`, `Probe`, `Decide`, `ResumeRoute`, `ResumeBroken`, `ResumeGraph`,
  `ResumeRaises`, `ResumeNothing`, `ResumePersist`, `ResumeComplete`,
  `ResumeSubmit`, `ScanEnd`: the recovery, one target at a time.
- `AgeMain`, `AgeDay`, `Expire`: the cutoff and the TTLs. `Crash`: the process.

*Abstractions.* A plan is one of three kinds: deliverable, with hard blockers
(stored, but the day stays PENDING) or none. The parameters of a command are one
of two fingerprints; `drift` says whether the command the recovery rebuilds from
the row has the original one (it does not when the original had, for example,
preferences the row does not keep). Marks follow what the client really
answers for a taken key (see section 5), and expire at any time. Writes of the
main row that change no modelled column (theme, budget) only refresh
`updated_at`: after the first day in `KeepDay`, where it matters that the write can
fail, elsewhere within the step they belong to. The reset of several days
by the validation is one step. Rows from before the migration, with NULL in
`gen_state` or `generation_status`, are left out.

### Marks

`remote` is Redis, `table` the process's `_marks` with its capacity, `window` the
ticks until the breaker closes. `try_mark` is two steps, `AskRedis` and
`AskLocal`, and `unmark` is `DropRemote` and `DropLocal`, because another thread
or an outage can come between them. A call that fails may have been executed by
Redis or not (`Lost`). `Flip` lets Redis go or come back, with or without its
data. Assumption: the TTL of a mark is longer than the work under it, as
`generation_gate.py` says of its own, so `Expire` spares marks that are held.
`table` remembers who made an entry, which the code does not, for the properties
alone. The keys in `Lasting` are the resume locks: the recovery may `Leave` one when
it has queued a planner or a resumed run has raised, and nobody unmarks it then; an
entry of the table is `Left` from then on, until `Expire`.

### CacheStore and Idempotency

`CacheStore` is `app/common/cache_store.py`: `remote` is Redis, `local` the table
of the process, and `Reserve`, `Get`, `Set`, `Delete` are its calls, as operators
for the modules that have the callers. As long as Redis does not change sides, a
call has one effect only (on Redis, or on the table), so a call is one step; after
a change (`stable` is false) every call may go either way and may have an effect
that its caller does not learn of. Unlike the marks, a full table gives up an
entry.

`Idempotency` is `generate` seen from its key: `Begin`, `ReserveKey`, `ReadKey`,
`CheckTrip`, `Replay`, `Forget` (`_reserve_idempotent`, `_replay_if_known`),
`CreateShell`, `Fill`, `Submit`, `Refuse`, `Release`, and `Break` for a statement
of the database that raises. A trip is named after the request that created it; the
planner is not here (`Submit` is taken or refused), and `Generation` has the rest.
`clean` is a history variable: the keys of which no two requests overlapped and no
entry ran out, was given up or died with the process. `lost` is a request that
ended before its trip was under the key.

### Sessions

Extends `Marks` by what else goes through the same client: the session registry
(`sess`: a set and a key per token in Redis, a set in the process), the revocation
list (`black`) and the sliding windows (`buckets`, in the process only, because
`sliding_hit` asks the client for an attribute it has not, fails, and opens the
breaker although Redis is well). `Through` is a call that Redis answers, `Kept` one
that stays in the process, after a failure or within the breaker's window. Logging
in is two writes (`RegisterAdd`, `RegisterToken`), signing out everywhere is a walk
over the members (`LogoutAll`, `Sweep`, `Forget`, `DropSet`) that turns to the local
table at the first error (`TurnLocal`, `SweepLocal`). `MakeRoom` is what a full table
of windows gives up. A hit takes what has run out off the front of its list
(`Unexpired`, the loop of `popleft`) and then counts what is left. `seen` is a history
variable: where a session was registered, which logins a walk crossed, the runs that
were let through, and whether the table had to give up the day's bucket.

### EventStream and EventSeq

One trip and its connections. `ReadRow`, `Subscribe`, `Snapshot` are the three
steps of the route; `Take`, `Timeout`, `Tell`, `Leave` are `event_frames`;
`Broadcast` is `offer` on every sink, which hands a callback to the event loop
(`pending`) and takes dead sinks out; `Put` is that callback and the bounded
`queue`. A trip ends in one of three ways, in the order of the code: finishing
commits and then sends its frame (`End`, `Announce`), failing sends and then
commits (`AnnounceFailure`, `FailTrip`), the recovery commits and sends nothing.
`since` remembers in which of these phases a connection registered. Left out: the
closed event loop, and everything after the last frame. The module follows one
trip through one life.

`EventSeq` is `publish_event`: `Compose`, `NextSeq` (the counter in Redis, or the
breaker, or a lost answer), `AdvanceSeq` (the table of last numbers under its lock,
cleared when it is full), `HandOver` to the hub, `PublishToRedis`. Frames are counted,
not named; two publishers of one trip may overtake each other between any two steps.

`WorkerBridge` is the stream of `api/agent.py`: the node of the graph (`NodeStep`), the
worker thread that puts what it reads into a bounded queue (`WorkerStep`), the response
that takes it out, and the caller who may go at any time. `PlanDay` counts a day before
it writes it, so a day the writer refuses is in the `done` and was never sent. Events carry a number that
the code does not have, for the property alone.

### Landing, TripGraph and GraphRun

`Landing` has no state: it is what happens to the items of one day. `Match` and
`Ground` are the reference rows; `ReplyOf` says what each source's answer means,
`RunProviders` asks them in their order within the check budget, `Resolve` remembers
certain verdicts only, `DropRefuted` takes denied places out; `LandDay` is a day of
a draft (with the registry of places already used), `LandAlone` a day on its own;
then the hotel for the other nights, missing costs, prices, the season, and the
rules (`Issues`). Times are hours, a position is one of few, a name is a spelling.

`TripGraph` is `unified_agent_graph` for one request: `st` is `UnifiedAgentState`,
`draft` the locals of `generate_open_plans`, `world` the verdicts and the checks,
`wire` what a stream has sent. One action per node of each mode, with its outgoing
edge. `Save` is the asynchronous saver, at most one step behind at the end; `Die`
and `Resume` take a day's run up in a process that remembers nothing. `Cancel` is
the client that goes while the producer writes. A model answers with one of the
answers of the request, or raises.

`GraphRun` is the abstraction `Generation` is written against (its `ckpt`): a run
has an open checkpoint from its first step, an outcome stays once left, who returns
returns what is there, a dead run can be taken up. `TripGraph!RunRefines` is its
specification under the mapping `Abs`, with the promise that a run begun gets its
answer. It is the action `GraphEnd`/`ResumeGraph` of `Generation` seen from inside.

### TripRows and TripEdit

`TripRows` are the tables of one trip as values and what each edit makes of them,
including the flush that writes single columns of rows another transaction may have
changed (`Flush`, `FlushRaises`): soft-deleted rows keep their unique key. `TripEdit`
has the requests: each client (a tab) sends one at a time; `See` is the first SELECT
of its transaction, `CommitEdit`, `CommitApply`, `CommitDelete` its end, and between
them are the version's number (`TakeNumber`, `InsertVersion`, `InsertCollides`, up to
`SnapshotTries` attempts) and whatever others commit. `Propose`, `SaveTurn` are the
chat's answer; `BeginApply` looks at the draft and its base; `Evict`, `Get`, `Build`,
`Store` are the cached detail. History variables: `torn` (two edits crossed), `wrote` (who
has committed his change), `lapsed` (the version that was due could not be written, which
`record_snapshot_or_log` says is the cheaper loss), `demoted`, `late` and `suspect` (who
lost a role; who holds a detail over an eviction; whose entry he filled with it).

### DraftTurn, ChatPanel

`DraftTurn` is one turn, from the sentence to the answer, without a store: `Decide`
is the model (patches or a document, good or bad), `Route` the choice between hotel
cards, patches and document, `Repair` the one second try, `Fallback` the reduction or
extension the code makes by itself, `CheckDraft` the validation. The trip may be a draft of an
earlier turn, whose items have no id yet. `ChatPanel` is the
way there and back: `Send`, `HearStream`, `Break`, `GiveUp`, the blocking `Fallback`,
the worker (`Start`, `Answer`, `Offer`, `Finalize`), the card, `Confirm`, whose answer
may be lost though the draft is applied, and the history that is read again. `EditTrip`
is an edit of the trip by hand, by the same user on the page around the panel, which takes
the stored drafts, or by a member, which only outdates them; the panel keeps its card
through both. `fate` says what became of a draft.

### The other parts

`Sharing`: each request one transaction; `AcceptRead`/`AcceptCommit` under the row
lock, `RevokeRead`/`RevokeCommit` and `ShareLook`/`ShareWrite` without one.
`ExternalCalls`: `Check`, `AcquireSlot`, `Send`, `Answer`, `RecordOutcome`, `Store`,
each holding the lock for itself, with a clock; `outage` counts what the provider gets
while it does not answer, and what an outage finds (`Spare`: the calls that are past the
breaker already). `Research`: the agent loop of each
domain step by step, `SpendCheck` and `SpendCount` apart as in the code.
`Enrichment`: the two whole-column writes against `BeginPlace`/`CommitPlace`.
`Exports`: task row, pool or inline, reading, file, end, and the event of the end
(`TellDone`), which is sent inside the same try; `ReadStatus`/`AnswerPoll` are
the two reads of a poll. `Replan`: one action per day; the optimizer is a definition
(all orders up to `SearchMax` items). `Pictures`: a cover is `Fetch`, `LookForFile`,
`OpenFile`, `FillFile`, `NameFile`; a photo asks one source after the other.
`HomePage`: `SubmitRequest`, `Poll`, `MonitorEnds`, `Reset`, `SessionEnds` over
memory, storage and server. `Load` is a reload, with which everything under way ends;
`Remount` is another page of the client and back: the submit in place is aborted, the monitor
of a resume goes on without a page (`detached`), and the page that is mounted may start a
second one of the same trip. `DetailPage`: calls of four kinds that are served and
answered in any order. `Gateways`: the rows of one user, requests of the settings page that
read, check and write in a transaction each, and legs of work that resolve their route
once (`StartLeg`) and pay with it at each call (`CallModel`) while the page changes it.

## 3. The runs

| Run | Instance | Question | Shows |
|---|---|---|---|
| `Generation_trip` | 1 trip, 2 days, 1 slot, plans good or missing, drift, 1 crash or database fault | is what is delivered kept and declared truthfully? | `DeliveredInFull`, `DeliveredDayKept` hold |
| `Generation_pool` | 2 trips, 1 slot | may two parties plan one trip? | `SinglePlanner`, `RegistryExact` hold |
| `Generation_live` | 1 trip, 1 day, 2 slots, 1 worker, all kinds of plan, 1 crash, fairness | does a trip come to its end? | `Settles` holds |
| `TripGraph` | 11 requests in three modes, 4 sources, 7 checks, 1 death | do runs end, and with an honest plan? | `RefutedOut`, `StreamShowsTrip`, `ReadyIsClean`, `Ends` hold; `RunRefines`: it implements `GraphRun` |
| `Idempotency` | 3 requests, 2 keys or none, 1 local entry, Redis changes sides once, any number of crashes | do retries share a trip? | `RetriesShareTrip`, `RefusedNotReplayed` hold |
| `Stream` | events: 2 connections, limit 1, buffer 1, 2 progress frames; chat: 3 turns, 1 edit by hand, 2 slots, 1 worker; whole trip: 2 days, a queue of 1 | slots, gaps, rejections, order, the end; cards, workers | `NoLeakedSlot`, `OpenMissesNothing`, `RejectedTold`, `CardIsPending`, `LinesInOrder` hold, and `StreamsEnd`: `ConnectionsEnd`, `WorkersReturn`, `BridgeReturns` |
| `Tabs` | trip: 13 scenarios with 2 tabs of the owner, 1 of a member, up to 4 overlapping requests of the kinds named there; home: 3 submits, resumes or remounts, 1 sentence, no reconnect, up to the first crossing | what do overlapping edits and drafts do? does a page ask for anything twice? | `ErrorsChangeNothing`, `TidyUnlessCrossed`, `CacheFresh`, `Undoable`, `AppliedToItsBase`, `ReloadRepeatsNothing` hold |
| `Services` | 18 scenes, see below | the parts around the trip | 16 properties hold |
| `Idempotency_double` | 2 requests, 1 key, nothing fails | does a double click share a trip? | violated, see 5 |
| `Marks_redis` | 2 threads, 1 key, no fault | is Redis a lock? | violated, see 5 |
| `TripEdit_extend` | the scenarios of `Tabs` | can a valid draft be applied? | violated, see 5 |
| `Home_reset` | 2 attempts, 1 sentence, 1 reconnect | does the logo clear the page? | violated, see 5 |

The scenes of `Services`:

| Scene | Instance | Property |
|---|---|---|
| marks | 2 threads, 2 keys (one of them a resume lock), 1 local entry, Redis changes sides twice, 1 crash | `OutageExclusive`, `LocalMarkHasHolder` |
| sessions | 2 devices, 2 tokens, 3 requests, Redis changes sides once | `LogoutHolds` |
| quota | 2 devices, 2 addresses, 4 requests, limits of 1, 2 windows in the table, 4 minutes | `DayQuotaKept` |
| guests, expenses, public | 2 guests, 2 invitations, 1 link, 1 edit, 1 copy, 1 expense | `InvitationsExact`, `ForkShowsTemplate` |
| calls, cache | 2 threads, 3 calls of 2 attempts, threshold 1, clock to 4; 1 cache entry for 2 keys | `ProviderSpared` |
| research | 2 domains, 2 rounds, 2 research units, retrievals, model calls and tool calls | `LimitsAreFair` |
| numbers | 2 publishers, 2 trips, a table of 1, 3 frames, 2 troubles | `NumbersRise` |
| enrichment | 2 suggestions (1 to be booked), 2 tabs, 2 edits, 1 task | `UsedKept` |
| drafts | 2 trips, the sayings and answers of `MCDraftTurn` | `AnswerIsSound` |
| exports | 2 requests, 1 slot, 1 mishap | `ExportIsKept` |
| replan | 240 jobs of `MCReplan` | `LockedKept` |
| covers, photos | 3 requests, 1 picture; 2 lookers, 2 places, a cache of 1 | `PicturesRight` (`CoverWhole`, `WikiSpared`) |
| page | 2 calls at once, 4 versions of the trip | `PageSettles` |
| gateways | 2 rows, 2 hosts, 2 keys, 2 requests, 2 legs, 1 client kept; the key changes or the table fails once | `LegsPayRight` |

*Bounds.* The planner and the recovery never look at two trips together except
through the pool, the registry and the list of targets, so two trips and one slot
make every contest happen (full pool, two targets, one trip queued behind the
other). The days of a trip meet in the loop, in the stream and in the recovery's
`todo`; two days have a first, a last, a delivered-and-undelivered mix. One fault
is one crash anywhere or one failing statement anywhere; `Generation` repeats
everything else (scans, failures, resumes, expiring marks) without bound, because
its state has no counter but `faults`. In `Marks`, one local entry for two keys is
the full table; two threads are a holder and one who asks for his key, or who finds the
table full of it or of what was left; two flips are an outage and its end. In `Idempotency`, three
requests are a first one, a retry, and one more that meets what the retry left; two
keys and one local entry make the table give one up. In `EventStream`, a limit of
one and two connections give the rejected one, a buffer of one and three frames
(two of progress, one terminal) fill the queue.

In `TripGraph` the four sources have one of each kind, one without a key; seven
checks run out within a trip of two days; the answers of the
model contain a place under another name, places of another city, one denied, one
that is closed, one without a name, days missing, twice and out of order. In
`TripEdit` an edit needs one overlapping edit to cross, a draft needs its
proposal, an edit or a second proposal, and its application: two to four requests,
in thirteen groups of kinds, because all kinds at once do not fit; the second trip has
a soft-deleted day. In `Sessions` a walk over two sessions has a middle; one change
of Redis before, within or after it; two windows are full when a third address
comes. In `ExternalCalls` three calls of two threads are a failing one, one that had
looked before the breaker opened, and one after the cooldown (2 ticks of 4); with a
threshold of one they cannot send more in an outage than `ProviderSpared` allows, so the run
checks its half about the lanes, and the half about outages rests on `ProvidersAreSpared`
alone. In `Research` two rounds have a second start; two units are used up by one domain
while the other counts. In `HomePage` three
attempts are a submit and the two monitors of a page that was left and shown again, or a
resume beside a submit; once a session was crossed the first half of `ReloadRepeatsNothing` says
nothing of the page any more, and the run stops there (`HomeTab`), while the theorem goes on; in
`DetailPage` two calls in flight can be answered in both orders.
In `ChatPanel` one edit by hand comes before, between or after a proposal and its
confirmation. `Exports` and `Pictures` put two or
three requests on one slot and one file.

Bounds for the checker only: `MaxFaults`, `MaxFlips`, `MaxCrashes`, `Faults`,
`MaxFrames`, `MaxDeaths`, `MaxNow`, `MaxAsked`, `MaxLinks`, `MaxEdits`, `MaxForks`,
`Horizon`, `MaxCalls`, `MaxTurns`, `MaxTouches`, `MaxWords`, `MaxAttempts`, `MaxSentences`,
`MaxPublished`, `MaxTroubles`, `MaxPlaced`, `MaxMishaps`, `MaxLooks`, `MaxVersion`, the
`requests` of a scenario, and the number of requests in `Idempotency`. Parameters of
the program made small: `Capacity`, `Cooldown`, `WinCapacity`, the limits, `Limit`,
`Buffer`, `NDays`, `SnapshotTries`, `MaxChecks`, `MaxGenerations` and their like,
`MaxReconnects`, `Attempts`, `Threshold`, `OpenFor`, `FloorMax`, `PrintSlots`, `ChatSlots`, `PhotoMax`.

*Symmetry* is used by `Generation_pool` and the two runs of `Idempotency`, which
have invariants only.

*Fairness.* `Generation`: the request thread, each planner and the recovery
thread go on when they can (weak), since nothing but the code moves them and the
cron job is for ever scheduled; the cutoff passes every row again and again
(strong on `AgeMain`, `AgeDay`: real time passes between scans, and a row that
nobody writes grows old); marks expire; a stream ends and does not send the same
patches for ever (strong on `StreamEnd`: the model's output is finite); a run
resumed again and again is not interrupted each time (strong on `ResumeGraph`:
without it a graph that raises whenever it is resumed keeps its trip GENERATING).
`TripGraph`: a run that has been started goes on (weak fairness of `Work`, written
with its enabling condition: a run that is not finished can always work, as the
deadlock check shows). `EventStream`: the planner finishes what it began (commit and
frame), the event loop runs its callbacks, a connected client is served; a client
that stays connected and does not read is outside it. `ChatPanel`: the threads of the
chat pool go on, a model call ends by its own timeout; nothing is assumed of the
user or the panel. `WorkerBridge`: the thread of the graph and the worker go on; nothing is
assumed of the caller. Nobody is assumed to reconnect, to publish progress or to end a
trip. `Services`, `Tabs`, `Idempotency` state no fairness: they check safety.

*Deadlock* is checked in the runs of `Generation`, `TripGraph` and `Marks_redis`. In the
others nothing is left to do once the bounded requests have ended, which is a
state the system may well be in.

## 4. The proofs

| Theorem | For every value of the constants |
|---|---|
| `GenerationProofs!TypeCorrect` | `Spec => []TypeOK` |
| `GenerationProofs!NoDoublePlanning` | `Spec => []SinglePlanner` |
| `GenerationProofs!DeliveredDaysKept` | `Spec => DeliveredDayKept` (an action property) |
| `GenerationProofs!RegistryIsExact` | `Spec => []RegistryExact` |
| `GenerationProofs!LocksNeverBlock` | `Spec => []DaysUnlocked`: the loop finds no day locked |
| `GenerationProofs!CompletedIsFull` | `Spec => []DeliveredInFull`, if no plan has hard blockers |
| `TripGraphProofs!RunImplements` | `Spec => Abs!AbsSpec` (the safety half of `RunRefines`) |
| `TripGraphProofs!NothingDenied`, `ClientHasThePlan`, `ReadyMeansClean` | `Spec => []RefutedOut`, `[]StreamShowsTrip`, `[]ReadyIsClean` |
| `AccessProofs!OutageExclusion`, `NoOrphanMark` | `Spec => []OutageExclusive`, `[]LocalMarkHasHolder` of `Marks` |
| `AccessProofs!LogoutsHold`, `DayQuotaHolds` | `SessSpec => []LogoutHolds`, `[]DayQuotaKept` |
| `AccessProofs!InvitationsAreExact`, `ForksShowTemplates` | `ShareSpec => InvitationsExact`, `ForkShowsTemplate` (action properties) |
| `IdempotencyProofs!RetriesOneTrip`, `RefusalFreesKey` | `Spec => []RetriesShareTrip`, `[]RefusedNotReplayed` |
| `DeliveryProofs!SlotsReturn`, `NothingMissed`, `RejectionTold` | `Spec => []NoLeakedSlot`, `[]OpenMissesNothing`, `[]RejectedTold` |
| `DeliveryProofs!NumbersAlwaysRise` | `[]NumbersRise` of `EventSeq` |
| `DeliveryProofs!LinesArriveInOrder` | `[]LinesInOrder` of `WorkerBridge` |
| `DeliveryProofs!CardsWait` | `[]CardIsPending` of `ChatPanel` |
| `DeliveryProofs!PagesSettle`, `ReloadsRepeatNothing` | `[]PageSettles`, `[]ReloadRepeatsNothing` |
| `ServiceProofs!LockedPlacesStay` | `ReplanSpec => []LockedKept` |
| `ServiceProofs!TurnSound` | `DraftSpec => []AnswerIsSound` of `DraftTurn` |
| `ServiceProofs!LegsPay` | `[]LegsPayRight` of `Gateways` |
| `ServiceProofs!ResearchIsFair` | `[]LimitsAreFair`, for finitely many domains |
| `ServiceProofs!SuggestionsTellTheTrip` | `[]UsedKept` of `Enrichment` |
| `ServiceProofs!ExportsAreKept`, `PicturesAreRight` | `[]ExportIsKept`, `[]PicturesRight` |
| `ServiceProofs!ProvidersAreSpared` | `[]ProviderSpared` of `ExternalCalls` |
| `TripEditProofs!ErrorsAreHarmless`, `DetailIsFresh` | `[]ErrorsChangeNothing`, `[]CacheFresh` |
| `TripEditProofs!EverythingCanBeUndone`, `EditsCanBeUndone` | `Undoable`, and `EditsUndoable`, its half that needs no rows in order |
| `TripEditProofs!DraftsAreAppliedOnce`, `RowsStayTidy` | `AppliedToItsBase`, `[]TidyUnlessCrossed` |

They rest on the named assumptions of the modules (constants are of their
kind and not empty), which TLC evaluates in every run, and on the hypotheses the
table names. Each invariant was first checked by TLC as an invariant of the run.

*Generation.* `SinglePlanner` is not inductive: it says nothing of who may be
submitted next. The strengthening `Exclusion` says where a trip's right to be
planned is kept: every task is registered (`Registered`), no two tasks have one
trip (`OneTask`), the recovery holds only a trip that is not registered
(`Probed`), and a trip whose request has not submitted it yet is known to nobody
(`ShellUntouched`) since its row is still fresh and GENERATING, so that no scan
picks it up (`ShellFresh`). The last two are what makes the gap between the
committed shell and the registration harmless, and they use that a request is
shorter than the recovery's cutoff (`AgeMain`). The proof has one step per action
of `Next`. `DeliveredDayKept` needs in addition that the day in the hands of a
planner of the loop is RUNNING (`DayHeld`) until `persist` has written it, hence is never a
delivered one when `mark_failed` writes it, unless it is the first day and its theme could
not be written (`ThemeFails`, an exception the property names); that in turn needs
`SinglePlanner`. `RegistryExact` is who
is at which step of his thread. That no planner is blocked needs that a day
whose local entry is taken is in the hands of a planner who is at that day (`LocalHeld`);
a mark in Redis blocks nobody (section 5, 1). `DeliveredInFull` needs that the days the
recovery does not have to do any more are delivered (`Covered`); its hypothesis `"sparse" \notin PlanKinds`
is the exception section 5 describes, which the run `Generation_trip` shares.

*TripGraph.* `RunInv` says that a checkpoint is there from the first step on and that
one that names the end is the state the run ended in, since nothing moves a run that
has come to END. With it every action is a step of `GraphRun`, or a stutter. The other three rest on
`GraphInv`. `RefutedOut` is not inductive: a name that is in a plan may be asked about again, for
another day, and be denied then. `Sound` excludes it: each item of a plan is a transfer, comes from
a source, or has a name that is `Cleared`, confirmed or such that whoever is asked with the
checks that are left does not deny it. The memo and the checks only go forward (`Grows`), so what is
cleared stays so, and a day has only such items when `Ground` is done with it. A
resumed process has forgotten the memo: the mode of one day keeps the weaker `Undenied`. For the
client, `StreamInv` says what it has of the draft in each phase (`ShowsDraft` while days are
added, `Shows` when the hotel may have changed them). `ReadyIsClean` needs that no node comes after the one
that judges, and that a plan has all its days or none (`TripInv`).

*Marks.* `OutageExclusive` needs `Outage`: in an outage that has lasted from the
start, a client that holds a mark is the one in the table's entry for its key.
`LocalMarkHasHolder` is inductive together with the types; what was left to its time is the
entry of a key in `Lasting`, for any such set.

*Sessions.* `SessHeld`: whoever is out is on one of the two lists; a session that
somebody is signing out is on a list or still stands where the sweep is going to look
(its own set, the registry, the table of the process), and what a sweep owes when it
turns to the local table is nothing any more. `LogoutHolds` became stronger on the way:
it holds for a Redis that comes and goes, as long as it comes back with what it held.
For the windows, `RunsCounted` compares counts and not lists: for each time within the
day, the day's bucket has at least as many hits after it as runs were let through.
What is popped off the front is older than all of these times, and what the table gives
up is older too or noted (`GaveUpDay`). The lemmas `RecentBounds`, `RecentAppended`
and `RecentLeft` say what appending and popping do to such counts; that popping ends at
the right place (`LastOfThem`) is the well-foundedness of inclusion among the
intervals that are left, since induction over numbers is out of reach (see below).

*Sharing.* `UnderLock`: who is accepting holds the lock of the invitation, and it is
still to be had. The public half is inductive with the types: the days of a copy are
those the template held, and nothing writes to a copy. It says nothing of the heading of a
copy, which is not of that moment (section 5).

*Idempotency.* Of two retries with two live trips, neither need be wrong by itself;
what forbids it is what the store has under the key. The invariant `Orderly` says
so for a Redis that stays on its side: on a clean key one request at a time is
under way (`Alone`); from its fill on a request's trip is under its key while it
lives (`Kept`); what a request read is still there when it checks the trip
(`Current`), hence a request that forgets, creates or fills is the first
(`First`); a trip is stored under its own key, and not after its refusal (`Stored`,
which with `NeverUp` is also the second theorem). The lemmas `ReserveMoves`,
`SetMoves` and `DeleteMoves` say what a call of the store changes, and carry over
to its other users.

*EventStream.* `ConnInv` has the slots, and in `Connections` three facts per client. `Quiet`: a
connection that has not begun or is over has nothing queued or on its way.
`Counted`: an open one has every offered frame taken, queued or pending. `Warned`:
a rejected one has the frame that says so in `told`, in its queue or on its way;
since a rejected connection is never a sink, nothing else is offered to it
and its queue cannot be full when that frame arrives.

*Delivery.* Numbers rise because the last number of a trip is in the table and is its
largest (`FloorCovers`). The lines of a stream are the beginning of what was produced,
which `NothingLost` puts together from where the events are: taken, queued, in the
worker's hand, in the feed; of the days that `done` counts at most one has no line
(`DaysWritten`). A card needs that only the last draft waits (`OneWaits`), whatever
edits and lost answers made of the others, and that nobody asks but its own turn. `PageInv`: a trip that is made changes by the
page's own writes only, and the last of them is still to be answered or to be heard of.
`HomeInv`: of the attempts that are alive at most one is in the view of the page, and it is
where the page says; the others outlived their page and follow the trip of that one
(`Settled`); a submit that is alive is the one in place (`Owned`); and the sentence that waits
for a reload is one that nobody has answered yet (`Unsaid`).

*Replan.* A day is timed by a fold over its items. `Clock` is what it keeps: of the
items placed so far each can be reached from the one before, and the last ends when the clock
says, at the place the next leg starts from. `ReplanInv` says of every step that each day of
the answer is as it should be, the days that are still to do being as they were; that a locked
place is kept is owed to `Accept`, that a hotel is to `ReplacedDay`, which
only puts something in the place of an active item.

*Folds.* Many operators here run through a list: the landing of a day, the timing of
a route. What they keep is an induction over the length of the list, and the induction
theorems of the library take the invariant as an operator, which none of the provers
can instantiate. A *module* can be instantiated: `FoldLaws` has the step `Op` and the invariant
`Kept` as constants, proves the lemma `FoldKeeps` once (by the well-foundedness of inclusion among the
intervals that are left), and a proof names its fold and its invariant in an
`INSTANCE FoldLaws WITH`. The same module has the largest and least number of a finite set.

*Services.* `GateInv`: a leg's client is the one of its route, and whatever the settings
page does the route of a running leg is not looked up again. `ResInv`: each answer is
billed or in the hands of the thread that bills it, and each loss has its cause;
since the unlocked counters overshoot by at most the threads between check and count,
`Domains` has to be finite. `ReadersTell`: a mark may only be wrong for a place whose
edit was written over, which the readers of older rows are going to do. `PrintKept` and
`TorsoAnswered` say who still ends an export or a half-written file. For the providers,
`LanesPaced`: the times given on a lane are an interval apart, so never more of them are
due by a time than fit before it; and `OutageBooked`: with f failures recorded and o
openings of the breaker in the outage, what was sent is within what f and o pay for,
and what comes later is reserved for somebody past the breaker (`Tallied`, `Reserve`).

*TripEdit.* Everything rests on `Base`: a request is at a step of its kind, and a step moves
one tab. `ErrInv`: who has written is past the point of errors. `CrossInv`: an edit that
nobody crossed still sees the rows as they are, and its version is written before its
change. `DraftInv`: whoever applies holds the draft as his snapshot has it, and of two
only one finds it pending. `CacheInv`: an entry is what its reader would be shown, or
somebody is going to evict it, or fill it late.

That the rows stay in order is proved in two halves. The first is about `TripRows` alone: each
edit that fits the rows (`Fits`: the days and items it names are there, a draft is valid, the
nights of a hotel are days of the trip) makes rows in order of rows in order (`ChangeMade`,
`MadeDraft`, `MadeHotel`, `RestoreNeat`). What the folds of a draft keep is `Placed`: no
two of the items placed so far share a place, those that come on have the next one. The second
half is `TidyInv`: until two edits have crossed, the rows are in order and the budget is theirs,
what is kept in the history can be put back (`Restorable`), the drafts are plans (`Shaped`), and each
request that nobody crossed fits the rows it is going to change (`Holds`). It rests on `CrossInv` and
`DraftInv`. `OwedInv` says of the same time that the rows are in a version, or were
said to be in none (`lapsed`), or somebody is still to write them (`OwesRows`): a restore
purges the rows without writing them into a version, and relies on the one that came after the
change that made them. It needs `TidyInv` for drafts: what `CommitApply` writes into the history
is what its flush makes of the rows.

*DraftTurn.* `TurnInv` says that the draft under the check is `Rearranged`: lists of items, none
twice, and outside the days of the generator each item is `Proper`, one of the trip with its id,
name and price or one the model added at no price. Everything the code does to a draft is one of a few
changes of lists: a place goes (`RemoveAt`), comes (`InsertAt`, `Append`) or gets another time
(`Alike`); the lemmas `Removing` and those after it say once what each does to a list, `Drawn` and
`Joined` to a day. Patches, moved items, filled days, the sort by time and the removal of
repetitions are folds of such changes, so `FoldLaws` carries `Rearranged` through each. The number of
days comes from the saying, by cases. For the hotel cards, an answer without one means that no
tier that is looked at has a priced hotel, and the nearest one is always looked at (`Tiers`). The
hypotheses (`DraftTurnAssumption`) say that trips, documents and patches are of their kind, that
a trip has no id twice, and that who asks for more days names how many.

*What the proofs changed.* `Undoable` was false: the version that follows a restore is
written after it and may be given up, so the property now names `Outstanding`. `ProviderSpared` was false for any threshold above
one, which its run does not have: an answer of before the outage that is recorded late
makes the breaker count anew, and a window of an earlier outage may still be open;
`Spare` now says what an outage finds. In `Enrichment` an edit that ended between two
reads of one task counted as crossed. The popping of a window had a condition that
applied to the wrong conjunct, which the checker had no way to see.

Where two cases of a `CASE` could hold at once they are an `IF` now, since TLA+ leaves open which is
chosen; filters and sorts that the proofs reason about are folds; and `Jobs` and the inputs of
`TripGraph` are said to be of their kind (`ReplanAssumption`, `TripGraphAssumption`). In `TripRows`
the order of a day is a ranking (`Ranked`) instead of a sorted set, a row is changed by one
`EXCEPT`, and `Tidy` says that the numbers of the days are different instead of counting the days;
the reachable states of the run are the same. In `DraftTurn` an item without an id may be in the
trip, and the property says of such an item, too, what it must keep. `TripEditAssumption` says that the trips a scenario
begins with are tables in order.

*Model-checked only.* `Settles`, `StreamsEnd`, `Ends` and the second half of `RunRefines` are
liveness under fairness, which this prover does not do. All other properties of the passing
runs are stated by a theorem.

## 5. What the code does against its documents

### Refuted by a run

`PROJECT.json` quotes the lines.

1. **A Redis mark does not exclude** (`Marks_redis`). The client answers None for
   a taken key, the code tests `is not None`, and the second caller gets the local
   entry. That day locks never block a planner after a crash (`DeliveredInFull`)
   is owed to this; what keeps planners apart is the registry, and `SinglePlanner`
   is proved without the marks.
2. **A double click creates two trips** (`Idempotency_double`). Between reserve and
   fill the key reads as None, and a second request takes itself for the first. The
   comment in `_replay_if_known` expects this only after a crash. A 429 of one of the
   two also frees the key of the other.
3. **A valid draft cannot be applied** (`TripEdit_extend`). A draft that shortens the
   trip soft-deletes its last days; they keep their place in the unique key, and the
   insert of the next longer draft ends in a 500.
4. **The logo does not clear a page that was resumed** (`Home_reset`). Reset aborts the
   request of a submit; the monitor of a resume goes on and shows the old trip.

### Met while modelling

These are in the models as the code has them, and bound the properties where they
say "unless"; no run is spent on them.

*Generation and recovery* (`services/itinerary_generation.py`,
`generation_recovery.py`). `gen_resumed` is written and never read, though the header
of the recovery says that it stops a second resume; only the TTL of the mark spaces
them. When all pending days come out of checkpoints the recovery completes the trip
without looking at what `persist` made of them, and a plan with hard blockers stays
PENDING: `DeliveredInFull` is stated for plans without. `mark_generating` sets
`gen_state` and leaves `status`. The branch for a broken route is outside the
try/finally, so that a raise there leaves the registry entry. A trip the recovery
completes publishes nothing; a refused trip (429) stays as a failed row. A graph that
raises whenever it is resumed keeps its trip GENERATING. The theme of the trip is written inside the try of the
first day: when that statement fails, the day is marked FAILED though its plan is complete
and stored (`itinerary_generation.py:244-246`).

*Marks, sessions, windows* (`services/state_and_sessions.py`). The recovery keeps the resume
lock after a planner was queued or a run raised (`generation_recovery.py:191-199`): in an outage
it is an entry of the local table that nobody takes out before its TTL. `unmark` carries no
owner: who outlives his TTL deletes the mark of the next. When Redis changes sides
while a mark is held, both sides may give it. `sliding_hit` uses `_redis().zset`
(line 119), which does not exist: each hit opens the breaker though Redis is well,
and `sliding_count` then reads Redis and finds nothing. A session registered in that
window is in the local table, and signing out everywhere later asks Redis only; a
revocation in Redis is not seen while the breaker is open. A login between
`smembers` and `delete` of such a walk is unlisted. A full table of windows may give
up the key that is being hit.

*Events* (`common/event_publisher.py`, `event_hub.py`, `services/generation_events.py`).
The row is read before the registration, so who registers just after the end gets
heartbeats for ever. `complete` is called a terminal frame on which the client stops;
the client stops on done and error only (`sinan.ts:310`), the server keeps the
connection, and each finished page holds one of the five slots. `publish_local`
reaches every tab though called point-to-point. The comment on duplicate frames
(`event_publisher.py:39`) expects the client to compare numbers; it does not, and
frames may overtake each other. The stream of `api/agent.py` says that after a disconnect
no new model call starts and the running one is cut (`agent.py:102`); `stream_branch`
never passes `cancel` on to `generate_open_plans`, and `on_day` returns for an empty day
before it looks at it.

*The graph* (`agent/generation`). `on_day` counts a day before it is written
(`stream_branch.py:151-155`), and a writer that refuses the line is swallowed with the rest of the
generation (`open_plans.py:332-334`): the `done` lists a day that was never sent, though
`agent.py:372` says that it reports missing days truthfully. After two failed repairs an empty draft replaces a plan that
could be delivered (`graph_nodes.py:105`). A last failing attempt loses the plan of an
earlier one. The fallback still asks with the feedback (`trip_graph.py:149`). Costs
filled in at the end never reach the client of a stream. A place outside the area is
kept when the check budget ends between two asks (`existence.py:319`);
OpenTripMap's hit is not compared with the area, the others' are.

*Edits, history, chat* (`services/itinerary_*.py`, `agent/editing`). A second delete of the
same item from another tab ends in a 500 (`itinerary_command.py:178`). The hotel
docstring of `validate.py:56` says a stay occupies no time; `_plan_conflict` skips only
transport. An overlap the trip already has blocks every edit by chat. The guard on
hotels is off when the number of days changes, and a document may turn a sight into a
hotel. The fallback thins a trip out though it was asked for N days; a sentence
with both a cut and an extension only thins out. `set_day_note` and changes of tags are
answered "nothing changes". A locked place slides when an earlier item is cut, though
`_replace_unlocked` says it does not; the candidates of one day are used on the next
again; the optimizer prefers more places to the required ones; the money limit is per day.

*Columns written as a whole* (`services/itinerary_enricher.py`). The note and the
suggestions are read, worked on for minutes and written back, though the docstring
(8-9, 196) says single-column updates protect editing: a mark `used`, a reminder or
an overlapping edit made meanwhile is lost, a dropped suggestion can come back.

*Exports and pictures.* A task whose process died, or whose failure could not be
written, stays RUNNING; the client gives up after a minute. The row is read after its
status. A half-written file is never written again, since only its existence is looked
at; a task that is DONE becomes FAILED, with its file, when the event of its end raises
(`export_service.py:106`); the cache of covers is unlocked; timeouts of langlinks do not start the cooldown of the
wiki, and the empty answer of an outage is cached without a limit.

*Sharing.* A fork takes its days and items from the published summary, but the number of days,
dates, persons, budget and theme from the live row (`template_service.py:225-238`), which may have
changed since, though line 7 says that it never reads the rows of its source. Revoking takes no
lock and may stamp an invitation that was accepted meanwhile. Archiving races with a
new link. An expense whose item is gone cannot be changed without naming an item.

*Outside calls and research.* A failing call stores over the good value of a concurrent
one (`_store`); a slot of a lane is reserved and then slept for, so that threads that wake late
may call closer together than the strict spacing of the real calls that the docstring
promises (`external_client.py:172`); what holds is the spacing of the reserved times; a run's exhausted budget is cached as a failure for all runs. A second
round of research starts anew and loses the first one's items when it raises, though
`run_limits.py` says exhaustion is no failure. `chat_response` says every real call is
billed; failed attempts are not. Three threads share the tool budget without a lock.

*Web client.* Nothing aborts the monitor of a resume when its page goes
(`useHomePlanning.ts:114-124`): who leaves the page and comes back has two monitors of one trip, and
if a poll of the first fails it clears the stored id (81), so that the page goes on with a trip
a reload no longer finds. `useTripChat.ts:25` promises the blocking fallback after a timeout; there
is none. A confirmation whose answer is lost, and an edit of the page itself, leave the card of
a draft that is used up (`useTripChat.ts:163-172`, `TripDetailPage.tsx:190-213`): the next
confirmation is a 409. After a break the turn runs on while the fallback sends the sentence again. A
new idempotency key per submit means that a user's retry is a new trip. An error while resuming
forgets the trip. `useEffect(activePin)` of `TripDetailPage.tsx` comes after early
returns; answers of writes and of refreshes have no guard.

## 6. Not modelled

The content of plans beyond what the rules read, prompts, narrative and distances of the
earth (data processing); the parsing of what a model writes (an answer is good, bad or
missing). The service interface, the migrations, the administrative services and the clean-up
jobs: one transaction each, no interleaving of their own. The key storage of the model
gateway, traces, PDF layout, share cards and the views of the web client (formatting).
Registration and passwords of users, signatures of tokens. Several processes: the
registry, the pool and the hub live in one process, and the deployment starts one. Two
items of one place in a day, in `Enrichment`: a place is in the trip or it is not.
`PROJECT.json` says per component what is left out.

## 7. Plan

Done: every component of section 1 that is not marked otherwise; of the 40 properties of the
passing runs all but those named under "model-checked only" are proved. Next: `TripEditProofs` in two modules, the rows by themselves and the requests.

Larger instances: `TripEdit` with all kinds at once, and `Generation_trip` with three days, are
out of the time of a run, and so is `HomePage` with four attempts. `Services` with a threshold of two, which `ProvidersAreSpared`
covers, takes longer than a run may.
