# motoro in TLA+

A verification project for `motoro`, an engine that runs LLM agents: TLA+
modules of its core, TLC instances of them, and TLAPS proofs. File names below
are relative to `src/src/motoro/`.

## The system

| component | state | operations | interacts with |
|---|---|---|---|
| run lifecycle (`runner.py`, `models/run.py`) | `agents`, `agent_runs`, `run_steps` rows | `create_run`, `execute_run`, `fail_run`, `update_agent`, listing and paging | builds a `PatternOrchestrator` per execution; products call it from workers and detectors, several at once |
| plain runtime (`engine/runtime.py`) | phase position, step number, collected steps | `run`, `_execute_phase`, interrupt and limit checks | phases, `RunContext`, working memory, the row's heartbeat, ports (limits, memory, publisher) |
| pattern orchestrator (`engine/patterns/orchestrator.py`) | active plugins, hook error counts, `context.metadata` | `run`, `_run_hooks`, `_get_phase_sequence` | overrides `AgentRuntime.run`; calls plugins' hooks and lifecycle methods |
| reason_act (`engine/patterns/builtin/reason_act.py`) | conversation, window, step count, termination, all in `context.metadata` | hooks at LOOP_CONTROL, PRE_ACT, POST_ACT, lifecycle | the orchestrator (hooks), the LLM service, the Act phase (through a plan it writes) |
| working memory (`memory/working.py`) | a Redis hash, its TTL and a Redis lock per run | `add_entry`, `get_entries`, eviction strategies, `cleanup` | the runtime, other processes through Redis |
| MCP client (`mcp/client.py`) | `_connected`, `_session`, `_cm`, `_owner_task`, a reconnect lock; one owner task per connection | `connect`, `call_tool` with its reconnect, `is_alive`, `disconnect` | the transport; callers that are cancelled by timeouts |
| MCP registry (`mcp/registry.py`) | one entry per server and process, an asyncio lock | `register`, `ensure_registered`, `unregister`, lookup of a connected server | clients; the configuration service |
| MCP configuration, OAuth (`services/mcp_service.py`, `mcp/oauth.py`) | server rows with a revision, encrypted credentials, OAuth transactions | register, update, delete, hydrate, OAuth begin/complete/refresh/clear | the registry of each process, the database, authorization servers |
| tool execution (`mcp/adapters.py`) and phases (`engine/{sense,reason,plan,act}.py`) | `RunContext`: phase outputs, history, usage | one `execute` per phase; dispatch of plan steps to tools, peers or the model | LLM service, registry |
| composition, catalog (`engine/patterns/{composition,registry,catalog}.py`, `services/pattern_catalog.py`) | the set of registered patterns, catalog rows | dependency closure, cycle and conflict detection, hook order, catalog upsert | the orchestrator's constructor |
| LLM service (`services/llm_service.py`, `services/retry.py`, ...) | per-call retry state, budget context | completions with fallback models, transport retries and repairs | providers, pricing, credentials |
| skills, long-term memory, output contract, agent channel, OKF server, credentials and security, observability, migrations | rows or none | CRUD, searches, pure checks | |

What is hard in it:

- **several sessions on one row.** `execute_run` holds an ORM session for the
  whole run and never re-reads its row (`expire_on_commit=False`); a flush sends
  only changed columns. `fail_run` and a second execution do the same at the
  same time. What the row says in the end is a merge of columns.
- **two implementations of one loop.** The orchestrator overrides the runtime's
  `run` instead of calling it.
- **plugins** may skip, retry, pause, abort, raise, time out, replace phase
  outputs and rewrite the phase sequence, at eleven hook points.
- **interrupts**: cancel and pause are events set by other tasks at any time.
- **crashes**: a worker dies with the run in progress; with the Redis lock held;
  between deleting entries and writing their summary.
- **locks with a TTL**: a pass that outlasts the lock overlaps the next.
- **protocol obligations to the provider**: every tool call of an assistant turn
  needs exactly one result, while a window cuts the conversation and while skill
  tools and other tools are answered at different places.
- **connections owned by tasks**: a client is shared by calls, probes and stops,
  each of which can be cancelled at every await.
- **one row, many registries**: every process connects by what it read, and locks
  of two kinds (the row's and a registry's) are taken in both orders.
- **credentials that rotate**: refresh tokens used by several processes; an
  authorization withdrawn while its code is being exchanged.
- **three loops of retries** (models, transport attempts, repairs) around one
  request, and two around one tool call.

## The modules

| module | models | abstracts |
|---|---|---|
| `RunResult` | `AgentRunResult`: the results an execution can record | texts |
| `RunLifecycle` | `create_run`, `update_agent`, `execute_run`, `fail_run`, the column-wise flush | the agent loop: any result of `Results`; texts and times are the call that wrote them |
| `AgentRuntime` | `AgentRuntime.run`, the plain loop; also the abstract specification of the orchestrator | what phases compute |
| `RuntimeStory` | one run over its pauses: calls of `AgentRuntime.run` chained by their snapshots | |
| `PatternOrchestrator` | `PatternOrchestrator.run`, `_run_hooks`, `_get_phase_sequence`, `_resolve_abort` | plugins are arbitrary: every outcome of a hook the orchestrator tells apart is possible at every call |
| `ReasonAct` | the plugin's hooks, and what runs between them | texts; a turn is its role and its calls |
| `WorkingMemory` | `add_entry` with its lock and both strategies, one step per Redis command | contents; an entry counts one token |
| `MCPClient` | one client: its owner tasks, calls with their reconnect, a probe, a disconnect, and what cancels them | payloads; a transport is live, broken or closed |
| `MCPRegistry` | one server's row, its entry in the registry of each process, and the clients that entry had | which connection settings: a revision |
| `MCPOAuth` | the credentials of one registration: authorizations, callbacks, clears, edits, refreshes | a credential is the authorization that obtained it and a count of rotations |
| `LLMService` | `complete`, `complete_text`, `complete_with_tools` down to the provider | prompts and answers; the budget is a yes or no |
| `ToolCall` | `execute_step` over `MCPClient.call_tool` | results; an error is its class |
| `ActPhase` | `ActPhase.execute`, composed of `LLMService` and `ToolCall` | plans and turns are sequences of kinds |
| `PatternComposition` | `composition.py`, `validate_pattern_config`, `from_pattern_config`; the graph walks call by call | parameters, roles, hooks |
| `RunLifecycle_proofs` (of `RunLifecycle`, `AgentRuntime` and `RuntimeStory`), `PatternOrchestrator_proofs` (of `PatternComposition` and `PatternOrchestrator`), `ReasonAct_proofs`, `WorkingMemory_proofs`, `ActPhase_proofs` (with `LLMService` and `ToolCall`), `MCPOAuth_proofs`, `MCPRegistry_proofs`, `MCPClient_proofs` | theorems and their proofs | |
| `MC...` | values of the constants for TLC | |

How they fit together: `RunLifecycle` lets an execution end with any element of
`RunResult`'s `Results`, and `PatternOrchestrator`'s `ResultWellFormed` says that
the loop returns no other. `AgentRuntime` is what the orchestrator refines. A
phase is one step there; for Act that step is the whole of `ActPhase`, whose
`ActReturns` justifies it. `ActPhase` sees a client through `ToolCall`, one of
whose sends is one `call_tool` of `MCPClient`; the client looks after one server
that `MCPRegistry` connects by the row, and whose token `MCPOAuth` keeps.

### RunLifecycle

`row` is the committed row, reduced to the columns the calls write. `ex[e]` is
one call of `execute_run`: `base` is the row as its session loaded or last wrote
it, `obj` the mapped object. `Load` is the first part of `execute_run` including
the pinning of the configuration (`runner.py:732-735`); the new pin is written
by the next flush, whichever it is: the heartbeat's commit, a step's commit or
the final one. `Merge` is the UPDATE a flush sends. `LoopReturns` gives the
execution a result, `CommitOutcome` is `runner.py:787-809`. `Die` ends an
execution without a commit. `SweepRead`/`SweepWrite` are the two halves of
`fail_run`. `UpdateAgent` edits the shared agent.

Nothing in the code keeps the calls apart, and nothing in the model does: two
executions overlap, a sweep reads a run that is live and writes after it
committed, a run that is over is executed again. Three history variables note
the causes of what goes wrong then: `stale`, a call wrote an outcome over one it
had not seen; `revived`, an execution loaded a run that was over; `crowded`, one
loaded an unpinned run while another was executing it. The properties say that
there are no other causes. A closed session keeps nothing (`Ended`, `Swept`).
`Reapers` are the sweeps a product makes once nobody executes the run; they
matter for liveness only.

### AgentRuntime and PatternOrchestrator

The shared variables have the same names. `pc` walks through the code:
`boundary` is the top of the phase loop (heartbeat and `_check_interrupt`),
`limits` the limit check, `execute` the phase, `process` what follows it. The
orchestrator adds `activate`, `acterror`, `control` (LOOP_CONTROL and the phase
sequence), `pre` and `post` (hooks), `retry`, `completion`, `onerror` and
`deactivate`. A hook call is one step (`HookReturns`, `HookFails`); `ActOn` is
what the caller of `_run_hooks` does with the action. `start` is where a run
starts (fresh or where a snapshot says) and its `fail_on_hook_error`.

The checker of limits fails open: `unchecked` says that its last call raised,
and the phase runs. `RuntimeStory` resumes a paused run: the iteration is the
snapshot's, and the phase the one after the last RunStep's, because the plain
runtime leaves `context.current_phase` empty. Core resumes no run itself
(`execute_run` hands the runtime no resume context); the arguments of `run` are
there for a product that does.

`BehavesAsRuntime` maps the orchestrator's `pc` to the runtime's (`RuntimePc`)
and asks for all of the runtime's specification, fairness included. It holds
without plugins and without a limit checker.

### ReasonAct

One iteration is LOOP_CONTROL, Sense (first iteration only), PRE_ACT, Act,
POST_ACT. `messages` is the persisted conversation, `request` what the last
model request was given after `window_messages`. `recorded` is the trace: the
steps the plugin adds itself (`_record_step`) and those `_execute_phase` adds,
with the number each got. The message window counts turns, as the code does.

### WorkingMemory

Each `add_entry` call is a process over `hash`, `ttl`, `lock`, `clock`. Calls on
the same manager share its lock token (`ManagerOf`). `Error` is a Redis or model
error inside the call (the lock is released by the `finally`), `Die` the end of
the process (it is not), `LockExpires` the TTL; an expiry while the owner still
works is counted in `overruns`. Not modelled: `cleanup`, which deletes the hash
when the run is over.

### MCPClient

Each connection is an owner task (`conn[i]`: position, shutdown event, whether it
was cancelled, its ready future) with its transport (`link[i]`). The client's
attributes (`connected`, `session`, `cm`, `owner`) name at most one of them, and
both tasks and callers write them: that is the component's difficulty, and why
`_close` is two steps, the second of which looks up `_cm` only when it gets
there. `CallBreaks` to `ConnectFails` are `call_tool` and `_attempt_reconnect`
under `_reconnect_lock`. `_cm` is assigned before the transport is entered
(`BeginOpen`), and `retry_with_backoff` may exit a transport and begin again
(`RetryOpen`). Of the calls, `Timed` are under the executor's `wait_for`
(`adapters.py:243`); `call_server_tool` has none. `Cancel` is a cancellation at
each await a call can be at, once for each caller (`told`); `JoinTimesOut` is
`_DISCONNECT_TIMEOUT_SECONDS`, after which the owner is cancelled and awaited
without a limit (`await`, `abandon`). An owner that is cancelled while it is
parked still runs all of `_close`; only a cancellation inside the session's exit
skips the transport's.
`overlapped` is history: some connect began before an earlier owner was done.

### MCPRegistry

`row` has a revision and whether its OAuth token is none, fresh, expired or refused
(`required`: a refusal is a revision of its own too). `slot[p]` is the entry in
process `p`, `up[p]` the clients whose `_connected` is set, `live[p]` those whose
connection is open. The two differ: a probe that fails or a call that breaks
clears the attribute (`Unmark`) while the owner task and its transport go on, the
registry disconnects connected clients only (`Close`), and a call that broke opens
its own client's connection anew, whether or not the registry still has it
(`Reconnect`, `Reopened`, `Renew`). `marked[p]` remembers whom this happened to.
An operation (`op[o]`) is a tool call, a hydration, a reconnect, an
update, a clear or a delete; it reads or locks the row, takes the registry's
lock, drops the old entry, connects, and is one step between two awaits.
Connecting with an expired token needs the row's lock, which a delete holds
while it waits for the registry's.

### MCPOAuth

`row` has the columns the credentials are kept in, and the revision. A section
that selects the row FOR UPDATE and does not leave the database is one step; the
refresh calls the authorization server inside such a section and is two, with
`lock` held between them. A callback is `Claim` (the hash is taken out of the
row), `Exchange` (no lock) and `Install` or `InstallRefused` (the
compare-and-set `Unchanged`). `worker[w]` is a connection's `PersistentOAuthAuth`
with the payload it was built from or adopted since. `codes`, `shown` and
`withdrawn` are history: exchanges, presentations that were not refused, and the
authorizations a clear, an edit or a newer authorization took back.

### LLMService, ToolCall, ActPhase

`llm` is one logical request: its model in the list of fallbacks, attempt of
tenacity, repair of an invalid turn, and the provider requests made (`spent`). A
text request may succeed with an empty answer (`llm_service.py:1056-1073`), which
the phases then treat as they treat any other.
`tool` is one call of the executor: `sends` lists how each send on the wire
ended, `round` is the executor's attempt. `ActPhase` asks and dispatches, and
goes on when the answer is there; `plan`, `run` (what the run may use) and every
answer are the environment's. `out` has the phase's results and the parts of its
response; `made` is history, the calls dispatched.

### PatternComposition

One behaviour is one agent: `validate_pattern_config` when it is created
(`stage` goes through `check`, `search` and `climb` to `validated`),
`from_pattern_config` when it runs (`collect`, `resolve`, `make` to `built` or
`failed`). `input` is its configuration and the plugins it meets, fixed from the
start. The walks of `composition.py` are recursive functions with a loop over
dependencies each; `stack` holds the calls in progress and `next[s]` the position
of the loop of the call for `s`. A loop over a set takes its members in any order.
`CheckRoot`/`Dep`/`Return` are `_check_transitive`, `SearchRoot` to `CycleReported`
are `_detect_cycle` with its colours and parents, `CollectRoot`/`Dep`/`Return` are
`_collect_transitive`, whose active set is an argument (`scope[s]`, which each
call extends for its own callees only). `collect_missing_dependencies` is a second
beginning (`lookup`, `returned`): the function takes any graph, but both its
callers hand it one without the dependencies of what is not selected, so that most
of its contract never meets a run. `ResolveDep` and `MakePlugin` are the loops of
`from_pattern_config`.

## The runs

| run | question | bounds |
|---|---|---|
| `run_life` | what mixes the row's columns and what ends finality, steps under pinned settings, settlement | 2 executions, 2 sweeps (one a reaper), all overlapping, 1 step each, 1 edit, 2 deaths |
| `rt_loop` | the plain runtime with limits, over pauses and resumptions | 2 iterations, every start, 2 pauses, a checker that may raise |
| `orch_plain` | without plugins the orchestrator implements the runtime | 2 iterations, every start |
| `orch_plugins` | results, plugin lifecycle, cancel and termination under arbitrary plugins | an execution and an advisory plugin, 2 iterations |
| `react` | the reason_act protocol | 4 iterations, window of 2, up to 2 calls a turn |
| `wm_memory` | both eviction strategies with one fault | 3 calls on 2 processes, window 1 |
| `mcp_client` | shared reconnects, attributes against owners, deadlines hold | 2 calls (one timed), 1 probe, 1 disconnect, so 3 connections |
| `mcp_exit` | **violated**: an owner exits another owner's transport | the same |
| `mcp_registry` | calls use the committed configuration, where orphaned connections come from, where it can deadlock | 2 processes, 3 operations of any kind, 1 failed probe or broken connection, 1 expired token |
| `mcp_oauth` | withdrawn stays out, tokens bound to their server, single use, revisions | 2 authorizations, 2 callbacks, 1 clear, 2 connections, 2 URLs, 1 rotation, 1 edit |
| `act` | bounds of requests, resends, one result per call, the response's end, termination | 2 models, 2 attempts, 1 repair, 1 retry, plans of up to 2 steps, turns of up to 2 calls |
| `compose` | the graph algorithms against definitions; validation against construction | every graph of 3 patterns and every order of its walks, 5 configurations, 4 category assignments, 2 registries, 2 conflict relations |

Why the bounds are enough: two executions are the smallest number that overlap
or follow each other, and a third adds no new pair of sessions; two sweeps race
each other over one row; a step commits what a heartbeat does, so one for each
execution is enough, and `run_chaos` has two. Two pauses can fall at the same
place, so a snapshot is made by a call that was itself resumed. Two iterations give a first, a middle boundary and a
last iteration and, with an advisory plugin that has two hooks at one point,
four failures of one plugin where three abort the run. Four iterations with a
window of two make the window cut at every position of a turn. Three calls let
one pass read before, delete during and release after another, on the same and
on another process; a window of one makes every second entry an eviction.
Two calls break on one connection and reconnect once, while a stop takes the
owner away; the third connection is the one that meets an owner still unwinding.
Three operations on a row are a reader, a writer and one that comes between
them. Two authorizations let one supersede the other with two callbacks for
either; one rotation separates the old token from the new. Two of each of the
three loops are the smallest numbers in which one could restart another. Three
patterns have every shape of cycle the search tells apart: on itself, mutual,
through a third, and a diamond.
The type invariant of each module holds in its runs as well (add it to the
`INVARIANTS` of the configuration), and is proved for every value of the
constants.
Deadlock is not checked: every one of these systems ends; what may be stuck in
the registry is the subject of `OnlyDeleteDeadlocks`.

**Fairness.** `run_life` assumes that the loop of an execution that is not dead
returns and commits (`RunReturns` and `ActReturns` are about that), that what a
sweep has read it writes, and that a product which reaps dead runs gets to it;
nothing makes the other sweeps happen, and no execution. The runtime, its story,
the orchestrator and reason_act assume weak fairness of their own steps and none
of `SetCancel` and `SetPause`, nor of a resumption: hooks are bounded by
`hook_timeout`. `MCPClient` assumes only that the event loop runs what is ready
and that two timers fire: the limit on joining an owner and the executor's
`wait_for` around a timed call, which acts by cancelling it. `initialize`,
`list_tools`, `session.call_tool`, the probe and the exits of the contexts have no
limit of their own, so they may never answer; an owner that was cancelled unwinds.
`CallsReturn` is therefore about the timed calls and the disconnects, also when
they wait for a call that never ends. `ActPhase` assumes weak fairness of its next
step: every await in it has a deadline, except a peer's reply, which is one step,
and a call whose cancellation is suppressed (`mcp_deadline`), which it takes to end.
The working memory, `MCPRegistry`, `MCPOAuth` and `PatternComposition` need none:
their properties are safety.

### What the code does differently from what it says

`mcp_exit` is violated: `disconnect` clears `_owner_task` before it waits for the
task, so a call that breaks meanwhile stops nobody, connects anew, and the first
owner's `_close` then exits the second's transport. The docstring of
`_own_connection` says enter and exit are always the same task.

Nine further configurations are kept beside these runs:

| configuration | module | what it shows |
|---|---|---|
| `run_chaos.cfg` | `MCRunLifecycle` | passes: the safety of `RunLifecycle` with two steps for each execution, with the properties no run of the table has (`TerminalHasCompletedAt`, `StepsDensePerExecution`, `ConfigPinnedForGood`) |
| `run_mixed.cfg` | `MCRunLifecycle` | `OneStory` is violated: a sweep and a commit that have not seen each other's outcome leave columns of both, which is why `RowConsistent` excuses `stale` and `revived` |
| `run_clobber.cfg` | `MCRunLifecycle` | `FailRunNeverClobbers` is violated: `fail_run` tests the status it read, not the one it overwrites; a run that commits COMPLETED in between ends as FAILED, with the output and the completion time of one call and the error of another. Its docstring promises the contrary |
| `run_sequences.cfg` | `MCRunLifecycle` | `SequencesUnique` is violated: every execution numbers its steps from 0, and `execute_run` never hands the runtime a resume context; `list_run_step_summaries` pages on these numbers |
| `orch_limits.cfg` | `MCPatternOrchestrator` | `PhasesWithinLimits` is violated: the orchestrator never consults the limit checker that `AgentRuntime.run` consults before every phase |
| `orch_resume.cfg` | `MCPatternOrchestrator` | `ResumesAtResumePhase` is violated: the index of `resume_phase` in the default sequence is applied to a custom one |
| `mcp_orphan.cfg` | `MCMCPRegistry` | `NoOrphanConnection` is violated: a failed probe clears `_connected` (`client.py:674`), the next registration drops that entry without a disconnect (`registry.py:227-228`), and its owner task and transport go on with nobody to stop them. `register`'s docstring (`registry.py:83-84`) says the existing entry is disconnected first |
| `mcp_deadline.cfg` | `MCMCPClient` | `DeadlineHeeded` is violated: a cancellation that reaches a call while it awaits an owner it has cancelled is suppressed together with what the owner raises (`client.py:781`); the call goes on past its deadline, where `adapters.py` says timeouts bubble out untouched |
| `wm_release.cfg` | `MCWorkingMemory` | `ReleaseOnlyOwn` is violated: `_release_lock` reads and deletes in two commands |

Smaller divergences are visible in the models and have no run:

- `_run_hooks` counts failures per plugin and hook point, so one of two callables
  at a point may fail for ever if the other succeeds, where the comment speaks of
  "the same hook".
- A call that skips its eviction pass is not always covered by the holder's pass
  (see `OverflowBounded`).
- `catalog.py:161-162` says validation and composition cannot disagree. What is
  valid is what is built (`ValidMeansBuilt`), but not conversely: validation
  rejects a dependency that construction would add by itself; construction looks
  for no conflicts, drops unknown slugs, and does not resolve the dependencies
  of what it added. With a self-dependency the path reported for a cycle need not
  be one.
- The budget is consulted only before a sleep (`llm_service.py:363-365`). A refusal
  fails the step that met it; later steps of the plan ask again.
- A response may end in the raw dump of a tool when the request of the last step
  fails or brings no text, because the closing turn is decided by the last result;
  and when the closing turn itself is answered with an empty text, which is a
  success to the service (`llm_service.py:1056-1073`) and adds nothing to the
  response (`act.py:338-348`). `EndsInProse` excuses these cases and no other.
- `delete_server` waits for the registry's lock with the row locked
  (`mcp_service.py:403-409`), which `update_server`'s comment (723-724) says to
  avoid: the deadlock `OnlyDeleteDeadlocks` leaves open.
- When `initialize` fails in `_open`, nothing exits the transport it entered
  (`InitializeFails`).
- Hydration may register a server deleted since it read the rows; no call is sent
  to it (`SendsOnCurrent`).
- Act's outer `wait_for` equals the timeout of one attempt of the executor, so it
  can cut a retry short (`TimesOut` at every position).

## The proofs

Each proves the property for every value of the constants.

| module | theorem | property | assumes |
|---|---|---|---|
| `RunLifecycle_proofs` | `TypeCorrect` | `RunTypeOK` | |
| | `TerminalCorrect` | `TerminalHasCompletedAt` | |
| | `PinnedCorrect` | `StepsUnderPinnedConfig` | |
| | `PinnedForGood` | `ConfigPinnedForGood` | |
| | `RowCorrect` | `RowConsistent` | |
| | `TerminalStays` | `TerminalIsFinal` | |
| | `DenseCorrect` | `StepsDensePerExecution` | |
| | `RuntimeTypeCorrect` | `StoryTypeOK` | |
| | `StoryCorrect` | `PhasesInOrder` | |
| | `LimitsCorrect` | `PhasesWithinLimits` | |
| `PatternOrchestrator_proofs` | `CompositionTypeCorrect` | `CompositionTypeOK` | |
| | `CyclesAreFound` | `CycleFound` | |
| | `MissingIsLeastClosed` | `MissingIsClosure` | |
| | `ValidConfigurationsAreBuilt` | `ValidMeansBuilt` | |
| | `DependenciesAreThere` | `BuiltWithDependencies` | |
| | `OrchestratorTypeCorrect` | `OrchestratorTypeOK` | |
| | `ResultCorrect` | `ResultWellFormed` | |
| | `LifecycleCorrect` | `LifecyclePaired` | |
| | `CancelCorrect` | `CancelStopsSoon` | |
| | `PlainRunsAsRuntime` | the safety of `BehavesAsRuntime` | no plugins, no limit checker |
| `ReasonAct_proofs` | `ReasonActTypeCorrect` | `ReasonActTypeOK` | |
| | `RequestsCorrect` | `RequestWellFormed` | |
| | `AnswerCorrect` | `AnswerDelivered` | |
| | `TerminationCorrect` | `TerminationTruthful` | |
| | `ConclusionCorrect` | `NoRequestAfterAnswer` | |
| | `TraceCorrect` | `TraceOrdered` | |
| `WorkingMemory_proofs` | `MemoryTypeCorrect` | `WorkingMemoryTypeOK` | |
| | `NewestKeptCorrect` | `NewestKept` | |
| | `AccountsCorrect` | `EntriesAccounted` | |
| | `PassesCorrect` | `OnePassAtATime` | |
| | `LeftoverCorrect` | `LeftoverExpires` | |
| `ActPhase_proofs` | `ActTypeCorrect` | `ActTypeOK` | |
| | `RequestsCorrect` | `RequestsBounded` | |
| | `ResendsCorrect` | `ResendsOnlyBroken` | |
| | `ReportsCorrect` | `CallsReported` | |
| | `ProseCorrect` | `EndsInProse` | |
| `MCPOAuth_proofs` | `OAuthTypeCorrect` | `OAuthTypeOK` | |
| | `WithdrawnCorrect` | `WithdrawnStaysOut` | |
| | `BoundCorrect` | `CredentialBound` | |
| | `SingleUseCorrect` | `SingleUse` | |
| | `RevisionCorrect` | `RevisionMarksChange` | |
| `MCPRegistry_proofs` | `RegistryTypeCorrect` | `RegistryTypeOK` | |
| | `OrphansCorrect` | `OrphansWereMarked` | |
| | `SendsCorrect` | `SendsOnCurrent` | |
| | `SparesCorrect` | `EnsureSparesCurrent` | |
| | `DeadlocksCorrect` | `MutualWaitsNeedDelete`, `ChainsEnd` | |
| `MCPClient_proofs` | `ClientTypeCorrect` | `ClientTypeOK` | |
| | `OneOpeningCorrect` | `OneOpening` | |
| | `NamesOpenCorrect` | `NamesOpenConnection` | |

The modules' own assumptions on their constants apply besides: "none" is no
identifier of anything, bounds are naturals, and in `MCPClient` the calls are
finitely many and nobody is both a call and a probe or a disconnect. A run starts
at a phase and an iteration there are (`Starts`), and what `_get_phase_sequence`
makes of a custom sequence is a sequence of known phases (`SequenceAssumption`,
which TLC evaluates for the sequences of its runs). In `PatternComposition` the
default pattern is a slug and configurations and dependencies are lists of slugs;
the slugs need not be finitely many. Hardly any of the properties
is inductive; the strengthenings were checked with TLC before they were proved.

**RunLifecycle.**

1. `Typed` adds to the types the fact that bases, objects and results are rows
   and results whatever the merges do (`MergeType`, `OutcomeType`).
2. `TerminalInv`: a session's own outcome carries a time for every terminal status
   (`OutcomeType`), and a merge cannot separate the two columns because
   completion times are never taken back (`TimesOutlast`): a session whose base
   has no time writes its own; a session whose base has one leaves the column
   alone, where it still is (`MergeKeepsTime`).
3. `PinInv`: an execution pins an unpinned run in its own session only, so until
   its first commit the row does not know. A session emits its pin once and never
   over a row that lost one (`LivePin`); unless two sessions pinned side by side
   (`crowded`), all of them have the row's pin (`OnePin`), or there is one and it
   has yet to commit (`AlonePinning`). Then every flush, whoever's, keeps the pin
   (`FlushKeepsPins`).
4. `OutcomeInv`: a live session differs from what it loaded in the settings only
   (`SessionsFollow`), so heartbeats and steps leave another session's outcome
   alone (`FlushKeepsOutcome`); a sweep holds a row that was not over
   (`SweepsFollow`). A call that writes an outcome and is not stale finds in the
   row what it loaded, so the merge is its object (`MergeOverBase`), and that is
   consistent (`OutcomeConsistent`). What a session loads is a row of which the
   same holds; so the columns disagree only after a stale write or a revival.
5. `DenseStep`: an execution adds its own steps only, under its own counter, so
   their numbers have no gap and no duplicate whoever runs beside it. The numbers
   of two executions do coincide (`run_sequences.cfg`).

**AgentRuntime.** Where a call is tells what it has recorded (`Located`): a paused
one has the iteration it is at in its snapshot, and a phase is about to run only
within the limits or after a checker that raised. The phase executed last, in
whichever call, is the one just before the place the loop is at (`LastBehind`),
and a pause keeps that place; so the snapshot and the last RunStep lead the next
call back to it (`ResumesWhereItStopped`).

**PatternComposition.** A recursion is proved here like any other steps, by what its
stack means at each of them. `Nested`: a pattern has one call in progress at most,
and those with one are visited, or grey. `Searching`: the stack is a path along the
dependencies; whatever a call has passed is black, or is the next call; the black
patterns are closed under dependency, and each non-empty set of them has a member
with no dependency in the set (`Settled`), which a pattern that turns black cannot
change, because everything it depends on was black before (`BlackGrows`). So when
nothing is white there is no cycle. `Climbing`: a path under construction is the
top of the stack read downwards, so its reverse runs along dependencies, and it
stops where it closes unless it began at a self-dependency; a path is only begun
at a dependency on a pattern of the stack, so there is a cycle (`ReportedPath`). `Gathering`: what is missing lies in every closed set; each call
knows no more than what is selected or missing; and what a finished call depends
on is one or the other. When all calls are finished the missing are themselves
closed, hence the least closed set, whichever order the walk took. `Checking` does
the same for the errors that are not reported, `Resolving` for the dependencies
gone through, `Making` and `Faithful` for the plugins made; a valid configuration
has nothing missing, because all its dependencies were met when it was checked.

**PatternOrchestrator.** Plugins stay arbitrary: any outcome of any hook at every
call. `Outcome` says that the loop is left with the status it was entered with,
or with the one its exit sets together with the error or the snapshot that status
needs. `Lives` orders the plugins' lives around the loop. `Overrun` follows a
cancel through the one phase that was already past its boundary. `Patience`: a
hook with three failures in a row has left the loop. Without plugins (`Plain`)
the points where hooks would run are passed at once, and `RuntimeSteps` takes the
actions one by one to `AgentRuntime`'s under the mapping `BehavesAsRuntime` uses.

**ReasonAct.** `Conversation(ms, open)` is the shape the turns keep: a call is
issued in one turn of the model and answered at most once; an answer comes after
the turn that asked and before the model's next; `open` are the calls without an
answer, all of the last turn. Three lemmas say how it grows: a turn of the model
opens its calls (`Asked`), tool turns close theirs (`Answering`), whether the
skills' at once or Act's later. `WindowCuts` says that `window_messages` cuts
between the user's turn and a turn of the model, and `CutConverses` that what
remains is a conversation, because answers stay in the stretch of their turn;
`ConversationWellFormed` that a conversation without open calls is one a provider
accepts. The windows are counted with cardinalities of sets of positions (`Nth`).
`Counted` ties the turns to the iterations, so the ceiling (`step_count`) is met
exactly when the loop has no further iteration (`TurnEnds`).

**WorkingMemory.** No two entries have one timestamp (`Stamped`), so "newer" is an
order. Whatever a pass is going to delete, however long ago it read the hash, had
been overtaken by then and entries only get older (`Evicting`). So nobody deletes
the newest entry (`NewestThere`): the hash, once written, is never empty again, a
time to live set on it stays, and the summary a pass writes without an EXPIRE
needs none (`Dated`). While no pass outlasted the lock, who is in its pass holds
it (`LockHeld`). The calls need not be finitely many.

**ActPhase.** `ComponentSteps` shows that every step of the phase is a step of
`LLMService` or leaves its state alone, and likewise `ToolCall`; each component is
then proved by itself. `SpentInOrder` says what a request has cost so far: all of
the earlier models' attempts, the attempts of this model's rejected turns, and
those of this turn; no counter goes back without a greater one going forward.
`SendsInOrder` says that a round makes at most two sends, that all but the last
ended in a failure of the transport, and that the last one of a finished round did
when another round follows. `StepInv` is about the phase itself. `Dispatched`:
a call's number is new when it is dispatched. `Held`: the calls of a batch so far
have one result each, in the list of the tools or in that of the peers, and none
elsewhere; when the batch is over the two lists become the step's results
(`Reported`). `Spoken`: a response that ends in a dump still has the closing turn
before it, which the last result decides on, or the last request brought no text.

**MCPOAuth.** The invariant is a chain. `Locked`: the row is locked exactly while
one connection waits for the authorization server. `Named`: whatever credential,
pending transaction or hash the row holds belongs to an authorization that was
begun. `Redeemed`: a transaction has its hash in the row, or is in the hands of
one callback, or is installed, never two of these. From that `Outside` says that a withdrawn authorization is none of what the row could still
install: a callback that claimed it before no longer passes `Unchanged`, because
everything that withdraws changes the revision or the pending transaction.
`CodesFresh` and `TokensFresh` say of codes and rotations that what is
current has not been used.

**MCPRegistry.** `Held`: the holder of a registry's lock is the operation that
connects there, and meanwhile the registry has no entry; so storing an entry
loses none. A call reopens the connection of a client it has marked, and no mark
is taken back (`MarkedFirst`): whatever is open is the entry's or belongs to a
marked client. `Informed` is what an operation that only wants the server live knows: its revision lies between the
row's at the beginning of its call and the row's now, and a deletion it saw is
final. An entry `ensure_registered` finds good enough is therefore new enough for
the call, and one it tears down is older than the row. For the locks, `WaitInv`
adds that who holds a registry's lock is connecting (`HeldRegistries`) and who
keeps the row locked is deleting (`HeldRow`). Then a wait leads from the holder
of a registry to the delete that holds the row and on to the holder of the
registry that one needs, and there it ends, or it came back to where it began
(`Chain`). A call that waits for another to reopen their client holds nothing.

**MCPClient.** `Placed` counts: connections are numbered without gaps and a call
begins at most one, so there is always a number for the next. `Locked`: who stops
an owner or waits for a connection holds `_reconnect_lock`. `Attended`: while a
connection is being opened the client is not connected, so no disconnect takes
its owner, no other call finds it, and the call it is opened for, the holder of
the lock, still waits. Two openings would have the same waiter, which waits for
one. `Sole`: unless a connect overlapped an earlier owner, one owner at most is
not done, so nobody else writes the attributes it has set.

**Only model-checked.** Every safety invariant and action property of the runs is
proved, with these exceptions. `OnlyDeleteDeadlocks` says besides what is proved
(`MutualWaitsNeedDelete`) that an operation that is not over can go on unless it
waits; that half uses ENABLED, which is out of the prover's reach. So is liveness
(`StartedRunSettles`, `RuntimeReturns`, `RunReturns`, `CallsReturn`,
`ActReturns`), the fairness half of `BehavesAsRuntime` included. That the walks of
`PatternComposition` end is not stated; what they return is. `TraceOrdered`,
`NoRequestAfterAnswer`, `ChainsEnd`, `TerminalHasCompletedAt`,
`StepsDensePerExecution` and `ConfigPinnedForGood` are proved and in no run of the
table.

## Not modelled

- Cleanup of the working memory and of the run's other resources; listing,
  paging and the CRUD of agents.
- What phases compute, providers, prices, credentials, text formats; what usage
  is accounted (a native turn that ends in a tool error is not), and what error
  records contain.
- Sense, Reason and Plan inside: one request each, a step of the runtime.
- reason_act without a Sense phase or an LLM service (its hooks then skip).
- Rows a pattern adds to the session are committed by the next commit of that
  session; the models count them when they are added.
- Of the MCP configuration: the columns `status`, `error_message` and
  `capabilities`, which nothing decides on; name collisions; endpoint discovery;
  what becomes of a revocation. Of the registry: `disconnect_all`,
  `refresh_server`, when the health poll probes (`ProbeFails` is one that fails, at
  any time).
- A pattern registry that changes while an agent is validated or built.
- The components marked `not_modelled` in `PROJECT.json`, each with its reason:
  they are pure functions on data, CRUD, subprocesses or I/O without a protocol.

## What is left to do

1. A shutdown (`disconnect_all`) beside the registry's operations.
2. Working memory: `cleanup` against a late `add_entry`.
