# A TLA+ model of Swink-Agent

Swink-Agent is a Rust workspace for LLM agents: a core crate with the agent loop
(`src/src/` in the paths below, the crate at the repository root) and crates for
providers, memory, credentials, tools, policies, patterns, MCP, RPC, a terminal
interface and evaluation. This directory holds TLA+ modules that model it, the TLC
configurations that check them on small instances, and TLAPS proofs for every
instance. `PROJECT.json` lists the components, runs, mutants, findings, hazards and
theorems, and maps each definition to the source lines it stands for.

1. [The system](#the-system)
2. [The modules](#the-modules)
3. [Runs, bounds, fairness](#runs)
4. [Proofs](#proofs)
5. [Findings](#findings)
6. [What the models showed besides](#what-the-models-showed-besides)
7. [Not modelled](#not-modelled), [plan](#plan)

## The system

The host calls an `Agent` handle. `start_loop` moves the history into a spawned loop
task and returns a stream of events guarded by `LoopGuardStream`. The task takes turns:
it drains its pending messages into the context, transforms and compacts it, calls the
model (`stream_with_retry` over a provider adapter), dispatches the tool calls of the
answer (`execute_tools_concurrently`) and polls the shared queues. The host feeds the
events back to the handle, may queue messages, cancel, pause or drop the stream at any
time. Everything shared is a mutex or an atomic of its own: two queues, two pause
snapshots, the cancellation tokens, `loop_active`, the generation counter, and inside a
batch the result vector and three flags.

Around the loop: adapters turn wire bytes into events; local models are downloaded and
loaded lazily; sessions, checkpoints, artifacts and a search index are files that
several processes may write; credentials are refreshed by one future that all callers
share; MCP connections, an RPC server, an orchestrator and pipelines run agents or tools
as tasks of their own; policies gate every phase; the terminal application runs an agent
and shows it; the evaluation crates run, score, judge, replay and improve agents.

What is hard, and where the properties aim:

* every tool call must be answered exactly once although policies, approvals, panics,
  steering, transfers, cancellation and abandoned tasks all end batches;
* a turn can end in a dozen places, each emitting its closing events by hand;
* messages travel queue → pending → context while the host pauses, resets or drops;
* cancellation is signalled and not joined, so old tasks outlive their run, and futures
  may be dropped at any await, also while they hold a lock or have started a write;
* retries, fallbacks, refreshes and overflow recovery repeat work that must look single;
* files are written in steps by several processes, any of which may die in between;
* streams are cut anywhere: in a character, a tag, a line, an event, a tool call;
* two retry loops, three tokens or several caches are nested, each right on its own.

## The modules

One module models one component; its state variables, `Init`, one action per operation
or step, `Next`. The names are the source's where TLA+ allows it. Variables marked
*history* record the past for properties and guard nothing. A module that studies
several separate things has a variable for the `subject` (or `part`) of a behaviour,
chosen at the start and never changed.

**The core**

| Module | Source | State and actions |
|---|---|---|
| `ToolDispatch` | `loop_/tool_dispatch/` | One batch. The coordinator's program counter follows `execute_tools_concurrently`: `policies`, `gate`, `approval`, `groups`, `group`, `dispatch`, `spawn`, `collect`, a grace period, `done`. One task per call runs beside it (`TaskFail`, `TaskExecute`, `TaskReturn`, `TaskPanic`, `TaskEnd`, `TaskPush`: the accesses of `dispatch_single_tool` to shared state, in code order). The environment cancels, steers or drops the receiver. A result is its kind, arguments are `given` or `edited`, custom strategies are any partition up to `CustomGroups` groups, valid or not. An `Inject` verdict passes a call as `Continue` does. |
| `StreamRetry` | `loop_/stream.rs` | One logical model call: attempts at a model, the models of the fallback chain, deltas collected before they are handed on, classification of errors by structural kind and then by keywords of the text, the cache state across misses. |
| `EventProtocol` | `loop_/event.rs` | The abstract specification of the event stream: in which order `AgentStart`, `TurnStart`, `MessageStart`, `MessageEnd`, `TurnEnd`, `AgentEnd` may come. |
| `AgentLoop` | `loop_/mod.rs`, `turn.rs`, `overflow.rs` | One run. A step is the code between two awaits and emits at most one lifecycle event, so a message, a cancellation or a dropped stream can come between any two. Messages are records with role and identity. The model call and the batch appear by their contracts, which `StreamRetry` and `ToolDispatch` check. Policies return any configured verdict; a transformer drops the oldest messages or nothing. It implements `EventProtocol`: `run`, `turn`, `msg`, `last` record what was emitted, the protocol says what may be. |
| `AgentHandle` | `agent.rs`, `agent/`, `pause_state.rs` | The handle with up to `MaxRuns` loop tasks and stream guards. A step is one access to shared state. `threads` chooses the runtime: on `"one"` thread no actor is interrupted between two awaits (`Mid`, `May`), on `"many"` every access interleaves. `start_loop` and `reset` are single steps because their accesses commute with the others' or can be taken earlier or later. The loop is `AgentLoop` reduced to text turns. |
| `ContextWindow` | `context*.rs`, `memory/src/compaction.rs` | What a turn sends: the sliding window, the versions kept of what it drops, the injected summary, the cache hints whose prefix widens the anchor. |
| `Policies` | `policy.rs`, `src/policies` | The four runners with panics and early stops, every policy with its state, the save tasks of the checkpoint policies. |
| `HostSupport` | `hot_reload.rs`, `checkpointing.rs`, `tui-remote`, `tool_filter.rs` | The watcher of script tools, save and restore of an idle agent, the remote bridge, the glob match. |
| `WorkspaceTools` | `tools/`, `atomic_fs.rs` | Concurrent edits and their lock map, what an edit does to a text, where a path leads, one shell call against its child. |

**Providers and services**

| Module | Source | State and actions |
|---|---|---|
| `WireFraming` | `adapters/src/sse.rs`, `ndjson_lines` | Lines and events of a body under every cut into chunks. |
| `ProviderRequests` | adapters | One request: conversion of the conversation by ten adapters, credentials, the race with cancellation, classification of a failure. |
| `ProviderStreams` | adapters, `stream.rs` | One answer: wire events through the state machine of eight adapters, the block accumulator and `accumulate_message`. |
| `TagParsers` | `local-llm/src/stream.rs` | Thinking tags, tagged and bare calls over every split of a text into tokens. |
| `LocalModel` | `local-llm` | The lazy loader of several processes over one Hub cache whose main revision moves: locks, resumed downloads, writes that outlive a dropped download, rename, pointers, crashes. |
| `Credentials` | `auth/src/resolver.rs`, `token_source.rs` | Callers of one key, the shared refresh with its generations; a future runs only while somebody polls it. |
| `SignIn` | `auth/src` | Device and browser flows, the chunked keychain store of several hosts. |
| `SessionStore`, `SessionLog` | `memory/src/jsonl.rs` | What the trait promises, and the file: in-place appends between begin and commit lines, rewrites by rename, crashes between any two writes. `SessionLog` implements `SessionStore` (`AtomicWrites`). |
| `SessionSearch` | `memory/src/search`, `checkpoint_store.rs`, `migrate.rs` | The index beside the files, retention of checkpoints, migration. |
| `ArtifactVersions` | `artifacts/src/fs_store.rs` | One artifact: two locks, blocking writes that go on when their save is dropped, rollback, crashes. |
| `Orchestrator` | `orchestrator.rs` | One supervised agent: bounded channel, replies, restarts, stop, panic. |
| `Pipelines` | `patterns/src/pipeline` | Sequences, loops and parallel branches under four merge strategies. |
| `McpManager` | `mcp/src` | Rounds of `connect_all`, each connection's set-up, monitor, shutdown and drops. A connection is `<<server, round>>`. |
| `AgentRpc` | `rpc/src` | One connection: the peers' readers and writers over bounded channels, turns, approvals, controls, disconnection. |
| `WebTools` | `plugins/web` | Domain filter, rate limit, redirects, the browser process shared by all calls. |
| `TuiApp`, `TuiWidgets` | `tui/src` | The application over an in-process agent; its stateful widgets. |

**Evaluation**

| Module | Source | State and actions |
|---|---|---|
| `EvalRun` | `eval/src/runner.rs` | Cases under a semaphore, the invocation cache, samples, cancellation. |
| `EvalScoring` | `eval/src` evaluators | Recording of the trajectory, matching, aggregation. |
| `Judges` | `eval-judges/src`, `judge.rs` | Nine clients' reading of replies, two retry loops, three tokens, the verdict cache of several processes. |
| `TraceIngest` | `eval/src/trace` | Five stores that are read while the agent writes, three attribute conventions, extractors, calendar arithmetic. |
| `EvalSources` | `simulation/`, `generation/` | Simulated dialogues and tools, generated cases, attachments. |
| `EvalResults` | sandbox, `training.rs`, `langsmith.rs`, `gate.rs`, `store.rs` | The sandboxed child, exports, the gate and the store. |
| `Evolution` | `evolve` | Cycles of baseline, mutation, evaluation, acceptance and persistence. |

The `MC*` modules put components that do not share state side by side, one per
behaviour: `part` chooses it, the others stay in an initial state. Interaction between
components is modelled where state is shared: the loop and the event stream
(`AgentLoop`, `EventProtocol`), the handle and its loop tasks (`AgentHandle`), the
session log, its index and the store (`SessionLog`, `SessionStore`), a client and a
server (`AgentRpc`), a resolver and the host's writes (`Credentials`).

## Runs

| Run | Properties | What it shows |
|---|---|---|
| `tool_batch` | `ResultParity`, `ExecutionCleared`, `BatchOrdered` (`CanonicalOrder`, `GroupBarrier`), `InterruptEndsBatch` | Three calls, one of an unknown tool, one that needs approval, four execution policies, every disturbance. |
| `agent_run` | `EventOrder` (refinement), `NothingOwed` (`CallsAnswered`, `NothingLeftPending`), `MessagesKept` (`Conserved`, `PauseSees`), `RunEnds` | A whole run with a tool turn of up to two calls, a queued message, all policies, a transformer, nudges, overflow recovery. |
| `agent_host` | `PauseExact`, `ActiveExact`, `NoLostWakeup`, `HistoryKept` | Two runs on one thread and one on several, three messages, one reset. |
| `conversation` | `LifecycleClosed`, `MissRewrites`, `ModelCallEnds`, `EventsDelivered`, `CallsResolve` | A model call with two fallbacks and two attempts each under every class of error; an RPC connection with two turns that may break anywhere. |
| `tui` | `TextsShownOnce`, `TurnSettles` | Two runs, two texts, one command, an event channel of one place. |
| `workflows` | `OutcomesEarned` (`OutcomeFits`, `PassEarned`), `ShutdownComplete`, `WorkflowsEnd` | Everything that must end: a cancelled or hanging batch, requests to a supervised agent, pipelines, MCP connections, eval sets. |
| `services` | `StreamsSound`, `PresentedOnce`, `ContextKept`, `VersionsImmutable`, `BlobsWhole`, `AtomicWrites`, `NoLostUpdate` | Eight adapters' streams, tag parsers, shared refresh, compaction, artifacts, the model cache, the session log. |
| `wire` | `TrafficSound` (`ChunksHidden`, `RequestFits`), `WebCallsKept`, `SecretsWhole` | Bodies cut anywhere, requests of ten adapters, two web calls, three hosts on one keychain. |
| `workspace` | `FilesKept`, `GuardrailsHold`, `RollingForward`, `HelpersExact` | Three file calls, index, checkpoints, migration, four policy chains over two runs, the host's helpers, the widgets. |
| `evaluation` | `ChangesEarned`, `CallsBounded`, `ScoresHonest`, `HarnessHonest` | Two cycles of evolution, nine judge clients, scores, six trace stores, simulations, exports and the gate. |
| `agent_duplicate_results`, `session_torn` | `AnsweredOnce`, `OnlyCommitted` | Findings, below. |

Each property of a passing run has a mutant in `PROJECT.json`: a definition changed as a
plausible bug would change it, under which TLC reports the property violated.

**Bounds, and why they are enough.** Two calls give every race between a task and the
coordinator or between two tasks; the third allows a group before, at and after an
interrupt. Two fallbacks distinguish the first, a middle and the last model, two attempts
a retry from exhaustion, one delta handed-on from discarded text. One tool turn, one
injected and one queued message reach every continuation of the inner and the outer
loop. Two runs are what a stale guard or task needs; on several threads one run bounds
the state space, and the races between pause, drop, waiter and loop task all occur with
it. Two processes or clients and one crash give each pair of steps that can be torn
apart; a third resolver, call or host is there where a third party matters (a caller who
joins a refresh that two others left, a keychain entry replaced twice). Limits of the code
(channel capacity, retries, cache capacity, rate window, versions kept) are set to 1, 2
or 3 so that they are reached: a search returns one hit (`HitLimit`) of the three
documents it asks the index for (`FetchFloor`) among four, a trace store one span of two
(`HitsLimit`), a run of three turns uses more than the extreme a probe asks about
(`ExtremeUse`), and a shell's output limit (`MaxOutput`) is passed by raw bytes and, below
it, by bytes that decoding makes longer. Chunks, tokens and wire events are enumerated completely
for bodies of a few symbols in which each delimiter is as long as it takes to be cut and
to be confused with another. What a bound excludes is said at its constant.

Some constants leave out a case in which the code does break a promise, so that the rest
can be checked; each is named in [What the models showed besides](#what-the-models-showed-besides):
`Anchor = 1`, `Tearing = FALSE`, `Overlap = FALSE`, `Thoughts = {0, 1}`, `KeyWidths = {1}`.
The artifact store and the model cache leave out no case: dropped saves (`MaxAbandons = 2`),
dropped downloads (`MaxOrphans = 1`) and a moving main (`MaxPushes = 1`) occur, and a
history variable (`exposed`, `spoiled`) collects exactly the versions for which the code
then gives up its promise; the property is about all the others.

**Fairness.** Weak fairness of the program's own tasks (the coordinator, `Loop`, peer
readers and writers, monitors, branches, the runner), which tokio gives a ready task. It
is never assumed of the host, the provider, tools, servers or the approver, except where
a property states it: `BatchEnds` (tools return, the approver answers), `CallEnds`
(provider streams end), `RequestsResolved` and `SetReturns` (prompts return unless they
hang for good). In `AgentLoop` the model call and the batch are steps of the loop, so
`RunEnds` says that the loop ends if its calls do; likewise `WF(LoopSteps)` of `TuiApp`
contains the end of the provider's answer, so `TurnSettles` says that the screen settles
if the answer ends. In the `MC*` modules each fairness
condition is that of the component's own specification, for the behaviours of its
`part`: an action of a part that is not running is never enabled.

`CHECK_DEADLOCK FALSE` is used where a batch, a call, a flow or a set ends and nothing
follows. `AgentLoop` and `AgentHandle` stutter explicitly when finished, and deadlock is
checked there.

## Proofs

The theorems hold for every value of the constants that the modules' named assumptions allow
(`BatchAssumption`, `CallAssumption`, `LoopAssumption`, `HandleAssumption`, `McpAssumption`,
`PipelinesAssumption`, `EvalAssumption`, `JudgeAssumption`, `CredentialsAssumption`,
`ArtifactAssumption`, `LocalModelAssumption`, `RpcAssumption`, `PolicyAssumption`: ranges of
numbers, the values of an enumeration, that a chain has one checkpoint policy of a kind, that
the host's message names are not the loop's own, and that the value for "nobody" is nobody's
name). TLC evaluates these assumptions in the runs; no theorem has a hypothesis besides them.
Each theorem is about the specification the runs check, without its fairness. Every
strengthening was checked by TLC on the run of its module before it was proved.

**`ToolDispatchProofs`**, for any number of calls, registered and gated tools, approval
modes, policies and disturbances.

* `TypeCorrect`. Needs that groups are numbered within range (`GroupsType`, from
  `CallsBound`: a set of calls has at most `N` members).
* `Parity`: `ResultParity`. Parity says something only about the end; `Accounted` says at
  every point who still answers a call: it is settled, or passed the gates and waits to be
  grouped, or is in a join handle or in a group still to be run, and a finished task has
  pushed its result. `GroupsCover` shows that every accepted partition gives every
  prepared call a group in range; the exits fill in what has no result.
* `DispatchInvariant` proves `DispatchSafe`, from which follow
  `OnlyClearedExecute` (`ExecutionCleared`: the walk clears calls in order and tasks are
  spawned from the cleared ones with the arguments they were cleared with,
  `GatesCleared`, `Tracked`), `BatchInOrder` (`BatchOrdered`: `GroupsInOrder` says that
  calls before the current group are settled and joined; `EventsInOrder` describes a
  call's log by the phase it is in, `LateStarts` that only the task past its check
  starts after a cancellation) and `InterruptEnds` (the action property
  `InterruptEndsBatch`: whoever raised a flag is still to be joined, and joining reads
  it, `FlagsHeld`).

**`ConversationProofs`**, for any retry policy, fallback chain, provider errors and deltas; for
any number of turns, events and approvals and any capacity of the channels.

* `CallTypeCorrect`, with `Limits`: between attempts the policy still has one to give.
* `MissesRewritten`: `MissRewrites`, from `CacheSafe`: hinted messages belong to a
  recorded prefix (`HintRecorded`), a miss makes it the prefix being written
  (`MissWritten`) or, as a final answer, forgets it (`MissForgotten`). The case that
  matters is a miss at a model followed by another model: there the cache state has to
  have been rewritten before the fallback asks with it.
* `LifecycleIsClosed`: `LifecycleClosed`, from `Delivery`: the start is first and sent
  before the first attempt, deltas are those of the attempt that is handed on, an end is
  last, and an attempt that is handed on did not end in an overflow.
* `RpcTypeCorrect`, and `AllDelivered` (`EventsDelivered`) from `RpcSafe`, which counts messages.
  `Single`: what the server may still make of a turn (its prompt, not sent or under way, the
  session that runs it, its response) exists once, so no turn runs twice or is answered
  while it runs. `Behind`: no event follows its turn's response in the socket, so when
  the response has overtaken the events, those are in the client's channel, which
  `drain_ready_incoming` empties. `Counted`: events heard and under way are those emitted,
  until the session or the client is gone. `Before` and `AllHeard`: in a turn before which none
  was given up nothing is under way of an earlier one, so each event the client takes is
  the turn's own (`HandleKeeps`). `Ready` and `Flagged` close the gap between turns: a turn that
  ends without result or failure leaves a marked connection, on which the next call fails.
* `ConversationCorrect`: the invariants of both, of the composition `ConversationSpec`.

**`AgentLoopProofs`**, for any messages, calls, policies, bounds and polling modes.

* `LoopTypeCorrect`.
* `EventsInOrder`: `Spec => EventOrder`, the refinement of `EventProtocol`: initial states
  map to initial states and each step to a protocol step or a stutter. `Ordered` tells
  for each place of the loop how the stream stands (`StreamFits`), that a recovery does
  not cross a turn (`FirstAttempt`), and that a scripted ending fits it (`EndingFits`).
  An ending is described from its last event (`Closes`), because every exit emits a tail
  of the same five events.
* `MessagesStay`: `MessagesKept`. `Conserved` says that each queued message is in exactly
  one place; `Kept` (`Placed`, `Apart`, `OncePlaced`) says the same by set inclusions and
  adds that contexts and pending lists hold it once. By the lemma `Moves` every step
  delivers the pending messages to the context, takes messages out of a queue, or is the
  host queueing one, so the preservation is proved three times and not forty.
  `Published` makes `PauseSees` inductive: the snapshot of the pending list follows it
  exactly, at every step.
* `NothingStaysOwed`: `NothingOwed`. For `CallsAnswered`, `CallsFollowed`: between model
  calls the context is settled, and while a batch runs it owes at most calls of its last
  assistant message, each of which the batch or the results waiting to be committed
  cover (`CallsOpen`, `CallsCovered`), with results of this turn (`OfThisTurn`). It rests
  on `FromUsers` (pending messages are users') and on lemmas about joined sequences: a
  result stays where it is when a context grows (`ResultKept`, `SettledJoined`), results
  that cover what is owed settle it (`OwedSettled`), and so does dropping a prefix
  (`SettledSuffix`, the context transformer). For `NothingLeftPending`, `LeavesNothing`:
  a run that ends by itself passed the outer loop, which is reached with nothing pending.

**`AgentHandleProofs`**, for any messages and numbers of runs and resets.

* `AgentTypeCorrect`.
* `RunningExactly`: `ActiveExact`; `WakeupsKept`: `NoLostWakeup`; `HistoryIsKept`: the
  action property `HistoryKept`. All from `RunsTracked` (runs that have not begun left
  no trace; generations are distinct; a drop that passed its check on one thread is over
  before another generation begins; a running agent holds the stream of its last run;
  `AgentEnd` is the last event of a task that has returned) and `Followed` (what the
  current run may still deliver keeps the agent running, and contains its history; a
  waiter that looked has something to wait for). The induction is over all threads at
  once: the conjuncts that hold on one thread only say so.
* `PauseIsExact`: `PauseExact`, from `Counted`, which tells how often each message is in
  what a pause would take. With a run, `Load` adds up its context (`Work`: the task's, or,
  once the task has returned, the one in its last event, by `Ending`), its pending and
  polled messages and the queues; during a pause `Tally` follows the parts that have
  moved to the checkpoint already. `Tallied` says that no message is there twice, one
  that is owed is, and one not sent yet is not. The parts that make it inductive: only
  the last run's task may be going (`OneAlive`), with pending and polled messages only at
  the steps between which it holds them (`Shapes`); at its awaits the context snapshot
  has the messages of its context (`Snapshots`), which is why a pause may take the
  snapshot for the context; the observable history has no message that the run lacks
  (`Behind`), which is why a dropped stream can lose messages but not double one; and
  the task of an ended run finds nothing in the queues (`Zombies`). The lemmas on
  `Occurs` give the counts of a concatenation, an `Append` and a drained queue by
  bijections of index sets, without an induction. The invariant was model-checked on
  `agent_host` before it was proved.

**`WorkflowProofs`**, for any servers and rounds, plans and branches, cases and samples, retry
policies and batches.

* `McpTypeCorrect`, and `ShutdownsComplete` (`ShutdownComplete`) from `ShutdownSafe`, which says
  who holds the handle, the service and the duty to report its end at each point of set-up,
  monitor and shutdown.
* `PipelineTypeCorrect`, and `MergesFit` (`OutcomeFits`) from `PipelineSafe`: a branch sends one
  result, when it ends (`SentOnce`), and a merge takes it once (`TakenOnce`); while Concat and
  Custom wait, each ended branch is in the channel or taken (`AllHeard`), so an empty channel
  with every branch ended means that all were taken; a First or Fastest merge still wants more
  than it has (`Wanting`). `ByIndexSorts` is about the sort by declaration: stated by rank, it
  returns the same branches, each once, in rising order.
* `EvalTypeCorrect`, and `PassesEarned` (`PassEarned`) from `SettledOnly`: only a settled case
  has a result, so no other step can disturb a pass, and the step that scores a case has all its
  samples.
* `OutcomesAreEarned`: `OutcomesEarned`, of the composition `WorkflowsSpec`. Its steps are steps
  or stutters of each component, so both invariants carry over.
* `JudgeTypeCorrect`, and `JudgeCallsBounded` (`CallsBounded`) from `JudgeSafe`: what was sent is
  at most what the calls before the current one could send plus the attempts of this one
  (`RequestsSpent`), and each loop counts before it sends (`CallsSpent`, `AttemptsSpent`).

**`ServiceProofs`**, for three services of the run of that name and the checkpoint policies,
any numbers of callers and any bounds.

* `CredentialsTypeCorrect`, and `TokensPresentedOnce` (`PresentedOnce`) from `SingleFlight`: a
  future that is running is the one in the slot, a slot is released only of a future that
  is done, and neither the store nor a running future holds a spent token.
* `ArtifactTypeCorrect`, and `VersionsStay` (`VersionsImmutable`) from `VersionsSafe`. Saves
  may be dropped while their blocking write is out, so writes are told apart by owner: a
  tool without the locks is in no call (`Held`), saves are told apart by number
  (`SavesNumbered`), and a write is its holder's own, which waits for it, or that of a
  dropped save (`Owned`). A stray content write reaches only a version in `exposed`
  (`StraysExposed`), and a stray record is the record as it is or one version longer, of
  the dropped save itself (`StrayRecord`); once a delete has overtaken such a write,
  `exposed` is `Everything` and nothing more is claimed. Otherwise
  what a save has read is still what is there (`StillSo`), its content precedes its record
  (`ContentThere`), nothing is promised while the artifact is deleted (`Deleting`), and what
  was returned to a caller is recorded and stored (`Acked`).
* `LocalModelTypeCorrect`, and `BlobsStayWhole` (`BlobsWhole`) from `DownloadSafe`. Main may move
  at any time and dropped downloads leave writes behind. A task beyond the loader's lock is
  the one in the guard of its process (`Attempting`), one that downloads has the file lock
  (`Locked`), and the etag it has is that of the commit it will point from, unless that is spoiled
  (`OnCourse`); for a version that is not spoiled, a partial file is a beginning of it
  (`PartsWhole`), each outstanding write is that of the download in progress (`WritesOwned`),
  the partial, the write that is out and the rest of the body together are the file
  (`InProgress`), and a pointer leads to a blob (`PointersLead`). `Starts`, `Resumes`,
  `ReadsOn`, `FileLands`, `Renames` and `Completes` follow a download from its first block to
  its last; `TaskMoves`, `TaskEnds` and `StaysThere` say that the other steps disturb none
  of it.
* `CheckpointMovesForward` (`RollingForward`) from `SavesInOrder`: each save under the rolling
  id waits for the last one spawned before it, so one that is done has only done ones
  before it (`Chained`), and what the store holds is one that is done. A save that comes
  later in the list is of a later turn; two rolling policies under one id would each have
  a list of their own, which `PolicyAssumption` excludes.

**What stays with TLC.** Liveness under fairness (`RunEnds`, `ModelCallEnds`,
`CallsResolve`, `TurnSettles`, `WorkflowsEnd`), which the prover does not handle. What
recursive definitions compute (`ChunksHidden`, the scan of a session file in
`AtomicWrites`, `TokenBoundariesHidden`, compaction, scoring, diffs): the induction
theorems cannot be instantiated by the installed provers. The
remaining invariants of the satellites (`NoLostUpdate`, `TextsShownOnce`, and the others of
`wire`, `workspace` and `evaluation`) are model-checked.

## Findings

* `agent_duplicate_results`: a tool call cut short by the token limit gets its error
  result twice in the context of the next request (`loop_/turn.rs:1117`).
* `session_torn`: an append cut inside a line leaves a fragment to which the begin marker
  of the next append is glued; when that append is cut too, a load returns its uncommitted
  records (`memory/src/jsonl.rs:592`).

## What the models showed besides

Behaviour met while modelling that a reader of the code may not expect. Where a property
would fail because of it, the property or a constant leaves the case out, and this is
the place that says so.

**Core.** On several threads `pause()` can miss a message the loop moves between its four
reads, a guard that has compared generations can be overtaken by `reset` and a new
prompt, and after `reset` the old task still polls the shared queues until it sees its
cancellation: `AgentHandle` states three properties for one thread only, or outside
`overlap`. `handle_stream_event` writes back a completed turn's answer but not the
steering message it answers, so a stream dropped before `AgentEnd` leaves a history without
it. Of two transfers in one batch the first to return wins, and a steering interrupt
drops a captured transfer (specs/040 says otherwise). A network error is retried but
never falls back, because eligibility classifies the formatted text again. The comment at
`turn.rs:219-222` says the state is reset on a cache write, the code does not. With
`Anchor >= 2` the summarizing transformer violates `PairsKept`
(`memory/src/compaction.rs:116` against `context.rs:222`, specs/006 spec.md:145), hence
`Anchor = 1`; the closure form never reports a compaction; the versioning transformer hides
the window from the publication of the prefix; with caching on, a written turn's prefix
becomes the anchor, so compaction can drop the newest results.

**Policies and host.** `PiiRedactor` offers a text-only message, so in a turn with tool calls
its replacement is ignored. `CheckpointPolicy` repeats its per-turn ids across runs, and its
saves are unordered. `LoopDetection` keeps its history across runs. In the sandbox a path that
does not exist and ends in ".." is refused; the `pop` branch is dead. Events during the
watcher's debounce are dropped (`hot_reload.rs:389` against
specs/007-tool-system-extensions/spec.md:149), and a tool displaced by a file of the same name
does not come back. A file that is moved or renamed away gives a notice of modification and not
of removal: reading it fails and its tool stays (`hot_reload.rs:397-421` against spec.md:151 and
279), so `WatcherExact` leaves out the tools of such files. Restoring without a registered
stream keeps the old one; messages restored without a registry lose their custom ones. Controls
of the remote bridge queue behind a running turn, prompts queued when the connection is lost are
dropped, a turn that fails after `AgentEnd` is ended twice.

**Providers.** Google: a call with an empty name and MALFORMED_FUNCTION_CALL give events after
the terminal error; calls without an id collapse. Responses: arguments only in
`output_item.done` of an added call are lost. Bedrock: deltas without `contentBlockStart` are
dropped. Anthropic and Bedrock are assumed to send one block at a time and nothing after the
finish reason. Bare calls depend on token boundaries, which is why `TokenBoundariesHidden` asks
less of them. An opening marker of a call that ends the text (`call:`, and Gemma's) is swallowed
(`local-llm/src/stream.rs:582-585`, `800-803`), although `stream_tests.rs:398` is named for
incomplete calls being flushed as text. SSE data before the event line of its block gets no
name; a partial last line is flushed as data when the transport breaks. Bedrock and Google send
each result in a user message of its own; Ollama's calls and results go without ids.

**Local models.** A blob can hold a mixture, and a commit lead to another version's file, in
three ways, which `spoiled` records: main moves between the HEAD that names the etag and
the GET whose body is written under it; a download dropped in the middle leaves a write in
the blocking pool, which lands in the partial file of its successor or in the file already
renamed (`download.rs:269-270`, `stream.rs:1204`); and after a 304 the ref is read again
(`download.rs:147-176`), when another process may have moved it to the commit of another
etag. The length is not compared with `total_bytes` (`download.rs:315`).
`finalize` is not serialized when the blob exists (`download.rs:211-212`). specs/022 says there
is no file locking; the code locks. The write lock is held for a whole load. An unload
between `ensure_ready` and the runner gives `NotReady`.

**Memory and artifacts.** `Tearing = TRUE` is the finding above. A session deleted and created
anew may repeat a sequence number; a torn patch of the head line makes it unreadable; a load
without a registry followed by a save drops custom records. With `Overlap = TRUE` (an index
commit of another process in between) searches miss entries; a crash between removing a file and
its index entries leaves ghost hits. The index matches any term, the linear scan needs all;
filters apply after `max(4 * limit, 200)` hits, so a filtered search of more matching documents
can miss some (`search/index.rs:262`). A checkpoint id saved again while an overlapping prune
has it marked is deleted. `run_migrations` does not end with a migrator whose target is not
above its source. A dropped save's blocking write can land after the next save took the same
number and overwrite its content (`fs_store.rs:589` against `artifacts/README.md:37`), which is
what `exposed` records; its record (`fs_store.rs:613`) does harm only when a delete has come in
between. A crash between content and metadata makes an artifact unusable until it is deleted;
pruning nested names can remove the directory of a concurrent save.

**Credentials and web.** The deduplication promised at `resolver.rs:345-347` does not hold for
callers that had read the store earlier. A silent connection holds the loopback listener until
its timeout, its port is fixed, and a callback with another host's state ends the sign-in. A
reader whose manifest is replaced gets `Malformed`; orphan chunks can stay. A dropped web call
leaves its request in the browser process; the id check makes the next reader replace the
process. What the browser is redirected to is stopped on its way by the filtering proxy when
private addresses are blocked, else only the URL it ends at is checked. A bare paste, or any
pasted text without `code=`, is taken for the code without a look at the state
(`loopback.rs:243-255`): the sign-in property asks for the state only of the other ways.
Screenshot and extract are one "browse" here.

**Tools.** `write_file` takes no lock and is not atomic: a write between an edit's read and its
rename is lost. A grandchild that holds a shell's pipes keeps the call waiting, a dropped
call leaves its child running, an edit already in the blocking pool lands although cancelled.
Output is decoded before it is measured (`bash.rs:217-221`), and an invalid byte becomes a
character of three, so output within the limit can be truncated.

**Tasks.** An orchestrated agent's status stays `Running` after a panic. `Fastest { n: 0 }`
returns one result; a cancellation under `First` or `Fastest` may return an earlier failure
or success (specs/039 spec.md:40); prompts of sequences, loops and aggregators are not raced
with the token; an error of `Concat` or `Custom` leaves the other branches running. An MCP crash
that races a shutdown may report `Disconnected` twice or before `Connected`; the "reconnect on
failure" of `mcp/README.md:11` never happens; dropping a connection reports nothing;
`manager.rs:241-244` overlooks duplicates within one server.

**RPC and terminal.** More than 64 unread client messages can block both sides. A second prompt in
flight gets METHOD_NOT_FOUND; `compact_context` is not raced; a panic in `run_session`
leaves `session_active` set; events of an abandoned turn go to the next (`client.rs:104`); a
system prompt set in plan mode is lost on leaving it; a signal between two iterations of the
server's select is lost. A prompt typed after the loop ended but before `AgentEnd` was
handled is steered into a finished loop (specs/026 FR-016). A stale `AgentEnd` after an abort and a
new prompt sets `Idle`; handled after a reset it restores the old history
(`state_updates.rs:99`/`129`). A reset leaves pending approvals and hunk reviews; a review can
outlive its request; after an abort a hunk rejection starts a run; `plan_session_start` ignores
trimming and `#clear`; replacing the agent in plan mode leaves it all tools. The side-by-side
diff panics from width 160 on when lines are added or removed at the end (`diff.rs:419`).
`message_fingerprint` leaves out thinking text (`Thoughts = {0, 1, 2}` violates the view). The
wizard counts its cursor in characters and indexes bytes (`KeyWidths` with 2). A delta that
starts with the text so far replaces it; an update after a tool's end reopens it for good;
`scroll_up` in a conversation that fits turns following off.

**Evaluation.** The placeholder invocation of a cancelled case is cached (`runner.rs:493-499`);
a cancellation during the last of several samples can average to a pass (specs/043 spec.md:57);
evaluators without a judge are assumed not to hang. Judges: the two loops' attempts multiply, a
body that breaks off is `Malformed` and not retried, `JudgeError::Timeout` never occurs, the
metric ignores the verdict's pass flag, dispatch does not use `JudgeCache`, which loses recency
across restarts and whose flush of an empty cache removes other processes' files; the semantic
evaluators of tool selection and parameters call the client outside the scoped path that
`CallsBounded` is about. Scoring: in any-order mode one actual call can satisfy several expected
ones, exact mode fails for empty against empty (specs/023 spec.md:190), duplicate ids in one
message would record wrong calls. Traces: the in-memory exporter never shows an open span; an
unreadable end time counts as 1 ms or fails the body, by store; OTLP spans with two session
attributes belong to both; the OpenSearch limit truncates a session silently
(`opensearch.rs:172`, `209-232`), which `provider.rs:132-136` forbids: of a session beyond the
limit `SessionWhole` says that one full page comes back; `langfuse.*` attributes are not read;
the truncation at byte 512 can split a character. Simulations: the goal flag at the head of the
loop is dead code, the actor's `max_turns` unused, awaits are not raced with cancellation,
simulated results of a prompt all go to its last turn, and a simulated call the agent's own tool
answered too has two results there (`orchestrator.rs:121-147`, `trajectory.rs:97-103`,
`151-155`). Generation: equal slugs give duplicate ids, which `validate_eval_set` refuses.
Sandbox: the parent may kill a reaped pid (`posix.rs:251`), a child that fills a pipe blocks
until the wall clock, stderr text decides the classification. DPO pairs can have equal scores; a
LangSmith error carries no count, so a rerun pushes duplicates; YAML shadows saved JSON; a
failed run leaves the old result file for the gate, which passes zero cases. Evolution:
`baseline()` always uses the factory, candidates are deduplicated by text across components,
overrides of prompt sections are never diagnosed.

## Not modelled

The components with status `not_modelled` or `partly` in `PROJECT.json` say what is left out and
why. In short: types, builders, configuration, catalog, pricing, metrics, telemetry and macros
are data and formatting; rendering and layout draw what the modelled state says; prompts, schemas
and report texts are wording; llama.cpp, HTTP, the MCP transport and other libraries are
outside the code. The transfer chain, the session-state delta, the context mirror, sub-agents
and structured output belong to the core and wait in the plan. The contents of messages are
abstracted to what the properties tell apart, custom messages that cannot be cloned and events
read from a stream kept across `reset()` are left out, and messages queued between `pause()` and
`resume()` are discarded by the code on purpose. A panic is modelled in tool tasks, approval
callbacks, policies, evaluators, branches and supervised agents only.

## Plan

Proofs next: `TextsShownOnce` of `TuiApp`; then `SessionLog` against `SessionStore` step by
step, as far as its scan of a file can be replaced by facts about what each write does to it.
Models after that: the transfer chain, the session-state delta and the context mirror.
