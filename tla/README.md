# A verification project for Leeway

Leeway runs *workflows*: directed graphs whose nodes are runs of an LLM agent
loop. The program walks the graph; inside a node the model decides what to do.
This directory holds TLA+ modules translated from the Python source, the TLC
configurations that check them on small instances, and TLAPS proofs of their
most important properties for every value of the constants.

`PROJECT.json` lists components, runs, mutants (plausible bugs that make each
property fail), the source lines of every definition, findings, hazards and
theorems. Source paths below are relative to `src/src/leeway/`.

    tlc -workers 2 -config MCAgentLoop.cfg MCAgentLoop     a run
    tlapm AgentLoopProofs.tla                              the proofs of a module

## 1. The system

| Part | Source | State it keeps | Operations |
|---|---|---|---|
| Workflow definition | `workflow/types.py`, `parser.py` | nodes, edges, conditions; immutable once validated | validate, terminal nodes, signal decisions |
| Transition evaluation | `workflow/evaluator.py` | none | evaluate a condition; pick the edge |
| Workflow engine | `workflow/engine.py`, `audit.py` | current node, previous result, carried context, audit trail | execute; enter, complete or abort a node |
| Parallel node | `workflow/engine.py:498-706`, `parallel.py` | a task per branch, the results so far | trigger, gate, spawn, wait with a timeout, cancel, collect |
| HITL broker | `workflow/hitl.py` | one `asyncio.Lock` and its queue | ask on behalf of a branch; ask for an approval |
| Signal tool | `workflow/signal_tool.py` | the captured decision | validate and capture |
| Agent loop | `engine/query.py` | message list, turn count, calls in flight | warn, compact, ask the model, run the calls |
| Compaction | `services/compact/` | failures in a row | clear old results; summarise |
| Permissions | `permissions/checker.py` | rules, mode | evaluate a call |
| Session | `engine/query_engine.py`, `ui/runtime.py` | conversation history | submit, clear, load, `/compact` |
| Backend host | `ui/backend_host.py`, `ui/protocol.py` | request queue, futures of open prompts, the running line | serve, answer, cancel, shut down |
| Terminal frontend | `frontend/terminal/src` | one modal, a busy flag, transcript | submit, answer, escape |
| Background tasks | `tasks/manager.py`, `tasks/store.py` | processes, monitors, persisted records | create, monitor, stop |
| Cron | `cron/scheduler.py`, `store.py`, `daemon.py` | jobs on disk, a pid file | tick, fire, save; start and stop the daemon |
| Triggers | `triggers/server.py`, `registry.py` | trigger records, HTTP server | fire a trigger |
| API clients | `api/client.py`, `openai_client.py` | none between calls | stream with retries |
| Runtime | `ui/runtime.py`, `ui/app.py`, `tools/workflow_tool.py` | registries, hooks, the permission mode in three places | build; run a line; start a workflow; change the mode |
| Scope of a node | `workflow/engine.py:349-448`, `hooks/`, `mcp/` | a registry, skills and hooks per node | build the context of a node |
| Graph rendering | `workflow/graph.py` | layers and places of one drawing | search, sort, place |
| Tools, sub-agents | `tools/`, `agents/` | none | call; start a task |
| Skills, memory, plugins, prompts, configuration, state, workflow registry | the other packages | files and texts | load and format |

How they interact. `WorkflowEngine.execute` awaits one node at a time. A
sequential node is one `run_query` under a fresh signal tool; the engine counts
its events. A parallel node creates one asyncio task per branch, each of which
runs `run_query` itself; their questions to the user meet in the broker's lock,
their permission prompts go past it. `run_query` calls tools concurrently with
`asyncio.gather` and compacts its history before every request. Everything
awaits the backend host in the end, which holds a future per open prompt and
can cancel the task a line runs in. Scheduler daemon, background tasks and
session share JSON files without locks. Sub-agents, jobs and triggers start
background tasks, whose processes are Leeway again, in print mode.

What is hard in it:

- *interleaving*: concurrent calls of one answer, concurrent branches, prompts
  that are answered while something else times out;
- *failure*: an exception in one of several concurrent calls, a cancellation
  that reaches a coroutine and not the tasks it waits for, a lock held by what
  is cancelled;
- *ordering and staleness*: results of an earlier node read by a later one, a
  history that is cut while pairs of messages must stay together, snapshots of
  files saved after an `await`;
- *limits*: turn budgets, a timeout, failures in a row.

What makes each part correct: the validator accepts exactly the connected
graphs whose parallel nodes have branches; the engine follows declared edges only and its trail explains itself;
nothing of one node leaks into another; requests are well formed; nothing runs
without consent; loops end; one question is before the user at a time; a node
always returns, with a true report. Around the workflows: a line ends before the
next one starts and no answer reaches a prompt it was not given to; a job fires
once for each time it is due; a record says what became of its process; a
request yields what its last attempt sent; no way to reach a tool leads around
the permissions or out of the scope of a node; what is drawn of a graph is all of
it.

## 2. The modules

| Module | Models | Over |
|---|---|---|
| `GraphValidation` | `WorkflowDefinition._validate_graph` | |
| `GraphLayout` | `render_workflow_graph`: layers, size, places | `GraphValidation` |
| `Transitions` | conditions, edges, `evaluate_transitions` in closed form | |
| `NodeRun` | the promise of one agent loop to its node (abstract) | |
| `GraphWalk` | the promise of a workflow to its user (abstract) | |
| `WorkflowEngine` | `WorkflowEngine.execute` | `NodeRun`, `Transitions`; implements `GraphWalk` |
| `History` | messages, pairing, what a compaction keeps | |
| `AgentLoop` | `run_query`, `_execute_tool_call`, compaction, signal tool | `History`; implements `NodeRun` |
| `Session` | `QueryEngine`, `/clear` and `/compact`, the list `run_query` is handed | `History` |
| `ForkJoin` | the promise of a parallel node (abstract) | |
| `ParallelNode` | `_execute_parallel_node`, `_execute_branch`, `HitlBroker` | implements `ForkJoin` |
| `NodeScope` | `_build_node_context`, `PermissionChecker.evaluate`, `HookRegistry.get_matching` | |
| `Runtime` | `build_runtime`, `handle_line`, `WorkflowTool`, the permission mode | `NodeScope` |
| `TerminalSession` | `ReactBackendHost`, the frontend's `useBackendSession` and `App` | |
| `ApiStream` | `stream_message` and `_stream_once` of both API clients | |
| `TaskManager` | `BackgroundTaskManager` and the processes it starts | |
| `TriggerServer` | `TriggerServer`, `TriggerRegistry`, the tools `remote_trigger` and `task_create` | `TaskManager` |
| `CronScheduler` | `CronScheduler`, `CronStore`, the schedulers' lives, the tools `cron_*` | |
| `SchedulerDaemon` | `daemon.py`: schedulers, `stop` and `status` around the pid file | |

`MC*` modules give constants their values; `MCScheduler` puts the instances of
`CronScheduler` and `SchedulerDaemon` side by side in one run; `*Proofs` modules hold the theorems.
Definitions whose comment begins with *Variant* are the mutated forms that
`PROJECT.json` substitutes for the definition that follows them.

The composition is by promise: `WorkflowEngine` extends `NodeRun` and walks its
graph over it, and `AgentLoop` is shown to implement `NodeRun`, by TLC and by
proof. So what holds of the engine over every `NodeRun` holds over the real
loop. A parallel node is one step of the engine, which may do anything that the
detailed `ParallelNode` reports; that the detailed node gives every branch one
lasting outcome before it returns is its refinement of `ForkJoin`.

### GraphValidation

The initial state chooses any definition over `Names`, with missing start nodes
and dangling edges, and what the `parallel` field of each node holds: nothing, a
specification with branches, one without, or something else. `Visit` is one
iteration of the search, `Conclude` the checks, with those of the parallel
specifications (`types.py:157-164`).
The stack is a set: names reached do not depend on the order, and a popped name
that was seen before changes nothing.

### GraphLayout

Extends the validator, for only what it accepts is drawn. `path` is the recursion
of `_dfs`, so its names are `on_stack`; `Search` is one edge, `Return` the end of a
call, `Sort` one node of the topological sort together with its pass of the
longest-path loop, which runs in the same order. Python sets have no order, and
the edges of a node may be written in any: both are free choices. Several edges may
lead from one node to another (`Copies`); each has a lane of its own, and the
search is the same for all of them. The numbers
of the layout are those of the code; a label has its greatest length.

### Transitions

A final text is a model value, and `MatchesOf[p]` the texts in which pattern `p`
is found. A pattern in `Malformed` makes `re.search` raise, so `Raises` says
when the scan reaches one. Edges are compared by `Precedes`, the order of
Python's stable descending sort.

### WorkflowEngine

`pc` is where `execute` is: `enter` at the top of its loop, `running` inside the
agent loop of a sequential node, `returned` at the end. `current`, `previous`
and `audit` are the code's `current_name`, `prev_node_result` and
`node_executions`. `carry_forward` is a text in the code; here `carry` is the
index of the audit record it stems from. `EnterNode`, `CompleteNode` and
`AbortNode` are the three ends of the loop body of a sequential node,
`ExecuteParallel` and `AbortParallel` those of a parallel one. A pattern that
does not compile raises inside the `try` and aborts. A node with edges of which
none matches ends the workflow as a success, as in the code (`engine.py:340-347`).
`MaxExecutions` bounds the audit trail; `Stopped` marks where the bound stops the
model and the code would go on. A run of a node may wait for the user, who may
never answer; what then moves on is nothing.

### AgentLoop

A message is its kind and the turn it belongs to. `BeginTurn` appends the
warning when it is due (`query.py:66-76`), `SkipCompaction`, `Compact` and
`FailCompaction` are the outcomes of `auto_compact_if_needed`, `Answer` and
`FailModel` those of the request, then each call of the answer goes through
`start`, `confirm` and `run` on its own. `RaiseInCall` ends the loop and leaves
the other calls running, as `gather` does; they may even signal after the run
has failed. Token counts are left out: whether the history is too long is chosen at
every check, and so is whether microcompaction, which keeps number and kind of
the messages, was enough. A request is accepted only when it is well paired,
which is what both API clients' services demand of calls and results. `confirmed`,
`executed` and `firstSignal` are history variables. A tool in `OpenEnded`, like
`ask_user_question`, waits for the user and need not return. Cancellation of the loop
is not in this module; that of branches is in `ParallelNode`.

### History and Session

`History` has what `AgentLoop` and `Session` share: a message is its kind and
the turn it belongs to, `Older` and `Newer` are where `compact_conversation`
cuts a history, and `WellPaired` is what a request must satisfy.

`Session` is a conversation over several lines. `kept` is
`QueryEngine._messages`, `sent` the variable `messages` of `run_query`, and
`aliased` says that the two are one list, which they are from `SubmitMessage` on
until `auto_compact_if_needed` returns another list (`query.py:78`): a
shortened one, or the copy that `compact_conversation` makes of a short one.
Microcompaction works in place and is part of `SkipCompaction`. The calls of an
answer are one step here, for the order in which they run does not show in the
lists; `CutOff` ends a line between calls and results, `EndLine` at any other await. `/compact` summarises a copy
and loads the result when it has one. The budget warning is not given outside
of workflows and is left out.

### ParallelNode

A step is what happens between two awaits. `next` is the position of the loop
the engine is in: gates, spawning or collection. `task` and `cancelling`
separate a task that is asked to stop from one that has stopped, because
`task.cancel()` takes effect when the task runs next. `call` has the state of each
concurrent call of a branch; `holder` and `queue` are the broker's
`asyncio.Lock`, which serves its waiters in order and whose fast path is
taken only when nobody waits. `AskPermission` does not touch the lock, because
`permission_prompt` is handed to branches as it is. The user may answer,
never answer, or cancel the workflow in any state of the node.

### NodeScope and Runtime

A registry is the set of its names and the signal tool in it, if any, known by the
frame whose node had it made: two nodes have two signal tools of one name, and a
registry copied from another keeps the other's. `ScopedTools`, `ScopedSkills` and
`ScopedHooks` are `_build_node_context`; `Evaluate` is the permission check,
with a free choice of whether a rule on a path or a command denies the call.
`Carries[t]` are the servers whose prefix `mcp_<server>_` the name of a tool
begins with, which need not be its `Owner` alone.

`Runtime` is a session. The permission mode is kept in three places: the settings
`file`, the query engine's `checker` and the `toolChecker` the workflow tool was
built with; `/permissions set` writes the first two, another session only the
first, nothing the third. A line is a `stack` of frames: a turn, a workflow the
user started, a workflow a call started, each with what its engine was given.
`CallMetadata` is the merge of `query.py:198-202`, in which the metadata of an
outer call win over the context of the node. A branch of a parallel node is a node
here, with the permission prompt of its engine whether or not the node is
interactive (`engine.py:672`). A call is one step; `last` has what the
properties ask of it, `entered` the modes of session and settings when its line
began. In a print session (`frontend = "print"`) there is one line
and every permission is given by the program.

### TerminalSession

`requests` is standard input and the request queue, `events` standard output.
A step of the host is what `run` does for one request, between its awaits:
`TakeCancel` cancels the running line and `FinishCancel` goes on when it is
gone. A line is its task, with the prompts its calls open; `prompt[p]` is the
state of a future, `orphan` has those whose call outlives what waited for it: a
branch after its node was cancelled (`ParallelNode` says why), or the sibling of a
call that raised, which `gather` leaves behind while the line ends or fails
(`LeaveBehind`). A cancellation reaches any part of a line's prompts and leaves the
rest. The prompts in `Questions` come from `ask_user_question`, the others ask for
permission. `modal` and `fbusy` are the frontend's two
states. The user enters lines, answers what is shown, cancels, or leaves.

### ApiStream

One request: `attempt` counts as the loop of `stream_message` does, `Break` is any
error at any point of an attempt, `Receive` one chunk, `Complete` the final
message. A chunk is known by its number, so that the message can be compared with
what was sent. `buffer` is what the reader has of the answer: the terminal
frontend (`Replaced`) puts the final message in the place of what it showed
(`useBackendSession.ts:95-106`), print mode (`Kept`) has printed, or collected for its
JSON, what every attempt delivered (`app.py:109-122`). The final message of the Anthropic
client is assembled by its SDK and taken to be assembled in the same way.

### TaskManager and TriggerServer

`record` is what the store says and `proc`, `code` and `piped` what is true of the
process; the coroutines that create, monitor and stop a task are `spawning`,
`monitor` and `stopper`. The process ends by itself or by a signal, of the manager or
of anybody else, and may ignore SIGTERM; a child of its own may keep its output open. `TriggerServer` has the
connections of the webhook server, each between the check of its trigger and
the save of the count an await apart, and the tool that changes the registry. The
tool creates triggers that start a task; webhook actions (`server.py:146-154`), which
only a record written by hand could have, are left out.

### CronScheduler and SchedulerDaemon

In `CronScheduler` every process (schedulers, session) works on the store in two or
three steps: load, truncate, write. `todo` is the snapshot a tick works on, `Look`
passes a job or fires it, `RecordRun` saves the copy that was read before; a tool
that toggles a job loads, changes and saves like the others. A scheduler is started,
ends its tick when it is told to stop (`Stop`), or is killed anywhere (`Kill`), and
starts anew with what the file holds. `clean` is a history variable: no process was
killed, no two schedulers served and no two processes worked on the file at once.

`SchedulerDaemon` is what decides whether two schedulers serve. A process is a
scheduler that starts, or a `stop` or `status` command; each looks whether the pid
file is there, reads it, tests or signals the process it names, and may remove the
file, all in steps of their own. A scheduler opens the file, which empties it, and
writes it; installs its handlers; serves; and removes the file when it leaves.
`opened` are those that have the present file open, so that one that writes after
the file was removed writes to no name. Signals, interrupts and kills come between
any two steps, and `Refuses` says who may not signal whom: a refused test counts as
"not running" (`daemon.py:31`). `crossed` is a history variable: a start was under
way while another process was between its look and its last step. All ids are
written with the same number of digits and one is not taken over by a program that
is no scheduler.

## 3. The runs

| Run | Instance | States | What it shows |
|---|---|---|---|
| `graphs` | all definitions over 3 names, a wide and high box, a doubled edge | 708 996 | the validator accepts exactly the connected graphs with sound parallel nodes; layers grow; all is on the grid |
| `workflow_engine` | a graph of 4 nodes: a fan-out that starts the workflow and is a loop target, an inner loop, negated, prioritised, text and uncompilable conditions, a dead end; 5 records | 73 002 | trail and signals; refines `GraphWalk`; every node ends or waits for the user |
| `agent_loop` | 5 turns, 2 concurrent calls, a free, a confirmed, an asking and an unknown tool, 3 histories | 1 141 799 | pairing, warning, consent, reporting; refines `NodeRun`; ends or waits for the user |
| `session` | 4 lines, 6 answers, 4 turns a line | 192 115 | what breaks the history of a session, and what mends it |
| `parallel_node` | 2 branches, 2 calls each, one gate | 15 032 | broker, gates, report; refines `ForkJoin`; returns; nobody starves |
| `runtime` | 2 lines, 3 frames, two workflows of two nodes, one with a branch, a server, a plugin, every mode | 818 640 | changes are made as the governing mode demands; scope; hooks |
| `terminal` | 3 inputs, 2 prompts (a permission and a question) | 560 941 | one line at a time; answers meet their prompts; frontend freed; host ends |
| `stream` | 1 retry, 2 calls of 2 pieces, 4 chunks, both providers, both readers | 1 313 886 | the message is the last attempt's; requests end |
| `tasks` | 2 tasks, one of them followed to its end, a trigger, 2 operations of the tool | 48 810 | records, answers and counts; records settle |
| `cron` | job file: 2 schedulers, a one-shot and an interval job, 2 moments, 2 operations, one stop or kill; pid file: 2 schedulers, commands of 2 users, 3 launches | 610 054 | one firing per due time; no job lost or forgotten; one scheduler |

The bounds are small and enough for the cases that matter. Three names make
every shape of cycle, dangling edge and island, a cross edge, an edge that skips
a layer and its way round a box, with and without loops. Five records go round
both loops of the graph and come back
to the fan-out with a previous result. Five turns make histories longer than the
six messages a compaction preserves, with the warning inside and outside of what
is cut, from histories of either parity; three turns would never compact.
Six answers and four lines fill the history of a session twice over, so that
compactions, copies and `/compact` meet a history broken in its older or its
recent part. Two branches of two calls make a queue of length three behind a holder, a
branch with one call asking and another raising, and a cancelled branch that holds
the lock. Three frames are a turn whose workflow starts the other one; two lines
have a change of mode between them, or a turn after a workflow. Three inputs are a
line, its cancellation and a successor; two prompts are open side by side, one over
the other, or one left over from the line before; their answers differ, so that
one that goes astray is seen. Three launches are a scheduler that serves, and any two
processes that cross; what holds of them is proved for any number. One retry after a broken attempt
is enough for anything an attempt leaves behind, and four chunks for a call in
two pieces with another one between them. Two requests overlap on one trigger
while the tool deletes it; one followed task is enough because tasks share
nothing but the trigger. Two moments are a due time and the one after it, two
operations a creation and whatever follows, and the second scheduler starts while
the first one runs or after it was killed.

The runs of sessions and daemons (`terminal`, `runtime`, `tasks`, `cron`) do not check
deadlock: their user may do no more, and the bounds stop them. The others do; the
states in which the program has ended stutter explicitly.

### Fairness

Only what the program's scheduler does by itself is assumed fair: the event
loop resumes a coroutine whose await is ready (the engine, the lock's first
waiter, a cancelled task), a tool that runs and a model that is asked come back with
an answer or an exception (`bash` has a timeout, and so do the HTTP clients below the
API), and the timer of `asyncio.wait` fires. In `ParallelNode` not even tools and
models are assumed to come back. In `TerminalSession` host, frontend and lines run
when they can, and a line none of whose calls waits for a prompt ends; in
`CronScheduler` a scheduler goes on with its tick (its actions start a process or have
a timeout), in `TaskManager` reads, waits and the five seconds of a stop end, and a
killed process dies; no other process is assumed to end. In `ApiStream` the provider
answers or the connection breaks.

Nothing is assumed of the user, for whom the host waits without a timeout
(`backend_host.py:265, 284`): neither a confirmation nor an answer to
`ask_user_question` nor an approval at a gate need ever come. `LoopEnds` says that the
loop ends or waits for the user for ever, and `WorkflowMovesOn` the same of every
node. `NoCallStarves` says in its premise that questions are answered, withdrawn or
cancelled, and `FrontendIsFreed` excepts prompts that are open. `WorkflowEngine` asks
strong fairness of the progress of a run, because a run that waits for the user now
and then is not continuously able to go on; it waits finitely often, for it has
finitely many turns of finitely many calls, which is what `LoopEnds` shows of the real
loop under weak fairness alone.

### Findings

Two runs end in a counterexample on purpose; each checks a sentence of the
documentation against the code.

| Run | Says the documentation | Does the code |
|---|---|---|
| `session_history` | "Return the current conversation history." (`query_engine.py:49`); of auto-compaction: "Fully transparent: no manual `/compact`, no lost context mid-workflow." (`src/README.md:61`) | after a compaction within a line its answers are not in the history (`query.py:78`) |
| `silent_node` | `interactive`: "When `false`, the node runs fully automatically. User prompts are suppressed" (`docs/workflows.md:108`) | in a workflow an interactive turn starts by a call, `ask_user_question` asks (`query.py:201`, `workflow_tool.py:95`) |

Ten more configurations, which no listed run uses, end in a counterexample as well.
Each checks one property, which the module states with the sentence it stems from:

    tlc -workers 2 -config MCRuntimeDefault.cfg MCRuntime

| Configuration (of module) | Property | Says the documentation | Does the code |
|---|---|---|---|
| `MCRuntimeDefault` (`MCRuntime`) | `DefaultAsks` | default mode: "Ask before write/execute" (`docs/permissions.md:7`) | a session that began in full_auto and is set to default lets the workflows its agent starts write unasked: the workflow tool keeps the checker of the session's start (`runtime.py:178, 451`) |
| `MCRuntimeSignal` (`MCRuntime`) | `SignalsAreOwn` | "The valid signals for a node are exactly the values that appear in that node's own outgoing `signal:` edges" (`docs/workflows.md:134`) | a node without edges that declares no tools, in a workflow a call started, copies the calling node's `workflow_signal`: what it signals selects the edge of that node (`engine.py:378`, `workflow_tool.py:77`) |
| `MCAgentLoopFirstSignal` (`MCAgentLoop`) | `FirstSignalWins` | the engine "Captures the first successful call and uses it for edge selection when the node finishes." (`docs/workflows.md:154`) | the last one does (`signal_tool.py:67`) |
| `MCAgentLoopToolUse` (`MCAgentLoop`) | `CalledWasUsed` | `tool_was_called`: "A specific tool was used during the node" (`docs/workflows.md:121`) | refused, declined and unknown calls count (`query.py:138`, `engine.py:281`) |
| `MCParallelNodeSilent` (`MCParallelNode`) | `SilentUnlessInteractive` | `interactive: false`, as above (`docs/workflows.md:108`) | permission prompts of branches still appear (`engine.py:672`) |
| `MCParallelNodeRest` (`MCParallelNode`) | `ReportedBranchesRest` | "All triggered branches must complete before transitioning." (`docs/workflows.md:71`) | calls of a failed branch go on after the node has returned (`query.py:135`) |
| `MCParallelNodeCancel` (`MCParallelNode`) | `NothingStartsAfterCancel` | "Generation cancelled." (`backend_host.py:101`) | branches keep asking the model and calling tools (`engine.py:583`) |
| `MCCronSchedulerDelete` (`MCCronScheduler`) | `DeletedStayDeleted` | "Delete a scheduled cron job by its ID." (`cron_delete_tool.py:20`) | one deleted while it fires is in the file again when the run is recorded (`scheduler.py:137`), with no two operations on the file at once |
| `MCCronSchedulerOnce` (`MCCronScheduler`) | `OneShotsRunOnce` | "Run once at a specific time" (`docs/scheduling.md:22`) | a scheduler killed between firing and saving leaves the job due (`scheduler.py:137`) |
| `MCSchedulerDaemonStop` (`MCSchedulerDaemon`) | `StopEnds` | "Stop the running scheduler daemon." (`daemon.py:64`) | a SIGTERM between the handlers and `run()`, which sets `_running`, is lost, though stop reports that it was sent (`daemon.py:51-54`, `scheduler.py:76`) |

What the properties of the passing runs except is what the code does not promise:

- `AnswersAreHarmless`: after a branch ran into its timeout in front of a prompt,
  an answer to that prompt may meet a future that is already cancelled;
  `set_result` then raises in the request loop and ends the host
  (`backend_host.py:108`).
- `LastPromptIsVisible` is about the prompt opened last: one that was open before it
  is replaced on the screen, and its call waits until the line is cancelled
  (`useBackendSession.ts:139`).
- `OneScheduler` excepts a start that was under way together with another start, a
  `stop` or a `status`, and a live scheduler that refused the signal it was tested with
  (`daemon.py:24-43, 63-88`): then two may serve, and not only two that started
  at the same time.
- `FiresOncePerDueTime` and `JobsPersist` except kills, two schedulers and two
  processes that work on the file at once (`store.py:19-51`): a one-shot job killed
  between firing and saving fires again, a job may get lost.
- `FrontendIsFreed` holds also when the frontend counts itself idle too early, after
  the first turn of a line (`useBackendSession.ts:107`).
- `RecordsAreTrue` excepts a line longer than the stream's limit, which makes a
  record final while its process runs and can no longer be stopped
  (`manager.py:129-153`); a record of a session that has ended says running for ever.
- `TriggersAnswerTruly`: the count may be too low, and a deleted trigger may come
  back, when a request was accepted before (`server.py:159-161`).
- `MessageIsOfLastAttempt`: in print mode the text of an attempt that broke off stays in
  the output, before that of the message.
- `NoWriteUnasked` names the mode that governs a line, which for workflows the agent
  starts is that of the session's start, whatever it is now (`runtime.py:178`); what
  that means is the configuration `MCRuntimeDefault`.
- `ScopeRespected`: a node without edges of its own, in a workflow that a call started,
  reaches the signal tool of the outermost node when it declares it, or nothing;
  `MCRuntimeSignal` shows it. `AgentLoop` and `WorkflowEngine` do not have such foreign
  signals: there a tool captures for its own node.
- `HooksFollowTheNode`: a node without hooks of its own, in a workflow that a call
  started, inherits those of the calling node.
- `NothingIsClipped` is about loops and edges that go round. The width of the grid does
  not count labels beside edges that lead down (`graph.py:463-466`), which a
  narrow drawing cuts off; and only nodes with several edges down send them round a
  box (`graph.py:412`), so a single one may be drawn through it.

Read in the code and not the subject of a run:

- `--permission-mode` and `--dangerously-skip-permissions` are accepted and never
  used (`cli.py`, `app.py:64`); print mode says yes to everything that asks.
- A comment says that network errors are retried (`client.py:72`); `_stream_once`
  has turned them into an error that is not (`client.py:163-166`).
- A change of model does not reach the workflow tool either (`runtime.py:175-183`);
  workflows it starts have no permission prompt, so that a session that began in the
  default mode refuses every tool in them that changes something.
- A node that names the MCP server `a` gets the tools of a server `a_b` too, since
  tools are let in by the prefix of their names (`engine.py:370-380`).
- Nothing in the repository starts `TriggerServer`.

## 4. The proofs

All theorems hold for every value of the constants that satisfies the named
`ASSUME`s, which TLC evaluates in the runs. Most ask only that a
number is one and that a null value is none of the others; some say more:

- `LoopAssumption`: a compaction preserves at least three messages
  (`preserve_recent` is 6, `services/compact/__init__.py:272`); `HistoryAssumption`: at least one. A
  run starts from a history that is well paired and holds no warning yet;
- `GraphAssumption`, `RuntimeAssumption`: edges lead to nodes that exist, as the loader
  demands (`workflow/types.py:145-184`);
- `NodeAssumption`: a loop over the branches passes each once;
- `LayoutAssumption`: a definition names finitely many nodes, and no box is
  without rows (`workflow/graph.py:51-57`);
- `ScopeAssumption`: which tools only read, that the tools of the session itself have
  names of their own, and that a tool of a server has a name that carries the server's;
- `DaemonAssumption`: a process is a scheduler or a command, not both.

The theorems are of the form `Spec => []Inv` from an inductive
invariant, or a refinement by steps; none of them uses fairness.

**GraphLayoutProofs.** `ValidationDecides` (`VerdictIsRight`) says that a definition
is accepted exactly when its start node exists, its edges lead to nodes, every node is
reached along them, and every parallel specification parses and has branches.
`SearchInvariant` is the classical pair: what was seen
or is still held contains the start node and all targets of what was seen
(`SearchOwesTheRest`), and lies within every closed set (`SearchStaysInside`).
With an empty stack the first makes the seen set closed and the second makes it the
least one, which gives soundness (`AcceptanceIsSound`) and completeness
(`AcceptanceIsComplete`).

`EdgesLeadDownOrLoop` (`LayersGrow`) is about the depth-first search of `_dfs`
and the sort after it. The kept edges of a call that has returned lead to
returned calls (`ReturnedIsClosed`) and hold no cycle there (`NoCycleIsKept`: every
set of them has a node no other leads to), so that a sort which finds nothing more to
take has taken all of them. An edge set aside as closing starts at a node that
kept edges lead to from its target (`ClosingIsBelow`); layers grow along kept edges,
so it never leads down. `NoCycleIsKept` survives the return of a call
because the calls it has kept edges to have returned before it (`PathLeadsOn`).

`GridHoldsAll` (`NothingIsClipped`) is arithmetic over sums of sets. Of a sum only
two facts are used: that of the empty set, and what one element more
adds. A statement about all finite sets that fails, fails for a smallest one
(`SomeIsSmallest`, from well-foundedness of the strict subset), which is how the
sums of the code are shown to be numbers, to be monotonous and to be the same in any
order. Then the boxes and gaps left of a box, with the box, are some of those of
its layer (`LayersFit`, `ColumnsFit`), a layer is no wider than the content, the rows
above a layer and its own are some of the rows (`RowsFit`), and loops and bypasses
have the columns that were counted for them (`EdgesAreCounted`), of which there are no
fewer than pairs of names they join (`EdgesOutnumberPairs`).

**EngineProofs**, the walk. For every graph, number of branches and budget. The
invariant of types, trail and signals adds that a running workflow is at a
node, and that what the signal tool holds is the decision accepted last in this
execution, one of that node's own (`CapturedBelongs`): the action property
`SignalsBelong` (`SignalsStayHome`) follows from it, for the record is written from
the tool. A second invariant, over the first, says that
`previous` agrees with the last record (`PreviousIsLast`), which is why the
trail alone explains which branches ran. `EngineTypes`, `TrailWalks`,
`TrailAccounts`, `SignalsStayHome`, `CarryFollows`; `EngineFollowsGraph` is the
refinement of `GraphWalk`.

**EngineProofs**, the parallel node. For any branches, order, gates and number of calls.
`BrokerSerializes` follows from the lock being held exactly by the call whose question is
open, or by the open gate (`HolderTalks`). `GatesGuardWork`, `ReportHolds` and
`NodeImplementsForkJoin` follow from what is recorded of each branch in each
phase of the engine (`RecordsFollow`), and from what can become of a task once the wait
is over: what was done stays done, what was not is cancelled or about to be
(`WaitIsOver`).

**AgentLoopProofs.** For any number of calls, budgets, permissions, histories
and any compaction distance of at least three. `ConsentHolds` needs that a call
in phase `run` was allowed or confirmed, whatever the other calls do
(`CallsChecked`); `WorkReported` that what is executed is reported or among the
calls under way. `RequestsArePaired` rests on two lemmas of `HistoryProofs`: a compaction keeps
the end of the history behind one summary (`CompactedKeeps`), and when what is
cut off is well paired, which the request for its summary requires, so is what
remains (`CompactedStaysPaired`). The calls under way are always the one
unpaired message at the end (`HistoryPaired`).
`WarningIsSeen` measures how far the warning is from the end of the history (two
messages for every turn since, `WarningKept`); in the last two turns that is
less than what a compaction preserves, which is where the assumption
`PreserveRecent >= 3` is needed. `LoopImplementsNodeRun` maps each action to a
step of `NodeRun` or a stutter.

**SessionProofs.** `OnlyCutsBreak` needs that the calls under way are the one
unpaired message at the end of the list (`CallsComeLast`) and that the two lists are
equal while they are one (`ListsBelong`); `SessionTypes` that a model is asked only
below the turn limit (`WithinTurns`). `NothingElseMends` goes the other way through
a compaction: when the part that was summarised and the result are well paired, so
was the whole (`WholeIsPaired`).

**RuntimeProofs.** For any tools, nodes, workflows, hooks and depth of nested
calls. `ChangesAreAskedFor` (`NoWriteUnasked`) needs what each frame of the stack was
made with (`FrameIsTrue`): only the lowest one was not made by a call, it has the mode
that session or settings file had when the line began, and those above it have that of
the workflow tool and no prompt. `NodesStayInScope` (`ScopeRespected`) needs that every
frame above the lowest stands on the registry of that one, and on nothing else
(`StandsOn`): a registry handed on is never that of the node in between, whose own
signal tool is thus out of reach. `HooksSeeTheirCalls` (`HooksFollowTheNode`) follows from
`FrameIsTrue` too: only the executor of a session has all of its hooks.

**InterfaceProofs**, the terminal. For any number of lines and prompts. `_busy` and
`_current_task` are of the one line that lives (`LineIsCurrent`), which is
`LinesTakeTurns` (`OneLineAtATime`). The rest follows a prompt as a token
(`Tokens`): not opened; its modal event on the way, behind that of every earlier prompt
(`EventsInOrder`); shown; answered; its answer on the way, once and as the user gave it
(`AnswersOnce`); taken (`GivenIsSaid`). `ConsentReachesItsCall` (`ConsentIsOwn`) and
`LastPromptReachesTheUser` (`LastPromptIsVisible`) are parts of it, and
`LateAnswersAreHarmless` (`AnswersAreHarmless`) adds that without a timeout a prompt is
dropped only with its line, and one that is left behind stays open (`DroppedIsLeaving`).

**InterfaceProofs**, the stream. For any number of attempts, chunks and calls.
`LastAttemptIsTheMessage` (`MessageIsOfLastAttempt`) needs that what is collected of
the text and of each index lists what this attempt has sent of it, in order
(`CallsAreTrue`), that the reader's buffer ends with that text behind those of earlier
attempts (`Shows`), and that a client waits only while it has retries left
(`RetriesAreLeft`). That the message holds every named call once, in the order of the
indexes, is a counting argument: the members of a finite set of numbers have as many
places as there are members, each its own (`PlacesAreTaken`).

**BackgroundProofs**, tasks and triggers. For any sets of tasks and triggers.
`RecordsTellTheTruth` (`RecordsAreTrue`) needs the life of a task: which coroutine
exists in which state of its process (`LifeIsInOrder`), and that a `stop` that waits
has sent its signal before it writes. `RequestsAreAnsweredTruly`
(`TriggersAnswerTruly`) relates what a request has read of its trigger's count to the
requests beside it (`CountsAreTrue`): it has read at most their number, so a
trigger with a limit is spent only after as many were fired.

**BackgroundProofs**, the scheduler. For any jobs, processes, schedulers, users and
launches. `OneSchedulerRuns` (`OneScheduler`) needs that, in the histories it is about, a
process on its way to serve is alone (`StartsAreAlone`), and that the file goes on
naming the scheduler that is set up while others look at it, read it and remove it
(`FileIsKept`): whoever is about to remove or write it has no scheduler before it.
`JobsFireOnce` and `JobsAreKept` hold while `clean` does: then what is in the file, or in the hands of
the one that writes it, has every job that is not deleted (`NoneIsLost`), and
none of it is due at a time it has fired for (`NoneIsDueAgain`), but for the
job that has just fired and not been recorded (`InFire`). What will not be due again
stays so because the clock does not go back (`StoresArePlanned`).

Only model-checked is liveness (`WorkflowMovesOn`, `LoopEnds`, `NodeReturns`,
`TimedOutBranchesStop`, `NoCallStarves`, `FrontendIsFreed`, `HostEnds`, `DueJobsFire`,
`RecordsSettle`, `StreamEnds`): it needs fairness, and `ENABLED` is out of the provers' reach. Every invariant,
action property and refinement of the passing runs is a theorem.

Only proved, and not listed with a run: type correctness of the engine, the loop, the
session, the runtime, the terminal, the stream, the trigger server and the scheduler, and
`TrailIsWalk` and `CarryIsLatest`.

## 5. Not modelled

`PROJECT.json` has each part with its reason. Within the modelled parts:

- token estimates and microcompaction, except that they decide when to compact;
- `validate_resources`, which only warns;
- the cancellation of a sequential node, which leaves `execute` by an exception it
  does not catch and has no state of the engine left to look at;
- the wording of prompts, warnings and reports, the characters of a drawing;
- HTTP parsing, the formats of the providers, the transports of MCP servers;
- what a job, a hook or a tool does to the world;
- the git worktree of a sub-agent, which falls back to the shared directory without a
  word when it cannot be made (`spawner.py:53-73`).

Not modelled at all: the memory store, the assembly of prompts and the state
store. They are files, texts and listeners of one process, called in sequence; there
is no protocol whose order could go wrong. Loading of skills, plugins, workflows and
settings is reduced to the choice of what was found.

## 6. Plan

Every safety property of the passing runs is proved. What is left:

1. **Composition**: that the engine over the real loop, not only over `NodeRun`,
   follows its graph. Both halves are theorems (`EngineFollowsGraph`,
   `LoopImplementsNodeRun`); the statement that joins them needs the state of a loop
   inside that of the engine.
2. **Waits**: the safety half of the liveness properties, which says in each state
   what it waits for (`ForkJoin` has it for the parallel node).
