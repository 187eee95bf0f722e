# SorrowX: a specification in TLA+

SorrowX is a local agent service in Python: a command line (`sorrow ...`) that
talks JSON-RPC over NDJSON to a daemon, which runs plan-and-execute agent runs in
threads and keeps a long-term memory per session. This directory specifies the
parts of it in which order, failure or concurrency matter, checks them with TLC
on small instances and proves the most important properties with TLAPS for
every size.

Paths below are relative to the repository (`src/core/...`, `src/cli/...`,
`architecture/...`).

## The system

| component | state it keeps | operations | talks to |
|---|---|---|---|
| session memory (`memory.py`, `memory_summary.py`) | per session three files: `context_memory.jsonl` (the log), `memory_state.json` (the control file), `context_memory_summary.md` (the summary); in the process: locks per path, the scheduler's `_running` and `_targets` | `remember`, `load_context`, `reserve_auto_refresh`, `refresh_rolling_summary`, `mark_*`, `MemoryRefreshScheduler.schedule/_run` | runs (append), the model (summaries), the CLI's UpdateMemory in another process |
| agent graph (`AgentEngine.py`, `nodes/*`) | the run's `AgentState`: plan, cursor, mode, counters, `OneRunMemory` | cycle gate, planner, select, ReAct loop, subagent, finalize | the model, the tools |
| agent runtime (`AgentRuntime.py`) | the thread of a run, its `events.jsonl` | `run`, `_remember_success` | engine, memory, event bus |
| event bus and hub (`daemon/events.py`) | subscribers; clients, subscriptions, one bounded queue and one send task per client | `publish`, `subscribe`, `_publish_on_loop`, `_send_loop`, `_remove_client_on_loop` | run threads, the loop, the sockets |
| daemon (`daemon/main.py`, `handlers.py`, `state.py`) | connections, background tasks, the shutdown event | `handle_client`, `event.subscribe`, `agent.run`, `core.shutdown` | hub, runtime |
| ipc (`ipc/client.py`, `protocol.py`, `daemon_process.py`) | a socket; the spawned daemon process | streaming client, one-shot calls, start of the daemon | daemon |
| cli (`cli/*`) | the events read so far | run, session, trace, UpdateMemory, CheckMemory, ping, shutdown | daemon, session files |
| session manager (`session/manager.py`) | session directories, `current_session.json` | new, switch, delete, list, ensure | the file system, several processes |
| agent scheduler (`scheduler.py`) | a worker pool and its handles | submit, wait, cancel, shutdown | created by every run; no node submits to it yet |
| tools (`tools/*`) | none of their own; the workspace's files | `read_file`, `write_file`, `list_dir`, `run_tests`; the executor with its time limit | the ReAct loop |
| trace (`trace/*`) | a sequence number, open files | record, read, format | bus, daemon, the nodes' model calls, the tools' executor |

Not core logic: the web API (a thin wrapper around the runtime), the RAG service
(reachable by no agent run), prompts, settings and schemas, the abandoned
exercises in `practice/`, and the model service, which appears as a call that
returns anything or fails.

### Where it is hard

* **Session memory.** Several runs of one daemon and any number of UpdateMemory
  processes work on three files with locks that are local to a process; the model
  is called in the middle of a refresh without the file lock; a process can die
  between any two writes. The memory is right when no remembered run is lost,
  the summary says exactly what its header claims, the next run's context has no
  gap, failures do not repeat model calls, and coverage only advances.
* **Agent graph.** One thread, but a long protocol: two kinds of replan, a restart
  after overthinking, a subagent that works on a copy of the memory, six counters
  with limits. It is right when completed work survives a step replan, every limit
  holds, a finished plan reaches its final answer, and every run ends.
* **Run stream.** An event passes a thread, a loop callback, a bounded queue and a
  socket; every publication may raise because the event file is a subscriber; the
  CLI reads the events of other runs while it waits for the answer with its own run's id. It is right
  when a CLI shows its own run's events without a gap, exits with its run's
  verdict and does not wait for ever.
* **Sessions and daemon start-up.** Every command is a process of its own; they share
  session directories, `current_session.json` and one port, and the manager's lock is
  local to a process. They are right when what runs remembered is lost only by a
  deletion, the current session has its data, and a CLI that needs a daemon gets one.
* **File tools.** Runs of one daemon edit the same workspace without a lock, `write_file`
  looks at the file and replaces it later, and an agent must be able to trust what it
  was shown and told: line numbers, pages, matches. They are right when an edit is
  unambiguous, leaves the rest of the file alone and is one of the current file, and when
  pages and keyword searches hide nothing without saying so and count what they found.
* **Directory listing.** `list_dir` shares one budget between directories, collapses crowded
  ones and cuts others in the middle. It is right when an agent that follows its notes
  finds every file, and when an answer that leaves something out says so. A directory
  that cannot be read gets an entry of its own, which the budget does not count.
* **Worker pool.** Its lock guards the handles and a flag, not the futures; workers may
  call it too. It is right when a status is true of one moment of its call, and when the
  shutdown at the end of a run returns.
* **Trace.** The loop and the threads of a run write one file; number, time and line of an
  entry are taken apart. It is right when a reader is told causes before effects.
* **Time limit of a tool call.** The executor abandons a thread that goes on. Not
  specified yet, see the plan.

`PROJECT.json` lists the hazards one by one, each at its line.

## Modules

| module | role |
|---|---|
| `RecordWindow` | which records fit the fallback of a context |
| `SessionLog` | abstract: what a session's memory promises |
| `SessionMemory` | detailed: files, runs, scheduler threads, updaters, faults |
| `MemoryReuse` | `SessionMemory` with its session deleted and created again under the same id |
| `PlanExecution` | abstract: what a run promises about its plan |
| `AgentGraph` | detailed: the graph, the ReAct loop and the subagent of one run |
| `RunEvents` | the events of a run and its verdicts |
| `EventStream` | abstract: what the daemon promises to a CLI |
| `RunStream` | detailed: CLIs, the daemon's loop, hub and handlers, run threads |
| `Commands` | CLI processes on the session files and the daemon's port, runs accepted by a daemon |
| `FileTools` | `read_file` and `write_file` of runs that share one file |
| `ListDir` | `list_dir` over every small workspace, and an agent that follows its notes |
| `WorkerPool` | the methods of `AgentScheduler`, called by several threads and by workers |
| `TraceLog` | `record()` from the loop, a run and its refresh thread, and the reader's order |
| `SessionMemoryProofs`, `AgentGraphProofs`, `RunStreamProofs`, `CommandsProofs`, `FileToolsProofs`, `ListDirProofs`, `WorkerPoolProofs`, `TraceLogProofs` | proofs about the modules of those names; those about `MemoryReuse` end `SessionMemoryProofs` |
| `MCSessionMemory`, `MCMemoryReuse`, `MCAgentGraph`, `MCRunStream`, `MCCommands`, `MCFileTools`, `MCListDir`, `MCWorkerPool`, `MCTraceLog` | instances for TLC (symmetry sets; texts of `FileTools`; keywords of `ListDir`) |

`MemoryReuse` extends `SessionMemory`. `SessionMemory`, `AgentGraph` and `RunStream` each
implement an abstract specification (`SessionLog`, `PlanExecution`, `EventStream`). The
other modules meet at their borders: `Remember` of `Commands` and of `TraceLog`,
`PublishAnswer` of `RunStream` and `RememberAppend` of `SessionMemory` stand for the same
moment of a run, at which its engine has returned and its answer is remembered.

Definitions marked "Mutant" in a comment are wrong on purpose: each is a plausible
bug of the definition that follows it, and each property is known to fail under one
of them (`PROJECT.json`, "mutants"). They are in no specification.

### SessionMemory

A record is the run that wrote it, the digest of a prefix is that prefix, and the
text of a summary is the sequence of the records merged into it. So a summary
with a gap, a duplicate or a foreign record is told apart from a right one, and
nothing else about texts is kept. A thread takes one step per file written, per
lock section that only reads, and per model call; the two-step pattern
`...Read`/`...Write` is a lock section that reads the control file and then
replaces it. `lock` and `summaryLock` are per process, as in `_locks_for`; inside
one process they exclude, between processes they do not.

| state | code |
|---|---|
| `records`, `tail` | readable lines of the log; how its last line ends (`Tails`) |
| `state` | `memory_state.json`: covered, last attempted and last failed sequence, status |
| `summary` | header and text of the summary file |
| `targets`, `running` | `_targets[path]` (0 when absent), `path in _running` |
| `pc`, `view`, `target`, `work` | where a thread is, the state it read, the sequence it is after, its refresh |

`RememberAppend`..`Enqueue` are `_remember_success` (remember, then schedule);
`Pop`..`AfterFailure` are `MemoryRefreshScheduler._run`; `NothingToRefresh`..
`CommitWrite` are `refresh_rolling_summary`, executed by workers and updaters.
`RememberTorn`, `RememberUnended`, `StateWriteFails`, `ReportRaises`, `SummarizeFails`
and `Kill` are the faults, each switched on by a member of the constant `Faults`.

An append that stops part way (`memory.py:264-267`) leaves the log as it was, or with a
last line of one of three kinds. A `fragment` no reader takes for a record. An `undecodable`
line ends inside a character - the answers are written with `ensure_ascii=False` -, and every
reader raises `UnicodeDecodeError`, of which `_load_records_locked` catches nothing
(`ReadRaises`). An `unended` one is a record that lacks only its newline: it can be read,
until the next append continues the line and makes both unreadable (`Continued`).
`glued`, `straddling` and `spoiled` are history: whose line continued another, which
refreshes had read a record that is gone, and whether one of them has committed.

`SessionLog` keeps a log and a context: the records of some prefix plus the
newest of the rest. Behind a save that failed it may lose the next one, take the failed
record back, or break. The mapping is `log <- records, context <- Visible` (what
`load_context` returns), `failed` the runs whose append was reported as failed, and
`broken` a log that cannot be decoded or a `spoiled` summary.

### MemoryReuse

`session del` removes the directory while runs and refreshes go on, and `session new`
hands out the same number again when it was the highest. Locks and the scheduler's tables
are keyed by the path, which does not change. `DeleteSession` empties the three files and
leaves every thread where it is; all other steps are those of `SessionMemory`, and its
history tells which refreshes had read the old log, and whether one of them has committed. Records are never repeated by a run, so a record of the old
session in the new one's summary is seen.

### AgentGraph

`pc` is the node that runs next. `Graph` holds the nodes of `AgentEngine.py`,
`React` one action per kind of decision of `agent_loop_node` - at depth 0 for the
loop, at depth 1 for the error subagent, whose `OneRunMemory` starts as a copy of
its parent's (`frame[1]`). What the model answers is chosen freely; guards,
counters and routes are the program's. A step carries the id the planner gave it
(any id, ids may repeat) and its task; the answer to a task is that task, so that
an answer reused for another task is noticed.

`PlanExecution` knows only the plan, how many whole and partial plans were made, and the
verdict. A plan is answered from the front; `PlanRest` keeps the completed steps and their
answers, `PlanWhole` throws them away; `Finish` needs every step done. The mapping counts
a plan when it is made, while the graph's counters count a replan when it is granted
(`mode` tells the difference):

| PlanExecution | AgentGraph |
|---|---|
| `plan` | `plan` |
| `whole` | 1 if there is a plan, plus `replans`, less 1 while a whole replan is granted and not made |
| `partial` | `stepReplans`, less 1 while a step replan is granted and not made |
| `verdict` | `pc` if it is `finished` or `failed`, else `running` |

### RunStream

A step of the loop is what runs between two awaits; a step of a run's thread is
one publication or one call that may raise; a step of a CLI is one message read,
with everything it does before it reads again, except that events it kept back are shown
one at a time (`ShowPending`).

| state | code |
|---|---|
| `pc`, `pending`, `seen`, `code` | the position of `_run_agent_stream`, `pending_events`, what the printer got, the exit code |
| `request`, `wire`, `eof` | the request on its way, the messages written to the socket and not read, the closed end |
| `waiting` | the coroutines that wait in `drain()`: `handle_client` ("answer"), `_send_loop` ("event") |
| `handler`, `hub`, `queue` | `handle_client`; registered and subscribed clients; `ClientConnection.queue` |
| `lost` | a `_send_loop` that died while its client stays in the hub; history: a client dropped for its full queue |
| `ready` | callbacks of the loop in order: events to publish, clients to remove, tasks to start |
| `run`, `progress`, `status`, `escaped` | the thread in `AgentRuntime.run`, events of the engine, the variable `status`, an exception leaving `run` |
| `refreshing` | the refresh thread that a run scheduled is going to report a failure |
| `published` | history of the bus |

`RefreshScheduled` and `ReportRefresh` are the refresh thread's `agent.memory.failed`: it
comes at any moment, after the verdict and in a stopping daemon too, on the writer of a
run that may be over.

`handle_client` and `_send_loop` write to one `StreamWriter`, and each drains only after its
own write. So each may put one message beyond the high-water mark before either waits, and
both go on when the CLI has read down to the low-water mark (`Write`, `Read`, `WireBounded`).

A `garbled` event is one whose text is no UTF-8, such as a lone surrogate in what the model
or a tool returned. The run's `EventWriter` raises over it, and so does `encode_message` in
`_send_loop`, which catches `ConnectionError` and `OSError` only: the task ends, and the
client stays in the hub with a queue that nobody empties (`SendDies`). Only an event of the
engine is garbled here; an answer that is would fail in the writer as it does under "write".

`EventStream` keeps published, shown and the exit code: a CLI is shown a gap-free
prefix up to the first verdict, exits with that verdict, or gives up without ever
claiming success. `ShowsTheStream` is `EventStream!Spec` with the same names.

### Commands

A step of a process is one look at the files, one change of them, or one request. Each
directory that is made, the records and the directory that a deletion removes, and each
half of the in-place write of `current_session.json`, is a step, because `SessionManager._lock` excludes nobody in
another process. `run` stands for every command that needs a current session (run,
trace, UpdateMemory, CheckMemory); it differs from them in going on to the daemon.

| state | code |
|---|---|
| `memory`, `traces` | the sessions with a directory under the memory and the trace root |
| `current` | `current_session.json`; `NoSession` when it is missing, empty or torn, which `current_session()` treats alike |
| `log` | what `context_memory.jsonl` of a session holds, here the runs that wrote it |
| `pc`, `command`, `session` | where a CLI process is, what it executes, the session id it has in hand |
| `daemon` | daemon processes |
| `run`, `host` | the background task of a CLI's run, the daemon it is in |
| `remembered`, `earlier` | history: the runs whose `remember()` returned, and the commands that were over by then |
| `patient` | an assumption about the user, fixed at the start: whether session commands are started one at a time |

`Ensure`..`RemoveTraces` are `SessionManager`; `Ping` and `Wait` are
`ensure_daemon_running`, and `Bind` is the start of the process it spawned; `Request`
is the handler of `agent.run`, `StartRun` and `Remember` what the run later does with
the session's directories. `shutil.rmtree` is not one step: `EmptyMemory` takes the records and
`RemoveMemory` the directory, which fails when a run has written meanwhile or another deletion
was faster; with `"rmtree"` in `Faults` each of them, and `RemoveTraces`, may also fail for
another reason, before or after the files are gone. `refused` is a command that the manager
rejects for its session, `failed` one that raises later, `cut` a deletion that is killed.

### FileTools

A text is a sequence of characters of five kinds: `lf` and `cr` end lines, `ff` (form
feed) stands for the other characters at which `splitlines()` breaks, `x` and `y` are
ordinary (`Characters`; the proofs allow any other characters). That is what the two
tools disagree about: `read_file` numbers lines with `splitlines()`, `write_file` counts
newlines, and both read through Python's universal newlines (`Decode`) while the write does
not translate (`newline=""`).

| state | code |
|---|---|
| `file` | the bytes of the one file, or that it does not exist |
| `pc`, `job` | where a run stands in `write_file`; its arguments, the text it read and the one it is going to write |
| `page` | the agent's use of `read_file`: the next line to ask for and the lines it was shown |
| `steady` | history: nobody else has changed the file since the run looked at it |

`BeginWrite` are `write_file`'s checks and its look for the file, `Match` is
`_modify_existing_file` up to the new text, `Replace` and `ReplaceFails` are
`_atomic_write_text`; `ReadPage` is one call of `read_file`. `Decode`, `Lines`,
`Positions`, `Replaced` and `ReadKeyword` are its pure parts. `KeywordIsTold` checks the
keyword search for every file that is reached, every keyword and every range: the count is
that of the lines with the keyword, the one match comes with its neighbours, of several the
first are listed.

### ListDir

The initial states are all workspaces of `Nodes` paths: a tree, each path a file, a
directory, a directory that cannot be read, or a filtered name, and at most one directory
called `src`, which is sorted first. Paths are numbered in the order of their names.

| state | code |
|---|---|
| `parent`, `kind`, `src` | the workspace |
| `todo`, `seen`, `whole` | the agent: directories it was told to list, paths it was shown, whether every answer had all direct entries |
| `answer` | the last answer: its target, what was asked for, shown and marked, the directories with an error entry, and `truncated` |

`DirectoryEntries`, `NestedEntries`, `ExpandDirectories`, `ShouldCollapse`, `SortChildren`
and `Walk` are the functions of those names, on the record `Part` (what a part of the answer
shows and marks, its error entries, the budget left; `Unread` is the error entry of a
directory that cannot be read). What the code does by recursion over the tree is a
recursive function here: `ExpandDirectories` defines one over the loops (`Loops`: which
directory, which of its children is next, the budget left, whether a claim has failed),
`Walk` one over pairs of a directory and the number of its next child. `ExpandFrom` and
`WalkFrom` are the bodies: one round of the loop, given what every later one does.
`SearchPaths` is the keyword search, `Search` the call that makes it.

### WorkerPool

A section under the scheduler's lock is one step; a future is read and waited for without
it. `status()` is up to three reads (`running()`, `done()`, the outcome), each its own step.
The executor below, a `ThreadPoolExecutor`, starts what was submitted in order.

| state | code |
|---|---|
| `future`, `handles`, `closed`, `lock` | the handle's future; `_handles`, `_shutdown`, `_lock` |
| `pending` | the executor's queue; a cancelled worker stays in it until its turn |
| `call` | the method a thread is in, how far, its argument; for `status()` its answer and, as history, the states it could have seen |

Each run of the agent creates a pool and shuts it down; no node submits to it yet. The
module states what its first user may rely on.

### TraceLog

`record()` is three steps: a number under the lock, the time, the line under the lock
again. `agenda` holds what a thread does next, the loop's callbacks included, so the order
in which the code calls `record()`, publishes and replies is the order of the agenda.
A run's thread makes events (`Publish`), model calls (`Chat`, the two entries of
`_chat_completion` in `nodes/universal.py`) and tool calls (`Audit`, the executor's entry);
the summaries of a refresh thread have no run id and make no entry.

| state | code |
|---|---|
| `clock`, `seq` | milliseconds; `_seq` |
| `agenda`, `stamp` | per thread: entries to write and callbacks to run; number and time of the entry being written |
| `done`, `phase` | events and calls made so far; what became of the request |
| `file` | the lines of a run's file; `ReadsBefore` is the reader's sort key |

## Runs

| run | instance | shows |
|---|---|---|
| `MemoryConcurrent` | 3 runs, 2 workers, batch 2, model calls and failure reports may raise; liveness | one attempt per log length, coverage only advances, everything is attempted unless a report killed the refresh thread |
| `MemoryShared` | 3 runs, 2 workers, 1 UpdateMemory, batch 1, appends that break off, 1 kill | remembered records stay, the accepted summary is exact, `SessionLog` is implemented, one scheduler thread with a target, a new record always unlocks a refresh |
| `MemoryReuse` | 2 runs, 1 worker, 1 UpdateMemory, 2 deletions, 1 kill, every fault but failing reports | the new session's summary tells its own records, unless a refresh straddles the deletion |
| `AgentRun` | plans of up to 2 steps, 2 ids, 1 tool, both replans, 3 turns; liveness | `PlanExecution` is implemented, bookkeeping and limits of plan and loop, an answer comes from another task only through a reused id, the run ends |
| `RunPair` | 2 CLIs, queue 2, both writers of a socket, shutdown, failing refreshes | `EventStream` with two runs on one loop; exit code 0 belongs to the own run; queues and sockets keep their limits |
| `RunFaults` | 1 CLI, every fault, queue 2, 2 events of the engine; liveness | every run gets its verdict, one unless an exception escaped; the CLI and a stopping daemon end unless the hub lost the CLI, and every CLI ends with the daemon |
| `Commands` | 3 processes, 3 session ids, kills, removals that fail part way, users patient or not | memory is lost only by a deletion that was not over and not refused, the current session has its data, a lone CLI gets a daemon |
| `FileTools` | 3 runs, 7 initial files, writes may fail | an edit replaces an unambiguous part of the current file and keeps the rest; reported lines, pages and keyword matches are those of the file |
| `ListDir` | every workspace of 5 paths, answers of 3 | following the marks finds every path; an answer says exactly when it leaves something out; only unreadable directories add entries beyond the limit |
| `WorkerPool` | 2 callers, 2 workers that call the pool themselves, 1 at a time; liveness | a status was true during its call; the shutdown returns unless workers wait for each other |
| `TraceLog` | 1 run, its refresh thread, the loop, 1 client, 2 events, model or tool calls, 3 ms | at every moment the trace reads in causal order |

One run is expected to find a violation, of the assumption of a comment in the code
(`PROJECT.json`, "findings"):

| run | what happens |
|---|---|
| `MemoryForeign` | a session is deleted and created again during the model call of a refresh; when its log is as long as the old one was, the commit compares only the length (`memory.py:406`), and the old session's text becomes the new session's accepted summary |

More behaviours are visible in the models without a run of their own. Where a property has
an exception, the exception is one of these:

* `CoverageMonotone` holds for one process. UpdateMemory and the daemon overwrite each other's
  control file, and the covered sequence goes back (`MemoryShared` does not claim it).
* `OneAttemptPerSequence` counts reservations. A reservation overtaken by a newer one that
  then fails calls the model again without a new record, against the comment at `memory.py:644`.
* `LimitNeedsReplans`: a run that used both replans can be stopped at its last gate with
  every step done. With `MAX_PLAN_STEPS = 8` the limit is 27 and such a run needs 28;
  `architecture/agent-graph.md` names the limit, not this case.
* `EventuallyAttempted`, `RefresherDied`: a failure report that raises ends the refresh thread
  and leaves the session marked as running, so that this process never refreshes it again.
* `EndsUnlessLost`, `StopsUnlessLost`: the hub drops a CLI whose queue is full without
  closing its connection, and an event that cannot be encoded ends the client's send task
  without a word. Either CLI waits until the daemon stops, and where `server.wait_closed()`
  waits for open connections it keeps a stopping daemon alive.
* With a full disk the CLI exits 0 although its answer was never published: `SuccessIsTrue`
  speaks of the run's verdict, not of the answer.
* `ShutdownReturns`, `Starved`: workers that wait for one queued behind them, or for each
  other in a circle, keep the pool and with it the end of the run waiting.
* `list_dir` ignores the caller's `max_entries` (`operation_tools.py:386`) although two of its
  notes suggest a larger one (568, 582); a search skips directories it cannot read without
  saying so, and a target that cannot be read reports its entries as complete.
* An unreadable directory that `list_dir` expands adds an error entry with its path, which is
  claimed from no budget (`operation_tools.py:470`, 532): 38 of them under a limit of 40 give 76
  entries, while the tests count the flattened entries against the limit
  (`test_operation_tools.py:34`, 99). `AnswersAreTruthful` therefore bounds what is shown, and
  says of which directories there may be error entries on top. One that is reached with an
  exhausted budget, or by a search, gets none.
* The trace notes a message to a client when it is queued, not when it is delivered
  (`CORE_TO_CLIENT`); nothing in the daemon closes the recorder's file of a finished run.
* An append that continues a line without newline reports success and is never read
  (`glued`, the exception of `RememberedKept`), and the record before it may disappear with
  it. A refresh that had read that record commits it all the same once the log is long
  enough again, since the commit compares lengths (`spoiled`, the exception of
  `SummaryStaysFaithful`), and until the log is longer than it was a new record can be taken
  for one that was attempted (the exception of `NewRecordUnlocks`).
* A log that ends inside a character can be read by nobody: `remember()`, `load_context()`
  and every refresh of the session raise from then on (`Broken`, the exception of
  `KeepsPromise`).
* A subagent that ends with a replan signal adds no answer, so that its parent completes
  the step with the newest answer of that id, given to another task (`SubagentReturns`;
  `AnswerBelongs` says how far this goes).
* A deletion that fails part way (a run writes meanwhile, another deletion is faster, an
  open trace file on Windows, which the daemon's recorder keeps) reports "cannot delete
  session" although the records may be gone; `LostOnlyByDelete` has this among the ways in
  which records are lost.
* Two processes that create a session at the same time may get the same id, and one that
  reads `current_session.json` between the two halves of its write creates a session:
  `CurrentHasData` holds while session commands come one at a time.
* Two runs that edit one file at the same time overwrite each other and both report
  success; `EditsCurrentFile` states that this is the only exception. Overlapping
  occurrences of `old_content` count as one, and the first is replaced (the same property
  says so). An edit turns the Windows line ends of the whole file into newlines (`RestIsKept` compares the files as they are read).
  After a form feed the lines that `write_file` reports are not those of `read_file`
  (the premise of `ReportedLines`).

`CurrentHasData` is claimed for a patient user only: two session commands at a time,
one deleting and one switching, can leave a current session without directories, which
the next command that needs it makes again, empty.

### Bounds, and why they are enough

* Three runs give a reservation that is overtaken by a second and followed by a
  third, and an append that breaks off a run before and one behind it; with an updater they
  give every pair of writers. Two workers are one
  more than may ever run. Batch 1 makes a refresh of two records take two commits,
  batch 2 makes one commit cover several. `Window = 1` (the code's ten records
  scaled down) makes the fallback shorter than the log. `MemoryShared` leaves out failing
  model calls and control files for size; `MemoryConcurrent` and `MemoryReuse` have them,
  and the theorems have every fault and any number of kills.
* The agent's limits are `MAX_PLAN_STEPS` 8, `MAX_REPLAN` 1, `MAX_STEP_REPLAN` 1,
  `MAX_REACT_TURNS` 7 and `FINDING_MISSING_THRESHOLD` 3; the run uses 2, 1, 1, 3
  and 2. The replan limits are the code's own. Two steps distinguish first, last
  and "before the current one"; three turns leave room for think, tool and finish.
  The iteration limit keeps the code's formula. `calls` is counted for
  `CallsBounded` alone and stops one above the bound.
* A queue of 2 (256 in the code) fills and drains; `HighWater` and `LowWater` are the numbers
  of messages on the way at which `drain()` begins and ceases to wait. With two CLIs a run's
  events reach a CLI that has yet to be answered, so that both writers pass the mark. `MaxProgress` bounds the events
  of the engine; `Troubled` names the clients that meet a fault.
* Three processes give two commands that race and a third whose run is in flight, or
  that creates an id again after a deletion; with `MaxId` 3 each of them can create a
  session next to the one in `InitialIds`. `new` is not started when the ids are used
  up.
* Three runs give two edits that race while a third reads the pages. The texts of
  `MCFileTools` are empty, without a last newline, with Windows line ends, with a form
  feed, with repeated and overlapping parts, and longer than two answers of
  `read_file`. `MaxReadFileLines = 3`, `MaxKeywordMatches = 1` and `ContextLines = 1`
  stand for 200, 20 and 10; like these they let the neighbours of one match fit an answer
  (`FileToolsAssumption`). `MaxWriteSize = 8` characters stands for
  `MAX_WRITE_FILE_BYTES`: one new content exceeds it alone, others only together with
  the rest of the file. Each run makes one call of `write_file` or reads the file once.
* Two deletions give a refresh that straddles one of them and a thread that still has the
  target of a session two generations old.
* Five paths give a directory in a crowded directory next to another; with answers of 3 and
  limits of 1 (40 entries, 5 files and 5 directories in the code) every way
  to be cut off, collapsed or out of budget occurs, alone and nested.
* Two workers with one thread (`MaxWorkers = 1`) give one that waits for the other behind it;
  two callers give a shutdown that meets a second one, and any call that meets a shutdown.
* Two events or calls of a run make each order between two of them possible, in one
  millisecond or in three; a second run would write another file and only use numbers up.

### Fairness

* `SessionMemory!FairSpec`: a run that has remembered its answer, a started worker
  and an updater keep taking steps. They wait only for locks that are held for a
  bounded number of steps, and the model client has a timeout. A run that is still
  executing need not end.
* `AgentGraph!FairSpec`: the one thread of the graph goes on; model and tool calls
  return or raise.
* `WorkerPool!FairSpec`: a thread in a call goes on, the executor starts what it can, and a
  worker that is again and again outside a call comes to its end. Nobody has to begin a
  call, and a worker that waits for ever need not end.
* `Commands`, `FileTools`, `MemoryReuse`, `ListDir` and `TraceLog` have no liveness property:
  nothing obliges a user, a daemon or an agent to go on.
* `RunStream!FairSpec`: coroutines, callbacks and threads keep running, the engine
  ends, a CLI keeps reading. Nobody has to connect, quit or shut down. A daemon that
  is stopping is assumed to stop only when no handler is open, because some
  versions of Python wait for open connections in `server.wait_closed()`.

Deadlock checking is off: every system here comes to rest when all runs are over.

## Proofs

Every theorem holds for all values of the constants that the module's own assumption
admits (kinds of threads are disjoint, sizes are positive, names stand for no value): any
number of runs, processes, clients, workers or tasks, any batch, queue or plan limit, any
set of faults. A theorem that needs more says so in its ASSUME; these are listed at the
end. `PROJECT.json` ("theorems") names all of them with the property each one states.

Every proof has the same form. The property is seldom inductive, so an invariant that is
implies it; one lemma shows the initial states have it, one (or one per kind of step) that
every step keeps it, and the theorem puts them together. The invariants are the interesting
part, because they say what the code relies on without saying so.

### SessionMemory

* **`TypeCorrect`**: `TypeOK`, through `TypeInv`, which adds
  the bounds of a refresh in progress (`WorkBounded`: covered <= goal <= length of the
  snapshot). Without them `SubSeq(source, covered + 1, ...)` could leave its domain.
* **`SummaryFaithfulness`**: a summary that `load_context`
  accepts is the text of exactly the records its header covers. Not inductive by
  itself: between model call and commit the text is in a thread. `SummaryInv` adds
  that every refresh in progress that straddles no loss of a record holds the text of a
  prefix of its snapshot, and its snapshot is a prefix of the log (`WorkTrue`); and that the
  text of the summary file is that of the records whose digest its header holds
  (`SummaryTrue`) - also when the control file, or the log, no longer agrees with it, as it
  may agree again later. `RecordsGrow` says what may happen to the log: it grows, or loses a
  last record that had no newline.
* **`PromiseKept`**: `Spec => SessionLog!Spec` under the mapping. `LogInv` says that a
  run is in the log at most once and not before it remembers, and that a log that has not
  ended ends with the record of a run whose append failed; `FaultInv`, that a log which is
  broken has such a run; `VisibleAllowed` derives from `SummaryTrue` that what a run is told
  is an allowed context.
* **`RefresherIsAlone`**, **`TargetIsThere`**: the mark
  `running` is set exactly while one thread is not idle, and that thread has a target.
  `SchedulerInv` adds that a reservation carries a positive target and that a thread
  about to pop finds one.
* **`RememberedIsKept`**: a run whose append returned has its record in the log for good, also
  when it is done or was killed, unless that append continued a line. Only a last
  record without newline is ever taken away, and `LogInv` knows whose that is.
* **`NewRecordsUnlock`**: nothing that happened before refuses a refresh to a run that has
  just added its record, unless a summary covers the record. `LockInv` says which labels hold
  the file lock of a process; `NumbersInv`, that no attempted or failed
  number in the control file or in a thread's view of it is above the length of the log -
  nor, while a run holds the lock after its append, above what that was before it - so the
  new record is above all of them, also where processes overwrite each other's control file.
  Where an append stopped before its newline the log may become shorter, and nothing is claimed.
* **`SequencesAreReservedOnce`**: the last attempted sequence in the control file, and in the
  view of whoever is about to replace it, is at least every reserved target (`AttemptInv`).
  An UpdateMemory that read the file earlier could write an older one back, which is
  why there must be none.
* **`CoverageAdvances`**: with one process, `CoverInv` ties the control file, the views, the
  refresh in progress and the summary's header to one covered number, except between the two
  writes of a commit, where the header is ahead by the batch being committed. A kill or a
  failed write just there would leave it so, which is why both are excluded. `AllTrue` adds
  that the digest is that of records which are there, which is why none may disappear.

### MemoryReuse

* **`OwnRecords`**: unless a refresh that read the deleted log commits after the deletion,
  the present session's summary tells its own records. The invariant is `SummaryInv` again: a
  deletion is one more way to lose records. The lemmas `WorkStep` and `SummaryTrueStep` are
  stated per thread for this: a straddling refresh may hold anything, and harms nobody
  before it commits.

### AgentGraph

* **`Types`**, **`RevisionsAreReplans`**: through `GraphInv`. `NodesReady` and
  `AnsweredInOrder` say what each node of the graph relies on when it is entered (there is a
  plan or a reason to make one, the current step exists, and the steps before it are the
  answered ones); `PlanBounded` bounds a plan that partial replans make longer.
* **`AnswersAreOwn`**: whatever ids the planner chooses, a step's answer is its own, or one
  given to an earlier revision or to an earlier step with its id. `AnswersOnRecord` says where
  every answer of the run's memory comes from, and that a subagent's copy agrees with it.
* **`CallsStayInBudget`**: `CallsPaid` is the account: one call for each turn of this loop, a
  budget for the restart, one for the loop that started the subagent.
* **`LimitStrikesLast`**: the iteration limit stops only runs that used up both kinds of
  replan, provided the replans are fewer than a plan's steps and three
  (`MaxReplanCount + MaxStepReplanCount < MaxPlanSteps + 3`; 1, 1 and 8 in the code).
  `IterationsPaid` charges each plan one iteration and each of its steps one: what has been
  spent plus what is pending never exceeds what the revisions so far have paid for. The
  premise is needed: with many replans of short plans the limit comes first.
* **`GraphExecutesPlan`**: `Spec => PlanExecution!Spec`. Each decision of the loop, at either
  depth, is first reduced to one of a few effects (`Stops`, goes on, completes the step,
  grants a replan), and each effect is mapped to a step of `PlanExecution` or a stutter.

### RunStream

* **`Types`**: also that queues keep their limit, that a socket holds no more messages beyond
  its mark than writers wait for it, and that exactly the callbacks that publish carry an event.
* **`RunsConclude`**, **`VerdictsAreOne`**: `Concluded` says of each place of a run's thread which
  verdicts the history can hold: none under way, at most one after `run` returned, two
  only with an escaped exception. `StartedOnce` excludes a second task for one run.
* **`SuccessIsNoRumour`**: wherever something that announces success is - callback, queue, wire,
  pending, shown - the run's `status` is `finished`, and it stays so (`HonestInv`).
* **`CliShowsTheStream`**: `Spec => EventStream!Spec`. `Line` follows a client's own events
  through every place on their way: shown, pending, wire, queue, callbacks. `Carries` says
  that a place holds the own events from one number to another, in order and each once,
  among others. A client in the hub has all of its run's events in line; one that was dropped
  has a prefix of them.

### Commands

* **`Types`**; **`CurrentIsWhole`**: with a patient user one process at a time changes the files,
  what a process is about to write as the current session has its directories, and what is
  being removed is not the current session (`DataInv`).
* **`RecordsOutliveFailures`**: what a run remembered is gone only to a deletion of its
  session that was not over when the record was written and was not refused, whichever
  removals fail. `LostInv` adds what a process that is removing has in hand, and that
  the commands in `earlier` stay over.
* **`OnlyRivalsCostADaemon`**: a CLI gives up on its daemon only if another process has started
  one or is asked to shut one down (`DaemonInv`: the daemon that was there before is never "starting", and a
  spawned one that ends did so because of a rival).

### FileTools

The texts are arbitrary, so half of the proof is about the operators on them. `Decode` and
`Lines` pick places of a text in order (`Ascending`): the one list of numbers that rises and
reaches all of them (`AscendingUnique`), which is how two texts are compared. The search for
occurrences is a recursive function. That there is one, and only one, needs no induction over
texts: were there a place from which it fails, there would be a last one, and from there it could be
continued (`SearchExists`, `OnePosition`; the natural numbers are well-founded, `NatMinimum`).

* **`Types`**: through `ToolsInv`; the size of an edit that is about to be written is
  part of it.
* **`EditsAreCurrent`**: `EditReady` says of the text about to be written that it is the
  text read with the new content at the only occurrence of the old one, and that what was read
  is still the file's text if nobody else wrote.
* **`PagesAreComplete`**: `PagesRead` says of a reader whom nobody disturbed that it
  holds the lines before its next one; at the end these are all.
* **`KeywordsAreTold`**: from the operators alone, for any text; the assumption
  `2 * ContextLines + 1 <= MaxReadFileLines` is what keeps the neighbours of one match whole
  and the answer that shows it uncut.
* **`LinesAreReported`**: the breaks inside the new content are its own, moved by what is in
  front of it (`PartBreaks`, `ShiftKeeps`), and without a form feed in front both tools count
  the same breaks there.
* **`TheRestIsKept`**: the edited text is laid out from its three parts (`ThreeParts`,
  `EditLayout`, `LaidOnce`). What was read has no `cr`, so decoding it again changes nothing
  before and behind the new content, except that a `cr` at the new content's end takes
  one `lf` behind it (`Joined`).

### ListDir

* **`AllFound`** (`EverythingFound`): in a workspace of any size and shape, an agent that
  follows the marks has been shown every path when it has nothing left to list, unless an
  answer said that a directory has more entries of its own than fit. The invariant is short
  (`NothingLost`: while no such answer was given, a path not shown yet is below a directory
  still in `todo`; no answer so far was untruthful); what it rests on is long: the
  functions that compute one answer.
  - `Below(d)` is the least set that holds the entries of `d` and of every directory in
    it; it is never defined by recursion, so facts about it need no induction over data.
  - A recursive function is only as good as its domain: tlapm knows that `expand` and
    `walk` satisfy their equations once a solution is shown to exist. `Descends` is the
    reason: what `ExpandFrom` and `WalkFrom` read of the function has a smaller `Rank`,
    since a child has a larger number than its directory, and the next child of a
    directory comes after this one. From it the solution is built rank by rank.
  - `Fits` says what one part of an answer promises: it shows paths of its directories
    only, within the budget it was given, hands on what is left, fails a claim only when
    nothing is left, and says that it is cut exactly when it does not show them all.
    `Covers` says that what it does not show is below what it marks. Both are proved for
    one directory from the loop over its children, and for the loop from its next round;
    that they hold of every loop is shown by taking the loop of least rank at which they
    fail.
  - `WalkLists`: `Walk(d)` lists `Below(d)`, each path once.
* **`TruthfulAnswers`** (`AnswersAreTruthful`): `Fits` of the whole answer to a listing, with
  `ErrorsFit` of its error entries; for
  a search, that a match is left out exactly when `MaxEntries` others come before it in the
  walk, which lists no path twice.

### WorkerPool

* **`StatusIsTrue`**: `status()` reads a future up to three times without a lock, and its
  answer was true at one moment of the call. `Learnt` says, for each place between
  two reads, which states the future must have had since the call began.

### TraceLog

* **`TraceInOrder`**: for any number of runs, clients, events and milliseconds, the trace of a
  run reads in causal order. Entries are not written in the order they are read, so the
  invariant speaks of what is still to be written. `CauseInv` gives each item of an agenda the
  entries it depends on (`Required`): each is in the file or further up on the same agenda
  (`Caused`), and for an item that has its number already, it was in the file before that
  number and that time were taken (`Past`). So a cause has the smaller stamp whatever other
  threads do meanwhile. `OnceInv` is about the loop alone: what may stand beside what on its
  agenda (`Beside`: a push of a later event is never before one of an earlier one, a request
  is there once) and how far a run must have come for an item to be there (`Fits`); it
  makes request and reply unique and a client's copies ordered. That the recorder subscribed
  to the bus before the hub is what makes it inductive.

### What the theorems assume

| theorem | assumption | why |
|---|---|---|
| `SequencesAreReservedOnce` | no UpdateMemory, no append without its newline | another process' locks exclude nobody here; a log that becomes shorter has its old length again |
| `CoverageAdvances` | the same, no kill, control file can be written | the two files of a commit are not replaced together |
| `LimitStrikesLast` | few replans, long plans | otherwise the limit is smaller than a run needs |

Each is met by the run that checks the property (`MemoryConcurrent`, `AgentRun`), or the property is not claimed of the run; so TLC sees the same borders.

### Only model-checked

Liveness (`EventuallyAttempted`, `Terminates`, `EndsUnlessLost`, `StopsUnlessLost`,
`ShutdownReturns`) is out of TLAPS's reach here. Every invariant and every action property
that a run checks, and the three implementations of an abstract specification, are proved.

## Left out

* `force=True` of `refresh_rolling_summary` (no caller passes it); a write that races
  the removal of its directory file by file (`DeleteSession` is one step here; removals
  that fail part way are in `Commands`); blank questions, which no client can send.
* UpdateMemory's first look at the three files is one step; the texts' own limits
  (a summary's length, truncated records) are not modelled.
* Events, prompts and what tools do, in `AgentGraph`. The order in which a subagent's
  working directory or context is built does not matter there.
* `active_runs` (written and never read), `ping`, topic and run filters other than the
  CLI's `*`, `event.unsubscribe` (no method reaches it), and the contents of
  `events.jsonl`, in `RunStream`. Local computation of a thread is merged with its next
  publication, and `asyncio.to_thread` is assumed to find a free thread. Of the refresh
  thread, `RunStream` has only its report; what it does is in `SessionMemory`. Which run a
  report is attributed to when one thread serves several is in neither (`memory.py:604`).
* In `Commands`: the two `mkdir` of `ensure_session_dirs` are one step (both repeat until
  there); session names other than `session_N`; the time-outs of the ping and of the
  start (8 s), whose outcome depends on the machine; a daemon that cannot start for a
  reason other than the port; `list` and `current`, which only read.
* In `FileTools`: the path rules and the suffixes (the path is one that both tools accept),
  bytes that are not UTF-8, other files and directories; `run_tests`. The executor's
  time limit is not in the way: `write_file` and `read_file` have none
  (`timeout_seconds=None`), only the weather tool (10 s) and `run_tests` (120 s) do.
* In `ListDir`: what is in a directory that cannot be read, a root that cannot be read,
  symbolic links, path rules, names and sizes in an
  entry, a tree that changes between two calls.
* In `WorkerPool`: the time-out of `wait`, which no caller passes; results and exceptions.
* In `TraceLog`: summaries of payloads, the choice of the session's directory (every entry
  of a run names its session), write errors, which `record()` swallows, a clock that is set
  back, and formatting.

### Not modelled

* The RAG service is imported by nothing; the practice files are abandoned exercises; the web
  API wraps the runtime and the client; prompts, settings and schemas are text, constants and
  data classes. `LLMClient` serves the web API only; the model calls of
  runs are those of `nodes/universal.py`.
* `run_tests` and the executor's time limit: see the plan.

## Plan

Done: 1. session memory with its abstract log; 2. agent graph and its abstract
plan execution; 3. run stream with its abstract stream; 4. commands, sessions and daemon
start-up; 5. file tools and directory listing; 6. a deleted session's refresh; 7. worker pool;
8. trace; and the proofs about all of them.

Next, most important first:

9. `ToolCalls`: the executor with its time limit, whose abandoned thread goes on, and the
   second time limit inside `run_tests` (`executor.py:69`).
