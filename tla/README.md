# swapclaw: specifications, model checking and proofs

This directory holds TLA+ specifications of swapclaw, the TLC configurations
that check them on small instances, and theorems about them checked by TLAPS
for every value of the constants. File and line references are to the
repository (`src/src/` is its `src/`); `PROJECT.json` maps every definition to
its lines.

## The system

swapclaw is one Node/Bun process between an ACP client (stdio) and external
agent processes. Each session has a row in SQLite, a folder, a container
(Docker or Apple CLI), and an agent process whose file and terminal requests
are executed in the container. It is single-threaded: all concurrency comes
from `await`s, timers and child-process events, and everything in memory is
lost when the process ends.

| Component | State | Operations | What makes it hard |
|---|---|---|---|
| `ContainerRunner` | map `containers`, one timer per entry | `start`, `stop`, `resetIdleTimer`, timer callback | `stop` has two awaits and deletes the entry last; stops of one container overlap; prompts re-arm timers during a stop |
| `ContainerRuntime` | none (the daemon's containers) | `spawn`, `stop`, `remove`, `isRunning` | CLI errors of `stop` and `remove` are swallowed; containers outlive the process |
| `SessionOrchestrator` | map `activeSessions` | `newSession`, `prompt`, `closeSession`, `shutdown`, `cancel` | check-then-act around two awaits; requests of one session overlap; shutdown works on a snapshot |
| `AgentProcessManager` | agent child process, message collector | `connect`, `disconnect` | connect may fail after the spawn; the agent may exit, never answer or outlive the SIGTERM of `disconnect` |
| `SessionManager`, `SessionScaffolder` | session rows, folders | `create`, `close`, `load`, `setMode` | database write first, files second; scaffold may throw |
| `Database` | sessions, messages, container_state, scheduled_tasks | row operations, each one atomic | closed while requests are in flight |
| crash recovery | none | `recoverStaleContainers` at boot | two passes over a snapshot, with awaits |
| `TaskScheduler` | poll timer, `processing`, task rows | `createTask`, `cancelTask`, `processDueTasks`, `executeTask` | a row is read before and rewritten after an awaited prompt; crash during a run |
| `index.ts` | the process | boot, abort handler | order of shutdown and `db.close` |
| `SwapClawAgent` (server.ts) | none | ACP requests | replay of messages with awaits between them |
| `TerminalManager` | map of terminals, bounded output | `create`, `getOutput`, `waitForExit`, `kill`, `release` | `error` and `close` events, truncation by bytes |
| `FilesystemManager` | none | `read`, `write` through `docker exec` | overlapping writes, each with its own offset; a lost client; a runtime that passes no input on; line ranges |
| session modes | `mode` in the row, a section of CLAUDE.md | `setMode`, `getMode` | row and file change one after the other; the agent edits the file too |
| MCP passthrough | .mcp.json, an environment variable | filter, write, read, encode | names that collapse on the way |
| project detector | none | `detectProjectType` | priorities |
| config, logger | constants | read once at boot | |

What makes them correct: no container, agent or row is left behind except
where the code visibly gives up on it; capacity; a teardown that always comes;
shutdown that finishes what it took on; tasks that run once, on time, one after
the other, and stay cancelled; transcripts that hold each prompt's own answer,
and replays that send them in order, once; terminals whose processes end with
them, and output that is the end of what was written; files that hold what the
last write wrote, and reads that return the lines asked for; a mode section that
agrees with the row and costs nobody the text around it.

How they interact: `server.ts` turns requests of the client into calls of the
orchestrator and the scheduler; the scheduler calls `orchestrator.prompt` as
the client does. The orchestrator calls the session manager and the database
synchronously, and awaits the runner and the agent. The agent calls back through
`acp-client.ts` into the terminal and filesystem managers of its session, and
sends the updates that fill the session's collector. The runner's timer calls
`stop` on its own, without telling the orchestrator.

## Modules

| Module | Models |
|---|---|
| `ContainerRunner` | container-runner.ts over container-runtime.ts, for any caller |
| `SessionOrchestrator` | EXTENDS `ContainerRunner`: session-orchestrator.ts, agent-process-manager.ts, session rows, the process with boot, shutdown and crashes |
| `TaskScheduler` | task-scheduler.ts over its rows in db.ts |
| `PromptFlow` | the transcript of one session: `prompt` of session-orchestrator.ts, `addMessage` of db.ts, the collector of agent-process-manager.ts |
| `Transcript` | abstract: what a transcript promises, whatever collects the answers; `PromptFlow` implements it |
| `Replay` | EXTENDS `PromptFlow`: `loadSession` of server.ts, `getMessages` of db.ts, the clock that stamps rows |
| `OutputBuffer` | `appendOutput` of terminal-manager.ts, as operators |
| `TerminalManager` | EXTENDS `OutputBuffer`: terminal-manager.ts and the callbacks of acp-client.ts that lead to it |
| `FilesystemManager` | filesystem-manager.ts for one file, with the processes in the container |
| `ProjectDetector`, `McpPassthrough`, `SessionModes` | project-detector.ts, mcp-passthrough.ts, session-modes.ts, as operators |
| `SessionFolder` | EXTENDS these three: session-scaffolder.ts and the modes of session-manager.ts for one session, beside an agent that edits the folder |
| `MC...` (seven) | the instances TLC checks |
| `...Proofs` (eight) | theorems and proofs |

Two specifications are abstract: `RunnerSpec`, what the container runner may do
under any caller, which every step of `SessionOrchestrator` respects, and
`TranscriptSpec`, which `PromptFlow` implements under the mapping of calls to
open and closed questions. Both implementations are checked as properties of a
run and proved.

**Granularity.** A handler is cut exactly at its awaits. A synchronous piece is
one action, with all it calls: `NewSession` checks the capacity, writes the row
and launches `docker run`; `ContainerStarted` stores the runner's entry and
spawns the agent; `CloseSessions` disconnects the agent, deletes the entry,
clears the timer and launches `docker stop`, for one session (`CloseSession`) or
for shutdown's whole snapshot. A continuation may be delayed behind any other
ready event, which includes more interleavings than the microtask queue
produces (two continuations of one settled promise run back to back); safety
shown here is therefore shown of the program, and each counterexample kept as
a run was checked not to depend on it.

**`ContainerRunner`.** `container[s]` is the runtime's view of the container
of session `s`; `starting` the `start()` calls in flight; `containers` and
`idleTimer` the map and its timers; `stopCall[<<s, k>>]` what the `stop()` of
caller `k` awaits (`"stop"` or `"remove"`). Callers are the catch block of
`newSession`, the timer, `shutdown` and the clients `Closers`. `orphans` is a
history variable: containers lost because the process ended or because CLI
commands failed while the container lived. `stopAll`, which nothing calls, is
`StopCalled` on several sessions. The exit status of `docker run -d` is taken
to be truthful, and session ids (128 random bits) are not repeated.

**`SessionOrchestrator`.** `sessionRow` is `sessions.state`; `stateRow` the
rows of `container_state`, which nothing in the program writes, so it stays
empty: it is modelled because recovery reads it. `active` is the map
`activeSessions`; `connecting` the `connect()` calls in flight; `agent` the
agent processes, where `"signalled"` is one that `disconnect` has sent SIGTERM and
that may run on for any time, also when its session is closed and its container
gone (`AgentExits` is never forced); `prompts` how many prompts each session awaits. `proc` is the
process: up, closing (shutdown under way), closed (`db.close()` done; what is in
flight goes on and its writes throw), down. `early` remembers sessions closed
while `newSession` was still creating them, `strays` agents that no connection
refers to and that nobody signals, `lost` the sessions whose row was active when a process ended. Recovery
is one step: nothing else runs before it ends, and since no row of
`container_state` exists its two loops run over nothing and never await; a crash
during it is a crash before it. A crash inside its loops would matter only in a
program that writes those rows.

**`TaskScheduler`.** Times are numbers, the poll timer ticks at any time the
flag allows. A task of the snapshot that is not pending when its turn comes is
skipped, and cannot become pending again while it is in the snapshot, so `GoOn`
drops such tasks at once and goes to the next prompt or to the end of the loop.
A rejected prompt and an answered one have the same effect on the rows.

**`PromptFlow`.** One active session, so prompts are the only actors. A chunk is
tagged with the prompt it answers, `<<p, n>>`, or `<<p, 0>>` when the agent goes
on after its response or after the prompt failed; the program sees no tags.
`collector` is `messageCollector`, `messages` the table in the order of
insertion.
`said`, `crowded` and `interrupted` are history variables. `PromptFails` stands
for an error response, the end of the agent and a database that is closed when
the answer is to be stored. Chunks are text that is not empty; other updates are
only forwarded. What closing and idling do to the session is in
`SessionOrchestrator`.

**`Replay`.** A load reads all rows at once, in the order of `created_at` and,
through the index, of insertion; then it sends one row per step, and any step of
the prompts may come between. `clock` is the wall clock in milliseconds that may
stay, advance or step back at any time, `stamps` the `created_at` of each row.
`sent` and `snapshot` hold row numbers, from which the text follows.

**`OutputBuffer`, `TerminalManager`.** Text is a sequence of bytes in which
continuation bytes are told from others, so that truncation may cut a character
and `Buffer.toString` puts U+FFFD, three bytes, for every byte left of it.
`process[t]` is the child process with the event it still owes: `close` after
an exit; `error`, perhaps followed by `close`, after a failed spawn. The
requests of the agent may arrive in any order and after `cleanup()`: what the
agent had sent is still handled. `kill()` is taken to succeed in sending its
signal. The signal reaches the `docker exec` client; what it runs inside the
container ends with the container, which is `ContainerRunner`'s. `getOutput`
only reads and is not an action.

**`FilesystemManager`.** A file is a sequence of lines, each known by whose
content it is of and its number there, so that a line in the wrong place or of
another write is told apart; a line stands for bytes of equal length. `call[w]`
is what `write()` awaits and `cat[w]` the process in the container, which may
outlive the client that started it. Every `cat >` empties the file when it opens
it and then writes at its own offset, over or past what others wrote. `runtime`
is the one chosen at boot: `AppleContainerExec.spawn` ignores `interactive`
(container-exec.ts:51), so that `cat` is given no input there (`Delivered`); the
model takes `container exec` without `-i` to pass an end of file on, as `docker exec`
does. A client that is lost or killed ends with a null code, on which the call
rejects (`ClientLost`, filesystem-manager.ts:167); the stdin of a dead client has no
`error` listener (:179), and an EPIPE there ends the process like any other
uncaught error: that end is the subject of `SessionOrchestrator`. A read sees
the file line by line; a chunk boundary inside a character may garble a line.
Paths and quoting are left out.

**`SessionFolder`.** CLAUDE.md is a sequence of tokens: the two markers, a
mode's prompt, pieces of other text. `SetMode` writes the row and reads the
file; `WriteClaude` writes it back; in the program both are synchronous, but the
agent in the container is another process, and may edit between the two.
`AgentInserts` puts text or a marker at any place of the file. What the agent puts
between the markers is part of the section, which the next change of mode replaces
whole (session-modes.ts:41); `texts` therefore records what stands outside
(`Inside`), and only that is promised to stay.
`WriteFails` is a failing or torn write or the end of the process. `damage`
counts the edits that remove something or add a marker, `behind` says that no
change of mode has been completed since the row last changed. Creation follows
the scaffold up to the place where it throws, and `StartContainer` hands the
MCP servers on. The JSON text of package.json, .mcp.json and the environment is
left out, as is how signals are formatted.

Operators named `X_Suffix` and marked "Plausible bug" are variants of `X` that
show that the properties notice the bug; nothing uses them.

## Runs

| Run | Bounds | Shows |
|---|---|---|
| `sessions` | 3 sessions, room for 1, 2 creations in flight, 1 crash and restart | `TypeOK`, `CapacityOvershoot`; every step is one of `RunnerSpec` |
| `teardown` | 1 session, 2 clients, 2 prompts in flight, CLI may fail, 1 crash and restart | `EveryContainerKnown`, `TeardownAhead`, `UncountedContainersEnd`, `ClosedSessionIsInert`, `AgentAccountedFor`, `ActiveRowExplained`, `ActiveLosesContainerToIdle`, `ShutdownClosesSnapshot`, `IdleTeardown`, `ShutdownCompletes` (the last two liveness) |
| `scheduler` | 2 tasks of any kind, times up to 3, 1 crash | `TypeOK`, `RunningHasOwner`, `OnceAtMostOnce`, `CancelHolds`, `IntervalRespected`, `DueTaskRuns` (liveness) |
| `terminals` | 2 terminals, limit of 3 bytes or none, 2 chunks of a 1-byte or 4-byte character, 1 wait each | `TypeOK`, `NoProcessLeft`, `OutputIsTail`, `ExitStatusAgrees`, `ReleaseEndsWaits` (liveness) |
| `transcript` | 2 prompts, 2 chunks each, 3 in the collector, 1 load, a clock of two values | `TypeOK`, `OwnAnswer`, `AnswerComplete`, `ReplayExact`, `QuestionFirst`; every step is one of `TranscriptSpec` |
| `files` | either runtime, 2 writes, 1 read, up to 2 lines, every line and limit from 0 to 2 or none | `TypeOK`, `LoneWriteStored`, `NoShiftedLines`, `ReadExact` |
| `session_folder` | 5 projects, 21 lists of up to 2 MCP servers, 7 tokens, 2 damages | `TypeOK`, `ModeAgrees`, `TextKept`, `OnlyFirstSectionReplaced`, `McpDelivered`, `DetectionMonotone` |
| `stale_containers` | 1 session, 1 crash | violation of README.md:124 |
| `idle_under_prompt` | 1 session | violation of README.md:46 |
| `shutdown_while_creating` | 1 session | violation of session-orchestrator.ts:207 |
| `overlapping_prompts` | 3 prompts, 1 chunk each | violation of session-orchestrator.ts:110 |
| `cancel_during_run` | 1 task | violation of task-scheduler.ts:164 |

**Bounds.** Sessions interact only through the capacity check, shutdown and the
process. `sessions` has three of them for room of one: one that is active, one
that is admitted beside it and one more. It has neither clients that close nor
prompts nor failing commands, which with three sessions is out of TLC's reach. The
races inside one session need its creation, up to four stops, prompts and a
timer, all of which the one session of `teardown` has, with two clients for two
closes that overlap each other, the timer and shutdown; its shutdown has a snapshot
of one session. What both runs leave out, clients that close several sessions at
once and shutdown's snapshots of several sessions beside them, is covered by the
proofs, which hold for any number of both. One crash is enough because the safety invariants
are proved inductive: a second starts from states of the same kind. Two tasks
give a snapshot with a waiting row and an interval task that could starve
another. Two prompts overlap in every way or follow each other, two chunks show
order, and the third place of the collector is for a chunk that comes late;
three prompts at a time are left to the proofs. Two values of the clock are
enough for rows of one millisecond, of two, and of a clock that steps back. Two
terminals are one that is cleaned up and one that is created after it; two chunks
let the buffer be cut twice, and cut into what replaced a character; the limit is
below the width of a character, so a cut may leave one, two or three of its
bytes. Terminals share only the clean-up. Two writes are enough for offsets that
disagree, two lines for a hole and for ranges that begin, end or lie past the
end of the file. Seven tokens are a template, a context, a section of three, a
piece of the agent's text and one more marker; two damages can open a section
and leave another's end behind.
`MaxPendingNew`, `MaxPrompts`, `MaxChunks`, `MaxCollected`, `MaxWaits`,
`MaxCrashes`, `MaxTime`, `MaxLines`, `MaxTokens`, `MaxDamage` and one stop per
session and caller are bounds of the models, not of the program.
`CHECK_DEADLOCK FALSE` is set in every run because each bounded system really
stops: all session ids used and closed, the process gone for the last time, the
clock at its end, every prompt settled, every terminal closed and released,
every request for the file answered, the file deleted and the damages spent.

**Fairness** (`teardown`, `scheduler`, `terminals`). The CLI commands behind `stop()`
terminate (`docker stop --time=10` kills after ten seconds; `execFile` itself
has no timeout, so a hanging daemon is assumed away), and the event loop runs
what has settled. An armed timer fires unless prompts for that session keep
coming for ever: `resetIdleTimer` restarts it each time, so fairness of the
timer is assumed only if they do not. Nothing is assumed of the agent, of
clients or of `docker run`: `ShutdownCompletes` holds although prompts and
creations may hang. For the scheduler the poll timer and the clock keep going;
`DueTaskRuns` in addition needs every prompt to be answered or to fail. Without
this last assumption it is false: no prompt has a time limit
(`containerTimeout`, config.ts:17, is read by nothing), and one hung prompt
stops the loop. For the terminals SIGKILL ends a process, the
event an ended or unspawned process owes is delivered, and a resolved promise
runs its continuation; a process that was sent SIGTERM or nothing may run for
ever, and a `close` after an `error` may not come.

## What the runs found

Five places where the program does not do what its documents or comments say
are kept as violation runs and described in `PROJECT.json`, "findings":
containers of a crashed process are never found by recovery (no code writes
`container_state`); the idle timer does not know of a prompt in flight; a
session in creation at disconnect survives shutdown; a prompt made during
another one empties the collector, so that the first one's answer is lost; an
interval task that is cancelled during its run is pending again after it (a one-shot
task's cancellation is overwritten too, by "completed", which no document rules out).

Seen while modelling and not kept as runs: two concurrent `newSession` requests
pass the capacity check at the last place (README.md:127 promises rejection;
`CapacityOvershoot` says by how much it may be exceeded); a session closed
during its creation becomes active with its row closed (`early`); a task running
at a crash is never due again (`abandoned`; docs/architecture.md:61 says that
scheduling state survives restarts); `closeSession` frees its place before its
container is down, so more than `maxConcurrent` containers may run; after an
idle teardown the session stays active and prompts go on without a container,
which nothing starts again; a `closeSession` outside shutdown's snapshot may
find the database closed and leave its row active; truncation does not respect
character boundaries, and what replaces a cut character takes the buffer over
its limit (docs/adr/001-acp-client-interface.md:223 asks for both;
`OutputIsTail` says by how much); a terminal created after the clean-up of a
disconnect is released by nobody (`late`); two writes of one file may leave lines
of both and holes of zero bytes between them, and so may a write that is retried
after its client was lost (`crowded` in `FilesystemManager`); an edit of
CLAUDE.md between the host's read and its write is lost, and so is, at the next
change of mode, what the agent wrote between the markers; under the Apple runtime
`write()` resolves and leaves an empty file, since no input reaches `cat`
(docs/architecture.md:53 promises the same I/O under both); an agent may live on
after its session was closed and reported as such, since nothing waits for it or
follows SIGTERM with SIGKILL (agent-process-manager.ts:143); a session begins
with a mode in its row that its file does not show (`behind`); after the clock
has stepped back a replay may send an answer before its question (`back`).

The positive properties name these exceptions exactly. `ClosedSessionIsInert`
excludes `early` sessions; `AgentAccountedFor` lists `strays`, and speaks of agents
that nobody has signalled; `ClosedSessionIsInert` and `ShutdownClosesSnapshot` allow
for an agent that was sent SIGTERM. `CapacityOvershoot` gives the size of the
overshoot, `UncountedContainersEnd` and `ActiveRowExplained` list what is left
behind. `CancelHolds` excludes the awaited task, `RunningHasOwner` lists abandoned
ones. `NoProcessLeft` has `late`, `ExitStatusAgrees` names a failed spawn.
`OwnAnswer` excludes `crowded` prompts, `AnswerComplete` `interrupted` ones, and
`QuestionFirst` answers during which the clock stepped `back`. `LoneWriteStored`
excludes `crowded` writes and says that the Apple runtime stores nothing,
`ReadExact` excludes `disturbed` reads, and `TextKept` speaks of text outside the
mode section. They say that these are the only ways in which the expected property
fails.

## Proofs

All for every set of sessions, clients and tasks and every bound, from the
named assumptions of the modules (`RunnerAssumption`: finitely many sessions,
names of callers are distinct; `OrchestratorAssumption`, `SchedulerAssumption`:
constants are numbers, `MaxConcurrent` is positive; `MaxWaitsAssumption`,
`BoundsAssumption`, `MaxLinesAssumption` and `TimeAssumption`: bounds are numbers;
`OriginalAssumption`, `NullAssumption`, `NoLimitAssumption`: names are not ids or numbers;
`NullAssumption` of `ProjectDetector` likewise; `OutputAssumption`: limits are numbers
and output is decoded text, in which no continuation byte is without its lead
byte; `FolderAssumption`: what the agent adds to CLAUDE.md is a marker or a piece of
text that is neither a marker nor a mode's prompt; a request's servers are a
sequence of servers of the protocol; .mcp.json and the environment variable can be
told from none at all).

- `ContainerRunnerProofs`: `RunnerTypes`, `ContainersKnown` and
  `TeardownNeverForgotten`. The two safety properties become inductive
  (`RunnerInv`) with one fact more, `WasUp`: the container of a session that is
  tracked or being stopped has been up, so an entry is deleted only after a
  stop saw the container gone or failed to end it.
- `SessionOrchestratorProofs`: `TypeCorrect`; `ImplementsRunner`, that every
  step is a step of `RunnerNext` or leaves the runner's variables alone, so
  that `RunnerPromises` carries the runner's theorems over; `CapacityBound`,
  where the admitted sessions (active or being created) only grow by
  `NewSession`, which adds one when fewer than `MaxConcurrent` are active and
  fewer than `MaxPendingNew` are in flight; `ClosedIsFinished`,
  `ShutdownIsComplete` and `AgentsHaveOwners` (which claim of an agent that it was
  sent SIGTERM, not that it has ended) from one inductive invariant
  (`LinkInv`) that relates, per session, rows, entries, calls in flight and
  agents: a session whose `start()` is awaited is nowhere else (`CreatedInOrder`);
  nothing exists without a row (`RowComesFirst`); once a stop that will close
  the row is in flight, the session is neither active nor being created, which
  is what makes the later write of "closed" right (`ClosingIsFinal`); and a
  session of shutdown's snapshot is closed or has shutdown's own stop in flight
  (`SnapshotProgress`); `UncountedEnd`, `RowsExplained` and `IdleTakesContainers`
  from the same invariant, with what an active row and an uncounted container
  may be due to. `ShutdownAwaitsLess`: what shutdown awaits only advances.
- `TaskSchedulerProofs`: `TaskTypes`, `RunsHaveOwners`, `OneShotsRunOnce`,
  `CancellationsHold`, `IntervalsRespected` from `IInv`: the flag, the snapshot
  and the awaited task agree (`LoopInv`); a one-shot task that waits has not run
  (`RunsInv`); what is in the snapshot is due and stays so, and the next run of an
  interval task is one interval after its last (`TimesInv`). `FlagReleased` and
  `SnapshotIsServed`: the flag is never left set, and the loop loses no task of its
  snapshot and makes one prompt for each at most.
- `TerminalManagerProofs`: `ProcessTypes`, `NoneLeft`, `StatusesAgree`. The
  strengthening is `StatusFollowsProcess`, what the exit status may be in each
  state of the process; `NoneLeft` needs it too, since `release` only kills
  what has no exit status. `TypeCorrect` and `OutputIsEnd` follow from
  `OutputInv`: every buffer is legible and the end of what was written.
  `AppendKeepsTail` is the step of that argument. A buffer is related to the text
  byte by byte (`Ends`: `k` replacement characters, then the last bytes), which
  appending keeps; a cut either falls into the last bytes, or
  into the replacement characters, and what it leaves of one is replaced again.
  `Legible` is why at most three continuation bytes are left of a cut, hence
  the bound. `NoWaitForgotten`: a wait on a released terminal always has something
  that will answer it, since only what was created is waited for (`Created`).
- `PromptFlowProofs`: `TypeCorrect` and `OwnAnswerStored`, from
  `TranscriptInv`: while a call has had the agent for itself, it is the only one
  in flight, its question is the last row and the collector is its answer so
  far (`Alone`); a call that is not over has no answer (`NoAnswerYet`).
  `AnswersComplete` adds `Gathering`: until another call is made, the collector
  has all that was said in answer to a call, in order, among chunks of others.
  `Implements`: each action is one of `Transcript`; only `PromptReturns` needs the
  invariant, to store exactly what was said.
- `ReplayProofs`: `ReplayImplementsPrompts`, that loads and the clock leave the
  transcript alone, so that `AnswersWhileLoading` carries the theorems of `PromptFlow`
  over; `ReplayIsExact` and `QuestionsFirst` from `ReplayInv`. The order of a
  snapshot is by the number of rows that come before a row (its rank); ranks grow
  with the order (`RankGrows`), so they are distinct, and being as many as there are
  rows below a bound of as many, every rank is taken (`RanksTaken`): the snapshot is
  a permutation of the rows, in order (`GetMessagesSorts`). That it stays sorted while
  rows are added needs rows to keep their stamps, `sent` is its beginning
  (`SentInOrder`), and the question of a call in flight was stamped no later
  than the clock shows, unless the clock has stepped back during the call
  (`QuestionsStamped`): that is what the answer's stamp is compared with.
- `FilesystemManagerProofs`: `FileTypes`, `LoneWrites`, `LinesInPlace`,
  `ReadsExact`. For the writes the invariant (`WriteInv`) is the two properties
  with how a call follows its process, what its runtime delivers to it, and what
  overlapped is known as such; for
  the reads (`ReadInv`), the output of a read at rest is the part of the range
  that has gone through.
- `SessionFolderProofs`: `ModesAgree`, `TextsKept`, `FolderTypes` from `FolderInv`,
  which says what an undamaged file is (`Tidy`: no marker, or one section, perhaps
  with text in it, and no other marker), that every text that must be there stands
  outside of it (`AllOutside`), and that a write which is due has the row's section
  and every text outside it. Its steps are `ApplyTidy`, what `applyModeToClaude` does
  to such a file, and `InsertTidy` and `InsertOutside`, what text put anywhere does:
  it neither makes nor breaks a section, and moves nothing into one.
  `FirstSectionReplaced` needs nothing of the file, only that the section replaced
  is the leftmost and ends at the first end marker after it (`FirstSection`; that
  there is a leftmost one is `LeastPair`, from the well-foundedness of pairs).
  `DetectionGrows` holds of all directories: with more names, the row of a table that
  answers can only be replaced by an earlier one, and those of one language agree.
  `LastModeWins`, of all files: changing the mode again gives what the last change
  alone would have given, if the file had a section or no start marker (without
  this, the first change may append a section and the second replace all from an
  open marker to its end).
  `ServersReachContainer`: what the container is started with has, under every name, the
  last stdio server of the request that has this name, and no other.
  `fromAcpMcpServers` is a loop, here a recursive function; that its equations have a
  solution (`LoopExists`) and that the solution keeps order (`FromAcpInOrder`) are shown
  by a least counterexample (`LeastNumber`), since the library's induction takes an operator.
  An object of JSON keeps the last value of a name (`FileHoldsLast`), and the file
  and the variable hold the same (`McpInv`).

Only model-checked: the liveness properties (`IdleTeardown`,
`ShutdownCompletes`, `DueTaskRuns`, `ReleaseEndsWaits`), since liveness under
fairness is out of the prover's reach. Their safety parts are proved: a
container that is tracked has a timer or a stop in flight (`TeardownNeverForgotten`),
what shutdown, the loop and the waits wait for gets less (`ShutdownAwaitsLess`,
`SnapshotIsServed`) or is owed (`NoWaitForgotten`), and the flag is released
(`FlagReleased`); that the steps they name are enabled and taken is what TLC
checks. Every invariant and every other action
property of the passing runs is the statement of a theorem.

## Not modelled

- Building the arguments of `docker` and `container` commands and how the runtime
  is chosen at boot: no state. Of the two dialects of `container-exec.ts`, the one
  difference a property depends on, whether a write's input reaches its process, is
  in `FilesystemManager`; working directory and environment are data.
- `at` times as text: `getDueTasks` compares strings (db.ts:381), so an `at` in
  another format or time zone sorts differently from the ISO times it is compared
  with. The scheduler's times are numbers, which is right for the format the
  program itself writes.
- Configuration parsing and logging; titles, working directories and
  `updated_at`, data that no property tells apart; the text of JSON and Markdown.
- `setContainerState`, `deleteScheduledTask`, `stopAll` and the limit of
  `getMessages`, which nothing in the program uses (`stopAll` is nevertheless
  `StopCalled` on several sessions).

What could be added: a recovery with rows, if the program comes to write
`container_state`.
