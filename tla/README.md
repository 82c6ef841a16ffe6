# Formal model of IMclaw

IMclaw is a personal assistant that lives in a Feishu chat: `packages/imclaw` receives the owner's messages,
queues them per chat and hands them to a coding agent (`packages/coding-agent`, `packages/agent`,
`packages/ai`, taken over from pi-mono); `packages/server` keeps such agents as processes for other clients.
This directory holds TLA+ models of their concurrent core, TLC runs, and proofs checked by TLAPS. Paths below
are relative to the repository's `packages/` unless they begin with `docs/`.

Contents: [the system](#1-the-system), [modules](#2-modules), [runs](#3-runs),
[fairness](#4-fairness), [proofs](#5-proofs), [findings](#6-findings),
[seen without a run](#7-seen-without-a-run), [left out](#8-left-out), [plan](#9-plan),
[running it](#10-running-it).

## 1. The system

IMclaw runs in one Node.js process under PM2, the server in another. There are no threads: what interleaves is
the code between two awaits. A message passes through these parts:

```
Feishu --> FeishuAdapter --> ImclawController --> PiAgentBackend + TaskGuard --> AgentSession --> Agent + loop --> provider
            filter, dedupe    queue per chat       runtime per chat, limits      retry, compact     turns, tools
                                                                                     |              |
                                                                            SessionManager   withFileMutationQueue
                                                                            tree, file       <-- write, edit, deliver_file
IPC clients --> InstanceSupervisor --> RpcProcess (child: an agent session)      AgentHarness: the same session as a library
                 records, Radius        requests, exit                            prompt, save points, storage
```

| Component | State | Operations | What is hard | What makes it correct |
|---|---|---|---|---|
| Chat controller (`imclaw/src/controller.ts`, `index.ts`) | Map of queues: items, running flag, epoch; memory only | `handle` (prompt, /new, /abort, fixed answers), `enqueue`, `runQueue`, `dispose`; crash, PM2 restart | handlers and loops suspended at any await; a loop nobody awaits; /abort during a task; shutdown with suspended handlers | one loop per chat, no lost wake-up, every item in one place, silence after /abort, draining at shutdown |
| Pi backend (`pi-backend.ts`) | Map chat -> session runtime | `prompt`, `newSession`, `abort`, `dispose` | calls overlap with the creation and teardown of a runtime | a task is stopped when asked, and cleaned up after |
| Task guard (`task-guard.ts`) | counters, stop message, timer, listener | event handler, timer, `abort`, `dispose` | announced batches, stop between two runs, late results | limits hold, a stop is final and reported, no guard outlives its task |
| Temporary artifacts (`temporary-artifacts.ts`) | files and browsers of the workspace | cleanup at startup, after tasks, after aborts | one workspace for all chats; every part of it may fail | what it leaves behind it has logged |
| Agent session (`coding-agent/src/core/agent-session.ts`) | active flag, last answer, retry counter and sleep, overflow flag, waiters | `prompt`, `abort`, after-run handling, compaction | recovery loops, transcript and file disagree, flag shared by callers | bounded recovery, every call settles, `continue()` never throws |
| Session manager and compaction (`core/session-manager.ts`, `core/compaction/`) | tree of entries, leaf, JSONL file | append, branch, fork, reload, cut and summarise | a file that begins late, a crash between or inside appends, a summary that arrives late, where to cut | what is reloaded is what was appended; nothing but what a summary stands for leaves the context |
| Agent (`agent/src/agent.ts`) | transcript, active run, steering and follow-up queues | `prompt`, `continue`, `steer`, `followUp`, `abort`, `clearAllQueues` | polls race with callers; failures after a message was taken | no message lost, doubled or overtaken |
| Agent loop (`agent/src/agent-loop.ts`) | context, pending messages, current batch | turns; sequential, parallel, truncated batches | aborts and rejections within a batch | results in order and complete, context equals transcript |
| Message transformation (`ai/src/api/transform-messages.ts`) | none | repair of a transcript before a request | transcripts after aborts and failures | providers accept what is sent |
| File mutation queue and its tools (`coding-agent/src/core/tools/`, `imclaw/src/deliver-file.ts`) | Map key -> promise chain, registration chain | register, wait, run, leave | keys are awaited and depend on the file; failures; links | one operation per file, in call order, none blocked, no leak |
| Agent harness (`agent/src/harness/`) | phase, pending writes, queues, leaf | prompt, compact, navigate, writes | phase idle before the run has returned, parent read before the append | nothing lost or doubled; writes in order and one chain where something keeps them apart |
| Instance supervisor, RPC process, Radius (`server/src/`) | live instances, records on disk, children, heartbeats, pending requests | spawn, stop, rpc, shutdown, recover | stop during spawn, exit during either, late or refused answers of Radius, death of the server | records, processes and heartbeats agree, or are corrected by the next start; requests and shutdown end |
| Feishu adapter (`feishu-adapter.ts`) | identifiers seen | filter, dedupe, send | redelivery after a restart | once per message |
| Settings, extensions, package manager, terminal interface, scripts | - | - | - | not part of the concurrent core |

`PROJECT.json` lists every component with its sources and status, and every hazard at its line with the
properties that would catch it.

## 2. Modules

One action is one stretch of JavaScript between two awaits that matter. A suspended call is a coroutine with a
program counter. Whatever is outside (Feishu, the model provider, tools, Radius, the file system, the user)
may answer or fail at any later step.

### ImclawController
State and code: `queue[c]` is the `ChatQueue` of chat c (`items`, `running`, `epoch`; `exists` tells whether
the Map has it), `hpc[m]` the place where `handle` of message m is suspended, `runner[m]` the `runQueue`
coroutine that the enqueue of m started. Runners are named after messages, not after chats, so that the
model does not itself rule out two loops for one chat. `outcome` and `cut` are histories.
Actions: `ReceivePrompt`, `ReceiveNew`, `ReceiveAbort`, `ReceiveNotice` are the first stretch of `handle`;
`AckSent`, `AckFails`, `AbortBackendReturns`, `HandlerAnswers` what follows its awaits; `BackendReturns`,
`CallFails`, `ChunkSent`, `ErrorReplySent`, `ErrorReplyFails` those of `runQueue`, each with the
synchronous way through the head of the loop (`LoopTop`) up to the next await; `CloseAdapter`,
`DisposeController`, `BackendDisposed` the signal handler; `Crash` and `Restart` PM2.
A rejected `sendText` in the catch block rejects a promise nobody awaits, which ends the process.

### SerialExecutor and ControllerRefinement
`SerialExecutor` is what a chat's user may rely on: one task at a time, in order of submission, no idling
while a task waits, an audible end for every task that was not cancelled, silence for one that was cancelled
before it spoke. `ControllerRefinement` maps the controller to it (`ImplementsSerialExecutor`): submitted =
enqueued (`Submitted`), current = the item of the chat's loop, speaking = a piece is being sent (`Speaking`),
muted = its epoch is outdated (`Muted`).

### GuardedTask
The backend, the guard and the cleanup around the tasks of one chat. The session is reduced to its runs and
their parallel batches: `Announce` is `tool_execution_start` with `TaskGuard.handleEvent`, `Prepare` is
`prepareToolCall`, `Execute` starts the prepared calls together. A command is the number of browsers it
starts and whether it respects the policy. `hears` is false for the session that stays current after a failed
/new (`agent-session-runtime.ts:242`). `TimeOut`, `Abort`, `Dispose` may come at any step.
`Answers` records the answer of a run and `RunEnds` is the run's end, after the awaited listeners of `turn_end`
and `agent_end`; an abort between the two comes too late for the answer, and a retryable one is retried. A
cleanup may fail in any part (`errors`): it logs that and is over all the same; `logged` remembers what the
cleanup of the last task has logged and left. Off Windows no browser is ended (`Removable`).
Abstractions: batches are parallel (a sequential batch is one of one call, repeated); other chats appear only as
`OtherCleans`; processes that a command leaves in the background are not followed; a provider heeds the
abort signal; a handler of `agent_end` that queues a message and so asks for a further run
(`agent-session.ts:1098`) needs an extension and is left out.
`late` remembers that a run of the task began after its guard had stopped it, because the stop fell before the
first run, between two, or behind the answer of one: see finding 1; the properties about limits and progress
are stated for the other tasks, and `TasksAndAbortsEnd` up to the moment a task becomes one of these.

### AgentSession
Every `prompt()` and `abort()` is a coroutine. The agent is reduced to who owns its active run, the last
message of its transcript (`tail`) and of the session file (`saved`), and the number of queued messages. A run
ends with an answer, an abort, "length", an error, a retryable error or an overflow. `PostRun` is
`_handlePostAgentRun`, with `CheckCompaction`, `PrepareRetry`, `Continue` (of `agent.continue()`, which may
throw). Constant `SerialCallers` is TRUE in the run, because the controller never has two prompts of a
chat in their preflight; section 7 says what happens otherwise.

### AgentLoop, TransformMessages, MCAgentLoop
`AgentLoop` is `Agent` with `runLoop`: the two logs (`transcript` of the agent, `context` of the loop), the
queues with their mode (`queueMode`, chosen in Init), the batch with one state per call, and `stray`, calls
that still execute for a run that has failed. Up to `MaxRejects` events are rejected by a listener, which is
also how extensions' failures reach the loop. `TransformMessages` computes the request that is sent from a
transcript. `MCAgentLoop` composes both.

### SessionTree and SessionLog
`SessionTree` holds the pure part of `session-manager.ts` and `compaction.ts` as operators over a sequence of
entries: the path from the root to an entry, the context it shows the model (`buildSessionContext`), the
choice of a cut and of what is summarised (`findCutPoint`, `prepareCompaction`, `compact`). The text of a
summary is the set of entries it stands for; every entry counts as one token.
`SessionLog` is the session that uses them: entries in memory, the file that exists only from the first answer
on (`flushed`), the messages of the agent, the turn, an awaited compaction that uses what it read before the
wait, navigation, fork, new session, and a death of the process, possibly in the middle of a line, after which
the file is read again. A line that lacks only its end is read (`loadEntriesFromFile`, lines 541-543); whatever is
appended behind a line without an end is joined to it. `TornLine`, `OpenLine` and `GarbledLine` are the three ends
of a file that matter, `VoidFile` is one whose header was joined and which the reader refuses; `lost` remembers the
entries whose lines were joined. A failed answer leaves the transcript before a retry and stays in the session
(`RemoveAnswer`, `Rebuilt`); `dropped` remembers those.
With `Serial` nobody prompts during a compaction or moves the leaf during a turn: the terminal interface
does not enforce that (section 7), IMclaw never does it.

### AgentHarness
The harness of `packages/agent` down to the appends of its JSONL storage. An append takes two steps, as in the
code: the parent is read from the leaf and the line written, then the leaf moves (`writing[w]` is the append
under way of the operation or of a client). `pc` walks the operation: hooks, prompt messages, turns, save
points, `agent_end`, flush, failure report; `compact` and `navigateTree` share the phase. The tool calls of an
answer are one step that goes on to the next turn. Writes of idle clients come at any moment and overlap each
other, and the report of a failure that comes after the run has settled (`mode` "late"): nothing in the code
keeps those apart. `met` and `crossed` record the appends that overlapped so and the lines they became. One
thing is assumed of the callers: they start an operation only when the one before and the idle writes have returned.

### Supervisor
`supervisor.ts`, `storage.ts`, `rpc-process.ts`, `radius.ts` and `serve.ts`. Each instance has the coroutines
that may run at once: `spawning` (spawnInstance), `closer["spawn" | "stop" | "shutdown"]`
(cleanupAcquiredResources for each of its callers), `exiting` (handleUnexpectedRpcExit), `renewal` (a
registration that replaces an unknown one), `heart` (the heartbeat), `call` (a client's request). `rec` is the
record in memory and `disk` what instances.json says; `Crash`, `Restart` and `RecoverEnds` are the death of the
server and `recoverAfterRestart`. Three histories name the cases in which the code itself gives the agreement
up: `late`, `hidden`, `refused` (section 7); the properties except those, do not catch them, and forget them with
the server process. Clients are served during recovery once it awaits Radius (`Serving`), and the properties hold
there too: what the file then says that is not true is what recovery has read and is about to correct.

### FileTools
`withFileMutationQueue` and the tools that use it. `key`, `prev` and `tail` are the key, `currentQueue` and the
Map; `pc` walks a call through registration, waiting and the awaits of its operation. A file is written in two
steps, its content is the set of the calls it shows the effect of, and bash (`ShellWrites`) changes it
whenever it likes. Links make two paths lead to one file.

The modules with theorems are described in section 5.

## 3. Runs

| Run | Instance | Question |
|---|---|---|
| `controller_serial` | 2 chats (symmetric), 3 messages, replies of 1 or 2 pieces, 1 crash | Is a chat's queue a serial executor that /abort silences, with every item in one place whatever dies? |
| `controller_two_chats` | 2 chats, 3 messages, fair | Does everything that was accepted end, and does shutdown drain? |
| `agent_loop` | 3 messages, batches of up to 2 calls, 1 tool turn, 1 rejecting listener, both queue modes, fair | Do logs, results, queues and requests stay well formed after any failure, and do runs end? |
| `agent_session_serial` | 3 prompts, 2 retries, 2 aborts, 1 run with progress, fair | Is recovery bounded, and does every call return? |
| `guard_limits` | 2 tasks of up to 2 runs, batches of 2, limits 1 and 1, 1 abort, cleanups that fail, fair | Do the limits hold, does every task end, and what outlives it? |
| `file_tools_queue` | 3 calls of write, edit, deliver_file on a file and a link to it, 1 shell change, fair | One call at a time, in order, nothing lost or blocked? |
| `session_log` | 5 entries, 2 of them beside the conversation, 2 navigations, forks, new sessions or deaths, both of them perhaps within a write | Do file, memory and transcript agree, and does nothing leave the context unsummarised? |
| `supervisor` | 2 instances, any 2 of stop, request, exit, re-registration, refusal, death, fair | Do records, children and heartbeats agree, or will recovery see to it; do requests and shutdown end? |
| `harness` | 3 messages or writes, any 2 of rejection, failed append, abort, tool turn, compaction, navigation, fair | Nothing lost or doubled, writes in order, one chain but where idle writes overlap, every operation settles? |
| `guard_late_stop`, `session_forgets`, `supervisor_shutdown` | see section 6 | Where do code and document disagree? |

Why the bounds are enough. Controller: a lost wake-up, a second loop or a spoken-after-abort needs one running
item, one queued or suspended, and an /abort; chats share only the process, so two are enough to see one disturb
the other. Loop: a batch needs two calls to complete out of order or to be cut in the middle; a tool turn
that failed can precede a request; three messages let one be in the run, one steer and one follow. Session: two
retries distinguish the counter's reset from its increment; the third prompt arrives while the second is
queued. Guard: limits of 1 with batches of 2 reach the last allowed and the first forbidden call, in one
batch and in two; the second task sees what the first one left. Files: with three calls one is inside, one
waits and one registers, where a map entry deleted too early shows. Session log: five entries hold a
conversation, a compaction, and what is recorded behind it while its summary is awaited, then a fork or a reload of
that; with two cut writes the second meets what the first left, and the append after it shows what is lost. Supervisor: `MaxEvents` 2 lets any two
disturbances meet on one instance or on two, with the spawns, answers and the shutdown that are always possible.
Harness: two disturbances let a failure meet another failure's report. Every bound is a constant named in the
module's CONSTANTS, and the theorems of section 5 hold without them.

Every property is paired with a mutant of a mapped definition (named `Definition_Mutation`, beside the
original) under which its run fails. Each module's `TypeOK` states the shape of its state; it is a theorem of its
proof module (section 5), and the runs do not repeat it.

Deadlock is not checked in `agent_loop`, `guard_*`, `session_*`, `supervisor*` and `harness`, where an idle
agent, chat, session or server whose bounded supply of events is used up really has nothing to do; elsewhere the end
of the program is an explicit stutter (`Terminated`, `Quiet`, `Rest`).

## 4. Fairness

Only what the code and its environment owe is assumed, always weak fairness per coroutine:
- a suspended handler or loop of the controller resumes: the Feishu SDK answers or times out, the backend ends
  every task (this is what `TasksAndAbortsEnd` is about), and promises are run. `ErrorReplyFails` and `Crash`
  are not fair. The liveness run has no crash in it: a crash loses items by design (`controller_serial`);
- the agent loop takes its next step: providers, tools and listeners settle. Callers owe nothing;
- the session's prompts go on: runs, sleeps and compactions end. That a run ends is `RunEnds`;
- the guard's timer fires (`setTimeout`), calls return, the continuation of an abort runs. The model is not
  assumed to stop calling tools;
- a tool call's file operations return, with success or failure;
- the server's children answer a request and obey SIGTERM, Radius answers something, and the server goes on with
  what it awaits. Clients, exits, refusals and deaths are not forced;
- what an operation of the harness awaits comes: the provider, hooks, listeners and the file system return or
  reject.

`session_log` has safety properties only. No strong fairness is used.

## 5. Proofs

`tlapm` proves, for every value of the constants allowed by the ASSUMEs of the modules:

**ControllerProofs** (any number of chats, messages, pieces, crashes): `TypeCorrect`, `SingleRunner`
(`OneRunnerPerChat`), `NoLostWakeup` (`NoStrandedItems`), `AbortSilences` (`AbortSilencesRunningItem`),
`ClearedStaysCleared` (`ClearedItemNeverStarts`) and `AcknowledgedFirst`. None of them is inductive. The
invariant `IInv` adds to the types
- `HandlerInv`: messages arrive in order, and only an accepted one can have been cut or ended;
- `RunnerInv`: a live loop holds an accepted, unfinished item of its chat, under a raised flag and alone, with
  an epoch that is not ahead of the chat's and that is outdated if the item was cut. This is why the comparison
  of epochs silences it;
- `QueueInv`: a queued item was neither cut nor ended, is queued once, and no loop holds it. This is why an item
  that was cleared cannot start: only the head of a queue does (`StartStep`, `HeadIsFresh`);
- `FlagInv`: a raised flag has a loop, and a queue that is not empty has a raised flag. With `RunnerInv` this
  makes the flag an exact count of loops, which gives both exclusion and the absence of lost wake-ups.

One lemma per kind of step (`EnqueueInv`, `NextIterationInv`, `AbortInv`, ...) preserves it.

`Conservation` (`ItemsConserved`), in the same module: `KindInv` says which messages a suspended handler can be
about, `PlaceInv` that an item has been accepted exactly when it waits, is worked on or has ended
(`AcceptedHasPlace`). Together with `IInv`, under which these places exclude one another, the three
cardinalities of `ItemsConserved` add up; that a queue holds no item twice bounds it by the pigeonhole
principle.

`Refinement` (`ImplementsSerialExecutor`): `View` says that what the mapping shows of a chat is its single loop or
nothing; it follows from `IInv`. Then every step of the controller is a step of `SerialExecutor` or a stutter:
enqueuing is Submit, the first piece Speak, the end of an item Finish (with the start of the next one), /abort
Cancel, `dispose()` DiscardWaiting, the restart after a crash Restart (`SubmitStep`, `SpeakStep`, `FinishStep`,
`CancelStep`, `DiscardStep`, `RestartStep`, `QuietStep`).

**GuardProofs** (any limits, tasks, runs, batches and aborts): `TypeCorrect`, `LimitsHold` (`WithinLimits`),
`NothingLeft` (`NothingOutlivesTask`). The invariant `IInv` adds
- `Watch`: timer and listener are those of the current task, and only while it has a session; what lies about
  before it begins, the last cleanup has logged (`Accounted`);
- `BatchInv`, `Fresh`: the batch is empty outside its phases, a new task has executed nothing;
- `StopInv`: a stop has aborted the run that can call tools, unless that run began after it, and without a
  stop the count is within the limit;
- `CountInv`: the guard's counters are ahead of what has executed, is held for the batch and is announced. The
  limit itself is not inductive, because the calls of a batch are counted long before they execute.

Counting the browsers of a set of calls needs that one more call adds at most its own (`OneMore`).

**AgentLoopProofs** (any messages, calls, turns and rejections): `TypeCorrect`, `LogsAgree`
(`ContextIsTranscript`), `SourceOrder` (`ResultsInSourceOrder`). `Agree` says what the two logs are at every place
of a run, and not only where the model is asked: the same outside a batch, the context ahead by the pending
messages while a run begins, the transcript ahead by the results of the first `d` calls while a batch is executed
one by one, where `d` is exactly the number of calls done (`RecordedTo`). `InOrder` says why there is such a `d`: a
call is touched only when those before it are done, or prepared in parallel mode, and an abort skips all that
follow. `NextResult` makes the call that ends number `d + 1`; `AllRecorded` that a full batch brings the logs
together again; `WellRun` that results appended behind their assistant message keep the order.

`NothingLostOrDoubled` (`MessagesConserved`): `InOnePlace` counts every message over the two queues, the pending
messages, the transcript and what was dropped; the count is one from its submission on and zero before
(the counting lemmas stand at the head of the module, and of `HarnessProofs`). That the pending messages are empty outside their places (`NothingPending`) is what lets a
step throw them away. `OneSteeringAtATime` (`OneSteeringPerTurn`): `Quota` says how many steering messages have joined
the transcript since the model was last asked (`Fresh`): none once it has answered, one at most when it is asked,
and none while one is still pending; `SteersKnown`, that no number is a steering message before it is sent, nor a
follow-up.

`RequestsAreAccepted` (`RequestsAccepted`), also in `AgentLoopProofs`: `AskInv` says that every recorded result
answers a call of a complete answer that made that many (`Called`); with the order of the results (`Well`) a log is
then made of answers, each followed by the results of its first calls. `Scanned` follows `transformMessages` over
such a log, message by message: either all that goes out is accepted (`Settled`), or it ends with an answer and the
results it has so far (`Unsettled`), and what is flushed next is exactly the rest of them (`SyntheticFills`,
`AcceptedBlock`).

**SupervisorProofs** (any number of instances and events): `TypeCorrect`, `ChildrenHaveOwners`
(`NoOrphanProcess`), `HeartbeatsOfTheLiving` (`HeartbeatsAreLive`), `FileTellsTheTruth` (`RecordsAreTrue`).
`IInv` is the shape of the state and, for each instance, `HeartInv` (a heartbeat belongs to an instance at hand
that nobody ends, and such an instance has its process), `ChildInv` (a running child is held by the instance or
by a cleanup that will dispose of it), `CloserInv` and `RecordInv` (whatever is live, renewed or ended has had a
record). The file needs a second invariant on top, `FileInv`: `RadiusInv`, `AliveInv` (an instance nobody ends is
starting or online with its child running, and no other record says so) and `DiskInv` (the file follows the
record, or still says what recovery has read). `StepOfOne` and
`FileStepOfOne` reduce each step to the one instance it moves.

**AgentSessionProofs** (any prompts, aborts, retries and failures): `TypeCorrect` without a hypothesis; under
`SerialCallers`, `IdleIsIdle` (`IdleMeansIdle`), `BoundedRetries` (`RetriesBounded`) and `ContinueAccepted`
(`ContinueNeverThrows`). With `SerialCallers` FALSE all three fail: TLC finds two prompts that pass their preflight
together (section 7). `SerialCallers` is what IMclaw's controller guarantees by `OneRunnerPerChat`. `IInv` is
- `Exclusive`: one call is past its preflight, under a raised flag, and it owns the active run;
- `Transcript`: what the agent's transcript and the file end with where a call is suspended. Whatever leads to
  `continue()` has removed the failed answer, unless the file ends with an answer cut by "length";
- `Budget`: how many fruitless runs there may have been at each place: the retries counted (`retryAttempt`), as many
  again once an overflow was recovered from (the counter starts over), and as many for every `abort()`. The bound
  alone is not inductive, because the counter and the runs grow in different steps.

**SessionLogProofs** (any number of entries, branches, forks, compactions and crashes). The model recomputes
filtered logs, paths and cuts from their beginning, so its operators come first: that each recursive function is
well defined, and what an appended entry, a label or a fork does to its value (`Select*`, `Path*`, `Context*`). The
induction this takes is stated about sets (`Induction`, `StrongInduction`, `SeqInduction`), because the provers
cannot instantiate the library's.
- `SessionTypes`, `FileIsMemoryAlways` (`FileIsMemory`), `AgentSeesSessionAlways` (`AgentSeesSession`). `Inv` is the
  tree (`LogInv`: parents and first kept entries are earlier entries), `ControlInv`, `FileInv` (before the first
  flush there is no file and nothing is lost; a last line without an end still has its loss to come, of one entry or
  of two, which `Counted` sets aside so that the entries lost stay within two for each cut write; a refused file has
  none of the session's entries) and the two properties. `AgentSeesSession` needs that the answers dropped are older
  than what is appended (`DroppedInv`).
- `ForkKeepsPathAlways` (`ForkKeepsPath`): a fork's entries are a chain in the order of the path, so its path is the
  whole of it and the context that of the origin, as long as the first kept entry is not a label (the exception of
  section 7).
- Under `Serial` (as in the run; section 7 says who keeps it), `CompactionKeepsSuffixAlways`
  (`CompactionKeepsSuffix`): `CompactionInv` says that a compaction whose summary is awaited still fits the path to
  the leaf (`Prepared`): its first kept entry lies behind the previous boundary and all that is between is
  summarised. Entries appended meanwhile do not disturb that, a moved leaf would.
- Under `Serial`, `NoOrphanResultsAlways` (`NoOrphanResults`). Neither the context nor the path to the leaf is
  enough, since navigation, a reload and a fork show other branches: `ResultsInv` says of every path in the log that
  each result has its call before it with nothing visible between, and no entry of the stretch lost unless the result
  is too, and that no compaction keeps a result without its call (`Sound`); that during a turn the path ends with the
  call waited for (`Waiting`); that an awaited compaction is cut where it may be (`CutAt`); and that the
  last line of the file has its end during a turn (`Closed`). TLC found this invariant true of the run's instance before it
  was proved.

**HarnessProofs** (any number of messages, writes and failures): `SessionIsAChain` (`OneChain`). Parent and leaf
are read and set in different steps, so the chain rests on exclusion where there is any: `OneWriter` ties an
append of the operation to the places where it can be under way and those of clients to the idle phase, `Alone`
says that two appends under way at once are known to have met (`PhaseInv`: outside idle writes that needs a late
failure), `LeafIsLast` that the leaf is what the last entry left and that an append which met no other continues
from it, `Holds` that a message to be recorded is still at the head of its list. On top of it (`QueueInvariance`):
- `QueueInv`: the queues keep messages and writes apart (`Placed`), the inbox is in use only while a run takes it
  in (`InboxInv`), and what an append carries is still the head of its queue (`Carries`);
- `WritesKeepOrder` (`WritesInOrder`): pending writes are in the order of their calls, and behind all that is
  in the session or in hand, save for the writes held over from before and those that crossed (`Lines`, `HandInv`);
- `NothingForgotten` (`ItemsOnce`): the number of places a message or write is in, over five queues, the session,
  the client's hand, what was returned and what was lost, is one (`Total`, `Once`). An item being appended by
  the operation is in its queue until the line is written, which is why `Carries` is needed;
- `ModelSeesSession` (`RequestShowsSession`): `ContextInv` says that a turn that is about to ask holds the
  path to the leaf, that the leaf and every parent are entries before (a forked one too), and that only a navigation moves the leaf
  elsewhere (`ToSteps`). The path is a recursive function of the log; that the recursion has exactly one solution
  (`PathDefined`) is itself part of the invariant, and `PathGrows` carries it over one appended entry, so that no
  induction over the log is needed;
- `TypeCorrect` (`TypeOK`) needs all of these, since it says that parents point backwards, that the leaf, the context
  and every path name entries of the log (`ContextType`), and that what was given up was handed in (`FateSteps`:
  it waited, or was in hand, in the step before).

**FileToolsProofs** (any files, links and calls): `TypeCorrect`, `Exclusion` (`OneCallPerFile`), `Order`
(`CallOrder`), `UpdatesKept` (`NoUpdateLost`), `CleanMap` (`MapIsClean`, which no run checks any more). Its `IInv`:
- `InOrder`: calls arrive and register in order, so whoever is queued was called before whoever registers;
- `TailIsLast`: the Map's entry for a key is the last call queued on it, and exists as long as one is;
- `Chained`: a queued call is at or before `currentQueue` of every later one on its key;
- `InTurn`: a call that is inside has nobody queued before it, nor has a call that has ended and is still
  somebody's `currentQueue`.

`StepKinds` first reduces the fourteen actions to the five ways in which they touch the queue.
`MoverIsFirst` is the heart: a call that waits on nobody, or on a call that has ended, is the first in its queue.
`UpdatesKept` adds `UpToDate`: what a call has read of a file is still what the file shows, apart from changes of
the shell, because by exclusion nobody else has written meanwhile.
`Exclusion`, `Order` and `UpdatesKept` are stated for calls whose keys were real paths (`Resolved`); the fifth item of
section 7 shows that the condition is necessary.

Only model-checked:
- all liveness (`EveryItemEnds`, `ShutdownCompletes`, `RunEnds`, `EveryCallReturns`, `TasksAndAbortsEnd`,
  `EveryCallEnds`, `EveryRequestReturns`, `ShutdownEnds`, `OperationsSettle`): the prover has no ENABLED.

Safety properties of every passing run are theorems. `StopIsFinal`, `SummaryCoversHistory` and `ShutdownExits` are
violated (section 6).

## 6. Findings

1. `guard_late_stop`: when the ten minutes run out before the first run of a task or between two (preflight,
   compaction), `session.abort()` finds nothing to abort, and since the stop is recorded the guard hears no
   further event: the next run has neither a time nor a tool limit (`imclaw/src/task-guard.ts:96`, message at
   `task-guard.ts:7`). The same happens when the stop falls behind the recorded, retryable error of a run
   that is not over yet: it aborts that run's signal, and the retry has a new one
   (`agent-session.ts:1062`).
2. `session_forgets`: when no message lies between what the previous compaction kept and a split turn,
   `compact()` writes "No prior history." and does not hand on the previous summary, so all it stood for is gone
   (`coding-agent/src/core/compaction/compaction.ts:838`; `coding-agent/docs/compaction.md:43` and `:106`
   promise otherwise). A model change recorded right before a prompt is enough to make a turn count as split.
3. `supervisor_shutdown`: `shutdown()` stops one instance after the other and lets an error of `disconnectPi`
   out of its loop; the remaining instances are not stopped, `process.exit` is skipped and the
   unhandledRejection handler awaits the same rejected promise (`server/src/supervisor.ts:336`; `serve.ts:75`
   keeps the process alive only until a shutdown).

## 7. Seen without a run

Read off the code while modelling; the step is in the model where one is named, and the property is stated with
the exception where one would fail.

Controller, backend and files:
- `handle` awaits the acknowledgement before it enqueues, so prompts of a chat run in the order in which their
  acknowledgements complete, and /new, which is not acknowledged, overtakes them (`controller.ts:70`;
  `AckSent`). `docs/PI_MONO_ARCHITECTURE.md:33` speaks of first in, first out.
- A prompt received before /abort whose acknowledgement is still pending is not in the queue that /abort
  empties; it runs after the user was told that everything was aborted (`controller.ts:58`, `imclaw/README.md:68`).
- A failed /new leaves a disposed, deaf session current: only the timer stops its tasks
  (`agent-session-runtime.ts:242`; `NewSession`, `hears`).
- A parallel batch that crosses the tool limit also cuts off its calls that were within it
  (`task-guard.ts:63`; `Prepare` after `HandleEvent`).
- The key of a file that does not exist is the path as given (`file-mutation-queue.ts:20`), so the same new file
  reached through a link and through its real path is in two queues, where `file-mutation-queue.ts:29` promises
  one. `OneCallPerFile`, `CallOrder` and `NoUpdateLost` speak of `Resolved` keys.
- /abort while the runtime is being created or the task is in its preflight aborts nothing (`pi-backend.ts:61`;
  `Abort`); likewise between two runs of a prompt (`agent-session.ts:1540`). A runtime created during
  `dispose()` is put into the Map afterwards (`pi-backend.ts:80`).
- The cleanup covers the whole workspace: one chat's end removes another chat's temporary files and browsers
  (`temporary-artifacts.ts:43`; `OtherCleans`).
- bash may change a file between upload and deletion (`deliver-file.ts:86`; `ShellWrites`), and an abort
  while deliver_file waits for the queue is not looked at (`deliver-file.ts:42`).
- The identifiers of messages seen are forgotten at a restart (`feishu-adapter.ts:77`).

Session and loop:
- Two prompts in their preflight both find the session idle; the one that loses clears the shared flag
  (`agent-session.ts:1064`). `IdleMeansIdle` needs `SerialCallers`.
- After an answer that stopped with "length", a compaction rebuilds a transcript that ends with it, and
  `continue()` throws (`agent-session.ts:1982`). `ContinueNeverThrows` names the exception.
- After a listener has rejected an event of a parallel batch, its other calls execute on behind the run's end
  (`agent-loop.ts:540`; `StrayEnds`).
- An entry appended behind a torn line is swallowed by it; its children lose their path to the root with the
  next reload (`Crash`, `lost`). Behind a line that lacks only its end, both are lost, so `FileIsMemory` allows two
  entries per cut write. When that line is the header, the next append makes the whole file unreadable and the next
  start refuses it (`session-manager.ts:904`; `VoidFile`): nothing bounds what is lost then.
- `NoOrphanResults` speaks of the session's context, which the transcript equals except for the answers taken out
  for a retry (`AgentSeesSession`).
- A fork leaves out labels, so a compaction whose first kept entry is a label shows fewer entries in the fork
  (`session-manager.ts:1424`; exception of `ForkKeepsPath`).
- Nothing but the callers keeps a navigation out of a turn or a compaction (`interactive-mode.ts:2783`;
  `Serial`). The position after `branch()` and `resetLeaf()` is in memory only.
- `coding-agent/docs/session-format.md:243` describes a `retainedTail` of compactions, which only the harness of
  `packages/agent` writes and reads; `session-manager.ts` knows the first kept entry alone.
- Of the bash results that wait for the end of a turn `RecordBash` keeps one (a bound).

Supervisor:
- Radius answering a registration after the end has begun writes an "online" record and starts the heartbeat of
  an instance that is gone (`SpawnRegistered`, `ReRegistered`; `late`).
- Recovery writes back the list it read, without the instances spawned meanwhile (`RecoverEnds`; `hidden`).
- A disconnect refused by Radius ends the cleanup before the child is disposed of (`supervisor.ts:161`; `refused`).
- The second of two stops may answer "stopped" while the child still runs.
- A line of the child that is not JSON, or EPIPE on its input, takes the whole server down
  (`rpc-process.ts:102`); `dispose` waits for the exit of the child without a limit (`rpc-process.ts:194`), which
  the fairness of `ChildTerminates` covers.
- Every await is an action boundary even where the promise is already settled; a `createRpcProcessInstance`
  that throws is one with a spawn that fails.

Harness:
- A prompt that rejects before its run, `compact()` and `navigateTree()` go idle without flushing the pending
  writes (`agent-harness.ts:643-648`, `762-766`, `855-859`; `agent/docs/agent-harness.md:90` says they are flushed);
  they stay pending until the next run (`held`).
- A prompt started by a listener of `agent_end` or `settled` (`agent-harness.ts:537`) overlaps the end of the
  first: its controller is cleared and two flushes meet. Excluded by one operation at a time.
- A failure after the run has settled is reported with the phase already idle (`mode` "late"), so its append can
  overlap one of an idle client; so can those of two clients, because `appendMessage` and the setters ask for
  nothing but the phase (`agent-harness.ts:702-712`). Both appends then name the same parent
  (`session.ts:214-227`) and the session forks, with the leaf on the one that ended last: `OneChain` and
  `WritesInOrder` except exactly the lines in `crossed`.
- Messages drained from `nextTurn` are gone when `before_agent_start` rejects (`agent-harness.ts:576-600`;
  `lost`); an abort while the turn's state or hooks are awaited aborts nothing; a message steered while the run
  ends waits for the next prompt.
- Opening a JSONL storage with a torn last line throws, where `session-manager.ts` skips the line.

## 8. Left out

Wording, formatting, streaming updates and rendering; the contents of messages and files beyond identity; the
search for processes in the cleanup (one step); the matching of edits; thinking blocks and images in requests;
token estimates.

Not modelled, and why: the terminal interface, its editor and the interactive mode are a sequential user
interface that IMclaw does not start; the package manager, HTML export, model generator and release scripts are
tools without shared state; providers are protocols spoken to external services, of which the loop has every
outcome; extensions, which the default resource loader loads for IMclaw as for the terminal, are third-party code
whose failures the loop has as rejecting listeners; settings and
credentials are files under a lock; `find_workfile`, `send_workfile` and the configuration keep no state. These
are the bulk of the repository's lines, so the map covers the concurrent core and not the whole.

Partly modelled: of the Feishu adapter only sending; of the agent session what `prompt`, `abort` and the
compaction reach; of the session runtime /new, switch and fork as the session file sees them; of the storage the
JSONL form, not SQLite; of the server not the framing of its sockets. In the harness one-at-a-time modes of
the queues only. `PROJECT.json` gives the reason part by part.

## 9. Plan

Done, in the order of importance: the controller with its abstract specification, their refinement and proofs; the
agent loop and its requests; the session, its tree and its file; the guard around it; the file tools; the
supervisor; the harness; each with proofs of the safety properties its runs check.

What could follow:
1. `FeishuAdapter`: dedupe with its time limit, owner check, redelivery, in front of the controller; what a restart
   forgets.
2. `AgentSessionRuntime`: switch, fork and new against a running session and its extensions; settings and
   credentials with their lock files and token refresh.
3. An abstract session (a tree and a position, appended to atomically) that both `SessionLog` and `AgentHarness`
   implement.

Next theorems: that both `SessionLog` and `AgentHarness` implement that abstract session, for which `LogInv`,
`FileIsMemoryAlways` and `SessionIsAChain` are the invariants needed; deadlock freedom outside the places named in
section 3, which needs ENABLED.

## 10. Running it

```
tlc -workers 2 -config ControllerSerial.cfg MCImclawController
tlapm ControllerProofs.tla
```
Each run's module and configuration are listed in `PROJECT.json` under `runs`. The longest, `supervisor` and
`file_tools_queue`, take about two minutes each; the proof modules one to three minutes each, `SessionLogProofs`
about nine.
