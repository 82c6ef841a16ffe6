---------------------------- MODULE GuardedTask -----------------------------
(***************************************************************************)
(* One chat of the agent backend of packages/imclaw: PiAgentBackend        *)
(* (pi-backend.ts) with its map of session runtimes, the TaskGuard that    *)
(* watches every task (task-guard.ts), and the cleanup of the workspace    *)
(* (temporary-artifacts.ts).                                               *)
(*                                                                         *)
(* The controller hands the backend one task or /new at a time, and /abort *)
(* at any moment (module ImclawController).  The session is reduced to     *)
(* what the guard sees of it: its runs (module AgentSession) and their     *)
(* parallel batches of tool calls (module AgentLoop).  The model provider  *)
(* is external and may ask for tools for ever; it heeds the abort signal.  *)
(***************************************************************************)
EXTENDS Naturals, FiniteSets

CONSTANTS
  ToolLimit,     \* MAX_TOOL_CALLS
  BrowserLimit,  \* MAX_BROWSER_STARTS
  MaxTasks,      \* bound: tasks
  MaxRuns,       \* bound: runs of one task
  MaxBatch,      \* bound: tool calls in one message
  MaxAborts,     \* bound: /abort messages
  Windows        \* process.platform is win32

ASSUME GuardAssumption ==
  /\ Windows \in BOOLEAN
  /\ ToolLimit \in Nat /\ BrowserLimit \in Nat
  /\ MaxTasks \in Nat /\ MaxRuns \in Nat \ {0} /\ MaxBatch \in Nat /\ MaxAborts \in Nat

Tasks  == 1..MaxTasks
Aborts == 1..MaxAborts

(* A command: how many browsers it starts, and whether headless and in an  *)
(* isolated profile.                                                       *)
Commands == [starts : {0}, legal : {TRUE}] \cup [starts : 1..(BrowserLimit + 1), legal : BOOLEAN]
Reasons  == {"timeout", "tools", "policy", "browsers"}

VARIABLES
  known,     \* whether the Map holds a runtime for the chat
  hears,     \* whether its session forwards the agent's events
  task,      \* number of tasks so far
  phase,     \* where the task is; "idle" without one
  runs,      \* its runs so far
  signal,    \* the abort signal of its run
  resumes,   \* whether its last answer may call for a further run
  todo,      \* calls of the batch that are not announced yet
  call,      \* the command announced last
  held,      \* calls prepared and waiting for the rest of the batch
  running,   \* calls that execute
  count, launches, stop,  \* TaskGuard: toolCalls, browserStarts, stopMessage
  timers,    \* tasks whose timer is armed
  listeners, \* tasks whose listener is subscribed
  litter,    \* what exists of "browsers" and reserved "files"
  logged,    \* history: what the cleanup of the last task has logged and left
  outcome,   \* what the last task came to
  aborts,    \* where each /abort is suspended
  server,    \* whether dispose() was called
  done,      \* history: calls of the task that executed, the browsers they
             \* started, and whether one was illegal
  late       \* history: a run of the task began after its guard had stopped it

session == <<known, hears>>
batch   == <<todo, call, held, running>>
guard   == <<count, launches, stop, timers, listeners>>
waste   == <<litter, logged>>
vars == <<session, task, phase, runs, signal, resumes, batch, guard, waste, outcome, aborts,
          server, done, late>>

InRun  == phase \in {"turn", "announce", "prepare", "tools", "ending"}
Active == InRun \/ phase = "between"

Nothing == [starts |-> 0, legal |-> TRUE]
Idle    == [calls |-> 0, starts |-> 0, illegal |-> FALSE]

Init ==
  /\ known = FALSE /\ hears = FALSE
  /\ task = 0 /\ phase = "idle" /\ runs = 0 /\ signal = FALSE /\ resumes = FALSE
  /\ todo = 0 /\ call = Nothing /\ held = {} /\ running = {}
  /\ count = 0 /\ launches = 0 /\ stop = "none" /\ timers = {} /\ listeners = {}
  /\ litter = {} /\ logged = {} /\ outcome = "none"
  /\ aborts = [a \in Aborts |-> "absent"]
  /\ server = "up"
  /\ done = Idle /\ late = FALSE

-----------------------------------------------------------------------------
(* The task, up to its first run.                                          *)

(* new TaskGuard, subscribe, session.prompt                                *)
StartGuard(t) ==
  /\ count' = 0 /\ launches' = 0 /\ stop' = "none"
  /\ timers' = timers \cup {t} /\ listeners' = listeners \cup {t}
  /\ logged' = {}
  /\ phase' = "preflight"

Prompt ==
  /\ phase = "idle" /\ task < MaxTasks
  /\ task' = task + 1 /\ runs' = 0
  /\ done' = Idle /\ late' = FALSE /\ outcome' = "none"
  /\ IF known THEN StartGuard(task + 1) ELSE phase' = "creating" /\ UNCHANGED <<guard, logged>>
  /\ UNCHANGED <<session, signal, resumes, batch, litter, aborts, server>>

(* getRuntime                                                              *)
RuntimeCreated ==
  /\ phase = "creating"
  /\ known' = TRUE /\ hears' = TRUE
  /\ StartGuard(task)
  /\ UNCHANGED <<task, runs, signal, resumes, batch, litter, outcome, aborts, server, done, late>>

RuntimeFails ==
  /\ phase = "creating"
  /\ phase' = "idle" /\ outcome' = "error"
  /\ UNCHANGED <<session, task, runs, signal, resumes, batch, guard, waste, aborts, server, done, late>>

(* /new tears the session down before it has the next one; if that fails   *)
(* the disposed session, cut off from its agent, stays the current one.    *)
NewSession ==
  /\ phase = "idle"
  /\ known' = TRUE
  /\ hears' \in BOOLEAN
  /\ UNCHANGED <<task, phase, runs, signal, resumes, batch, guard, waste, outcome, aborts, server, done, late>>

-----------------------------------------------------------------------------
(* Runs and their tool calls.                                              *)

StartRun ==
  /\ phase' = "turn" /\ runs' = runs + 1
  /\ signal' = FALSE /\ resumes' = FALSE
  /\ late' = (late \/ stop # "none")
  /\ UNCHANGED <<session, task, batch, guard, waste, outcome, aborts, server, done>>

PreflightEnds == phase = "preflight" /\ StartRun

(* A further run, after a retry or a compaction, under a signal of its own.*)
Continue ==
  /\ phase = "between" /\ resumes /\ runs < MaxRuns
  /\ StartRun

(* Mutant: the loop goes on with a signal that is aborted.                 *)
CallTools_Aborted ==
  /\ phase = "turn"
  /\ todo' \in 1..MaxBatch
  /\ held' = {}
  /\ phase' = "announce"
  /\ UNCHANGED <<session, task, runs, signal, resumes, call, running, guard, waste, outcome, aborts, server,
                 done, late>>
(* The model answers with a batch of tool calls, ...                       *)
CallTools ==
  /\ phase = "turn" /\ ~signal
  /\ todo' \in 1..MaxBatch
  /\ held' = {}
  /\ phase' = "announce"
  /\ UNCHANGED <<session, task, runs, signal, resumes, call, running, guard, waste, outcome, aborts, server,
                 done, late>>

(* ... or with its last message.  An error may be retried, or followed by  *)
(* a compaction and a retry, if the session has heard it; an answer that   *)
(* was aborted is not.                                                     *)
Answers ==
  /\ phase = "turn"
  /\ resumes' = (hears /\ ~signal)
  /\ phase' = "ending"
  /\ UNCHANGED <<session, task, runs, signal, batch, guard, waste, outcome, aborts, server,
                 done, late>>

(* The listeners of turn_end and agent_end are awaited before the run is   *)
(* over: what aborts it now comes after its answer.                        *)
RunEnds ==
  /\ phase = "ending"
  /\ phase' = "between"
  /\ UNCHANGED <<session, task, runs, signal, resumes, batch, guard, waste, outcome, aborts, server,
                 done, late>>

Verdict(k) ==
  IF count + 1 > ToolLimit THEN "tools"
  ELSE IF k.starts = 0 THEN "none"
  ELSE IF ~k.legal THEN "policy"
  ELSE IF launches + k.starts > BrowserLimit THEN "browsers" ELSE "none"

(* Mutant: the guard stops without aborting the session.                   *)
HandleEvent_NoAbort(k) ==
  /\ IF hears /\ task \in listeners /\ stop = "none"
     THEN /\ count' = count + 1
          /\ stop' = Verdict(k)
          /\ launches' = IF stop' = "none" THEN launches + k.starts ELSE launches
     ELSE UNCHANGED <<count, stop, launches>>
  /\ UNCHANGED signal
(* tool_execution_start, as TaskGuard.handleEvent hears it.                *)
HandleEvent(k) ==
  IF hears /\ task \in listeners /\ stop = "none"
  THEN /\ count' = count + 1
       /\ stop' = Verdict(k)
       /\ launches' = IF stop' = "none" THEN launches + k.starts ELSE launches
       /\ signal' = (signal \/ stop' # "none")
  ELSE UNCHANGED <<count, stop, launches, signal>>

Announce ==
  /\ phase = "announce"
  /\ \E k \in Commands : call' = k /\ HandleEvent(k)
  /\ phase' = "prepare"
  /\ UNCHANGED <<session, task, runs, resumes, todo, held, running, timers, listeners, waste, outcome, aborts,
                 server, done, late>>

Capped(n, limit) == IF n > limit THEN limit + 1 ELSE n
StartsOf(S) == IF S = {} THEN 0 ELSE Cardinality({p \in S \X (1..(BrowserLimit + 1)) : p[2] <= p[1].starts})

(* The prepared calls execute, all together.                               *)
Execute(S) ==
  /\ running' = S
  /\ phase' = IF S = {} THEN "turn" ELSE "tools"
  /\ IF signal
     THEN UNCHANGED <<done, litter>>
     ELSE /\ done' = [calls   |-> Capped(done.calls + Cardinality(S), ToolLimit),
                      starts  |-> Capped(done.starts + StartsOf(S), BrowserLimit),
                      illegal |-> done.illegal \/ \E c \in S : ~c.legal]
          /\ litter' = IF \E c \in S : c.starts > 0 THEN {"browsers", "files"} ELSE litter

(* prepareToolCall: a call may be refused, and is after an abort.          *)
Prepare ==
  /\ phase = "prepare"
  /\ todo' = todo - 1
  /\ \E S \in {held} \cup IF signal THEN {} ELSE {held \cup {[n |-> todo, starts |-> call.starts, legal |-> call.legal]}} :
       IF signal \/ todo = 1
       THEN held' = {} /\ Execute(S)
       ELSE held' = S /\ phase' = "announce" /\ UNCHANGED <<running, done, litter>>
  /\ call' = Nothing
  /\ UNCHANGED <<session, task, runs, signal, resumes, guard, logged, outcome, aborts, server, late>>

ToolEnds ==
  /\ phase = "tools"
  /\ \E c \in running : running' = running \ {c}
  /\ phase' = IF running' = {} THEN "turn" ELSE "tools"
  /\ UNCHANGED <<session, task, runs, signal, resumes, todo, call, held, guard, waste, outcome, aborts,
                 server, done, late>>

-----------------------------------------------------------------------------
(* The end of the task.                                                    *)

(* Mutant: the timer is left armed.                                        *)
Release_KeepsTimer == listeners' = listeners \ {task} /\ UNCHANGED timers
(* unsubscribe, guard.dispose                                              *)
Release == listeners' = listeners \ {task} /\ timers' = timers \ {task}

(* throwIfStopped on both ways out of run()                                *)
Outcomes == IF stop # "none" THEN {stop} ELSE {"reply", "error"}

Settle ==
  /\ phase \in {"preflight", "between"}
  /\ outcome' \in IF phase = "preflight" THEN Outcomes \ {"reply"} ELSE Outcomes
  /\ Release
  /\ phase' = "cleaning" /\ resumes' = FALSE
  /\ UNCHANGED <<session, task, runs, signal, batch, count, launches, stop, waste, aborts, server,
                 done, late>>

(* Off Windows no browser is ended.                                        *)
Removable == IF Windows THEN {"browsers", "files"} ELSE {"files"}

(* cleanupTemporaryArtifacts: browsers may not end, a file may be locked,  *)
(* the workspace not be read.  An error is logged, and the cleanup is over *)
(* all the same.                                                           *)
Cleaned(errors) ==
  /\ errors \subseteq Removable
  /\ litter' = litter \ (Removable \ errors)

CleanUp ==
  /\ phase = "cleaning"
  /\ \E errors \in SUBSET Removable : Cleaned(errors) /\ logged' = errors \cap litter
  /\ phase' = "idle"
  /\ UNCHANGED <<session, task, runs, signal, resumes, batch, guard, outcome, aborts, server, done, late>>

-----------------------------------------------------------------------------
(* What may happen at any moment.                                          *)

(* The timer of task t: stop, and session.abort().                         *)
TimeOut(t) ==
  /\ t \in timers
  /\ timers' = timers \ {t}
  /\ IF t = task /\ stop = "none" THEN stop' = "timeout" ELSE UNCHANGED stop
  /\ signal' = (signal \/ (InRun /\ (t = task => stop = "none")))
  /\ UNCHANGED <<session, task, phase, runs, resumes, batch, count, launches, listeners, waste, outcome,
                 aborts, server, done, late>>

(* PiAgentBackend.abort                                                    *)
Abort(a) ==
  /\ aborts[a] = "absent"
  /\ \A b \in Aborts : b < a => aborts[b] # "absent"
  /\ signal' = (signal \/ (known /\ InRun))
  /\ aborts' = [aborts EXCEPT ![a] = IF known /\ Active THEN "waiting" ELSE "cleaning"]
  /\ UNCHANGED <<session, task, phase, runs, resumes, batch, guard, waste, outcome, server, done, late>>

(* waitForIdle                                                             *)
AbortSettles(a) ==
  /\ aborts[a] = "waiting" /\ ~Active
  /\ aborts' = [aborts EXCEPT ![a] = "cleaning"]
  /\ UNCHANGED <<session, task, phase, runs, signal, resumes, batch, guard, waste, outcome, server, done, late>>

AbortCleans(a) ==
  /\ aborts[a] = "cleaning"
  /\ aborts' = [aborts EXCEPT ![a] = "done"]
  /\ \E errors \in SUBSET Removable : Cleaned(errors)
  /\ UNCHANGED <<session, task, phase, runs, signal, resumes, batch, guard, logged, outcome, server, done,
                 late>>

(* Another chat's task ends: the workspace is one.                         *)
OtherCleans ==
  /\ litter # {}
  /\ \E errors \in SUBSET Removable : Cleaned(errors)
  /\ UNCHANGED <<session, task, phase, runs, signal, resumes, batch, guard, logged, outcome, aborts, server,
                 done, late>>

(* PiAgentBackend.dispose: the sessions are aborted and cut off from their *)
(* agents.                                                                 *)
Dispose ==
  /\ server = "up"
  /\ server' = "cleaning"
  /\ signal' = (signal \/ (known /\ InRun))
  /\ known' = FALSE
  /\ hears' = IF known THEN FALSE ELSE hears
  /\ UNCHANGED <<task, phase, runs, resumes, batch, guard, waste, outcome, aborts, done, late>>

Disposed ==
  /\ server = "cleaning"
  /\ server' = "down"
  /\ \E errors \in SUBSET Removable : Cleaned(errors)
  /\ UNCHANGED <<session, task, phase, runs, signal, resumes, batch, guard, logged, outcome, aborts, done,
                 late>>

Step ==
  \/ RuntimeCreated \/ RuntimeFails \/ PreflightEnds \/ Continue
  \/ CallTools \/ Answers \/ RunEnds \/ Announce \/ Prepare \/ ToolEnds
  \/ Settle \/ CleanUp

Next ==
  \/ Prompt \/ NewSession \/ Step
  \/ \E t \in Tasks : TimeOut(t)
  \/ \E a \in Aborts : Abort(a) \/ AbortSettles(a) \/ AbortCleans(a)
  \/ OtherCleans \/ Dispose \/ Disposed

Spec == Init /\ [][Next]_vars

(* Calls return, timers fire, and the abort's continuation runs.            *)
FairSpec ==
  /\ Spec
  /\ WF_vars(Step)
  /\ \A t \in Tasks : WF_vars(TimeOut(t))
  /\ \A a \in Aborts : WF_vars(AbortSettles(a)) /\ WF_vars(AbortCleans(a))

-----------------------------------------------------------------------------
(* Properties.                                                             *)

(* Every variable has its type.                                            *)
TypeOK ==
  /\ known \in BOOLEAN /\ hears \in BOOLEAN
  /\ task \in 0..MaxTasks /\ runs \in 0..MaxRuns /\ signal \in BOOLEAN
  /\ phase \in {"idle", "creating", "preflight", "turn", "announce", "prepare", "tools", "ending", "between",
                "cleaning"}
  /\ resumes \in BOOLEAN
  /\ todo \in 0..MaxBatch /\ call \in Commands
  /\ held \cup running \subseteq [n : 1..MaxBatch, starts : 0..(BrowserLimit + 1), legal : BOOLEAN]
  /\ count \in 0..(ToolLimit + 1) /\ launches \in 0..BrowserLimit
  /\ stop \in Reasons \cup {"none"}
  /\ timers \subseteq Tasks /\ listeners \subseteq Tasks
  /\ {litter, logged} \subseteq SUBSET {"browsers", "files"}
  /\ outcome \in Reasons \cup {"none", "reply", "error"}
  /\ aborts \in [Aborts -> {"absent", "waiting", "cleaning", "done"}]
  /\ server \in {"up", "cleaning", "down"}
  /\ done \in [calls : 0..(ToolLimit + 1), starts : 0..(BrowserLimit + 1), illegal : BOOLEAN]
  /\ late \in BOOLEAN

(* The limits hold (docs/superpowers/specs/2026-07-23-task-guardrails-     *)
(* design.md:29, 35-45): no task executes more tool calls or starts more   *)
(* browsers than allowed, nor a command that breaks the browser policy,    *)
(* although a whole batch is announced before any call of it executes.     *)
(* Two tasks are beyond the guard: one whose session was disposed of and   *)
(* is deaf, and one that began a run after the guard had stopped it, when  *)
(* the time ran out between runs or behind the answer of one.              *)
WithinLimits ==
  (phase # "idle" /\ hears /\ ~late) =>
    /\ done.calls <= ToolLimit
    /\ done.starts <= BrowserLimit
    /\ ~done.illegal

(* What outlives a task: files and browsers only if its cleanup has logged *)
(* that it failed (or browsers off Windows), although other cleanups and   *)
(* aborts cross it; and neither a timer nor a listener, which would stop   *)
(* the next task (task-guard.ts:110-127, temporary-artifacts.ts:36-58).    *)
NothingOutlivesTask ==
  /\ phase = "idle" => litter \cap Removable \subseteq logged
  /\ phase \in {"idle", "creating", "cleaning"} => timers = {} /\ listeners = {}

(* A task ends although the model asks for tools for ever: one of the      *)
(* limits stops it, on a deaf session the time, unless that was lost; and  *)
(* so an /abort that waits for the session is answered.                    *)
TasksAndAbortsEnd ==
  /\ (phase # "idle") ~> (phase = "idle" \/ late)
  /\ \A a \in Aborts : (aborts[a] # "absent") ~> (aborts[a] = "done" \/ late)

(* task-guard.ts:7: the task whose time has run out was aborted: no tool   *)
(* call of a task begins once the guard has stopped it.                    *)
StopIsFinal == [][(stop # "none" /\ task' = task) => done' = done]_vars
=============================================================================
