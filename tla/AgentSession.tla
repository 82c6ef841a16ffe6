---------------------------- MODULE AgentSession ----------------------------
(***************************************************************************)
(* How packages/coding-agent drives an agent (core/agent-session.ts):      *)
(* AgentSession.prompt with its preflight, the runs it starts, the retries *)
(* with backoff, the compactions and the queued messages that follow a     *)
(* run, abort() and the idle promise it waits for.                         *)
(*                                                                         *)
(* A call of prompt() is a coroutine, and so is a call of abort().  The    *)
(* Agent (module AgentLoop) is reduced to its active run and the last      *)
(* message of its transcript; the provider decides how a run ends.         *)
(***************************************************************************)
EXTENDS Naturals, FiniteSets

CONSTANTS
  SerialCallers,  \* prompt() is called only when no other call is in its preflight
  MaxRetries,     \* settings.retry.maxRetries
  MaxPrompts,     \* bound: calls of prompt()
  MaxAborts,      \* bound: calls of abort()
  MaxProgress     \* bound: runs that fail after an answer that was no error

ASSUME SessionAssumption ==
  /\ SerialCallers \in BOOLEAN
  /\ MaxRetries \in Nat /\ MaxPrompts \in Nat /\ MaxAborts \in Nat /\ MaxProgress \in Nat

Prompts == 1..MaxPrompts
Aborts  == 1..MaxAborts
Nobody  == 0

(* The last assistant message of a run, by what the session makes of it.   *)
Errors   == {"error", "retryable", "overflow"}
Answers  == {"answer", "aborted", "length"}
Endings  == Errors \cup Answers
Overflowing == {"overflow", "length"}

VARIABLES
  pc,           \* where each prompt() is suspended
  active,       \* _isAgentRunActive
  run,          \* the prompt() that owns the agent's active run
  runAborted,   \* that run's signal
  last,         \* _lastAssistantMessage
  tail,         \* last message of agent.state.messages: "input" or an ending
  saved,        \* last message of the session file
  queued,       \* messages in the agent's queues
  retryAttempt, \* _retryAttempt
  retryCut,     \* the signal of _retryAbortController
  overflowTried,\* _overflowRecoveryAttempted
  waiting,      \* where each abort() is suspended
  progress,     \* failed runs so far that had made progress
  fruitless,    \* history: runs since the last input or answer
  stuck         \* history: calls that failed because continue() threw

vars == <<pc, active, run, runAborted, last, tail, saved, queued, retryAttempt, retryCut,
          overflowTried, waiting, progress, fruitless, stuck>>
agent == <<run, runAborted, last, tail, saved, queued>>
retry == <<retryAttempt, retryCut, overflowTried>>
hist  == <<progress, fruitless, stuck>>

Preflight == {"preflight", "preCompact", "ready"}
Working   == {"run", "post", "backoff", "retryCompact", "compact"}
Ended     == {"done", "rejected"}

Init ==
  /\ pc = [p \in Prompts |-> "absent"]
  /\ active = FALSE
  /\ run = Nobody /\ runAborted = FALSE
  /\ last = "none" /\ tail = "input" /\ saved = "input"
  /\ queued = 0
  /\ retryAttempt = 0 /\ retryCut = FALSE /\ overflowTried = FALSE
  /\ waiting = [a \in Aborts |-> "absent"]
  /\ progress = 0 /\ fruitless = 0 /\ stuck = {}

Goto(p, l) == pc' = [pc EXCEPT ![p] = l]

-----------------------------------------------------------------------------
(* The transcript.                                                         *)

(* The failed answer is taken out of the transcript, not out of the file.  *)
WithoutAnswer == "input"

(* Mutant: what was taken out before the compaction comes back with it.    *)
Rebuilt_AsSaved == saved
(* buildSessionContext after a compaction, and the second removal.         *)
Rebuilt == IF saved \in Errors THEN "input" ELSE saved

-----------------------------------------------------------------------------
(* prompt(): up to the run.                                                *)

(* While the session is active the message is queued, or refused.          *)
Prompt(p) ==
  /\ pc[p] = "absent"
  /\ \A q \in Prompts : q < p => pc[q] # "absent"
  /\ SerialCallers => \A q \in Prompts : pc[q] \notin Preflight
  /\ IF active
     THEN \/ Goto(p, "done") /\ queued' = queued + 1
          \/ Goto(p, "rejected") /\ UNCHANGED queued
     ELSE Goto(p, "preflight") /\ UNCHANGED queued
  /\ UNCHANGED <<active, run, runAborted, last, tail, saved, retry, waiting, hist>>

(* Authentication is checked, and the last answer for compaction.          *)
CheckPreflight(p) ==
  /\ pc[p] = "preflight"
  /\ \/ \E l \in {"rejected", "ready"} : Goto(p, l) /\ UNCHANGED <<tail, overflowTried>>
     \/ /\ Goto(p, "preCompact")
        /\ IF tail \in Overflowing
           THEN ~overflowTried /\ overflowTried' = TRUE /\ tail' = WithoutAnswer
           ELSE UNCHANGED <<tail, overflowTried>>
  /\ UNCHANGED <<active, run, runAborted, last, saved, queued, retryAttempt, retryCut, waiting, hist>>

(* A compaction that succeeds rebuilds the transcript from the file.       *)
PreCompactEnds(p) ==
  /\ pc[p] = "preCompact"
  /\ tail' \in {tail, saved, Rebuilt}
  /\ Goto(p, "ready")
  /\ UNCHANGED <<active, run, runAborted, last, saved, queued, retry, waiting, hist>>

-----------------------------------------------------------------------------
(* _runAgentPrompt                                                         *)

(* Mutant: the flag is raised by the run's first event, too late.          *)
StartRun_NoFlag(p) ==
  /\ pc[p] = "ready" /\ run = Nobody
  /\ Goto(p, "run") /\ run' = p /\ runAborted' = FALSE
  /\ tail' = "input" /\ saved' = "input" /\ overflowTried' = FALSE /\ fruitless' = 1
  /\ UNCHANGED <<active, last, queued, retryAttempt, retryCut, waiting, progress, stuck>>
(* agent.prompt with a user message.  It throws if a run is active; the    *)
(* flag is raised all the same.                                            *)
StartRun(p) ==
  /\ pc[p] = "ready"
  /\ active' = TRUE
  /\ IF run # Nobody
     THEN Goto(p, "settling") /\ UNCHANGED <<agent, overflowTried, fruitless>>
     ELSE /\ Goto(p, "run")
          /\ run' = p /\ runAborted' = FALSE
          /\ tail' = "input" /\ saved' = "input"
          /\ overflowTried' = FALSE
          /\ fruitless' = 1
          /\ UNCHANGED <<last, queued>>
  /\ UNCHANGED <<retryAttempt, retryCut, waiting, progress, stuck>>

(* agent.continue(), on transcript t: it throws if a run is active or if   *)
(* an assistant message is last and no message is queued.                  *)
Continue(p, t) ==
  IF run # Nobody \/ (t # "input" /\ queued = 0)
  THEN /\ Goto(p, "settling")
       /\ stuck' = IF run = Nobody THEN stuck \cup {p} ELSE stuck
       /\ tail' = t
       /\ UNCHANGED <<run, runAborted, saved, queued, overflowTried, fruitless>>
  ELSE /\ Goto(p, "run")
       /\ run' = p /\ runAborted' = FALSE
       /\ \/ /\ t = "input"
             /\ fruitless' = fruitless + 1
             /\ UNCHANGED <<saved, queued, overflowTried>>
          \/ /\ queued > 0              \* taken by continue(), or steered into its run
             /\ queued' = queued - 1
             /\ saved' = "input" /\ overflowTried' = FALSE
             /\ fruitless' = 1
       /\ tail' = "input"
       /\ UNCHANGED stuck

(* message_end of an assistant message that is no error.                   *)
ResetCounters(o, progressed) ==
  IF o \in Errors /\ ~progressed
  THEN UNCHANGED <<retryAttempt, overflowTried>>
  ELSE retryAttempt' = 0 /\ overflowTried' = FALSE

(* The loop drains both queues unless an error or an abort ends the run.   *)
RunEnds(p) ==
  /\ pc[p] = "run"
  /\ \E o \in Endings, progressed \in BOOLEAN :
       /\ o = "aborted" => runAborted
       /\ progressed => o \in Errors /\ progress < MaxProgress
       /\ progress' = IF progressed THEN progress + 1 ELSE progress
       /\ fruitless' = IF o \notin Errors THEN 0 ELSE IF progressed THEN 1 ELSE fruitless
       /\ last' = o /\ tail' = o /\ saved' = o
       /\ queued' \in IF o \in {"answer", "length"} THEN {0}
                     ELSE IF progressed THEN 0..queued ELSE {queued}
       /\ ResetCounters(o, progressed)
  /\ run' = Nobody
  /\ Goto(p, "post")
  /\ UNCHANGED <<active, runAborted, retryCut, waiting, stuck>>

(* What _handlePostAgentRun falls through to.                              *)
ContinueIfQueued(p) ==
  IF queued > 0 THEN Continue(p, tail)
  ELSE Goto(p, "settling") /\ UNCHANGED <<run, runAborted, tail, saved, queued, overflowTried, fruitless, stuck>>

MayRetry == retryAttempt < MaxRetries

(* Mutant: the attempts are not counted.                                   *)
PrepareRetry_Uncounted(p) ==
  /\ retryCut' = FALSE /\ tail' = WithoutAnswer
  /\ Goto(p, "backoff")
  /\ UNCHANGED <<run, runAborted, saved, queued, retryAttempt, overflowTried, fruitless, stuck>>
(* _prepareRetry up to the sleep                                           *)
PrepareRetry(p) ==
  /\ retryAttempt' = retryAttempt + 1
  /\ retryCut' = FALSE
  /\ tail' = WithoutAnswer
  /\ Goto(p, "backoff")
  /\ UNCHANGED <<run, runAborted, saved, queued, overflowTried, fruitless, stuck>>

Compact(p, l) ==
  /\ Goto(p, l)
  /\ UNCHANGED <<run, runAborted, saved, queued, fruitless, stuck>>

(* _checkCompaction on ending o, and what follows if it does nothing.      *)
CheckCompaction(p, o) ==
  \/ /\ o \in Overflowing /\ ~overflowTried
     /\ overflowTried' = TRUE
     /\ tail' = WithoutAnswer
     /\ Compact(p, "retryCompact")
  \/ /\ o \in {"answer", "error", "retryable"}       \* over the threshold
     /\ Compact(p, "compact")
     /\ UNCHANGED <<tail, overflowTried>>
  \/ /\ ~(o \in Overflowing /\ ~overflowTried)
     /\ ContinueIfQueued(p)

(* _handlePostAgentRun                                                     *)
PostRun(p) ==
  /\ pc[p] = "post"
  /\ last' = "none"
  /\ IF last = "retryable" /\ MayRetry
     THEN PrepareRetry(p)
     ELSE /\ retryAttempt' = IF last \in Errors THEN 0 ELSE retryAttempt
          /\ retryCut' = retryCut
          /\ IF last = "none"
             THEN Goto(p, "settling") /\ UNCHANGED <<run, runAborted, tail, saved, queued, overflowTried, fruitless, stuck>>
             ELSE CheckCompaction(p, last)
  /\ UNCHANGED <<active, waiting, progress>>

(* Mutant: a sleep that abort() cut short is slept again, and cut again.   *)
BackoffEnds_SleepsAgain(p) ==
  /\ pc[p] = "backoff"
  /\ IF retryCut
     THEN UNCHANGED <<pc, run, runAborted, tail, saved, queued, retryAttempt, overflowTried, fruitless, stuck>>
     ELSE Continue(p, tail) /\ UNCHANGED retryAttempt
  /\ UNCHANGED <<active, last, retryCut, waiting, progress>>
(* The backoff is over, or was cut short by abort().                       *)
BackoffEnds(p) ==
  /\ pc[p] = "backoff"
  /\ IF retryCut
     THEN retryAttempt' = 0 /\ CheckCompaction(p, "retryable")
     ELSE Continue(p, tail) /\ UNCHANGED retryAttempt
  /\ UNCHANGED <<active, last, retryCut, waiting, progress>>

(* _runAutoCompaction with willRetry                                       *)
RetryCompactionEnds(p) ==
  /\ pc[p] = "retryCompact"
  /\ \/ Continue(p, Rebuilt)
     \/ ContinueIfQueued(p)          \* it failed, or there was nothing to do
  /\ UNCHANGED <<active, last, retryAttempt, retryCut, waiting, progress>>

(* _runAutoCompaction without                                              *)
CompactionEnds(p) ==
  /\ pc[p] = "compact"
  /\ \/ ContinueIfQueued(p)
     \/ IF queued > 0 THEN Continue(p, saved)
        ELSE /\ Goto(p, "settling") /\ tail' = saved
             /\ UNCHANGED <<run, runAborted, saved, queued, overflowTried, fruitless, stuck>>
  /\ UNCHANGED <<active, last, retryAttempt, retryCut, waiting, progress>>

(* _emitAgentSettled: the flag falls, the listeners are told, ...          *)
Settle(p) ==
  /\ pc[p] = "settling"
  /\ active' = FALSE
  /\ Goto(p, "settled")
  /\ UNCHANGED <<agent, retry, waiting, hist>>

(* ... and whoever waits for idle is released, unless a prompt came.       *)
Release(p) ==
  /\ pc[p] = "settled"
  /\ waiting' = IF active THEN waiting
                ELSE [a \in Aborts |-> IF waiting[a] = "waiting" THEN "done" ELSE waiting[a]]
  /\ Goto(p, "done")
  /\ UNCHANGED <<active, agent, retry, hist>>

-----------------------------------------------------------------------------
(* abort()                                                                 *)

Abort(a) ==
  /\ waiting[a] = "absent"
  /\ \A b \in Aborts : b < a => waiting[b] # "absent"
  /\ retryCut' = (retryCut \/ \E p \in Prompts : pc[p] = "backoff")
  /\ runAborted' = (runAborted \/ run # Nobody)
  /\ waiting' = [waiting EXCEPT ![a] = IF active THEN "waiting" ELSE "done"]
  /\ UNCHANGED <<pc, active, run, last, tail, saved, queued, retryAttempt, overflowTried,
                 progress, fruitless, stuck>>

Finished == \A p \in Prompts : pc[p] \in Ended \cup {"absent"}
Rest     == Finished /\ UNCHANGED vars

Step(p) ==
  \/ CheckPreflight(p) \/ PreCompactEnds(p) \/ StartRun(p) \/ RunEnds(p) \/ PostRun(p)
  \/ BackoffEnds(p) \/ RetryCompactionEnds(p) \/ CompactionEnds(p) \/ Settle(p) \/ Release(p)

Next ==
  \/ \E p \in Prompts : Prompt(p) \/ Step(p)
  \/ \E a \in Aborts : Abort(a)
  \/ Rest

Spec == Init /\ [][Next]_vars

(* Providers answer, sleeps end, compactions end.                          *)
FairSpec == Spec /\ \A p \in Prompts : WF_vars(Step(p))

-----------------------------------------------------------------------------
(* Properties.                                                             *)

(* Every variable has its type (the fields of AgentSession).               *)
TypeOK ==
  /\ pc \in [Prompts -> {"absent", "settling", "settled"} \cup Preflight \cup Working \cup Ended]
  /\ active \in BOOLEAN
  /\ run \in Prompts \cup {Nobody} /\ runAborted \in BOOLEAN
  /\ last \in Endings \cup {"none"}
  /\ tail \in Endings \cup {"input"} /\ saved \in Endings \cup {"input"}
  /\ queued \in 0..MaxPrompts
  /\ retryAttempt \in 0..MaxRetries /\ retryCut \in BOOLEAN /\ overflowTried \in BOOLEAN
  /\ waiting \in [Aborts -> {"absent", "waiting", "done"}]
  /\ progress \in 0..MaxProgress /\ fruitless \in Nat
  /\ stuck \subseteq Prompts

(* agent-session.ts:878: a session that says it is idle has no active run, *)
(* no retry, no auto-compaction after a run and no continuation.           *)
IdleMeansIdle == ~active => run = Nobody /\ \A p \in Prompts : pc[p] \notin Working

(* Retries and overflow recovery together cannot go on for ever: without   *)
(* an answer in between, one input causes at most 2 (maxRetries + 1) runs, *)
(* although an overflow resets the retry counter and a retry is counted    *)
(* before its outcome is known (agent-session.ts:1080-1096, 1988-2008);    *)
(* an abort() of a backoff, which resets it too, adds maxRetries at most.  *)
RetriesBounded ==
  fruitless <= 2 * (MaxRetries + 1) + MaxRetries * Cardinality({a \in Aborts : waiting[a] # "absent"})

(* agent-session.ts:1977-1980: agent.continue() is not called when the     *)
(* transcript ends with an assistant message and nothing is queued, where  *)
(* it would throw and turn the user's prompt into an error - but for an    *)
(* answer that stopped with "length", which the rebuilt transcript keeps.  *)
ContinueNeverThrows == [][stuck' # stuck => saved = "length"]_vars

(* Every call of prompt() settles and every call of abort() returns: the   *)
(* sleep of a retry ends with the abort, and the idle promise is resolved  *)
(* although a new prompt may raise the flag before the waiters are told    *)
(* (agent-session.ts:569-587, 2704-2726).                                  *)
EveryCallReturns ==
  /\ \A p \in Prompts : (pc[p] # "absent") ~> (pc[p] \in Ended)
  /\ \A a \in Aborts : (waiting[a] = "waiting") ~> (waiting[a] = "done")
=============================================================================
