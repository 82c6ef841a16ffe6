----------------------------- MODULE AgentLoop ------------------------------
(***************************************************************************)
(* The agent of packages/agent: the class Agent (agent.ts) with its active *)
(* run, its steering and follow-up queues and its transcript, and the loop *)
(* it runs (agent-loop.ts): turns, batches of tool calls executed in       *)
(* parallel or in sequence, aborts, and the failure path.                  *)
(*                                                                         *)
(* One action is one stretch of the loop between two awaits that matter;   *)
(* steer(), followUp(), abort() and clearAllQueues() may be called by      *)
(* anybody in between.  The model provider and the tools are external:     *)
(* they answer in any way, at any time.  Event listeners are external too  *)
(* and may reject any event, which fails the run.                          *)
(***************************************************************************)
EXTENDS Naturals, Sequences, FiniteSets

CONSTANTS
  MaxSent,       \* bound: messages handed to prompt, steer and followUp
  MaxCalls,      \* bound: tool calls in one assistant message
  MaxToolTurns,  \* bound: assistant messages with tool calls
  MaxRejects     \* bound: rejections by event listeners

ASSUME AgentAssumption ==
  /\ MaxSent \in Nat
  /\ MaxCalls \in Nat
  /\ MaxToolTurns \in Nat
  /\ MaxRejects \in Nat

Msgs == 1..MaxSent

VARIABLES
  pc,          \* where the active run is suspended; "idle" without activeRun
  aborted,     \* the run's abort signal
  transcript,  \* _state.messages
  context,     \* currentContext.messages of the loop
  steering,    \* steeringQueue
  followUp,    \* followUpQueue
  pending,     \* prompts, then pendingMessages, of the loop
  skipPoll,    \* skipInitialSteeringPoll
  more,        \* hasMoreToolCalls
  calls,       \* the tool calls of the current batch
  mode,        \* how that batch is executed
  shown,       \* pendingToolCalls: announced, not yet ended
  stray,       \* calls still executing for a run that has failed
  sent,        \* number of client messages so far
  turns,       \* number of assistant messages so far
  toolTurns,   \* those that called tools
  steers,      \* history: the messages handed in with steer()
  queueMode,   \* the mode of both queues, an option of the agent
  rejects,     \* number of rejections by listeners so far
  runStart,    \* history: length of the transcript when the run began
  lost         \* history: messages a failed run had taken and never recorded,
               \* or that clearAllQueues dropped

queues == <<steering, followUp>>
batch  == <<calls, mode, shown, stray>>
counts == <<turns, toolTurns, runStart, queueMode>>
vars == <<pc, aborted, transcript, context, queues, pending, skipPoll, more,
          batch, sent, counts, rejects, steers, lost>>

Users(s)         == [i \in DOMAIN s |-> [role |-> "user", id |-> s[i], part |-> 0, ok |-> TRUE]]
Assistant(n, ok) == [role |-> "assistant", id |-> turns + 1, part |-> n, ok |-> ok]
Result(i)        == [role |-> "result", id |-> turns, part |-> i, ok |-> TRUE]
Ids(s)           == {s[i] : i \in DOMAIN s}

Init ==
  /\ pc = "idle" /\ aborted = FALSE
  /\ transcript = <<>> /\ context = <<>>
  /\ steering = <<>> /\ followUp = <<>>
  /\ pending = <<>> /\ skipPoll = FALSE
  /\ more = FALSE
  /\ calls = <<>> /\ mode = "none" /\ shown = {} /\ stray = {}
  /\ sent = 0 /\ turns = 0 /\ toolTurns = 0
  /\ steers = {}
  /\ queueMode \in {"all", "one-at-a-time"}
  /\ rejects = 0 /\ runStart = 0 /\ lost = {}

-----------------------------------------------------------------------------
(* The client's calls.                                                     *)

(* PendingMessageQueue.drain: what it returns and what it leaves.          *)
Taken(q) == IF queueMode = "all" \/ q = <<>> THEN q ELSE <<Head(q)>>
Rest(q)  == IF queueMode = "all" \/ q = <<>> THEN <<>> ELSE Tail(q)

Send(how) ==
  /\ sent < MaxSent
  /\ sent' = sent + 1
  /\ steers' = IF how = "steer" THEN steers \cup {sent + 1} ELSE steers

(* runWithLifecycle: a new active run, on a snapshot of the transcript.    *)
StartRun(prompts, skip) ==
  /\ pc = "idle"
  /\ pc' = "begin"
  /\ aborted' = FALSE
  /\ pending' = prompts
  /\ skipPoll' = skip
  /\ context' = transcript \o Users(prompts)
  /\ runStart' = Len(transcript)
  /\ UNCHANGED <<transcript, more, batch, turns, toolTurns, queueMode, lost, rejects>>

(* prompt() throws, and changes nothing, while a run is active.            *)
Prompt ==
  /\ Send("prompt")
  /\ StartRun(<<sent + 1>>, FALSE)
  /\ UNCHANGED queues

LastIsAssistant == transcript # <<>> /\ transcript[Len(transcript)].role = "assistant"

(* Mutant: the run polls the steering queue again.                         *)
ContinueSteering_PollsAgain ==
  /\ LastIsAssistant /\ steering # <<>>
  /\ StartRun(Taken(steering), FALSE)
  /\ steering' = Rest(steering)
  /\ UNCHANGED <<followUp, sent, steers>>

(* continue() after an assistant message: it needs a queued message.       *)
ContinueSteering ==
  /\ LastIsAssistant /\ steering # <<>>
  /\ StartRun(Taken(steering), TRUE)
  /\ steering' = Rest(steering)
  /\ UNCHANGED <<followUp, sent, steers>>

ContinueFollowUp ==
  /\ LastIsAssistant /\ steering = <<>> /\ followUp # <<>>
  /\ StartRun(Taken(followUp), FALSE)
  /\ followUp' = Rest(followUp)
  /\ UNCHANGED <<steering, sent, steers>>

(* continue() after a user message or a tool result.                       *)
ContinueTranscript ==
  /\ transcript # <<>> /\ ~LastIsAssistant
  /\ StartRun(<<>>, FALSE)
  /\ UNCHANGED <<queues, sent, steers>>

Steer ==
  /\ Send("steer")
  /\ steering' = Append(steering, sent + 1)
  /\ UNCHANGED <<pc, aborted, transcript, context, followUp, pending, skipPoll, more, batch, counts, lost, rejects>>

FollowUp ==
  /\ Send("followUp")
  /\ followUp' = Append(followUp, sent + 1)
  /\ UNCHANGED <<pc, aborted, transcript, context, steering, pending, skipPoll, more, batch, counts, lost, rejects>>

Abort ==
  /\ pc # "idle" /\ ~aborted
  /\ aborted' = TRUE
  /\ UNCHANGED <<pc, transcript, context, queues, pending, skipPoll, more, batch, sent, counts, steers, lost, rejects>>

ClearAllQueues ==
  /\ steering # <<>> \/ followUp # <<>>
  /\ steering' = <<>> /\ followUp' = <<>>
  /\ lost' = lost \cup Ids(steering) \cup Ids(followUp)
  /\ UNCHANGED <<pc, aborted, transcript, context, pending, skipPoll, more, batch, sent, counts, steers, rejects>>

-----------------------------------------------------------------------------
(* The loop.                                                               *)

(* The run throws; of the messages it had taken, those in gone were not    *)
(* recorded.                                                               *)
Fail(gone) ==
  /\ pc' = "failing"
  /\ pending' = <<>>
  /\ lost' = lost \cup gone

Rejected == rejects < MaxRejects /\ rejects' = rejects + 1

(* A listener rejects while the first messages of pending are recorded.    *)
RecordingRejected ==
  /\ Rejected
  /\ \E k \in 0..Len(pending) :
       /\ transcript' = transcript \o SubSeq(Users(pending), 1, k)
       /\ Fail({pending[i] : i \in (k + 1)..Len(pending)})
  /\ UNCHANGED <<context, steering, skipPoll>>

(* agent_start, the prompts' events, and the initial steering poll.        *)
BeginRun ==
  /\ pc = "begin"
  /\ \/ /\ transcript' = transcript \o Users(pending)
        /\ pending' = IF skipPoll THEN <<>> ELSE Taken(steering)
        /\ steering' = IF skipPoll THEN steering ELSE Rest(steering)
        /\ skipPoll' = FALSE
        /\ pc' = "turn"
        /\ UNCHANGED <<context, lost, rejects>>
     \/ RecordingRejected
  /\ UNCHANGED <<aborted, followUp, more, batch, sent, counts, steers>>

(* Mutant: an injected message is recorded but not shown to the model.     *)
TurnStart_NotInContext ==
  /\ pc = "turn"
  /\ transcript' = transcript \o Users(pending)
  /\ pending' = <<>>
  /\ pc' = IF aborted THEN "modelAborted" ELSE "model"
  /\ UNCHANGED <<aborted, context, queues, skipPoll, more, batch, sent, counts, steers, lost, rejects>>

(* turn_start: pending messages join both logs, then the provider is asked *)
(* with the run's signal.                                                  *)
TurnStart ==
  /\ pc = "turn"
  /\ \/ /\ transcript' = transcript \o Users(pending)
        /\ context' = context \o Users(pending)
        /\ pending' = <<>>
        /\ pc' = IF aborted THEN "modelAborted" ELSE "model"
        /\ UNCHANGED <<steering, skipPoll, lost, rejects>>
     \/ RecordingRejected
  /\ UNCHANGED <<aborted, followUp, more, batch, sent, counts, steers>>

(* A complete answer with n tool calls (executeToolCalls picks the mode,   *)
(* a "length" stop fails them all).                                        *)
ModelAnswers ==
  /\ pc = "model"
  /\ \E n \in 0..MaxCalls :
       /\ n > 0 => toolTurns < MaxToolTurns
       /\ transcript' = Append(transcript, Assistant(n, TRUE))
       /\ context' = Append(context, Assistant(n, TRUE))
       /\ turns' = turns + 1
       /\ calls' = [i \in 1..n |-> "waiting"]
       /\ IF n = 0
          THEN mode' = "none" /\ toolTurns' = toolTurns /\ pc' = "turnEnd"
          ELSE /\ mode' \in {"parallel", "sequential", "truncated"}
               /\ toolTurns' = toolTurns + 1
               /\ pc' = "batch"
       /\ more' = FALSE
  /\ UNCHANGED <<aborted, queues, pending, skipPoll, shown, stray, sent, steers, lost, runStart, queueMode, rejects>>

(* Mutant: the steering queue is polled before an error ends the run.      *)
ModelStops_PollsFirst ==
  /\ pc \in {"model", "modelAborted"}
  /\ transcript' = Append(transcript, Assistant(0, FALSE))
  /\ context' = Append(context, Assistant(0, FALSE))
  /\ turns' = turns + 1
  /\ pc' = "end"
  /\ pending' = Taken(steering) /\ steering' = Rest(steering)
  /\ UNCHANGED <<aborted, followUp, skipPoll, more, batch, sent, toolTurns, steers, lost, runStart, queueMode, rejects>>

(* An answer with stop reason "error" or "aborted" ends the run; tool      *)
(* calls already streamed are left without a result.                       *)
ModelStops ==
  /\ pc \in {"model", "modelAborted"}
  /\ \E n \in 0..MaxCalls :
       /\ n > 0 => toolTurns < MaxToolTurns
       /\ transcript' = Append(transcript, Assistant(n, FALSE))
       /\ context' = Append(context, Assistant(n, FALSE))
       /\ toolTurns' = IF n > 0 THEN toolTurns + 1 ELSE toolTurns
  /\ turns' = turns + 1
  /\ pc' = "end"
  /\ UNCHANGED <<aborted, queues, pending, skipPoll, more, batch, sent, steers, lost, runStart, queueMode, rejects>>

(* transformContext, convertToLlm, getApiKey or the stream function throws, *)
(* or a listener rejects an event of the answer, at worst its message_end. *)
ModelFails ==
  /\ pc \in {"model", "modelAborted"}
  /\ \/ UNCHANGED <<transcript, turns, toolTurns, rejects>>
     \/ /\ Rejected
        /\ \E n \in 0..MaxCalls :
             /\ n > 0 => toolTurns < MaxToolTurns
             /\ transcript' = Append(transcript, Assistant(n, TRUE))
             /\ toolTurns' = IF n > 0 THEN toolTurns + 1 ELSE toolTurns
        /\ turns' = turns + 1
  /\ Fail({})
  /\ UNCHANGED <<aborted, context, queues, skipPoll, more, batch, sent, steers, runStart, queueMode>>

-----------------------------------------------------------------------------
(* A batch of tool calls.  A call is waiting, announced (tool_execution_   *)
(* start), prepared or refused (an immediate error), and then ended        *)
(* (tool_execution_end) or failed; it is skipped when an abort breaks the  *)
(* batch before its turn.                                                  *)

Announcing == \E i \in DOMAIN calls : calls[i] \in {"waiting", "announced", "refused"}
Over       == {"ended", "failed", "skipped"}

(* Call i is the next to be announced.  In parallel mode the earlier ones   *)
(* need only be prepared.                                                  *)
NextCall(i) ==
  /\ pc = "batch" /\ calls[i] = "waiting"
  /\ \A j \in 1..(i - 1) :
       calls[j] \in Over \/ (mode = "parallel" /\ calls[j] = "prepared")

(* Both batch loops look at the signal after each call, right before they  *)
(* announce the next one; the loop over truncated calls does not.          *)
Breaks(i) == i > 1 /\ mode # "truncated" /\ aborted

AnnounceCall(i) ==
  /\ NextCall(i) /\ ~Breaks(i)
  /\ calls' = [calls EXCEPT ![i] = "announced"]
  /\ shown' = shown \cup {<<turns, i>>}
  /\ \/ pc' = pc /\ UNCHANGED <<pending, lost, rejects>>
     \/ Rejected /\ Fail({})
  /\ UNCHANGED <<aborted, transcript, context, queues, skipPoll, more, mode, stray, sent, counts, steers>>

(* An abort leaves the rest of the batch without a result.                 *)
SkipCalls(i) ==
  /\ NextCall(i) /\ Breaks(i)
  /\ calls' = [j \in DOMAIN calls |-> IF j >= i THEN "skipped" ELSE calls[j]]
  /\ UNCHANGED <<pc, aborted, transcript, context, queues, pending, skipPoll, more, mode, shown, stray,
                 sent, counts, steers, lost, rejects>>

(* prepareToolCall: unknown tool, bad arguments, a blocking hook or an     *)
(* abort refuse the call, and so does a truncated message.                 *)
PrepareCall(i) ==
  /\ pc = "batch" /\ calls[i] = "announced"
  /\ \E s \in IF aborted \/ mode = "truncated" THEN {"refused"} ELSE {"refused", "prepared"} :
       calls' = [calls EXCEPT ![i] = s]
  /\ UNCHANGED <<pc, aborted, transcript, context, queues, pending, skipPoll, more, mode, shown, stray,
                 sent, counts, steers, lost, rejects>>

(* A refused call ends at once.  A prepared one executes: at once in       *)
(* sequential mode, in parallel mode together with the others once all     *)
(* have been announced (Promise.all).                                      *)
MayEnd(i) ==
  /\ pc = "batch"
  /\ calls[i] = "refused" \/ (calls[i] = "prepared" /\ (mode = "parallel" => ~Announcing))

(* Outside parallel mode its result is recorded with it.                   *)
EndCall(i) ==
  /\ MayEnd(i)
  /\ shown' = shown \ {<<turns, i>>}
  /\ calls' = [calls EXCEPT ![i] = IF @ = "refused" THEN "failed" ELSE "ended"]
  /\ transcript' = IF mode = "parallel" THEN transcript ELSE Append(transcript, Result(i))
  /\ UNCHANGED <<pc, aborted, context, queues, pending, skipPoll, more, mode, stray, sent, counts, steers, lost, rejects>>

(* A listener rejects the call's end, its update or its result.  In        *)
(* parallel mode nobody waits for the other calls any more.                *)
EndCallRejected(i) ==
  /\ MayEnd(i) /\ Rejected
  /\ shown' = shown \ {<<turns, i>>}
  /\ stray' = IF mode = "parallel" /\ calls[i] = "prepared"
              THEN stray \cup {<<turns, j>> : j \in {k \in DOMAIN calls : k # i /\ calls[k] = "prepared"}}
              ELSE stray
  /\ \/ transcript' = transcript
     \/ mode # "parallel" /\ transcript' = Append(transcript, Result(i))
  /\ Fail({})
  /\ UNCHANGED <<aborted, context, queues, skipPoll, more, calls, mode, sent, counts, steers>>

(* A call whose run has failed ends: processEvents updates the state, and  *)
(* throws unless another run is active.                                    *)
StrayEnds(c) ==
  /\ stray' = stray \ {c}
  /\ shown' = shown \ {c}
  /\ UNCHANGED <<pc, aborted, transcript, context, queues, pending, skipPoll, more, calls, mode, sent,
                 counts, steers, lost, rejects>>

(* Mutant: the results are collected in the reverse order.                 *)
Results_Reversed ==
  LET n == Cardinality({i \in DOMAIN calls : calls[i] # "skipped"})
  IN  [i \in 1..n |-> Result(n + 1 - i)]

(* The results of the calls that ended, in the order of the message.       *)
Results ==
  LET n == Cardinality({i \in DOMAIN calls : calls[i] # "skipped"})
  IN  [i \in 1..n |-> Result(i)]

(* shouldTerminateToolBatch: every result asks for it.                     *)
MayTerminate ==
  /\ \E i \in DOMAIN calls : calls[i] = "ended"
  /\ \A i \in DOMAIN calls : calls[i] # "failed"

RecordBatch ==
  /\ pc = "batch" /\ \A i \in DOMAIN calls : calls[i] \in Over
  /\ \/ /\ transcript' = IF mode = "parallel" THEN transcript \o Results ELSE transcript
        /\ context' = context \o Results
        /\ \E t \in IF MayTerminate THEN BOOLEAN ELSE {FALSE} : more' = ~t
        /\ pc' = "turnEnd"
        /\ UNCHANGED <<pending, lost, rejects>>
     \/ /\ Rejected /\ mode = "parallel"
        /\ \E k \in 0..Len(Results) : transcript' = transcript \o SubSeq(Results, 1, k)
        /\ Fail({})
        /\ UNCHANGED <<context, more>>
  /\ calls' = <<>> /\ mode' = "none"
  /\ UNCHANGED <<aborted, queues, skipPoll, shown, stray, sent, counts, steers>>

(* turn_end, prepareNextTurn, and the steering poll.                       *)
TurnEnd ==
  /\ pc = "turnEnd"
  /\ \/ /\ pending' = Taken(steering)
        /\ steering' = Rest(steering)
        /\ pc' = IF more \/ steering # <<>> THEN "turn" ELSE "pollFollowUp"
        /\ UNCHANGED lost
     \/ Fail({}) /\ UNCHANGED steering
  /\ UNCHANGED <<aborted, transcript, context, followUp, skipPoll, more, batch, sent, counts, steers, rejects>>

PollFollowUp ==
  /\ pc = "pollFollowUp"
  /\ pending' = Taken(followUp)
  /\ followUp' = Rest(followUp)
  /\ pc' = IF followUp # <<>> THEN "turn" ELSE "end"
  /\ UNCHANGED <<aborted, transcript, context, steering, skipPoll, more, batch, sent, counts, steers, lost, rejects>>

(* finishRun, and the loop's locals are gone.                              *)
FinishRun ==
  /\ pc' = "idle" /\ aborted' = FALSE
  /\ context' = <<>> /\ calls' = <<>> /\ mode' = "none" /\ more' = FALSE
  /\ shown' = {} /\ runStart' = 0
  /\ UNCHANGED <<queues, pending, skipPoll, stray, sent, turns, toolTurns, queueMode, steers, lost>>

(* The listeners of agent_end have settled.                                *)
EndRun ==
  /\ pc = "end"
  /\ \/ FinishRun /\ UNCHANGED <<transcript, rejects>>
     \/ /\ Rejected /\ Fail({})
        /\ UNCHANGED <<aborted, transcript, context, queues, skipPoll, more, batch, sent, counts, steers>>

(* Mutant: the failure handler never finishes the run.                     *)
HandleRunFailure_StaysActive == pc = "failing" /\ UNCHANGED vars

(* An empty assistant message records the failure, unless a listener       *)
(* rejects its first event.                                                *)
HandleRunFailure ==
  /\ pc = "failing"
  /\ \/ transcript' = Append(transcript, [Assistant(0, FALSE) EXCEPT !.id = 0]) /\ UNCHANGED rejects
     \/ Rejected /\ UNCHANGED transcript
  /\ FinishRun

LoopStep ==
  \/ BeginRun \/ TurnStart
  \/ ModelAnswers \/ ModelStops \/ ModelFails
  \/ \E i \in DOMAIN calls : AnnounceCall(i) \/ SkipCalls(i) \/ PrepareCall(i) \/ EndCall(i) \/ EndCallRejected(i)
  \/ RecordBatch \/ TurnEnd \/ PollFollowUp
  \/ EndRun \/ HandleRunFailure

ClientStep ==
  \/ Prompt \/ ContinueSteering \/ ContinueFollowUp \/ ContinueTranscript
  \/ Steer \/ FollowUp \/ Abort \/ ClearAllQueues

Next ==
  \/ LoopStep
  \/ ClientStep
  \/ \E c \in stray : StrayEnds(c)

Spec == Init /\ [][Next]_vars

(* The provider and the tools answer, and listeners settle.                *)
FairSpec == Spec /\ WF_vars(LoopStep)

-----------------------------------------------------------------------------
(* Properties.                                                             *)

Entry == [role : {"user", "assistant", "result"}, id : Nat, part : 0..MaxCalls + MaxSent, ok : BOOLEAN]

(* Every variable has its type (the fields of Agent and the locals of      *)
(* runLoop); an idle agent keeps nothing of a run.                         *)
TypeOK ==
  /\ pc \in {"idle", "begin", "turn", "model", "modelAborted", "batch", "turnEnd", "pollFollowUp",
             "end", "failing"}
  /\ aborted \in BOOLEAN
  /\ transcript \in Seq(Entry) /\ context \in Seq(Entry)
  /\ steering \in Seq(Msgs) /\ followUp \in Seq(Msgs) /\ pending \in Seq(Msgs)
  /\ skipPoll \in BOOLEAN /\ more \in BOOLEAN
  /\ calls \in Seq({"waiting", "announced", "refused", "prepared"} \cup Over)
  /\ mode \in {"none", "parallel", "sequential", "truncated"}
  /\ shown \subseteq (1..turns) \X (1..MaxCalls) /\ stray \subseteq (1..turns) \X (1..MaxCalls)
  /\ sent \in 0..MaxSent /\ turns \in Nat /\ toolTurns \in 0..MaxToolTurns
  /\ steers \subseteq Msgs
  /\ queueMode \in {"all", "one-at-a-time"}
  /\ rejects \in 0..MaxRejects
  /\ runStart \in 0..Len(transcript) /\ lost \subseteq Msgs
  /\ pc = "idle" => pending = <<>> /\ calls = <<>> /\ shown = {}

(* The two logs of a conversation agree whenever the model is asked: what  *)
(* the loop sends is what the agent has recorded, although the loop and    *)
(* the event handler append to them separately, in different orders        *)
(* (agent-loop.ts:186, 218; agent.ts:541).                                 *)
ContextIsTranscript == pc = "model" => context = transcript

(* Recorded tool results follow their assistant message in the order of    *)
(* its calls and without a gap, whatever the order in which the calls      *)
(* complete and wherever an abort or a failure cuts the batch              *)
(* (packages/agent/README.md:118).                                         *)
ResultsInSourceOrder ==
  \A p \in DOMAIN transcript :
    transcript[p].role = "result" =>
      /\ p > 1
      /\ transcript[p - 1].role \in {"assistant", "result"}
      /\ transcript[p - 1].id = transcript[p].id
      /\ transcript[p].part = IF transcript[p - 1].role = "assistant" THEN 1
                              ELSE transcript[p - 1].part + 1

Occurrences(m, s) == Cardinality({i \in DOMAIN s : s[i] = m})

(* A message handed in with prompt(), steer() or followUp() is at any time *)
(* in exactly one place - a queue, the loop's pending messages or the      *)
(* transcript - and in only one of them once, or else it was dropped       *)
(* (agent.ts:131-157, agent-loop.ts:167, 182-190, 259-268).                *)
MessagesConserved ==
  \A m \in 1..sent :
    Occurrences(m, steering) + Occurrences(m, followUp) + Occurrences(m, pending)
      + Cardinality({p \in DOMAIN transcript : transcript[p].role = "user" /\ transcript[p].id = m})
      + (IF m \in lost THEN 1 ELSE 0) = 1

(* In one-at-a-time mode the model answers each steering message of a run  *)
(* before it sees the next one (agent.ts:463-468: a run that continue()    *)
(* starts with a steering message skips its first poll).                   *)
OneSteeringPerTurn ==
  (queueMode = "one-at-a-time" /\ pc = "model") =>
    LET since == {p \in (runStart + 1)..Len(transcript) :
                    /\ transcript[p].role = "user"
                    /\ transcript[p].id \in steers
                    /\ \A q \in DOMAIN transcript : q > p => transcript[q].role # "assistant"}
    IN  Cardinality(since) <= 1

(* Every run comes to an end, and with it the lock that prompt() checks,   *)
(* whatever fails or is aborted on the way (agent.ts:487-493).             *)
RunEnds == (pc # "idle") ~> (pc = "idle")
=============================================================================
