---------------------------- MODULE AgentHarness ----------------------------
(***************************************************************************)
(* AgentHarness of packages/agent: one session and the operations on it.   *)
(* A prompt drains the nextTurn queue, runs the agent loop, records every  *)
(* message of the loop in the session, and writes what was asked for in    *)
(* the meantime (the pending session writes) at its save points; compact() *)
(* and navigateTree() lock out the others by the same phase.               *)
(*                                                                         *)
(* Appending to the session takes two steps, as Session.appendMessage and  *)
(* the storage do: the parent is read, the line is written, then the leaf  *)
(* moves.  steer(), followUp(), nextTurn(), appendMessage() and the setters*)
(* may be called at any moment, by several clients and by listeners, and   *)
(* nothing waits for the append of an idle write.  One thing is asked of   *)
(* the clients: an operation starts only when the one before and the idle  *)
(* writes have returned.  The provider, hooks, listeners and the file      *)
(* system are external and may reject.                                     *)
(***************************************************************************)
EXTENDS Integers, Sequences, FiniteSets, SequencesExt

CONSTANTS
  MaxItems,    \* bound: messages and writes handed to the harness
  MaxEvents    \* bound: rejections, failed appends, answers with tool calls,
               \* aborts, compactions and navigations, together

ASSUME HarnessAssumption ==
  /\ MaxItems \in Nat
  /\ MaxEvents \in Nat

VARIABLES
  phase,     \* "idle", "turn", "tree" (compaction or branch_summary)
  pc,        \* where the operation stands; "none" without one
  mode,      \* of the run: "ok", reporting a failure ("failing", or "late"
             \* when the run had already settled), "bad": the prompt rejects
  inbox,     \* messages the loop has taken and not yet recorded
  context,   \* the entries the model is shown with the next request
  aborted,   \* the signal of runAbortController
  control,   \* runAbortController is set
  stopping,  \* the answer was aborted or an error
  steering, followUp, nextTurn,
  pending,   \* pendingSessionWrites
  log,       \* the entries of the session, by number of their line
  leaf,      \* its leaf, 0 for null
  writing,   \* the appends under way, of the operation and of clients
  met,       \* history: the appends that two writers had under way at once
             \* because nothing keeps them apart, ...
  crossed,   \* ... and the lines they became
  aborting,  \* abort() called, and waiting for the run
  sent, events,
  writes,    \* history: the items that are session writes
  returned,  \* history: handed back with an error, or cleared by abort()
  lost,      \* history: taken by a run that failed before recording them
  held       \* history: writes that were pending when an operation ended

run    == <<pc, mode, inbox, context, stopping>>
signal == <<aborted, control, aborting>>
queues == <<steering, followUp, nextTurn>>
store  == <<log, leaf, writing, met, crossed>>
fates  == <<writes, returned, lost, held>>
vars == <<phase, run, signal, queues, pending, store, sent, events, fates>>

Nobody  == [item |-> -1, parent |-> 0, to |-> 0]
Op      == 0             \* the operation, as a writer
Callers == 1..MaxItems   \* a client is named for the item it writes
Writers == {Op} \cup Callers
Stay    == -1

Init ==
  /\ phase = "idle"
  /\ pc = "none" /\ mode = "ok"
  /\ inbox = <<>> /\ context = <<>>
  /\ aborted = FALSE /\ control = FALSE /\ stopping = FALSE
  /\ steering = <<>> /\ followUp = <<>> /\ nextTurn = <<>>
  /\ pending = <<>>
  /\ log = <<>> /\ leaf = 0
  /\ writing = [w \in Writers |-> Nobody]
  /\ met = {} /\ crossed = {}
  /\ aborting = "no"
  /\ sent = 0 /\ events = 0
  /\ writes = {} /\ returned = {} /\ lost = {} /\ held = {}

Event ==
  /\ events < MaxEvents
  /\ events' = events + 1

Accept ==
  /\ sent < MaxItems
  /\ sent' = sent + 1

-----------------------------------------------------------------------------
(* The session (session.ts and its storage)                                *)

Writes(w) == writing[w] # Nobody

(* The leaf after entry k: a leaf entry names it, any other entry is it.   *)
LeafAfter(k) == IF k = 0 THEN 0 ELSE IF log[k].to = Stay THEN k ELSE log[k].to

(* Nothing keeps apart the writes of idle clients, and of an operation only *)
(* those of the report of a failure that came when it had given up its     *)
(* phase.                                                                  *)
Meets(w) ==
  {v \in Writers \ {w} : Writes(v) /\ (Op \in {v, w} => mode = "late")}

StartWrite(w, item, to) ==
  /\ ~Writes(w)
  /\ writing' = [writing EXCEPT ![w] = [item |-> item, parent |-> leaf, to |-> to]]
  /\ met' = IF Meets(w) = {} THEN met ELSE met \cup Meets(w) \cup {w}
  /\ UNCHANGED <<log, leaf, crossed>>

EndWrite(w) ==
  /\ Writes(w)
  /\ log' = Append(log, writing[w])
  /\ leaf' = IF writing[w].to = Stay THEN Len(log) + 1 ELSE writing[w].to
  /\ writing' = [writing EXCEPT ![w] = Nobody]
  /\ met' = met \ {w}
  /\ crossed' = IF w \in met THEN crossed \cup {Len(log) + 1} ELSE crossed

FailWrite(w) ==
  /\ Writes(w)
  /\ Event
  /\ writing' = [writing EXCEPT ![w] = Nobody]
  /\ met' = met \ {w}
  /\ UNCHANGED <<log, leaf, crossed>>

(* The path from the root to entry k, leaf entries left out.               *)
PathTo[k \in 0..Len(log)] ==
  IF k = 0 THEN <<>> ELSE Append(PathTo[log[k].parent], k)

-----------------------------------------------------------------------------
(* The clients, between the steps of an operation                          *)

Quiet == pc = "none" /\ (\A w \in Writers : ~Writes(w)) /\ aborting = "no"

(* prompt, skill, promptFromTemplate: the phase is taken before the first  *)
(* await.                                                                  *)
Prompt ==
  /\ Quiet /\ phase = "idle"
  /\ Accept
  /\ phase' = "turn"
  /\ pc' = "starting" /\ mode' = "ok"
  /\ inbox' = <<sent + 1>>
  /\ stopping' = FALSE /\ aborted' = FALSE
  /\ UNCHANGED <<context, control, aborting, queues, pending, store, events, fates>>

Steer ==
  /\ phase # "idle"
  /\ Accept
  /\ \/ steering' = Append(steering, sent + 1) /\ UNCHANGED followUp
     \/ followUp' = Append(followUp, sent + 1) /\ UNCHANGED steering
  /\ UNCHANGED <<phase, run, signal, nextTurn, pending, store, events, fates>>

NextTurn ==
  /\ Accept
  /\ nextTurn' = Append(nextTurn, sent + 1)
  /\ UNCHANGED <<phase, run, signal, steering, followUp, pending, store, events, fates>>

(* Mutant: the phase is not asked.                                         *)
AppendMessage_AtOnce ==
  /\ Accept
  /\ writes' = writes \cup {sent + 1}
  /\ StartWrite(sent + 1, sent + 1, Stay)
  /\ UNCHANGED <<phase, run, signal, queues, pending, events, returned, lost, held>>

(* appendMessage and the setters: at once while the phase is idle, whoever *)
(* else is appending, else with the next save point.                       *)
AppendMessage ==
  /\ Accept
  /\ writes' = writes \cup {sent + 1}
  /\ IF phase = "idle"
       THEN StartWrite(sent + 1, sent + 1, Stay) /\ UNCHANGED pending
       ELSE pending' = Append(pending, sent + 1) /\ UNCHANGED store
  /\ UNCHANGED <<phase, run, signal, queues, events, returned, lost, held>>

(* The append of an idle write ends; its error goes back to the caller.    *)
AppendEnds ==
  /\ \E w \in Callers :
       \/ EndWrite(w) /\ UNCHANGED <<events, returned>>
       \/ FailWrite(w) /\ returned' = returned \cup {w}
  /\ UNCHANGED <<phase, run, signal, queues, pending, sent, writes, lost, held>>

(* There is a controller only once the hooks before the run have returned. *)
Abort ==
  /\ aborting = "no"
  /\ Event
  /\ returned' = returned \cup ToSet(steering) \cup ToSet(followUp)
  /\ steering' = <<>> /\ followUp' = <<>>
  /\ aborted' = (aborted \/ control)
  /\ aborting' = "waiting"
  /\ UNCHANGED <<phase, run, control, nextTurn, pending, store, sent, writes, lost, held>>

(* waitForIdle() awaits runPromise, which only a prompt has.               *)
AbortReturns ==
  /\ aborting = "waiting"
  /\ pc \in {"none", "moving", "summarizing"}
  /\ aborting' = "no"
  /\ UNCHANGED <<phase, run, aborted, control, queues, pending, store, sent, events, fates>>

-----------------------------------------------------------------------------
(* prompt(): from the snapshot to the loop                                 *)

(* The prompt rejects before its run; what it had taken from nextTurn goes *)
(* back to the queue, or is gone.  Nothing is flushed.                     *)
PromptRejects(back, gone) ==
  /\ Event
  /\ phase' = "idle"
  /\ pc' = "none"
  /\ inbox' = <<>>
  /\ nextTurn' = back \o nextTurn
  /\ returned' = returned \cup {Last(inbox)}
  /\ lost' = lost \cup ToSet(gone)
  /\ held' = held \cup ToSet(pending)
  /\ UNCHANGED <<mode, context, stopping, signal, steering, followUp, pending, store,
                 sent, writes>>

BeforeRunUnchanged ==
  UNCHANGED <<phase, mode, stopping, aborted, aborting, steering, followUp, pending, store,
              sent, events, fates>>

(* createTurnState has read the session; or it fails, the skill is unknown.*)
TurnStateCreated ==
  /\ pc = "starting"
  /\ \/ /\ context' = PathTo[leaf]
        /\ inbox' = nextTurn \o inbox
        /\ nextTurn' = <<>>
        /\ pc' = IF nextTurn = <<>> THEN "hooking" ELSE "announcing"
        /\ UNCHANGED control
        /\ BeforeRunUnchanged
     \/ PromptRejects(<<>>, <<>>)

Announced ==
  /\ pc = "announcing"
  /\ \/ /\ pc' = "hooking"
        /\ UNCHANGED <<inbox, context, control, nextTurn>>
        /\ BeforeRunUnchanged
     \/ PromptRejects(Front(inbox), <<>>)

(* before_agent_start; its error does not bring the nextTurn messages back.*)
HookReturns ==
  /\ pc = "hooking"
  /\ \/ /\ pc' = "prompting"
        /\ control' = TRUE
        /\ UNCHANGED <<inbox, context, nextTurn>>
        /\ BeforeRunUnchanged
     \/ PromptRejects(<<>>, Front(inbox))

-----------------------------------------------------------------------------
(* The run: the loop, and its events handled by handleAgentEvent           *)

RunUnchanged == UNCHANGED <<phase, signal, nextTurn, sent, writes, returned, held>>

(* An error inside the run: emitRunFailure reports the first one, the      *)
(* second makes the prompt reject.  Taken messages are not put back.       *)
Raise ==
  /\ pc' = IF mode = "ok" THEN "failing" ELSE "closing"
  /\ mode' = IF mode # "ok" THEN "bad" ELSE IF phase = "idle" THEN "late" ELSE "failing"
  /\ inbox' = <<>>
  /\ lost' = lost \cup ToSet(inbox)
  /\ UNCHANGED <<context, stopping>>

(* A listener or a hook rejects, or the provider's stream throws.  The     *)
(* error of a turn_end listener is thrown after the flush, the error of a  *)
(* queue_update listener after the message is back in its queue.           *)
RunRaises ==
  /\ pc \in {"prompting", "recording", "polling", "streaming", "saved", "ending",
            "settling"}
  /\ ~Writes(Op)
  /\ Event
  /\ Raise
  /\ RunUnchanged
  /\ UNCHANGED <<steering, followUp, pending, store>>

(* message_end of a message handed to the loop: the session comes first,   *)
(* then the listeners.                                                     *)
Record ==
  /\ pc \in {"prompting", "recording"}
  /\ StartWrite(Op, Head(inbox), Stay)
  /\ RunUnchanged
  /\ UNCHANGED <<run, steering, followUp, pending, events, lost>>

Recorded ==
  /\ pc \in {"prompting", "recording"}
  /\ \/ /\ EndWrite(Op)
        /\ inbox' = Tail(inbox)
        /\ context' = Append(context, Len(log) + 1)
        /\ pc' = CASE Len(inbox) > 1 -> pc
                   [] Len(inbox) = 1 /\ pc = "prompting" -> "polling"
                   [] OTHER -> "streaming"
        /\ UNCHANGED <<mode, stopping, lost, events>>
     \/ FailWrite(Op) /\ Raise
  /\ RunUnchanged
  /\ UNCHANGED <<steering, followUp, pending>>

(* Queued messages are taken one at a time.                                *)
Poll ==
  /\ \/ /\ pc \in {"polling", "saved"} /\ steering # <<>>
        /\ inbox' = <<Head(steering)>>
        /\ steering' = Tail(steering)
        /\ pc' = "recording"
        /\ UNCHANGED <<followUp, events>>
     \/ /\ pc = "polling" /\ steering = <<>>
        /\ pc' = "streaming"
        /\ UNCHANGED <<inbox, steering, followUp, events>>
     \/ /\ pc = "saved" /\ steering = <<>>
        /\ pc' = "streaming"        \* the answer has called tools
        /\ Event
        /\ UNCHANGED <<inbox, steering, followUp>>
     \/ /\ pc = "saved" /\ steering = <<>> /\ followUp # <<>>
        /\ inbox' = <<Head(followUp)>>
        /\ followUp' = Tail(followUp)
        /\ pc' = "recording"
        /\ UNCHANGED <<steering, events>>
     \/ /\ pc = "saved" /\ steering = <<>> /\ followUp = <<>>
        /\ pc' = "ending"
        /\ UNCHANGED <<inbox, steering, followUp, events>>
  /\ RunUnchanged
  /\ UNCHANGED <<mode, context, stopping, pending, store, lost>>

(* The model's message, or the message that reports a failure.             *)
Answer ==
  /\ pc \in {"streaming", "failing"} /\ ~Writes(Op)
  /\ StartWrite(Op, 0, Stay)
  /\ RunUnchanged
  /\ UNCHANGED <<run, steering, followUp, pending, events, lost>>

Answered ==
  /\ pc \in {"streaming", "failing"}
  /\ \/ /\ EndWrite(Op)
        /\ context' = Append(context, Len(log) + 1)
        /\ stopping' \in {aborted \/ mode # "ok", TRUE}   \* TRUE: an error
        /\ pc' = "saving"
        /\ UNCHANGED <<mode, inbox, lost, events>>
     \/ FailWrite(Op) /\ Raise
  /\ RunUnchanged
  /\ UNCHANGED <<steering, followUp, pending>>

(* flushPendingSessionWrites: at turn_end and before the next turn, at     *)
(* agent_end, and when the prompt is over.                                 *)
Flushing == pc \in {"saving", "ending", "closing"}

Flush ==
  /\ Flushing /\ pending # <<>>
  /\ StartWrite(Op, Head(pending), Stay)
  /\ RunUnchanged
  /\ UNCHANGED <<run, steering, followUp, pending, events, lost>>

Flushed ==
  /\ Flushing
  /\ EndWrite(Op)
  /\ pending' = Tail(pending)
  /\ RunUnchanged
  /\ UNCHANGED <<run, steering, followUp, events, lost>>

(* Mutant: the write is taken off the list before it is appended.          *)
FlushFails_Drops ==
  /\ Flushing
  /\ FailWrite(Op)
  /\ pending' = Tail(pending)
  /\ IF pc = "closing" THEN mode' = "bad" /\ pc' = "closed" /\ UNCHANGED <<inbox, context, stopping, lost>>
                       ELSE Raise
  /\ RunUnchanged
  /\ UNCHANGED <<steering, followUp>>

(* The write stays the first of the list.                                  *)
FlushFails ==
  /\ Flushing
  /\ FailWrite(Op)
  /\ IF pc = "closing" THEN mode' = "bad" /\ pc' = "closed" /\ UNCHANGED <<inbox, context, stopping, lost>>
                       ELSE Raise
  /\ RunUnchanged
  /\ UNCHANGED <<steering, followUp, pending>>

(* Mutant: the next turn goes on with the context of the last one.         *)
Saved_KeepsContext ==
  /\ pc = "saving" /\ pending = <<>> /\ ~Writes(Op)
  /\ pc' = IF stopping THEN "ending" ELSE "saved"
  /\ UNCHANGED <<context, mode, inbox, stopping, steering, followUp, pending, store, events,
                 lost>>
  /\ RunUnchanged

(* After the save point prepareNextTurn reads the session anew.            *)
Saved ==
  /\ pc = "saving" /\ pending = <<>> /\ ~Writes(Op)
  /\ IF stopping
       THEN pc' = "ending" /\ UNCHANGED context
       ELSE pc' = "saved" /\ context' = PathTo[leaf]
  /\ UNCHANGED <<mode, inbox, stopping, steering, followUp, pending, store, events, lost>>
  /\ RunUnchanged

(* Mutant: the phase is given up before the flush.                         *)
Ended_BeforeFlush ==
  /\ pc = "ending" /\ ~Writes(Op)
  /\ pc' = "settling"
  /\ phase' = "idle"
  /\ UNCHANGED <<mode, inbox, context, stopping, signal, queues, pending, store, sent, events,
                 fates>>

(* agent_end: flushed, idle, and only then told to the listeners.          *)
Ended ==
  /\ pc = "ending" /\ pending = <<>> /\ ~Writes(Op)
  /\ pc' = "settling"
  /\ phase' = "idle"
  /\ UNCHANGED <<mode, inbox, context, stopping, signal, queues, pending, store, sent, events,
                 fates>>

Settled ==
  /\ pc = "settling"
  /\ pc' = "closing"
  /\ UNCHANGED <<mode, inbox, context, stopping, steering, followUp, pending, store, events,
                 lost>>
  /\ RunUnchanged

(* Mutant: the catch of prompt() leaves the phase as it is.                *)
Closed_StaysBusy ==
  /\ pc = "closed" \/ (pc = "closing" /\ pending = <<>> /\ ~Writes(Op))
  /\ pc' = "none"
  /\ phase' = phase
  /\ control' = FALSE
  /\ held' = held \cup ToSet(pending)
  /\ UNCHANGED <<mode, inbox, context, stopping, aborted, aborting, queues, pending, store,
                 sent, events, writes, returned, lost>>

(* The finally and catch of prompt().                                      *)
Closed ==
  /\ pc = "closed" \/ (pc = "closing" /\ pending = <<>> /\ ~Writes(Op))
  /\ pc' = "none"
  /\ phase' = IF mode = "bad" THEN "idle" ELSE phase
  /\ control' = FALSE
  /\ held' = held \cup ToSet(pending)
  /\ UNCHANGED <<mode, inbox, context, stopping, aborted, aborting, queues, pending, store,
                 sent, events, writes, returned, lost>>

-----------------------------------------------------------------------------
(* compact() and navigateTree()                                            *)

TreeUnchanged ==
  UNCHANGED <<mode, inbox, context, stopping, signal, queues, pending, sent, writes,
              returned, lost>>

TreeStarts ==
  /\ Quiet /\ phase = "idle"
  /\ Event
  /\ phase' = "tree"
  /\ pc' \in {"summarizing", "moving"}
  /\ UNCHANGED <<store, held>>
  /\ TreeUnchanged

(* setLeafId appends a leaf entry; a summary may follow it.                *)
MoveTo ==
  /\ pc = "moving"
  /\ \E target \in 0..Len(log) : StartWrite(Op, 0, target)
  /\ UNCHANGED <<phase, pc, events, held>>
  /\ TreeUnchanged

Moved ==
  /\ pc = "moving"
  /\ EndWrite(Op)
  /\ pc' = "summarizing"
  /\ UNCHANGED <<phase, events, held>>
  /\ TreeUnchanged

(* The compaction or branch summary has come and is appended.              *)
Summarized ==
  /\ pc = "summarizing"
  /\ StartWrite(Op, 0, Stay)
  /\ UNCHANGED <<phase, pc, events, held>>
  /\ TreeUnchanged

(* The end: the summary is written, or there is none, or an error.         *)
TreeEnds ==
  /\ pc \in {"summarizing", "moving"}
  /\ \/ EndWrite(Op) /\ pc = "summarizing" /\ UNCHANGED events
     \/ FailWrite(Op)
     \/ ~Writes(Op) /\ UNCHANGED <<store, events>>
  /\ phase' = "idle"
  /\ pc' = "none"
  /\ held' = held \cup ToSet(pending)
  /\ TreeUnchanged

-----------------------------------------------------------------------------
Clients == Prompt \/ Steer \/ NextTurn \/ AppendMessage \/ Abort \/ TreeStarts

Operation ==
  \/ TurnStateCreated \/ Announced \/ HookReturns
  \/ Record \/ Recorded \/ Poll \/ Answer \/ Answered
  \/ Flush \/ Flushed \/ FlushFails \/ Saved \/ Ended \/ Settled \/ Closed
  \/ MoveTo \/ Moved \/ Summarized \/ TreeEnds

Next == Clients \/ AppendEnds \/ AbortReturns \/ RunRaises \/ Operation

Spec == Init /\ [][Next]_vars

(* What an operation awaits comes: the provider answers, hooks, listeners  *)
(* and the file system return or reject.                                   *)
FairSpec == Spec /\ WF_vars(Operation) /\ WF_vars(AppendEnds) /\ WF_vars(AbortReturns)

-----------------------------------------------------------------------------
Items == 1..sent

(* Every variable has the shape the code gives it.                         *)
TypeOK ==
  /\ phase \in {"idle", "turn", "tree"}
  /\ pc \in {"none", "starting", "announcing", "hooking", "prompting", "polling",
             "recording", "streaming", "failing", "saving", "saved", "ending",
             "settling", "closing", "closed", "summarizing", "moving"}
  /\ mode \in {"ok", "failing", "late", "bad"}
  /\ {aborted, control, stopping} \subseteq BOOLEAN
  /\ aborting \in {"no", "waiting"}
  /\ \A q \in {inbox, steering, followUp, nextTurn, pending} : q \in Seq(Items)
  /\ context \in Seq(1..Len(log))
  /\ leaf \in 0..Len(log)
  /\ \A k \in 1..Len(log) : log[k].parent < k /\ log[k].item \in 0..sent
  /\ sent \in 0..MaxItems /\ events \in 0..MaxEvents
  /\ met \subseteq Writers /\ crossed \subseteq 1..Len(log)
  /\ UNION {writes, returned, lost, held} \subseteq Items

Occurrences(i, s) == Cardinality({k \in DOMAIN s : s[k] = i})

(* Whatever rejects, fails or is aborted in between, what was handed to    *)
(* the harness is in exactly one place: a queue, the run, the pending      *)
(* writes, the session once, or it was handed back with an error, or taken *)
(* by a run that failed.                                                   *)
ItemsOnce ==
  \A i \in Items :
    Occurrences(i, inbox \o steering \o followUp \o nextTurn \o pending)
    + Cardinality({k \in 1..Len(log) : log[k].item = i})
    + Cardinality({w \in Callers : writing[w].item = i})
    + Cardinality({x \in {returned, lost} : i \in x}) = 1

(* Session writes reach the session in the order they were asked for; what *)
(* can be overtaken is a write left pending by an operation that ended, or *)
(* an idle write by another that was under way with it.                    *)
WritesInOrder ==
  \A a, b \in 1..Len(log) :
    a < b /\ log[a].item \in writes /\ log[b].item \in writes /\ log[b].item < log[a].item
      => log[b].item \in held \/ {a, b} \subseteq crossed

(* The session grows as one chain, although parent and leaf are read and   *)
(* set in different steps: each entry's parent is the leaf its predecessor *)
(* left, and the chain can fork only where idle writes were under way      *)
(* together, or one with the report of a late failure.                     *)
OneChain ==
  \A k \in (1..Len(log)) \ crossed : log[k].parent = LeafAfter(k - 1)

(* Each request shows the model what the session has recorded, in that     *)
(* order: what was flushed at the save points, and nothing still pending.  *)
RequestShowsSession ==
  pc = "streaming" => context = PathTo[leaf]

(* No rejection, failure or abort leaves the harness busy, or the caller   *)
(* of abort() waiting.                                                     *)
OperationsSettle ==
  phase # "idle" \/ aborting = "waiting" ~> phase = "idle" /\ aborting = "no"
=============================================================================
