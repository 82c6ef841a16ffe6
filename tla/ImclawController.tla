-------------------------- MODULE ImclawController --------------------------
(***************************************************************************)
(* The chat controller of packages/imclaw: ImclawController.handle, its    *)
(* per-chat work queues, the asynchronous runQueue loops that drain them,  *)
(* /abort with its epoch counter, and the shutdown and crash of the        *)
(* process that holds it (index.ts, ecosystem.config.cjs).                 *)
(*                                                                         *)
(* One action is one run of JavaScript between two awaits.  A message that *)
(* is being handled is a coroutine (hpc); a runQueue call is a coroutine   *)
(* named after the message whose enqueue started it (runner), so that      *)
(* nothing in the model itself keeps two of them from serving one chat.    *)
(* The Feishu API and the agent backend are external: every call to them   *)
(* may return, or fail, at any later time.                                 *)
(***************************************************************************)
EXTENDS Naturals, Sequences, FiniteSets

CONSTANTS
  Chats,       \* chat identifiers
  NoChat,      \* chat of a message that has not arrived
  MaxMsgs,     \* bound: messages delivered to handle()
  MaxChunks,   \* bound: 3500-character pieces of one reply
  MaxCrashes   \* bound: process deaths followed by a PM2 restart

ASSUME ControllerAssumption ==
  /\ NoChat \notin Chats
  /\ MaxMsgs \in Nat
  /\ MaxChunks \in Nat \ {0}
  /\ MaxCrashes \in Nat

Msgs  == 1..MaxMsgs          \* numbered in the order of arrival
NoMsg == 0
Kinds == {"prompt", "new", "abort", "notice"}

VARIABLES
  received,  \* number of messages delivered so far
  chat,      \* chat of each message
  kind,      \* "notice": refused, invalid, /help or /status - one fixed answer
  hpc,       \* where each handle() coroutine is suspended
  queue,     \* per chat: the ChatQueue, or EmptyQueue before the Map has one
  runner,    \* per message: the runQueue coroutine its enqueue started
  phase,     \* life of the process: up, closing, disposing, down
  crashes,   \* number of restarts so far
  outcome,   \* history: how each work item ended
  cut        \* history: items an /abort found queued or in progress

vars == <<received, chat, kind, hpc, queue, runner, phase, crashes, outcome, cut>>

EmptyQueue == [exists |-> FALSE, items |-> <<>>, running |-> FALSE, epoch |-> 0]
NoRunner   == [pc |-> "none", item |-> NoMsg, epoch |-> 0, left |-> 0]

HandlerPCs == {"absent", "ack", "reply", "abortBackend", "abortReply",
               "done", "dropped", "lost"}
RunnerPCs  == {"none", "newSession", "prompt", "reply", "errorReply"}
Outcomes   == {"none", "answered", "failed", "silenced", "cleared", "lost"}

Items(c)  == {queue[c].items[i] : i \in DOMAIN queue[c].items}
Live(r)   == runner[r].pc # "none"
InChat(c) == {r \in Msgs : Live(r) /\ chat[r] = c}

Init ==
  /\ received = 0
  /\ chat = [m \in Msgs |-> NoChat]
  /\ kind = [m \in Msgs |-> "notice"]
  /\ hpc = [m \in Msgs |-> "absent"]
  /\ queue = [c \in Chats |-> EmptyQueue]
  /\ runner = [m \in Msgs |-> NoRunner]
  /\ phase = "up"
  /\ crashes = 0
  /\ outcome = [m \in Msgs |-> "none"]
  /\ cut = {}

-----------------------------------------------------------------------------
(* runQueue and enqueue: the synchronous stretches of the code.            *)

(* Runner r of chat c leaves its while loop.                               *)
Stop(r, c, q) ==
  /\ queue'  = [queue EXCEPT ![c] = [q EXCEPT !.running = FALSE]]
  /\ runner' = [runner EXCEPT ![r] = NoRunner]

(* Runner r of chat c calls the backend for item m, leaving rest queued.   *)
Take(r, c, q, m, rest) ==
  /\ queue'  = [queue EXCEPT ![c] = [q EXCEPT !.items = rest]]
  /\ runner' = [runner EXCEPT ![r] =
                  [pc    |-> IF kind'[m] = "new" THEN "newSession" ELSE "prompt",
                   item  |-> m,
                   epoch |-> q.epoch,
                   left  |-> 0]]

(* Mutants of LoopTop: the running flag is not reset; the item is looked at *)
(* but not shifted; the newest item is popped instead of the oldest.       *)
LoopTop_KeepsFlag(r, c, q) ==
  IF q.items = <<>>
  THEN queue' = [queue EXCEPT ![c] = q] /\ runner' = [runner EXCEPT ![r] = NoRunner]
  ELSE Take(r, c, q, Head(q.items), Tail(q.items))
LoopTop_Peeks(r, c, q) ==
  IF q.items = <<>> THEN Stop(r, c, q) ELSE Take(r, c, q, Head(q.items), q.items)
LoopTop_Pops(r, c, q) ==
  IF q.items = <<>> THEN Stop(r, c, q)
  ELSE Take(r, c, q, q.items[Len(q.items)], SubSeq(q.items, 1, Len(q.items) - 1))

(* The head of the while loop of runQueue, reached by runner r of chat c   *)
(* when the chat's queue is q.                                             *)
LoopTop(r, c, q) ==
  IF q.items = <<>> THEN Stop(r, c, q) ELSE Take(r, c, q, Head(q.items), Tail(q.items))

(* Mutant: every enqueue starts a runQueue.                                *)
Enqueue_AlwaysStarts(m, c) ==
  LoopTop(m, c, [queue[c] EXCEPT !.items = Append(@, m), !.exists = TRUE, !.running = TRUE])

(* enqueue: push, and start runQueue unless one is running. runQueue runs  *)
(* up to its first await inside the call.                                  *)
Enqueue(m, c) ==
  LET q == [queue[c] EXCEPT !.items = Append(@, m), !.exists = TRUE] IN
  IF q.running
  THEN queue' = [queue EXCEPT ![c] = q] /\ UNCHANGED runner
  ELSE LoopTop(m, c, [q EXCEPT !.running = TRUE])

(* Mutant: the epoch comparison is dropped.                                *)
SameEpoch_Ignored(r) == TRUE
SameEpoch(r) == runner[r].epoch = queue[chat[r]].epoch

-----------------------------------------------------------------------------
(* handle(): the first stretch, up to the first await.                     *)

Arrive(c, k) ==
  /\ phase = "up"
  /\ received < MaxMsgs
  /\ received' = received + 1
  /\ chat' = [chat EXCEPT ![received + 1] = c]
  /\ kind' = [kind EXCEPT ![received + 1] = k]

(* Anything answered by one fixed sendText and nothing else.               *)
ReceiveNotice(c) ==
  /\ Arrive(c, "notice")
  /\ hpc' = [hpc EXCEPT ![received + 1] = "reply"]
  /\ UNCHANGED <<queue, runner, phase, crashes, outcome, cut>>

(* A prompt is acknowledged before it is enqueued.                         *)
ReceivePrompt(c) ==
  /\ Arrive(c, "prompt")
  /\ hpc' = [hpc EXCEPT ![received + 1] = "ack"]
  /\ UNCHANGED <<queue, runner, phase, crashes, outcome, cut>>

(* /new is enqueued at once.                                               *)
ReceiveNew(c) ==
  /\ Arrive(c, "new")
  /\ hpc' = [hpc EXCEPT ![received + 1] = "done"]
  /\ Enqueue(received + 1, c)
  /\ UNCHANGED <<phase, crashes, outcome, cut>>

(* Mutant: only the epoch changes.                                         *)
AbortQueue_KeepsItems(c) == [queue EXCEPT ![c].epoch = @ + 1]

(* /abort empties the chat's queue and advances its epoch before it awaits *)
(* the backend.  A chat nothing was ever enqueued for has no ChatQueue.    *)
AbortQueue(c) ==
  IF queue[c].exists
  THEN [queue EXCEPT ![c].items = <<>>, ![c].epoch = @ + 1]
  ELSE queue

ReceiveAbort(c) ==
  /\ Arrive(c, "abort")
  /\ hpc' = [hpc EXCEPT ![received + 1] = "abortBackend"]
  /\ queue' = AbortQueue(c)
  /\ outcome' = [m \in Msgs |-> IF m \in Items(c) THEN "cleared" ELSE outcome[m]]
  /\ cut' = cut \cup Items(c) \cup {runner[r].item : r \in InChat(c)}
  /\ UNCHANGED <<runner, phase, crashes>>

(* handle(): what follows each await.                                      *)

AckSent(m) ==
  /\ hpc[m] = "ack"
  /\ hpc' = [hpc EXCEPT ![m] = "done"]
  /\ UNCHANGED <<received, chat, kind, phase, crashes, outcome, cut>>
  /\ Enqueue(m, chat[m])

(* sendText rejects: handle rejects, index.ts logs it, nothing is enqueued. *)
AckFails(m) ==
  /\ hpc[m] = "ack"
  /\ hpc' = [hpc EXCEPT ![m] = "dropped"]
  /\ UNCHANGED <<received, chat, kind, queue, runner, phase, crashes, outcome, cut>>

AbortBackendReturns(m) ==
  /\ hpc[m] = "abortBackend"
  /\ hpc' = [hpc EXCEPT ![m] = "abortReply"]
  /\ UNCHANGED <<received, chat, kind, queue, runner, phase, crashes, outcome, cut>>

(* The fixed answer, or the confirmation of an /abort, is out or has failed. *)
HandlerAnswers(m) ==
  /\ hpc[m] \in {"reply", "abortReply"}
  /\ \E end \in {"done", "dropped"} : hpc' = [hpc EXCEPT ![m] = end]
  /\ UNCHANGED <<received, chat, kind, queue, runner, phase, crashes, outcome, cut>>

-----------------------------------------------------------------------------
(* runQueue: what follows each await.                                      *)

(* The iteration of runner r ends with result o; the loop goes on.         *)
NextIteration(r, o) ==
  /\ outcome' = [outcome EXCEPT ![runner[r].item] = o]
  /\ UNCHANGED <<received, chat, kind, hpc, phase, crashes, cut>>
  /\ LoopTop(r, chat[r], queue[chat[r]])

Suspend(r, pc, left) ==
  /\ runner' = [runner EXCEPT ![r].pc = pc, ![r].left = left]
  /\ UNCHANGED <<received, chat, kind, hpc, queue, phase, crashes, outcome, cut>>

(* The backend call succeeded: answer in one piece (/new) or in several,   *)
(* unless an /abort came in between.                                       *)
BackendReturns(r) ==
  /\ runner[r].pc \in {"newSession", "prompt"}
  /\ IF SameEpoch(r)
     THEN \E n \in IF runner[r].pc = "newSession" THEN {1} ELSE 1..MaxChunks : Suspend(r, "reply", n)
     ELSE NextIteration(r, "silenced")

(* One await of the try block rejected: a backend call, or sendText.       *)
CallFails(r) ==
  /\ runner[r].pc \in {"newSession", "prompt", "reply"}
  /\ IF SameEpoch(r)
     THEN Suspend(r, "errorReply", 0)
     ELSE NextIteration(r, "silenced")

MorePieces(r) == runner[r].left > 1

(* sendChunked does not look at the epoch again between two pieces.        *)
ChunkSent(r) ==
  /\ runner[r].pc = "reply"
  /\ IF MorePieces(r)
     THEN Suspend(r, "reply", runner[r].left - 1)
     ELSE NextIteration(r, "answered")

(* The catch block's own sendText: a task-limit notice or an error number. *)
ErrorReplySent(r) ==
  /\ runner[r].pc = "errorReply"
  /\ NextIteration(r, "failed")

-----------------------------------------------------------------------------
(* The process.                                                            *)

Unsettled(m) == outcome[m] = "none" /\ hpc[m] = "done" /\ kind[m] \in {"prompt", "new"}
Finished(m)  == hpc[m] \in {"absent", "done", "dropped", "lost"}
Exited       == phase = "down" /\ \A m \in Msgs : Finished(m) /\ ~Live(m)

(* The process dies and PM2 starts a new one: all of this state is in      *)
(* memory only.                                                            *)
Restart ==
  /\ crashes < MaxCrashes
  /\ crashes' = crashes + 1
  /\ phase' = "up"
  /\ queue' = [c \in Chats |-> EmptyQueue]
  /\ runner' = [m \in Msgs |-> NoRunner]
  /\ hpc' = [m \in Msgs |-> IF Finished(m) THEN hpc[m] ELSE "lost"]
  /\ outcome' = [m \in Msgs |-> IF Unsettled(m) THEN "lost" ELSE outcome[m]]
  /\ UNCHANGED <<received, chat, kind, cut>>

(* A failing sendText in the catch block rejects runQueue itself; nobody   *)
(* awaits that promise, so the rejection is unhandled and ends the process. *)
ErrorReplyFails(r) ==
  /\ runner[r].pc = "errorReply"
  /\ Restart

(* Killed from outside: out of memory, max_memory_restart, power.          *)
Crash ==
  /\ ~Exited
  /\ Restart

(* shutdown(): the signal handler closes the WebSocket, ...                *)
CloseAdapter ==
  /\ phase = "up"
  /\ phase' = "closing"
  /\ UNCHANGED <<received, chat, kind, hpc, queue, runner, crashes, outcome, cut>>

(* ... then dispose() empties every queue (no epoch changes) ...           *)
DisposeController ==
  /\ phase = "closing"
  /\ phase' = "disposing"
  /\ queue' = [c \in Chats |-> [queue[c] EXCEPT !.items = <<>>]]
  /\ outcome' = [m \in Msgs |-> IF \E c \in Chats : m \in Items(c)
                                THEN "cleared" ELSE outcome[m]]
  /\ UNCHANGED <<received, chat, kind, hpc, runner, crashes, cut>>

(* ... and awaits backend.dispose().  The process exits when nothing is    *)
(* left to run: handlers and runners that are suspended still resume.      *)
BackendDisposed ==
  /\ phase = "disposing"
  /\ phase' = "down"
  /\ UNCHANGED <<received, chat, kind, hpc, queue, runner, crashes, outcome, cut>>

Terminated == Exited /\ UNCHANGED vars

Receive == \E c \in Chats :
  ReceiveNotice(c) \/ ReceivePrompt(c) \/ ReceiveNew(c) \/ ReceiveAbort(c)

HandlerStep(m) ==
  AckSent(m) \/ AckFails(m) \/ AbortBackendReturns(m) \/ HandlerAnswers(m)

RunnerStep(r) ==
  BackendReturns(r) \/ CallFails(r) \/ ChunkSent(r) \/ ErrorReplySent(r)

Next ==
  \/ Receive
  \/ \E m \in Msgs : HandlerStep(m) \/ RunnerStep(m) \/ ErrorReplyFails(m)
  \/ Crash
  \/ CloseAdapter
  \/ DisposeController
  \/ BackendDisposed
  \/ Terminated

Spec == Init /\ [][Next]_vars

(* The Feishu SDK answers or times out every request, and the backend ends *)
(* every task (ten-minute guard): a suspended coroutine resumes.           *)
Fairness ==
  /\ \A m \in Msgs : WF_vars(HandlerStep(m)) /\ WF_vars(RunnerStep(m))
  /\ WF_vars(DisposeController)
  /\ WF_vars(BackendDisposed)

FairSpec == Spec /\ Fairness

-----------------------------------------------------------------------------
(* Properties.                                                             *)

QueueType  == [exists : BOOLEAN, items : Seq(Msgs), running : BOOLEAN, epoch : Nat]
RunnerType == [pc : RunnerPCs, item : Msgs \cup {NoMsg}, epoch : Nat, left : 0..MaxChunks]

(* Every variable has its type, and messages that have not arrived are     *)
(* untouched (the fields of ImclawController and ChatQueue).               *)
TypeOK ==
  /\ received \in 0..MaxMsgs
  /\ chat \in [Msgs -> Chats \cup {NoChat}]
  /\ kind \in [Msgs -> Kinds]
  /\ hpc \in [Msgs -> HandlerPCs]
  /\ queue \in [Chats -> QueueType]
  /\ runner \in [Msgs -> RunnerType]
  /\ phase \in {"up", "closing", "disposing", "down"}
  /\ crashes \in 0..MaxCrashes
  /\ outcome \in [Msgs -> Outcomes]
  /\ cut \in SUBSET Msgs

(* The running flag of a chat is up exactly while one runQueue loop serves *)
(* that chat, and there are never two such loops (controller.ts:83, 87,    *)
(* 111): the flag is all that keeps a chat's tasks from overlapping.       *)
OneRunnerPerChat ==
  \A c \in Chats :
    /\ queue[c].running <=> InChat(c) # {}
    /\ \A r1, r2 \in InChat(c) : r1 = r2

(* No lost wake-up: whenever code is not running, a chat with queued items *)
(* has a runQueue loop that will take them.                                *)
NoStrandedItems ==
  \A c \in Chats : queue[c].items # <<>> => InChat(c) # {}

(* Every work item the controller accepted is in exactly one place - its   *)
(* chat's queue, one runner, or the set of those that ended - and occurs   *)
(* there once: none is lost, run twice or answered twice, whatever         *)
(* /abort, dispose() and restarts do in between.                           *)
ItemsConserved ==
  \A m \in Msgs :
    LET queued  == {p \in Chats \X (1..MaxMsgs) :
                      p[2] \in DOMAIN queue[p[1]].items /\ queue[p[1]].items[p[2]] = m}
        running == {r \in Msgs : Live(r) /\ runner[r].item = m}
        ended   == IF outcome[m] = "none" THEN {} ELSE {outcome[m]}
    IN  Cardinality(queued) + Cardinality(running) + Cardinality(ended)
          = IF hpc[m] = "done" /\ kind[m] \in {"prompt", "new"} THEN 1 ELSE 0

StartsAnswer(r) ==
  Live(r) /\ runner'[r].pc \in {"reply", "errorReply"} /\ runner'[r].pc # runner[r].pc

(* Once /abort has been handled, the item that was in progress never       *)
(* begins an answer, neither a reply nor an error message, however late    *)
(* its backend call returns or fails (controller.ts:95, 98, 101).          *)
AbortSilencesRunningItem ==
  [][\A r \in Msgs : StartsAnswer(r) => runner[r].item \notin cut]_vars

Starts(r) == runner'[r].pc \in {"newSession", "prompt"} /\ runner'[r].item # runner[r].item

(* An item that was waiting when its chat was aborted, or when dispose()   *)
(* emptied the queues, is never handed to the backend afterwards.          *)
ClearedItemNeverStarts ==
  [][\A r \in Msgs : Starts(r) => outcome[runner'[r].item] = "none" /\ runner'[r].item \notin cut]_vars

(* A prompt is acknowledged to the user before any of its output can be    *)
(* sent, and a prompt whose acknowledgement failed never runs.             *)
AckBeforeWork ==
  \A r \in Msgs : Live(r) => hpc[runner[r].item] = "done" /\ hpc[r] = "done"

(* Every accepted item comes to an end, and every message its handler      *)
(* (given that Feishu and the backend answer).                             *)
EveryItemEnds ==
  \A m \in Msgs : (hpc[m] # "absent") ~> (Finished(m) /\ ~Unsettled(m))

(* After a shutdown signal the process drains to its exit, and no accepted *)
(* item - one enqueued after dispose() included - is left behind in a      *)
(* queue, unless the process is killed and restarted first.                *)
ShutdownCompletes ==
  (phase = "closing") ~> (phase = "up" \/ (Exited /\ \A c \in Chats : queue[c].items = <<>>))

(* The parts of the inductive invariant.  Messages arrive in order, and     *)
(* only an accepted one can have been cut or have ended.                   *)
HandlerInv ==
  \A m \in Msgs :
    /\ hpc[m] = "absent" <=> m > received
    /\ hpc[m] # "absent" => chat[m] \in Chats
    /\ (m \in cut \/ outcome[m] # "none") => hpc[m] = "done"

(* A loop serves the chat of its message under a raised flag, alone, and an *)
(* item that was cut while running carries an outdated epoch.              *)
RunnerInv ==
  \A r \in Msgs : Live(r) =>
    /\ hpc[r] = "done"
    /\ runner[r].item \in Msgs
    /\ hpc[runner[r].item] = "done"
    /\ chat[runner[r].item] = chat[r]
    /\ outcome[runner[r].item] = "none"
    /\ queue[chat[r]].running
    /\ queue[chat[r]].exists
    /\ runner[r].epoch <= queue[chat[r]].epoch
    /\ runner[r].item \in cut => runner[r].epoch # queue[chat[r]].epoch
    /\ \A s \in Msgs : Live(s) /\ chat[s] = chat[r] => s = r

(* A queued item belongs to its chat, has neither run nor been cut, and is *)
(* queued once.                                                            *)
QueueInv ==
  \A c \in Chats : \A i \in 1..Len(queue[c].items) :
    /\ hpc[queue[c].items[i]] = "done"
    /\ chat[queue[c].items[i]] = c
    /\ queue[c].items[i] \notin cut
    /\ outcome[queue[c].items[i]] = "none"
    /\ \A j \in 1..Len(queue[c].items) : queue[c].items[j] = queue[c].items[i] => j = i
    /\ \A r \in Msgs : Live(r) => runner[r].item # queue[c].items[i]

FlagInv ==
  \A c \in Chats :
    /\ queue[c].running => \E r \in Msgs : Live(r) /\ chat[r] = c
    /\ queue[c].items # <<>> => queue[c].running

(* The inductive invariant behind the properties of enqueue, runQueue and  *)
(* /abort (controller.ts:58-111).                                          *)
IInv == TypeOK /\ HandlerInv /\ RunnerInv /\ QueueInv /\ FlagInv
=============================================================================
