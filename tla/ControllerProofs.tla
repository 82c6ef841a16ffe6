-------------------------- MODULE ControllerProofs --------------------------
(* Proofs about ImclawController, for any number of chats and messages.    *)
EXTENDS ControllerRefinement, FiniteSetTheorems, SequenceTheorems, TLAPS

(* What the head of the runQueue loop does to the types.                   *)
LEMMA LoopTopType ==
  ASSUME TypeOK, kind' \in [Msgs -> Kinds],
         NEW r \in Msgs, NEW c \in Chats, NEW q \in QueueType,
         LoopTop(r, c, q)
  PROVE  /\ queue' \in [Chats -> QueueType]
         /\ runner' \in [Msgs -> RunnerType]
<1>1. q.items \in Seq(Msgs) /\ q.epoch \in Nat /\ q.running \in BOOLEAN /\ q.exists \in BOOLEAN
  BY DEF QueueType
<1>0. 0 \in 0..MaxChunks
  BY ControllerAssumption
<1>2. CASE q.items = <<>>
  <2>1. [q EXCEPT !.running = FALSE] \in QueueType
    BY DEF QueueType
  <2>2. NoRunner \in RunnerType
    BY <1>0 DEF NoRunner, RunnerType, RunnerPCs, NoMsg
  <2> QED BY <1>2, <2>1, <2>2 DEF LoopTop, Stop, TypeOK
<1>3. CASE q.items # <<>>
  <2>1. Head(q.items) \in Msgs /\ Tail(q.items) \in Seq(Msgs)
    BY <1>1, <1>3, HeadTailProperties
  <2>2. [q EXCEPT !.items = Tail(q.items)] \in QueueType
    BY <2>1 DEF QueueType
  <2>3. [pc    |-> IF kind'[Head(q.items)] = "new" THEN "newSession" ELSE "prompt",
         item  |-> Head(q.items), epoch |-> q.epoch, left  |-> 0] \in RunnerType
    BY <1>0, <1>1, <2>1 DEF RunnerType, RunnerPCs
  <2> QED BY <1>3, <2>2, <2>3 DEF LoopTop, Take, TypeOK
<1> QED BY <1>2, <1>3

(* enqueue keeps the types.                                                *)
LEMMA EnqueueType ==
  ASSUME TypeOK, kind' \in [Msgs -> Kinds],
         NEW m \in Msgs, NEW c \in Chats, Enqueue(m, c)
  PROVE  /\ queue' \in [Chats -> QueueType]
         /\ runner' \in [Msgs -> RunnerType]
<1> DEFINE q == [queue[c] EXCEPT !.items = Append(@, m), !.exists = TRUE]
<1>1. q \in QueueType
  <2>1. queue[c] \in QueueType
    BY DEF TypeOK
  <2>2. Append(queue[c].items, m) \in Seq(Msgs)
    BY <2>1, AppendProperties DEF QueueType
  <2> QED BY <2>1, <2>2 DEF QueueType
<1>2. [q EXCEPT !.running = TRUE] \in QueueType
  BY <1>1 DEF QueueType
<1>3. CASE q.running
  <2>1. queue' = [queue EXCEPT ![c] = q] /\ runner' = runner
    BY <1>3 DEF Enqueue
  <2> QED BY <1>1, <2>1 DEF TypeOK
<1>4. CASE ~q.running
  <2>1. LoopTop(m, c, [q EXCEPT !.running = TRUE])
    BY <1>4 DEF Enqueue
  <2> HIDE DEF q
  <2> QED BY <1>2, <2>1, LoopTopType
<1> QED BY <1>3, <1>4

(* So does a restart.                                                      *)
LEMMA RestartType ==
  ASSUME TypeOK, Restart PROVE TypeOK'
<1>1. EmptyQueue \in QueueType
  BY EmptySeq DEF EmptyQueue, QueueType
<1>2. NoRunner \in RunnerType
  BY ControllerAssumption DEF NoRunner, RunnerType, RunnerPCs, NoMsg
<1> QED BY <1>1, <1>2, ControllerAssumption DEF TypeOK, Restart, HandlerPCs, Outcomes

(* The set of queued items, by position.                                   *)
LEMMA ItemsOf ==
  ASSUME TypeOK, NEW c \in Chats
  PROVE  /\ queue[c].items \in Seq(Msgs)
         /\ Items(c) = {queue[c].items[i] : i \in 1..Len(queue[c].items)}
         /\ Items(c) \subseteq Msgs
<1>1. queue[c].items \in Seq(Msgs)
  BY DEF TypeOK, QueueType
<1>2. DOMAIN queue[c].items = 1..Len(queue[c].items)
  BY <1>1, LenProperties
<1>3. \A i \in 1..Len(queue[c].items) : queue[c].items[i] \in Msgs
  BY <1>1, ElementOfSeq
<1> QED BY <1>1, <1>2, <1>3 DEF Items

(* Every step keeps the types.                                             *)
LEMMA TypeStep ==
  ASSUME IInv, Next PROVE TypeOK'
<1> USE DEF IInv
<1>a. ASSUME NEW c \in Chats, NEW k \in Kinds, Arrive(c, k)
      PROVE  /\ received' \in 0..MaxMsgs
             /\ chat' \in [Msgs -> Chats \cup {NoChat}]
             /\ kind' \in [Msgs -> Kinds]
             /\ received + 1 \in Msgs
  BY <1>a, ControllerAssumption DEF Arrive, TypeOK, Msgs
<1>r. ASSUME NEW r \in Msgs, Live(r) PROVE chat[r] \in Chats
  BY <1>r DEF RunnerInv, HandlerInv
<1>s. ASSUME NEW r \in Msgs, NEW pc \in RunnerPCs, NEW n \in 0..MaxChunks, Suspend(r, pc, n)
      PROVE  TypeOK'
  <2>1. [runner[r] EXCEPT !.pc = pc, !.left = n] \in RunnerType
    BY DEF TypeOK, RunnerType
  <2>2. runner' = [runner EXCEPT ![r] = [runner[r] EXCEPT !.pc = pc, !.left = n]]
    BY <1>s DEF Suspend, TypeOK
  <2> QED BY <1>s, <2>1, <2>2 DEF Suspend, TypeOK
<1>n. ASSUME NEW r \in Msgs, NEW o \in Outcomes, Live(r), NextIteration(r, o)
      PROVE  TypeOK'
  <2>1. kind' \in [Msgs -> Kinds]
    BY <1>n DEF NextIteration, TypeOK
  <2>2. queue[chat[r]] \in QueueType
    BY <1>n, <1>r DEF TypeOK
  <2>3. queue' \in [Chats -> QueueType] /\ runner' \in [Msgs -> RunnerType]
    BY <1>n, <1>r, <2>1, <2>2, LoopTopType DEF NextIteration
  <2>4. outcome' \in [Msgs -> Outcomes]
    BY <1>n DEF NextIteration, TypeOK
  <2> QED BY <1>n, <2>1, <2>3, <2>4 DEF NextIteration, TypeOK
<1>1. ASSUME NEW c \in Chats, ReceiveNotice(c) PROVE TypeOK'
  BY <1>1, <1>a DEF ReceiveNotice, TypeOK, HandlerPCs, Kinds
<1>2. ASSUME NEW c \in Chats, ReceivePrompt(c) PROVE TypeOK'
  BY <1>2, <1>a DEF ReceivePrompt, TypeOK, HandlerPCs, Kinds
<1>3. ASSUME NEW c \in Chats, ReceiveNew(c) PROVE TypeOK'
  BY <1>3, <1>a, EnqueueType DEF ReceiveNew, TypeOK, HandlerPCs, Kinds
<1>4. ASSUME NEW c \in Chats, ReceiveAbort(c) PROVE TypeOK'
  <2>1. AbortQueue(c) \in [Chats -> QueueType]
    <3>1. queue[c] \in QueueType
      BY DEF TypeOK
    <3>2. [queue[c] EXCEPT !.items = <<>>, !.epoch = @ + 1] \in QueueType
      <4>1. <<>> \in Seq(Msgs)
        BY EmptySeq
      <4>2. queue[c].epoch + 1 \in Nat
        BY <3>1 DEF QueueType
      <4> QED BY <3>1, <4>1, <4>2 DEF QueueType
    <3>3. [queue EXCEPT ![c].items = <<>>, ![c].epoch = @ + 1]
            = [queue EXCEPT ![c] = [queue[c] EXCEPT !.items = <<>>, !.epoch = @ + 1]]
      BY DEF TypeOK
    <3> QED BY <3>2, <3>3 DEF AbortQueue, TypeOK
  <2>2. Items(c) \subseteq Msgs
    BY ItemsOf
  <2>3. {runner[r].item : r \in InChat(c)} \subseteq Msgs
    BY DEF InChat, RunnerInv
  <2> QED BY <1>4, <1>a, <2>1, <2>2, <2>3 DEF ReceiveAbort, TypeOK, HandlerPCs, Kinds, Outcomes
<1>5. ASSUME NEW m \in Msgs, HandlerStep(m) PROVE TypeOK'
  <2>1. CASE AckSent(m)
    <3>1. chat[m] \in Chats
      BY <2>1 DEF AckSent, HandlerInv
    <3> QED BY <2>1, <3>1, EnqueueType DEF AckSent, TypeOK, HandlerPCs
  <2>2. CASE AckFails(m)
    BY <2>2 DEF AckFails, TypeOK, HandlerPCs
  <2>3. CASE AbortBackendReturns(m)
    BY <2>3 DEF AbortBackendReturns, TypeOK, HandlerPCs
  <2>4. CASE HandlerAnswers(m)
    BY <2>4 DEF HandlerAnswers, TypeOK, HandlerPCs
  <2> QED BY <1>5, <2>1, <2>2, <2>3, <2>4 DEF HandlerStep
<1>6. ASSUME NEW r \in Msgs, RunnerStep(r) PROVE TypeOK'
  <2> USE DEF RunnerPCs, Outcomes
  <2>0. runner[r].left \in 0..MaxChunks /\ Nat \ {0} # {} /\ 0 \in 0..MaxChunks /\ 1..MaxChunks \subseteq 0..MaxChunks /\ 1 \in 1..MaxChunks
    BY ControllerAssumption DEF TypeOK, RunnerType
  <2>1. CASE BackendReturns(r)
    BY <2>0, <2>1, <1>s, <1>n DEF BackendReturns, Live
  <2>2. CASE CallFails(r)
    BY <2>0, <2>2, <1>s, <1>n DEF CallFails, Live
  <2>3. CASE ChunkSent(r)
    <3>1. MorePieces(r) => runner[r].left - 1 \in 0..MaxChunks
      BY <2>0, ControllerAssumption DEF MorePieces
    <3> QED BY <2>3, <3>1, <1>s, <1>n DEF ChunkSent, Live
  <2>4. CASE ErrorReplySent(r)
    BY <2>4, <1>n DEF ErrorReplySent, Live
  <2> QED BY <1>6, <2>1, <2>2, <2>3, <2>4 DEF RunnerStep
<1>7. CASE \E m \in Msgs : ErrorReplyFails(m)
  BY <1>7, RestartType DEF ErrorReplyFails
<1>8. CASE Crash
  BY <1>8, RestartType DEF Crash
<1>9. CASE CloseAdapter
  BY <1>9 DEF CloseAdapter, TypeOK
<1>10. CASE DisposeController
  <2>1. \A c \in Chats : [queue[c] EXCEPT !.items = <<>>] \in QueueType
    BY EmptySeq DEF TypeOK, QueueType
  <2> QED BY <1>10, <2>1 DEF DisposeController, TypeOK, Outcomes
<1>11. CASE BackendDisposed
  BY <1>11 DEF BackendDisposed, TypeOK
<1>12. CASE Terminated
  BY <1>12 DEF Terminated, vars, TypeOK
<1> QED BY <1>1, <1>2, <1>3, <1>4, <1>5, <1>6, <1>7, <1>8, <1>9, <1>10, <1>11, <1>12
        DEF Next, Receive

-----------------------------------------------------------------------------
(* The messages numbered so far are exactly those that have arrived, and   *)
(* nothing unaccepted is ever cut or ended.                                *)
LEMMA HandlerStepInv ==
  ASSUME IInv, Next PROVE HandlerInv'
<1> USE DEF IInv
<1>a. ASSUME NEW c \in Chats, NEW k \in Kinds, Arrive(c, k)
      PROVE  /\ received + 1 \in Msgs /\ received' = received + 1
             /\ hpc[received + 1] = "absent"
             /\ chat' = [chat EXCEPT ![received + 1] = c]
  BY <1>a, ControllerAssumption DEF Arrive, TypeOK, Msgs, HandlerInv
<1>0. received \in Nat /\ Msgs \subseteq Nat
  BY ControllerAssumption DEF TypeOK, Msgs
<1>n. ASSUME NEW r \in Msgs, NEW o \in Outcomes, Live(r), NextIteration(r, o)
      PROVE  HandlerInv'
  BY <1>n DEF NextIteration, HandlerInv, RunnerInv, TypeOK
<1>s. ASSUME NEW r \in Msgs, NEW pc, NEW n, Suspend(r, pc, n)
      PROVE  HandlerInv'
  BY <1>s DEF Suspend, HandlerInv
<1>t. ASSUME Restart PROVE HandlerInv'
  BY <1>t, <1>0 DEF Restart, HandlerInv, Finished, Unsettled, TypeOK
<1>1. ASSUME NEW c \in Chats, ReceiveNotice(c) PROVE HandlerInv'
  BY <1>1, <1>a, <1>0 DEF ReceiveNotice, HandlerInv, TypeOK, Kinds
<1>2. ASSUME NEW c \in Chats, ReceivePrompt(c) PROVE HandlerInv'
  BY <1>2, <1>a, <1>0 DEF ReceivePrompt, HandlerInv, TypeOK, Kinds
<1>3. ASSUME NEW c \in Chats, ReceiveNew(c) PROVE HandlerInv'
  BY <1>3, <1>a, <1>0 DEF ReceiveNew, HandlerInv, TypeOK, Kinds
<1>4. ASSUME NEW c \in Chats, ReceiveAbort(c) PROVE HandlerInv'
  <2>1. \A m \in Items(c) : hpc[m] = "done"
    BY ItemsOf DEF QueueInv
  <2>2. \A m \in Msgs : m \in {runner[r].item : r \in InChat(c)} => hpc[m] = "done"
    BY DEF InChat, RunnerInv
  <2>3. \A m \in Msgs : (m \in cut' \/ outcome'[m] # "none") => hpc[m] = "done"
    BY <1>4, <2>1, <2>2 DEF ReceiveAbort, HandlerInv
  <2>4. /\ received' = received + 1
        /\ hpc' = [hpc EXCEPT ![received + 1] = "abortBackend"]
        /\ chat' = [chat EXCEPT ![received + 1] = c]
        /\ hpc[received + 1] = "absent"
    BY <1>4, <1>a DEF ReceiveAbort, Kinds
  <2> QED BY <1>0, <2>3, <2>4 DEF HandlerInv, TypeOK
<1>5. ASSUME NEW m \in Msgs, HandlerStep(m) PROVE HandlerInv'
  BY <1>5 DEF HandlerStep, AckSent, AckFails, AbortBackendReturns, HandlerAnswers, HandlerInv, TypeOK
<1>6. ASSUME NEW r \in Msgs, RunnerStep(r) PROVE HandlerInv'
  <2>1. CASE BackendReturns(r)
    BY <2>1, <1>n, <1>s DEF BackendReturns, Live, Outcomes
  <2>2. CASE CallFails(r)
    BY <2>2, <1>n, <1>s DEF CallFails, Live, Outcomes
  <2>3. CASE ChunkSent(r)
    BY <2>3, <1>n, <1>s DEF ChunkSent, Live, Outcomes
  <2>4. CASE ErrorReplySent(r)
    BY <2>4, <1>n DEF ErrorReplySent, Live, Outcomes
  <2> QED BY <1>6, <2>1, <2>2, <2>3, <2>4 DEF RunnerStep
<1>7. CASE \E m \in Msgs : ErrorReplyFails(m)
  BY <1>7, <1>t DEF ErrorReplyFails
<1>8. CASE Crash
  BY <1>8, <1>t DEF Crash
<1>9. CASE CloseAdapter \/ BackendDisposed \/ Terminated
  BY <1>9 DEF CloseAdapter, BackendDisposed, Terminated, vars, HandlerInv
<1>10. CASE DisposeController
  <2>1. \A c \in Chats : \A m \in Items(c) : hpc[m] = "done"
    BY ItemsOf DEF QueueInv
  <2> QED BY <1>10, <2>1 DEF DisposeController, HandlerInv, TypeOK
<1> QED BY <1>1, <1>2, <1>3, <1>4, <1>5, <1>6, <1>7, <1>8, <1>9, <1>10
        DEF Next, Receive

(* A step that touches neither queues nor runners preserves their          *)
(* invariants as long as accepted messages stay accepted.                  *)
LEMMA FrameInv ==
  ASSUME IInv, queue' = queue, runner' = runner, outcome' = outcome, cut' = cut,
         \A m \in Msgs : hpc[m] = "done" => hpc'[m] = "done" /\ chat'[m] = chat[m]
  PROVE  RunnerInv' /\ QueueInv' /\ FlagInv'
<1> USE DEF IInv
<1>1. \A r \in Msgs : Live(r)' <=> Live(r)
  BY DEF Live
<1>2. RunnerInv'
  BY <1>1 DEF RunnerInv
<1>3. \A c \in Chats : \A i \in 1..Len(queue[c].items) : queue[c].items[i] \in Msgs
  BY ElementOfSeq DEF TypeOK, QueueType
<1>4. QueueInv'
  BY <1>1, <1>3 DEF QueueInv
<1>5. FlagInv'
  BY <1>1 DEF FlagInv, RunnerInv
<1> QED BY <1>2, <1>4, <1>5

(* enqueue of a message that was not accepted before: it is appended       *)
(* behind a running loop, or its own loop starts with it.                  *)
LEMMA EnqueueInv ==
  ASSUME IInv, NEW m \in Msgs, NEW c \in Chats, hpc[m] # "done",
         kind' \in [Msgs -> Kinds],
         hpc' = [hpc EXCEPT ![m] = "done"],
         chat' = [chat EXCEPT ![m] = c],
         outcome' = outcome, cut' = cut,
         Enqueue(m, c)
  PROVE  RunnerInv' /\ QueueInv' /\ FlagInv'
<1> USE DEF IInv
<1>1. queue[c] \in QueueType /\ queue[c].items \in Seq(Msgs) /\ queue[c].epoch \in Nat
  BY DEF TypeOK, QueueType
<1>2. /\ ~Live(m) /\ m \notin cut /\ outcome[m] = "none"
      /\ \A s \in Msgs : Live(s) => runner[s].item # m
  BY DEF RunnerInv, HandlerInv
<1>3. \A d \in Chats : \A i \in 1..Len(queue[d].items) :
        queue[d].items[i] \in Msgs /\ queue[d].items[i] # m
  BY ItemsOf DEF QueueInv
<1>4. \A s \in Msgs : s # m => hpc'[s] = hpc[s] /\ chat'[s] = chat[s]
  BY DEF TypeOK
<1>5. hpc'[m] = "done" /\ chat'[m] = c
  BY DEF TypeOK
<1>6. CASE queue[c].running
  <2>1. /\ queue' = [queue EXCEPT ![c] = [queue[c] EXCEPT !.items = Append(@, m), !.exists = TRUE]]
        /\ runner' = runner
    BY <1>6 DEF Enqueue
  <2>2. /\ queue'[c].items = Append(queue[c].items, m)
        /\ queue'[c].running /\ queue'[c].exists /\ queue'[c].epoch = queue[c].epoch
        /\ \A d \in Chats : d # c => queue'[d] = queue[d]
    BY <1>1, <1>6, <2>1 DEF TypeOK, QueueType
  <2>3. /\ Len(queue'[c].items) = Len(queue[c].items) + 1
        /\ \A i \in 1..Len(queue[c].items) : queue'[c].items[i] = queue[c].items[i]
        /\ queue'[c].items[Len(queue[c].items) + 1] = m
        /\ Len(queue[c].items) \in Nat
    BY <1>1, <2>2, AppendProperties, LenProperties
  <2>4. \A s \in Msgs : Live(s)' <=> Live(s)
    BY <2>1 DEF Live
  <2>5. RunnerInv'
    BY <1>2, <1>4, <1>5, <2>1, <2>2, <2>4 DEF RunnerInv, HandlerInv
  <2>6. QueueInv'
    <3> SUFFICES ASSUME NEW d \in Chats, NEW i \in 1..Len(queue'[d].items)
                 PROVE  /\ hpc'[queue'[d].items[i]] = "done"
                        /\ chat'[queue'[d].items[i]] = d
                        /\ queue'[d].items[i] \notin cut
                        /\ outcome[queue'[d].items[i]] = "none"
                        /\ \A j \in 1..Len(queue'[d].items) :
                             queue'[d].items[j] = queue'[d].items[i] => j = i
                        /\ \A r \in Msgs : Live(r) => runner[r].item # queue'[d].items[i]
      BY <2>1, <2>4 DEF QueueInv
    <3>1. CASE d # c
      <4>1. queue'[d] = queue[d]
        BY <2>2, <3>1
      <4>2. queue[d].items[i] \in Msgs /\ queue[d].items[i] # m
        BY <1>3, <4>1
      <4> QED BY <1>4, <4>1, <4>2 DEF QueueInv
    <3>2. CASE d = c /\ i = Len(queue[c].items) + 1
      <4>1. queue'[d].items[i] = m
        BY <2>3, <3>2
      <4>2. \A j \in 1..Len(queue'[d].items) : j = i \/ j \in 1..Len(queue[c].items)
        BY <2>3, <3>2
      <4>3. \A j \in 1..Len(queue'[d].items) : queue'[d].items[j] = m => j = i
        BY <1>3, <2>3, <3>2, <4>2
      <4> QED BY <1>2, <1>5, <3>2, <4>1, <4>3
    <3>3. CASE d = c /\ i \in 1..Len(queue[c].items)
      <4>1. queue'[d].items[i] = queue[c].items[i] /\ queue[c].items[i] \in Msgs /\ queue[c].items[i] # m
        BY <1>3, <2>3, <3>3
      <4>2. \A j \in 1..Len(queue'[d].items) : queue'[d].items[j] = queue'[d].items[i] => j = i
        BY <2>3, <3>3, <4>1, SMTT(20) DEF QueueInv
      <4> QED BY <1>4, <3>3, <4>1, <4>2 DEF QueueInv
    <3> QED BY <2>3, <3>1, <3>2, <3>3
  <2>7. FlagInv'
    <3> SUFFICES ASSUME NEW d \in Chats
                 PROVE  /\ queue'[d].running => \E r \in Msgs : Live(r) /\ chat'[r] = d
                        /\ queue'[d].items # <<>> => queue'[d].running
      BY <2>4 DEF FlagInv
    <3>1. queue'[d].running <=> queue[d].running
      BY <1>6, <2>2
    <3>2. queue[d].running => \E r \in Msgs : Live(r) /\ chat'[r] = d
      BY <1>2, <1>4 DEF FlagInv
    <3> QED BY <1>6, <2>2, <3>1, <3>2 DEF FlagInv
  <2> QED BY <2>5, <2>6, <2>7
<1>7. CASE ~queue[c].running
  <2>1. queue[c].items = <<>>
    BY <1>7 DEF FlagInv
  <2>2. /\ Head(Append(queue[c].items, m)) = m
        /\ Tail(Append(queue[c].items, m)) = <<>>
        /\ Append(queue[c].items, m) # <<>>
    BY <1>1, <2>1, HeadTailAppend, AppendProperties
  <2> DEFINE p == [queue[c] EXCEPT !.items = Append(@, m), !.exists = TRUE]
             q == [p EXCEPT !.running = TRUE]
  <2>3. /\ q.items = Append(queue[c].items, m) /\ q.exists /\ q.running
        /\ q.epoch = queue[c].epoch
        /\ p.running = queue[c].running
    <3>1. /\ p.items = Append(queue[c].items, m) /\ p.exists /\ p.epoch = queue[c].epoch
          /\ p.running = queue[c].running
      BY <1>1 DEF QueueType
    <3>2. p \in QueueType
      BY <1>1, <3>1, AppendProperties DEF QueueType
    <3> QED BY <3>1, <3>2 DEF QueueType
  <2>x. q \in QueueType
    BY <1>1, AppendProperties DEF QueueType
  <2>y. Take(m, c, q, m, <<>>)
    <3>1. LoopTop(m, c, q)
      BY <1>7, <2>3 DEF Enqueue
    <3> HIDE DEF p, q
    <3> QED BY <2>2, <2>3, <3>1 DEF LoopTop
  <2>4. /\ queue'[c].items = <<>> /\ queue'[c].running /\ queue'[c].exists
        /\ queue'[c].epoch = queue[c].epoch
        /\ \A d \in Chats : d # c => queue'[d] = queue[d]
    <3> HIDE DEF p, q
    <3>1. queue' = [queue EXCEPT ![c] = [q EXCEPT !.items = <<>>]]
      BY <2>y DEF Take
    <3>2. queue'[c] = [q EXCEPT !.items = <<>>] /\ \A d \in Chats : d # c => queue'[d] = queue[d]
      BY <3>1 DEF TypeOK
    <3> QED BY <2>3, <2>x, <3>2 DEF QueueType
  <2>5. /\ runner'[m].pc # "none" /\ runner'[m].item = m /\ runner'[m].epoch = queue[c].epoch
        /\ \A s \in Msgs : s # m => runner'[s] = runner[s]
    <3> HIDE DEF p, q
    <3> QED BY <2>3, <2>y DEF Take, TypeOK
  <2>6. Live(m)' /\ \A s \in Msgs : s # m => (Live(s)' <=> Live(s))
    BY <2>5 DEF Live
  <2>7. \A s \in Msgs : Live(s) => chat[s] # c
    BY <1>7 DEF RunnerInv
  <2>8. RunnerInv'
    <3> SUFFICES ASSUME NEW r \in Msgs, Live(r)'
                 PROVE  /\ hpc'[r] = "done"
                        /\ runner'[r].item \in Msgs
                        /\ hpc'[runner'[r].item] = "done"
                        /\ chat'[runner'[r].item] = chat'[r]
                        /\ outcome[runner'[r].item] = "none"
                        /\ queue'[chat'[r]].running
                        /\ queue'[chat'[r]].exists
                        /\ runner'[r].epoch <= queue'[chat'[r]].epoch
                        /\ runner'[r].item \in cut => runner'[r].epoch # queue'[chat'[r]].epoch
                        /\ \A s \in Msgs : Live(s)' /\ chat'[s] = chat'[r] => s = r
      BY DEF RunnerInv
    <3>1. CASE r = m
      BY <1>1, <1>2, <1>4, <1>5, <2>4, <2>5, <2>6, <2>7, <3>1
    <3>2. CASE r # m
      <4>1. Live(r) /\ chat[r] \in Chats /\ chat[r] # c
        BY <2>6, <2>7, <3>2 DEF RunnerInv, HandlerInv
      <4> QED BY <1>2, <1>4, <1>5, <2>4, <2>5, <2>6, <3>2, <4>1 DEF RunnerInv
    <3> QED BY <3>1, <3>2
  <2>9. QueueInv'
    <3> SUFFICES ASSUME NEW d \in Chats, NEW i \in 1..Len(queue'[d].items)
                 PROVE  /\ hpc'[queue'[d].items[i]] = "done"
                        /\ chat'[queue'[d].items[i]] = d
                        /\ queue'[d].items[i] \notin cut
                        /\ outcome[queue'[d].items[i]] = "none"
                        /\ \A j \in 1..Len(queue'[d].items) :
                             queue'[d].items[j] = queue'[d].items[i] => j = i
                        /\ \A r \in Msgs : Live(r)' => runner'[r].item # queue'[d].items[i]
      BY DEF QueueInv
    <3>1. d # c
      BY <2>4, EmptySeq
    <3> QED BY <1>3, <1>4, <2>4, <2>5, <2>6, <3>1 DEF QueueInv
  <2>10. FlagInv'
    <3> SUFFICES ASSUME NEW d \in Chats
                 PROVE  /\ queue'[d].running => \E r \in Msgs : Live(r)' /\ chat'[r] = d
                        /\ queue'[d].items # <<>> => queue'[d].running
      BY DEF FlagInv
    <3>1. CASE d = c
      BY <1>5, <2>4, <2>6, <3>1
    <3>2. CASE d # c
      BY <1>2, <1>4, <2>4, <2>6, <3>2 DEF FlagInv
    <3> QED BY <3>1, <3>2
  <2> QED BY <2>8, <2>9, <2>10
<1> QED BY <1>6, <1>7

(* A runner that stays on its item, at another await.                      *)
LEMMA SuspendInv ==
  ASSUME IInv, NEW r \in Msgs, Live(r), NEW pc \in RunnerPCs \ {"none"}, NEW n, Suspend(r, pc, n)
  PROVE  RunnerInv' /\ QueueInv' /\ FlagInv'
<1> USE DEF IInv
<1>1. /\ \A s \in Msgs : runner'[s].item = runner[s].item /\ runner'[s].epoch = runner[s].epoch
      /\ \A s \in Msgs : s # r => runner'[s] = runner[s]
      /\ runner'[r].pc = pc
  BY DEF Suspend, TypeOK, RunnerType
<1>2. \A s \in Msgs : Live(s)' <=> Live(s)
  BY <1>1 DEF Live
<1>0. /\ chat' = chat /\ hpc' = hpc /\ queue' = queue /\ outcome' = outcome /\ cut' = cut
  BY DEF Suspend
<1>4. RunnerInv'
  BY <1>0, <1>1, <1>2 DEF RunnerInv
<1>5. QueueInv'
  BY <1>0, <1>1, <1>2 DEF QueueInv
<1>6. FlagInv'
  BY <1>2 DEF FlagInv, Suspend
<1> QED BY <1>4, <1>5, <1>6

(* A runner whose item has ended: it takes the head of the queue or stops. *)
LEMMA NextIterationInv ==
  ASSUME IInv, NEW r \in Msgs, Live(r), NEW o \in Outcomes, NextIteration(r, o)
  PROVE  RunnerInv' /\ QueueInv' /\ FlagInv'
<1> USE DEF IInv
<1> DEFINE c == chat[r]
           q == queue[c]
<1>1. c \in Chats /\ q \in QueueType /\ q.items \in Seq(Msgs) /\ q.running /\ q.exists
  BY DEF RunnerInv, HandlerInv, TypeOK, QueueType
<1>2. /\ hpc' = hpc /\ chat' = chat /\ cut' = cut
      /\ outcome' = [outcome EXCEPT ![runner[r].item] = o]
      /\ LoopTop(r, c, q)
  BY DEF NextIteration
<1>3. \A s \in Msgs : Live(s) /\ chat[s] = c => s = r
  BY DEF RunnerInv
<1>4. \A s \in Msgs : Live(s) /\ s # r =>
        /\ chat[s] \in Chats \ {c}
        /\ runner[s].item # runner[r].item
        /\ outcome'[runner[s].item] = "none"
  BY <1>2, <1>3 DEF RunnerInv, HandlerInv, TypeOK
<1>5. \A d \in Chats : \A i \in 1..Len(queue[d].items) :
        /\ queue[d].items[i] \in Msgs
        /\ outcome'[queue[d].items[i]] = "none"
  BY <1>2, ItemsOf DEF QueueInv, TypeOK
<1>6. CASE q.items = <<>>
  <2>1. /\ queue'[c].items = <<>>
        /\ ~queue'[c].running
        /\ \A d \in Chats : d # c => queue'[d] = queue[d]
        /\ ~Live(r)'
        /\ \A s \in Msgs : s # r => runner'[s] = runner[s]
    <3>1. Stop(r, c, q)
      BY <1>2, <1>6 DEF LoopTop
    <3> QED BY <1>1, <1>6, <3>1 DEF Stop, TypeOK, NoRunner, Live, QueueType
  <2>2. \A s \in Msgs : Live(s)' <=> (Live(s) /\ s # r)
    BY <2>1 DEF Live
  <2>3. RunnerInv'
    BY <1>2, <1>4, <2>1, <2>2 DEF RunnerInv
  <2>4. QueueInv'
    BY <1>2, <1>5, <2>1, <2>2, EmptySeq DEF QueueInv
  <2>5. FlagInv'
    BY <1>2, <1>3, <2>1, <2>2 DEF FlagInv
  <2> QED BY <2>3, <2>4, <2>5
<1>7. CASE q.items # <<>>
  <2> DEFINE m == Head(q.items)
  <2>0. /\ Tail(q.items) \in Seq(Msgs)
        /\ Len(q.items) \in Nat \ {0} /\ Len(Tail(q.items)) = Len(q.items) - 1
        /\ \A i \in 1..Len(Tail(q.items)) : Tail(q.items)[i] = q.items[i + 1] /\ i + 1 \in 1..Len(q.items)
        /\ m = q.items[1]
    BY <1>1, <1>7, HeadTailProperties, LenProperties, EmptySeq
  <2>1. /\ queue'[c].items = Tail(q.items)
        /\ queue'[c].running /\ queue'[c].exists /\ queue'[c].epoch = q.epoch
        /\ \A d \in Chats : d # c => queue'[d] = queue[d]
        /\ runner'[r].pc # "none" /\ runner'[r].item = m /\ runner'[r].epoch = q.epoch
        /\ \A s \in Msgs : s # r => runner'[s] = runner[s]
    <3>1. Take(r, c, q, m, Tail(q.items))
      BY <1>2, <1>7 DEF LoopTop
    <3>2. queue'[c] = [q EXCEPT !.items = Tail(q.items)] /\ \A d \in Chats : d # c => queue'[d] = queue[d]
      BY <1>1, <3>1 DEF Take, TypeOK
    <3>3. /\ queue'[c].items = Tail(q.items)
          /\ queue'[c].running /\ queue'[c].exists /\ queue'[c].epoch = q.epoch
      BY <1>1, <3>2 DEF QueueType
    <3>4. /\ runner'[r].pc # "none" /\ runner'[r].item = m /\ runner'[r].epoch = q.epoch
          /\ \A s \in Msgs : s # r => runner'[s] = runner[s]
      BY <3>1 DEF Take, TypeOK
    <3> QED BY <3>2, <3>3, <3>4
  <2>2. \A s \in Msgs : Live(s)' <=> Live(s)
    BY <2>1 DEF Live
  <2>3. /\ m \in Msgs /\ hpc[m] = "done" /\ chat[m] = c /\ m \notin cut /\ outcome'[m] = "none"
        /\ \A s \in Msgs : Live(s) => runner[s].item # m
        /\ \A i \in 2..Len(q.items) : q.items[i] # m
        /\ \A d \in Chats : d # c => \A i \in 1..Len(queue[d].items) : queue[d].items[i] # m
    BY <1>1, <1>5, <2>0 DEF QueueInv
  <2>4. q.epoch \in Nat
    BY <1>1 DEF QueueType
  <2>5. RunnerInv'
    <3> SUFFICES ASSUME NEW s \in Msgs, Live(s)
                 PROVE  /\ hpc[s] = "done"
                        /\ runner'[s].item \in Msgs
                        /\ hpc[runner'[s].item] = "done"
                        /\ chat[runner'[s].item] = chat[s]
                        /\ outcome'[runner'[s].item] = "none"
                        /\ queue'[chat[s]].running
                        /\ queue'[chat[s]].exists
                        /\ runner'[s].epoch <= queue'[chat[s]].epoch
                        /\ runner'[s].item \in cut => runner'[s].epoch # queue'[chat[s]].epoch
                        /\ \A t \in Msgs : Live(t) /\ chat[t] = chat[s] => t = s
      BY <1>2, <2>2 DEF RunnerInv
    <3>1. CASE s = r
      BY <1>3, <2>1, <2>3, <2>4, <3>1 DEF RunnerInv
    <3>2. CASE s # r
      BY <1>4, <2>1, <3>2 DEF RunnerInv
    <3> QED BY <3>1, <3>2
  <2>6. QueueInv'
    <3> SUFFICES ASSUME NEW d \in Chats, NEW i \in 1..Len(queue'[d].items)
                 PROVE  /\ hpc[queue'[d].items[i]] = "done"
                        /\ chat[queue'[d].items[i]] = d
                        /\ queue'[d].items[i] \notin cut
                        /\ outcome'[queue'[d].items[i]] = "none"
                        /\ \A j \in 1..Len(queue'[d].items) :
                             queue'[d].items[j] = queue'[d].items[i] => j = i
                        /\ \A s \in Msgs : Live(s) => runner'[s].item # queue'[d].items[i]
      BY <1>2, <2>2 DEF QueueInv
    <3>1. CASE d # c
      <4>1. queue'[d] = queue[d]
        BY <2>1, <3>1
      <4> QED BY <1>5, <2>1, <2>3, <3>1, <4>1 DEF QueueInv
    <3>2. CASE d = c
      <4>0. queue'[d].items = Tail(q.items) /\ i \in 1..Len(Tail(q.items))
        BY <2>1, <3>2
      <4>1. queue'[d].items[i] = q.items[i + 1] /\ i + 1 \in 2..Len(q.items) /\ i + 1 \in 1..Len(q.items)
        BY <2>0, <4>0
      <4>2. ASSUME NEW j \in 1..Len(queue'[d].items), queue'[d].items[j] = queue'[d].items[i]
            PROVE  j = i
        <5>1. q.items[j + 1] = q.items[i + 1] /\ j + 1 \in 1..Len(q.items)
          BY <2>0, <4>0, <4>1, <4>2
        <5>2. j + 1 = i + 1
          BY <1>1, <4>1, <5>1 DEF QueueInv
        <5> QED BY <5>2, <2>0, <4>0
      <4>3. \A s \in Msgs : Live(s) => runner'[s].item # queue'[d].items[i]
        BY <1>1, <2>0, <2>1, <2>3, <3>2, <4>1 DEF QueueInv
      <4> QED BY <1>1, <1>5, <2>0, <3>2, <4>1, <4>2, <4>3 DEF QueueInv
    <3> QED BY <3>1, <3>2
  <2>7. FlagInv'
    BY <1>2, <2>1, <2>2 DEF FlagInv
  <2> QED BY <2>5, <2>6, <2>7
<1> QED BY <1>6, <1>7

(* /abort: the queue is emptied, and whatever runs in the chat keeps an    *)
(* epoch below the new one.                                                *)
LEMMA AbortInv ==
  ASSUME IInv, NEW c \in Chats, ReceiveAbort(c)
  PROVE  RunnerInv' /\ QueueInv' /\ FlagInv'
<1> USE DEF IInv
<1>0. /\ runner' = runner /\ queue' = AbortQueue(c)
      /\ outcome' = [m \in Msgs |-> IF m \in Items(c) THEN "cleared" ELSE outcome[m]]
      /\ cut' = cut \cup Items(c) \cup {runner[r].item : r \in InChat(c)}
  BY DEF ReceiveAbort
<1>r. runner' = runner
  BY DEF ReceiveAbort
<1>1. \A m \in Msgs : hpc[m] = "done" => hpc'[m] = "done" /\ chat'[m] = chat[m]
  <2>1. received \in Nat
    BY ControllerAssumption DEF TypeOK
  <2>2. hpc[received + 1] # "done" \/ received + 1 \notin Msgs
    BY <2>1 DEF HandlerInv
  <2> QED BY <2>2 DEF ReceiveAbort, Arrive, TypeOK
<1>2. \A s \in Msgs : Live(s)' <=> Live(s)
  BY <1>0 DEF Live
<1>3. queue[c].exists \/ (queue[c].items = <<>> /\ ~queue[c].running)
  BY DEF FlagInv, RunnerInv
<1>4. /\ \A d \in Chats : d # c => queue'[d] = queue[d]
      /\ queue'[c].items = <<>>
      /\ queue'[c].running = queue[c].running
      /\ queue'[c].exists = queue[c].exists
      /\ queue[c].exists => queue'[c].epoch = queue[c].epoch + 1
  <2>1. CASE queue[c].exists
    <3>1. queue' = [queue EXCEPT ![c] = [queue[c] EXCEPT !.items = <<>>, !.epoch = @ + 1]]
      BY <1>0, <2>1 DEF AbortQueue, TypeOK
    <3>2. queue'[c] = [queue[c] EXCEPT !.items = <<>>, !.epoch = @ + 1]
          /\ \A d \in Chats : d # c => queue'[d] = queue[d]
      BY <3>1 DEF TypeOK
    <3>3. queue[c] \in QueueType
      BY DEF TypeOK
    <3> QED BY <3>2, <3>3 DEF QueueType
  <2>2. CASE ~queue[c].exists
    BY <1>0, <1>3, <2>2 DEF AbortQueue
  <2> QED BY <2>1, <2>2
<1>5. \A d \in Chats : \A i \in 1..Len(queue[d].items) :
        queue[d].items[i] \in Msgs /\ queue[d].items[i] \in Items(d)
  BY ItemsOf
<1>6. \A d \in Chats : \A x \in Items(d) :
        chat[x] = d /\ \A r \in Msgs : Live(r) => runner[r].item # x
  BY ItemsOf DEF QueueInv
<1>7. \A r \in Msgs : Live(r) =>
        /\ outcome'[runner[r].item] = "none"
        /\ chat[r] # c => (runner[r].item \in cut' => runner[r].item \in cut)
  BY <1>0, <1>6 DEF RunnerInv, InChat
<1>8. \A r \in Msgs : runner[r].epoch \in Nat
  BY DEF TypeOK, RunnerType
<1>9. RunnerInv'
  <2> SUFFICES ASSUME NEW r \in Msgs, Live(r)
               PROVE  /\ hpc'[r] = "done"
                      /\ runner[r].item \in Msgs
                      /\ hpc'[runner[r].item] = "done"
                      /\ chat'[runner[r].item] = chat'[r]
                      /\ outcome'[runner[r].item] = "none"
                      /\ queue'[chat'[r]].running
                      /\ queue'[chat'[r]].exists
                      /\ runner[r].epoch <= queue'[chat'[r]].epoch
                      /\ runner[r].item \in cut' => runner[r].epoch # queue'[chat'[r]].epoch
                      /\ \A s \in Msgs : Live(s) /\ chat'[s] = chat'[r] => s = r
    BY <1>r, <1>2 DEF RunnerInv
  <2>1. /\ hpc'[r] = "done" /\ chat'[r] = chat[r] /\ chat[r] \in Chats
        /\ runner[r].item \in Msgs /\ hpc'[runner[r].item] = "done"
        /\ chat'[runner[r].item] = chat[r]
        /\ \A s \in Msgs : Live(s) /\ chat'[s] = chat[r] => s = r
    BY <1>1 DEF RunnerInv, HandlerInv
  <2>2. CASE chat[r] = c
    <3>1. queue[c].epoch \in Nat
      BY DEF TypeOK, QueueType
    <3> QED BY <1>4, <1>7, <1>8, <2>1, <2>2, <3>1 DEF RunnerInv
  <2>3. CASE chat[r] # c
    BY <1>4, <1>7, <2>1, <2>3 DEF RunnerInv
  <2> QED BY <2>2, <2>3
<1>10. QueueInv'
  <2> SUFFICES ASSUME NEW d \in Chats, NEW i \in 1..Len(queue'[d].items)
               PROVE  /\ hpc'[queue'[d].items[i]] = "done"
                      /\ chat'[queue'[d].items[i]] = d
                      /\ queue'[d].items[i] \notin cut'
                      /\ outcome'[queue'[d].items[i]] = "none"
                      /\ \A j \in 1..Len(queue'[d].items) :
                           queue'[d].items[j] = queue'[d].items[i] => j = i
                      /\ \A r \in Msgs : Live(r) => runner[r].item # queue'[d].items[i]
    BY <1>r, <1>2 DEF QueueInv
  <2>1. d # c
    BY <1>4, EmptySeq
  <2>2. queue'[d] = queue[d]
    BY <1>4, <2>1
  <2>3. queue[d].items[i] \in Msgs /\ queue[d].items[i] \in Items(d)
    BY <1>5, <2>2
  <2>4. queue[d].items[i] \notin Items(c) /\ queue[d].items[i] \notin {runner[r].item : r \in InChat(c)}
    BY <1>6, <2>1, <2>3 DEF InChat
  <2> QED BY <1>0, <1>1, <2>2, <2>3, <2>4 DEF QueueInv
<1>11. FlagInv'
  <2> SUFFICES ASSUME NEW d \in Chats
               PROVE  /\ queue'[d].running => \E r \in Msgs : Live(r) /\ chat'[r] = d
                      /\ queue'[d].items # <<>> => queue'[d].running
    BY <1>2 DEF FlagInv
  <2>1. \A r \in Msgs : Live(r) => chat'[r] = chat[r]
    BY <1>1 DEF RunnerInv
  <2>2. queue'[d].running = queue[d].running
    BY <1>4
  <2> QED BY <1>4, <2>1, <2>2 DEF FlagInv
<1> QED BY <1>9, <1>10, <1>11

(* dispose() empties the queues and leaves the loops and epochs.           *)
LEMMA DisposeInv ==
  ASSUME IInv, DisposeController
  PROVE  RunnerInv' /\ QueueInv' /\ FlagInv'
<1> USE DEF IInv
<1>0. /\ runner' = runner /\ chat' = chat /\ hpc' = hpc /\ cut' = cut
  BY DEF DisposeController
<1>1. \A c \in Chats : /\ queue'[c].items = <<>>
                      /\ queue'[c].running = queue[c].running
                      /\ queue'[c].exists = queue[c].exists
                      /\ queue'[c].epoch = queue[c].epoch
  BY DEF DisposeController, TypeOK, QueueType
<1>2. \A r \in Msgs : Live(r)' <=> Live(r)
  BY <1>0 DEF Live
<1>3. \A d \in Chats : \A x \in Items(d) : \A r \in Msgs : Live(r) => runner[r].item # x
  BY ItemsOf DEF QueueInv
<1>4. \A r \in Msgs : Live(r) => outcome'[runner[r].item] = "none" /\ chat[r] \in Chats
  BY <1>3 DEF DisposeController, RunnerInv, HandlerInv
<1>5. RunnerInv'
  BY <1>0, <1>1, <1>2, <1>4 DEF RunnerInv
<1>6. QueueInv'
  <2> HIDE DEF IInv
  <2>0. Len(<<>>) = 0
    BY EmptySeq
  <2>1. ASSUME NEW c \in Chats, NEW i \in 1..Len(queue'[c].items) PROVE FALSE
    BY <1>1, <2>0
  <2> QED BY <2>1 DEF QueueInv
<1>7. FlagInv'
  BY <1>0, <1>1, <1>2 DEF FlagInv
<1> QED BY <1>5, <1>6, <1>7

(* After a restart there are no loops and no items.                        *)
LEMMA RestartInv ==
  ASSUME IInv, Restart
  PROVE  RunnerInv' /\ QueueInv' /\ FlagInv'
<1>1. \A r \in Msgs : ~Live(r)'
  BY DEF Restart, Live, NoRunner
<1>2. \A c \in Chats : queue'[c].items = <<>> /\ ~queue'[c].running
  BY DEF Restart, EmptyQueue
<1> QED BY <1>1, <1>2, EmptySeq DEF RunnerInv, QueueInv, FlagInv

-----------------------------------------------------------------------------
(* The invariant holds initially.                                          *)
LEMMA InitIInv == Init => IInv
<1> SUFFICES ASSUME Init PROVE IInv
  OBVIOUS
<1>1. EmptyQueue \in QueueType /\ EmptyQueue.items = <<>> /\ ~EmptyQueue.running
  BY EmptySeq DEF EmptyQueue, QueueType
<1>2. NoRunner \in RunnerType /\ NoRunner.pc = "none"
  BY ControllerAssumption DEF NoRunner, RunnerType, RunnerPCs, NoMsg
<1>3. TypeOK
  BY <1>1, <1>2, ControllerAssumption DEF Init, TypeOK, Kinds, HandlerPCs, Outcomes
<1>4. \A r \in Msgs : ~Live(r)
  BY <1>2 DEF Init, Live
<1>5. RunnerInv /\ QueueInv /\ FlagInv
  BY <1>1, <1>4, EmptySeq DEF Init, RunnerInv, QueueInv, FlagInv
<1>6. HandlerInv
  BY ControllerAssumption DEF Init, HandlerInv, Msgs
<1> QED BY <1>3, <1>5, <1>6 DEF IInv

(* Every step preserves the invariant.                                     *)
LEMMA NextIInv == IInv /\ [Next]_vars => IInv'
<1> SUFFICES ASSUME IInv, [Next]_vars PROVE IInv'
  OBVIOUS
<1>0. ASSUME NEW c \in Chats, NEW k \in Kinds, Arrive(c, k)
      PROVE  /\ received + 1 \in Msgs
             /\ hpc[received + 1] # "done"
             /\ chat' = [chat EXCEPT ![received + 1] = c]
             /\ kind' \in [Msgs -> Kinds]
  BY <1>0, ControllerAssumption DEF IInv, Arrive, TypeOK, Msgs, HandlerInv
<1>1. CASE Next
  <2>1. TypeOK' /\ HandlerInv'
    BY <1>1, TypeStep, HandlerStepInv
  <2> SUFFICES RunnerInv' /\ QueueInv' /\ FlagInv'
    BY <2>1 DEF IInv
  <2>2. ASSUME NEW c \in Chats, ReceiveNotice(c) \/ ReceivePrompt(c)
        PROVE  RunnerInv' /\ QueueInv' /\ FlagInv'
    <3>1. \A m \in Msgs : hpc[m] = "done" => hpc'[m] = "done" /\ chat'[m] = chat[m]
      BY <1>0, <2>2 DEF ReceiveNotice, ReceivePrompt, IInv, TypeOK, Kinds
    <3> QED BY <2>2, <3>1, FrameInv DEF ReceiveNotice, ReceivePrompt
  <2>3. ASSUME NEW c \in Chats, ReceiveNew(c)
        PROVE  RunnerInv' /\ QueueInv' /\ FlagInv'
    BY <1>0, <2>3, EnqueueInv DEF ReceiveNew, Kinds
  <2>4. ASSUME NEW c \in Chats, ReceiveAbort(c)
        PROVE  RunnerInv' /\ QueueInv' /\ FlagInv'
    BY <2>4, AbortInv
  <2>5. ASSUME NEW m \in Msgs, HandlerStep(m)
        PROVE  RunnerInv' /\ QueueInv' /\ FlagInv'
    <3>1. CASE AckSent(m)
      <4>1. chat[m] \in Chats /\ hpc[m] # "done" /\ chat' = [chat EXCEPT ![m] = chat[m]]
        BY <3>1 DEF AckSent, IInv, HandlerInv, TypeOK
      <4> QED BY <3>1, <4>1, EnqueueInv DEF AckSent, IInv, TypeOK
    <3>2. CASE AckFails(m) \/ AbortBackendReturns(m) \/ HandlerAnswers(m)
      <4>1. \A n \in Msgs : hpc[n] = "done" => hpc'[n] = "done" /\ chat'[n] = chat[n]
        BY <3>2 DEF AckFails, AbortBackendReturns, HandlerAnswers, IInv, TypeOK
      <4> QED BY <3>2, <4>1, FrameInv DEF AckFails, AbortBackendReturns, HandlerAnswers
    <3> QED BY <2>5, <3>1, <3>2 DEF HandlerStep
  <2>6. ASSUME NEW r \in Msgs, RunnerStep(r)
        PROVE  RunnerInv' /\ QueueInv' /\ FlagInv'
    <3>1. Live(r)
      BY <2>6 DEF RunnerStep, BackendReturns, CallFails, ChunkSent, ErrorReplySent, Live
    <3>2. ASSUME NEW pc \in RunnerPCs \ {"none"}, NEW n, Suspend(r, pc, n)
          PROVE  RunnerInv' /\ QueueInv' /\ FlagInv'
      BY <3>1, <3>2, SuspendInv
    <3>3. ASSUME NEW o \in Outcomes, NextIteration(r, o)
          PROVE  RunnerInv' /\ QueueInv' /\ FlagInv'
      BY <3>1, <3>3, NextIterationInv
    <3> QED BY <2>6, <3>2, <3>3
            DEF RunnerStep, BackendReturns, CallFails, ChunkSent, ErrorReplySent, RunnerPCs, Outcomes
  <2>7. CASE \E m \in Msgs : ErrorReplyFails(m)
    BY <2>7, RestartInv DEF ErrorReplyFails
  <2>8. CASE Crash
    BY <2>8, RestartInv DEF Crash
  <2>9. CASE CloseAdapter \/ BackendDisposed \/ Terminated
    BY <2>9, FrameInv DEF CloseAdapter, BackendDisposed, Terminated, vars
  <2>10. CASE DisposeController
    BY <2>10, DisposeInv
  <2> QED BY <1>1, <2>2, <2>3, <2>4, <2>5, <2>6, <2>7, <2>8, <2>9, <2>10 DEF Next, Receive
<1>2. CASE UNCHANGED vars
  <2>1. RunnerInv' /\ QueueInv' /\ FlagInv'
    BY <1>2, FrameInv DEF vars
  <2> QED BY <1>2, <2>1 DEF vars, IInv, TypeOK, HandlerInv
<1> QED BY <1>1, <1>2

(* The inductive invariant holds of every behaviour of handle(), enqueue   *)
(* and runQueue, for any number of chats, messages, pieces and restarts.   *)
THEOREM Invariance == Spec => []IInv
<1>1. QED BY InitIInv, NextIInv, PTL DEF Spec

(* Type correctness of the controller's state.                             *)
THEOREM TypeCorrect == Spec => []TypeOK
<1>1. IInv => TypeOK
  BY DEF IInv
<1> QED BY <1>1, Invariance, PTL

(* A chat never has two runQueue loops, and its flag says whether it has   *)
(* one (controller.ts:83, 87, 111).                                        *)
THEOREM SingleRunner == Spec => []OneRunnerPerChat
<1>1. IInv => OneRunnerPerChat
  BY DEF IInv, FlagInv, RunnerInv, OneRunnerPerChat, InChat, TypeOK, QueueType
<1> QED BY <1>1, Invariance, PTL

(* No queued item waits without a loop that will take it.                  *)
THEOREM NoLostWakeup == Spec => []NoStrandedItems
<1>1. IInv => NoStrandedItems
  BY DEF IInv, FlagInv, NoStrandedItems, InChat
<1> QED BY <1>1, Invariance, PTL

(* Nothing runs before its acknowledgement is out.                         *)
THEOREM AcknowledgedFirst == Spec => []AckBeforeWork
<1>1. IInv => AckBeforeWork
  BY DEF IInv, RunnerInv, AckBeforeWork
<1> QED BY <1>1, Invariance, PTL

(* What the head of the runQueue loop does to the runners.                 *)
LEMMA LoopTopRunner ==
  ASSUME TypeOK, NEW r \in Msgs, NEW c \in Chats, NEW q, LoopTop(r, c, q)
  PROVE  /\ \A s \in Msgs : s # r => runner'[s] = runner[s]
         /\ runner'[r].pc \in {"none", "newSession", "prompt"}
         /\ runner'[r].pc # "none" => q.items # <<>> /\ runner'[r].item = Head(q.items)
  BY DEF LoopTop, Stop, Take, TypeOK, NoRunner

(* What enqueue does to the runners.                                       *)
LEMMA EnqueueRunner ==
  ASSUME TypeOK, NEW m \in Msgs, NEW c \in Chats, Enqueue(m, c)
  PROVE  /\ \A s \in Msgs : s # m => runner'[s] = runner[s]
         /\ runner' = runner \/ runner'[m].pc \in {"none", "newSession", "prompt"}
<1> DEFINE q == [queue[c] EXCEPT !.items = Append(@, m), !.exists = TRUE]
<1>1. runner' = runner \/ LoopTop(m, c, [q EXCEPT !.running = TRUE])
  BY DEF Enqueue
<1> HIDE DEF q
<1> QED BY <1>1, LoopTopRunner

(* Only a runner whose epoch is current begins an answer.                  *)
LEMMA AnswerStep ==
  ASSUME IInv, Next, NEW r \in Msgs, StartsAnswer(r)
  PROVE  runner[r].item \notin cut
<1> USE DEF IInv
<1>0. /\ Live(r) /\ runner'[r] # runner[r]
      /\ runner'[r].pc \notin {"none", "newSession", "prompt"}
      /\ chat[r] \in Chats
  BY DEF StartsAnswer, RunnerInv, HandlerInv
<1>1. SameEpoch(r) => runner[r].item \notin cut
  BY <1>0 DEF SameEpoch, RunnerInv
<1>2. ASSUME NEW s \in Msgs, NEW o, NextIteration(s, o), Live(s) PROVE FALSE
  <2>1. chat[s] \in Chats
    BY <1>2 DEF RunnerInv, HandlerInv
  <2> QED BY <1>0, <1>2, <2>1, LoopTopRunner DEF NextIteration
<1>3. ASSUME NEW s \in Msgs, NEW pc, NEW n, Suspend(s, pc, n), s # r PROVE FALSE
  BY <1>0, <1>3 DEF Suspend, TypeOK
<1>4. ~\E c \in Chats : ReceiveNotice(c) \/ ReceivePrompt(c) \/ ReceiveAbort(c)
  BY <1>0 DEF ReceiveNotice, ReceivePrompt, ReceiveAbort
<1>5. ~\E c \in Chats : ReceiveNew(c)
  <2> SUFFICES ASSUME NEW c \in Chats, ReceiveNew(c) PROVE FALSE
    OBVIOUS
  <2>1. received + 1 \in Msgs
    BY ControllerAssumption DEF ReceiveNew, Arrive, TypeOK, Msgs
  <2> QED BY <1>0, <2>1, EnqueueRunner DEF ReceiveNew
<1>6. ASSUME NEW m \in Msgs, HandlerStep(m) PROVE FALSE
  <2>1. CASE AckSent(m)
    <3>1. chat[m] \in Chats
      BY <2>1 DEF AckSent, HandlerInv
    <3> QED BY <1>0, <2>1, <3>1, EnqueueRunner DEF AckSent
  <2> QED BY <1>0, <1>6, <2>1 DEF HandlerStep, AckFails, AbortBackendReturns, HandlerAnswers
<1>7. ASSUME NEW s \in Msgs, RunnerStep(s) PROVE runner[r].item \notin cut
  <2>0. Live(s)
    BY <1>7 DEF RunnerStep, BackendReturns, CallFails, ChunkSent, ErrorReplySent, Live
  <2>1. CASE BackendReturns(s)
    BY <1>1, <1>2, <1>3, <2>0, <2>1 DEF BackendReturns
  <2>2. CASE CallFails(s)
    BY <1>1, <1>2, <1>3, <2>0, <2>2 DEF CallFails
  <2>3. CASE ChunkSent(s)
    <3>1. CASE Suspend(s, "reply", runner[s].left - 1) /\ s = r
      <4>1. runner'[r].pc = "reply" /\ runner[r].pc = "reply"
        BY <2>3, <3>1 DEF ChunkSent, Suspend, TypeOK, RunnerType
      <4> QED BY <4>1 DEF StartsAnswer
    <3> QED BY <1>2, <1>3, <2>0, <2>3, <3>1 DEF ChunkSent
  <2>4. CASE ErrorReplySent(s)
    BY <1>2, <2>0, <2>4 DEF ErrorReplySent
  <2> QED BY <1>7, <2>1, <2>2, <2>3, <2>4 DEF RunnerStep
<1>8. ~Restart
  BY <1>0 DEF Restart, NoRunner
<1>9. ~(CloseAdapter \/ DisposeController \/ BackendDisposed \/ Terminated)
  BY <1>0 DEF CloseAdapter, DisposeController, BackendDisposed, Terminated, vars
<1> QED BY <1>4, <1>5, <1>6, <1>7, <1>8, <1>9 DEF Next, Receive, ErrorReplyFails, Crash

(* After an /abort the item that was running stays silent: no reply and no *)
(* error message of it is begun (controller.ts:95, 98, 101).               *)
THEOREM AbortSilences == Spec => AbortSilencesRunningItem
<1>1. IInv /\ [Next]_vars => [\A r \in Msgs : StartsAnswer(r) => runner[r].item \notin cut]_vars
  BY AnswerStep
<1> QED BY <1>1, Invariance, PTL DEF Spec, AbortSilencesRunningItem

-----------------------------------------------------------------------------
(* What waits at the head of a chat's queue has neither ended nor been cut. *)
LEMMA HeadIsFresh ==
  ASSUME IInv, NEW c \in Chats, queue[c].items # <<>>
  PROVE  outcome[Head(queue[c].items)] = "none" /\ Head(queue[c].items) \notin cut
<1>1. queue[c].items \in Seq(Msgs)
  BY DEF IInv, TypeOK, QueueType
<1>2. Head(queue[c].items) = queue[c].items[1] /\ 1 \in 1..Len(queue[c].items)
  BY <1>1, HeadTailProperties, LenProperties, EmptySeq
<1> QED BY <1>2 DEF IInv, QueueInv

(* A loop that enqueue starts takes the enqueued message itself.           *)
LEMMA EnqueueItem ==
  ASSUME IInv, NEW m \in Msgs, NEW c \in Chats, Enqueue(m, c)
  PROVE  runner' = runner \/ runner'[m].pc = "none" \/ runner'[m].item = m
<1> DEFINE q == [queue[c] EXCEPT !.items = Append(@, m), !.exists = TRUE]
           p == [q EXCEPT !.running = TRUE]
<1>1. CASE queue[c].running
  <2>1. q.running = queue[c].running
    BY DEF IInv, TypeOK, QueueType
  <2> QED BY <1>1, <2>1 DEF Enqueue
<1>2. CASE ~queue[c].running
  <2>1. queue[c].items = <<>> /\ queue[c].items \in Seq(Msgs)
    BY <1>2 DEF IInv, FlagInv, TypeOK, QueueType
  <2>2. p.items = Append(queue[c].items, m) /\ ~q.running
    BY <1>2 DEF IInv, TypeOK, QueueType
  <2>3. Head(p.items) = m
    BY <2>1, <2>2, HeadTailAppend
  <2>4. LoopTop(m, c, p)
    BY <2>2 DEF Enqueue
  <2> HIDE DEF p
  <2> QED BY <2>3, <2>4, LoopTopRunner DEF IInv
<1> QED BY <1>1, <1>2

(* Whatever a loop hands to the backend comes fresh from a handler or from *)
(* the head of the queue.                                                  *)
LEMMA StartStep ==
  ASSUME IInv, Next, NEW r \in Msgs, Starts(r)
  PROVE  outcome[runner'[r].item] = "none" /\ runner'[r].item \notin cut
<1> DEFINE Fresh(m) == outcome[m] = "none" /\ m \notin cut
<1> USE DEF IInv
<1>0. runner'[r] # runner[r] /\ runner'[r].pc \in {"newSession", "prompt"}
  BY DEF Starts
<1>1. ASSUME NEW s \in Msgs, NEW o, NextIteration(s, o), Live(s) PROVE Fresh(runner'[r].item)
  <2>1. chat[s] \in Chats
    BY <1>1 DEF RunnerInv, HandlerInv
  <2>2. s = r /\ queue[chat[s]].items # <<>> /\ runner'[r].item = Head(queue[chat[s]].items)
    BY <1>0, <1>1, <2>1, LoopTopRunner DEF NextIteration
  <2> QED BY <2>1, <2>2, HeadIsFresh
<1>2. ASSUME NEW s \in Msgs, NEW pc, NEW n, Suspend(s, pc, n) PROVE FALSE
  <2>1. runner'[r].item = runner[r].item
    BY <1>2 DEF Suspend, TypeOK, RunnerType
  <2> QED BY <2>1 DEF Starts
<1>3. ASSUME NEW m \in Msgs, NEW c \in Chats, hpc[m] # "done", Enqueue(m, c)
      PROVE  Fresh(runner'[r].item)
  <2>1. r = m /\ runner'[r].item = m
    BY <1>0, <1>3, EnqueueRunner, EnqueueItem
  <2> QED BY <1>3, <2>1 DEF HandlerInv
<1>4. ASSUME NEW c \in Chats, ReceiveNew(c) PROVE Fresh(runner'[r].item)
  <2>1. received + 1 \in Msgs /\ hpc[received + 1] # "done"
    BY <1>4, ControllerAssumption DEF ReceiveNew, Arrive, TypeOK, Msgs, HandlerInv
  <2> QED BY <1>3, <1>4, <2>1 DEF ReceiveNew
<1>5. ASSUME NEW m \in Msgs, HandlerStep(m) PROVE Fresh(runner'[r].item)
  <2>1. CASE AckSent(m)
    <3>1. chat[m] \in Chats /\ hpc[m] # "done"
      BY <2>1 DEF AckSent, HandlerInv
    <3> QED BY <1>3, <2>1, <3>1 DEF AckSent
  <2> QED BY <1>0, <1>5, <2>1 DEF HandlerStep, AckFails, AbortBackendReturns, HandlerAnswers
<1>6. ASSUME NEW s \in Msgs, RunnerStep(s) PROVE Fresh(runner'[r].item)
  <2>1. Live(s)
    BY <1>6 DEF RunnerStep, BackendReturns, CallFails, ChunkSent, ErrorReplySent, Live
  <2> QED BY <1>1, <1>2, <1>6, <2>1 DEF RunnerStep, BackendReturns, CallFails, ChunkSent, ErrorReplySent
<1>7. ~Restart
  BY <1>0 DEF Restart, NoRunner
<1>8. ~\E c \in Chats : ReceiveNotice(c) \/ ReceivePrompt(c) \/ ReceiveAbort(c)
  BY <1>0 DEF ReceiveNotice, ReceivePrompt, ReceiveAbort
<1>9. ~(CloseAdapter \/ DisposeController \/ BackendDisposed \/ Terminated)
  BY <1>0 DEF CloseAdapter, DisposeController, BackendDisposed, Terminated, vars
<1> QED BY <1>4, <1>5, <1>6, <1>7, <1>8, <1>9 DEF Next, Receive, ErrorReplyFails, Crash

(* What /abort or dispose() took out of a queue is never handed to the     *)
(* backend afterwards, nor is anything that has ended already.             *)
THEOREM ClearedStaysCleared == Spec => ClearedItemNeverStarts
<1>1. IInv /\ [Next]_vars =>
        [\A r \in Msgs : Starts(r) => outcome[runner'[r].item] = "none" /\ runner'[r].item \notin cut]_vars
  BY StartStep
<1> QED BY <1>1, Invariance, PTL DEF Spec, ClearedItemNeverStarts

-----------------------------------------------------------------------------
(* Every item the controller has accepted is in exactly one place, for any *)
(* number of chats, messages, pieces and restarts: ItemsConserved.         *)

(* What a handler that is suspended is about.                              *)
KindInv ==
  \A m \in Msgs :
    /\ hpc[m] = "ack" => kind[m] = "prompt"
    /\ hpc[m] \in {"reply", "abortBackend", "abortReply"} => kind[m] \in {"notice", "abort"}

In(m, s) == \E i \in 1..Len(s) : s[i] = m

Accepted(m) == hpc[m] = "done" /\ kind[m] \in {"prompt", "new"}
Waits(m)    == \E c \in Chats : In(m, queue[c].items)
Works(m)    == \E r \in Msgs : Live(r) /\ runner[r].item = m

(* An accepted item waits, is worked on or has ended; nothing else does.   *)
PlaceInv ==
  \A m \in Msgs : Accepted(m) <=> Waits(m) \/ Works(m) \/ outcome[m] # "none"

-----------------------------------------------------------------------------
(* Membership in a sequence.                                               *)

(* The empty sequence has no member, and Append adds one.                  *)
LEMMA InAppend ==
  ASSUME NEW s \in Seq(Msgs), NEW m \in Msgs, NEW n
  PROVE  ~In(n, <<>>) /\ (In(n, Append(s, m)) <=> In(n, s) \/ n = m)
<1>1. ~In(n, <<>>)
  BY EmptySeq DEF In
<1>2. /\ Len(Append(s, m)) = Len(s) + 1 /\ Len(s) \in Nat
      /\ \A i \in 1..Len(s) : Append(s, m)[i] = s[i]
      /\ Append(s, m)[Len(s) + 1] = m
  BY AppendProperties, LenProperties
<1>3. In(n, Append(s, m)) => In(n, s) \/ n = m
  <2> SUFFICES ASSUME NEW i \in 1..Len(Append(s, m)), Append(s, m)[i] = n
               PROVE  In(n, s) \/ n = m
    BY DEF In
  <2>1. i \in 1..Len(s) \/ i = Len(s) + 1
    BY <1>2
  <2> QED BY <1>2, <2>1 DEF In
<1>4. In(n, s) => In(n, Append(s, m))
  <2> SUFFICES ASSUME NEW i \in 1..Len(s), s[i] = n PROVE In(n, Append(s, m))
    BY DEF In
  <2>1. i \in 1..Len(Append(s, m)) /\ Append(s, m)[i] = n
    BY <1>2
  <2> QED BY <2>1 DEF In
<1>5. n = m => In(n, Append(s, m))
  <2>1. Len(s) + 1 \in 1..Len(Append(s, m))
    BY <1>2
  <2> QED BY <1>2, <2>1 DEF In
<1> QED BY <1>1, <1>3, <1>4, <1>5

(* The members of a sequence are its head and those of its tail.           *)
LEMMA InTail ==
  ASSUME NEW s \in Seq(Msgs), s # <<>>, NEW n
  PROVE  In(n, s) <=> n = Head(s) \/ In(n, Tail(s))
<1>1. /\ Len(s) \in Nat \ {0} /\ Len(Tail(s)) = Len(s) - 1
      /\ \A i \in 1..Len(Tail(s)) : Tail(s)[i] = s[i + 1]
      /\ Head(s) = s[1]
  BY HeadTailProperties, LenProperties, EmptySeq
<1>2. In(n, s) => n = Head(s) \/ In(n, Tail(s))
  <2> SUFFICES ASSUME NEW i \in 1..Len(s), s[i] = n, i # 1 PROVE In(n, Tail(s))
    BY <1>1 DEF In
  <2>1. i - 1 \in 1..Len(Tail(s)) /\ (i - 1) + 1 = i
    BY <1>1
  <2>2. Tail(s)[i - 1] = n
    BY <1>1, <2>1
  <2> QED BY <2>1, <2>2 DEF In
<1>3. n = Head(s) => In(n, s)
  <2>1. 1 \in 1..Len(s)
    BY <1>1
  <2> QED BY <1>1, <2>1 DEF In
<1>4. In(n, Tail(s)) => In(n, s)
  <2> SUFFICES ASSUME NEW i \in 1..Len(Tail(s)), Tail(s)[i] = n PROVE In(n, s)
    BY DEF In
  <2>1. i + 1 \in 1..Len(s) /\ s[i + 1] = n
    BY <1>1
  <2> QED BY <2>1 DEF In
<1> QED BY <1>2, <1>3, <1>4

-----------------------------------------------------------------------------
(* What the synchronous stretches do to the places.                        *)

(* Runner r takes the head of q or stops: what was in q is now in the      *)
(* chat's queue or in the hands of r.                                      *)
LEMMA LoopTopPlaces ==
  ASSUME IInv, NEW r \in Msgs, NEW c \in Chats, NEW q \in QueueType, LoopTop(r, c, q), NEW n \in Msgs
  PROVE  /\ \A s \in Msgs : s # r => runner'[s] = runner[s]
         /\ \A d \in Chats : d # c => queue'[d] = queue[d]
         /\ In(n, queue'[c].items) \/ (Live(r)' /\ runner'[r].item = n) <=> In(n, q.items)
<1>0. /\ q.items \in Seq(Msgs)
      /\ runner \in [Msgs -> RunnerType] /\ queue \in [Chats -> QueueType]
  BY DEF QueueType, IInv, TypeOK
<1>1. CASE q.items = <<>>
  <2>1. Stop(r, c, q)
    BY <1>1 DEF LoopTop
  <2>2. queue'[c].items = <<>> /\ ~Live(r)'
    BY <1>0, <1>1, <2>1 DEF Stop, QueueType, Live, NoRunner
  <2> QED BY <1>0, <1>1, <2>1, <2>2 DEF Stop
<1>2. CASE q.items # <<>>
  <2>1. Take(r, c, q, Head(q.items), Tail(q.items))
    BY <1>2 DEF LoopTop
  <2>2. queue'[c].items = Tail(q.items) /\ Live(r)' /\ runner'[r].item = Head(q.items)
    BY <1>0, <2>1 DEF Take, QueueType, Live
  <2>3. In(n, q.items) <=> n = Head(q.items) \/ In(n, Tail(q.items))
    BY <1>0, <1>2, InTail
  <2>4. /\ \A s \in Msgs : s # r => runner'[s] = runner[s]
        /\ \A d \in Chats : d # c => queue'[d] = queue[d]
    BY <1>0, <2>1 DEF Take
  <2> QED BY <2>2, <2>3, <2>4
<1> QED BY <1>1, <1>2

(* enqueue gives a place to its message, and moves at most that one.       *)
LEMMA EnqueuePlaces ==
  ASSUME IInv, NEW m \in Msgs, NEW c \in Chats, hpc[m] # "done", Enqueue(m, c), NEW n \in Msgs
  PROVE  Waits(n)' \/ Works(n)' <=> Waits(n) \/ Works(n) \/ n = m
<1> DEFINE q == [queue[c] EXCEPT !.items = Append(@, m), !.exists = TRUE]
           p == [q EXCEPT !.running = TRUE]
<1>1. queue[c] \in QueueType /\ queue[c].items \in Seq(Msgs) /\ ~Live(m)
  BY DEF IInv, TypeOK, QueueType, RunnerInv
<1>2. /\ q.items = Append(queue[c].items, m) /\ p.items = q.items
      /\ q.running = queue[c].running /\ p \in QueueType
  BY <1>1, AppendProperties DEF QueueType
<1>3. In(n, q.items) <=> In(n, queue[c].items) \/ n = m
  BY <1>1, <1>2, InAppend
<1> HIDE DEF q, p
<1>4. CASE queue[c].running
  <2>1. queue' = [queue EXCEPT ![c] = q] /\ runner' = runner
    BY <1>2, <1>4 DEF Enqueue, q
  <2>2. queue'[c] = q /\ \A d \in Chats : d # c => queue'[d] = queue[d]
    BY <2>1 DEF IInv, TypeOK
  <2>3. Works(n)' <=> Works(n)
    BY <2>1 DEF Works, Live
  <2> QED BY <1>3, <2>2, <2>3 DEF Waits
<1>5. CASE ~queue[c].running
  <2>1. LoopTop(m, c, p)
    BY <1>2, <1>5 DEF Enqueue, q, p
  <2>2. /\ \A s \in Msgs : s # m => runner'[s] = runner[s]
        /\ \A d \in Chats : d # c => queue'[d] = queue[d]
        /\ In(n, queue'[c].items) \/ (Live(m)' /\ runner'[m].item = n) <=> In(n, p.items)
    BY <1>2, <2>1, LoopTopPlaces
  <2>3. Works(n)' <=> Works(n) \/ (Live(m)' /\ runner'[m].item = n)
    BY <1>1, <2>2 DEF Works, Live
  <2> QED BY <1>2, <1>3, <2>2, <2>3 DEF Waits
<1> QED BY <1>4, <1>5

(* The end of an iteration changes no place but that of the item it ends.  *)
LEMMA IterationPlaces ==
  ASSUME IInv, NEW r \in Msgs, Live(r), NEW o \in Outcomes \ {"none"}, NextIteration(r, o), NEW n \in Msgs
  PROVE  Waits(n)' \/ Works(n)' \/ outcome'[n] # "none" <=> Waits(n) \/ Works(n) \/ outcome[n] # "none"
<1>1. chat[r] \in Chats /\ queue[chat[r]] \in QueueType
  BY DEF IInv, RunnerInv, HandlerInv, TypeOK
<1>2. /\ \A s \in Msgs : s # r => runner'[s] = runner[s]
      /\ \A d \in Chats : d # chat[r] => queue'[d] = queue[d]
      /\ In(n, queue'[chat[r]].items) \/ (Live(r)' /\ runner'[r].item = n) <=> In(n, queue[chat[r]].items)
  BY <1>1, LoopTopPlaces DEF NextIteration
<1>3. outcome'[n] # "none" <=> outcome[n] # "none" \/ n = runner[r].item
  BY DEF NextIteration, IInv, TypeOK
<1> DEFINE Others == \E s \in Msgs : s # r /\ Live(s) /\ runner[s].item = n
<1>4. Works(n) <=> Others \/ n = runner[r].item
  BY DEF Works
<1>5. Works(n)' <=> Others \/ (Live(r)' /\ runner'[r].item = n)
  BY <1>2 DEF Works, Live
<1>6. Waits(n)' \/ (Live(r)' /\ runner'[r].item = n) <=> Waits(n)
  BY <1>1, <1>2 DEF Waits
<1> QED BY <1>3, <1>4, <1>5, <1>6

-----------------------------------------------------------------------------
(* A handler that is suspended keeps its message's kind, and what becomes  *)
(* "done" without having been enqueued is no work item.                    *)
LEMMA NextKind == ASSUME IInv, KindInv, [Next]_vars PROVE KindInv'
<1> USE DEF IInv
<1>a. ASSUME NEW c \in Chats, NEW k \in Kinds, Arrive(c, k)
      PROVE  /\ received + 1 \in Msgs /\ kind' = [kind EXCEPT ![received + 1] = k]
             /\ \A m \in Msgs : m # received + 1 => kind'[m] = kind[m]
             /\ kind'[received + 1] = k
  BY <1>a, ControllerAssumption DEF Arrive, TypeOK, Msgs
<1>s. ASSUME kind' = kind, \A m \in Msgs : hpc'[m] = hpc[m] \/ hpc'[m] \in {"done", "dropped", "lost"}
      PROVE  KindInv'
  BY <1>s DEF KindInv
<1>1. ASSUME NEW c \in Chats, ReceiveNotice(c) PROVE KindInv'
  BY <1>1, <1>a DEF ReceiveNotice, KindInv, TypeOK, Kinds
<1>2. ASSUME NEW c \in Chats, ReceivePrompt(c) PROVE KindInv'
  BY <1>2, <1>a DEF ReceivePrompt, KindInv, TypeOK, Kinds
<1>3. ASSUME NEW c \in Chats, ReceiveNew(c) PROVE KindInv'
  BY <1>3, <1>a DEF ReceiveNew, KindInv, TypeOK, Kinds
<1>4. ASSUME NEW c \in Chats, ReceiveAbort(c) PROVE KindInv'
  BY <1>4, <1>a DEF ReceiveAbort, KindInv, TypeOK, Kinds
<1>5. ASSUME NEW m \in Msgs, HandlerStep(m) PROVE KindInv'
  BY <1>5 DEF HandlerStep, AckSent, AckFails, AbortBackendReturns, HandlerAnswers, KindInv, TypeOK
<1>6. ASSUME NEW r \in Msgs, RunnerStep(r) PROVE KindInv'
  BY <1>6, <1>s DEF RunnerStep, BackendReturns, CallFails, ChunkSent, ErrorReplySent, Suspend, NextIteration
<1>7. CASE Restart
  BY <1>7, <1>s DEF Restart
<1>8. CASE CloseAdapter \/ DisposeController \/ BackendDisposed \/ Terminated \/ UNCHANGED vars
  BY <1>8, <1>s DEF CloseAdapter, DisposeController, BackendDisposed, Terminated, vars
<1> QED BY <1>1, <1>2, <1>3, <1>4, <1>5, <1>6, <1>7, <1>8 DEF Next, Receive, ErrorReplyFails, Crash

(* Waiting, by the set of a chat's items.                                  *)
LEMMA WaitsInItems ==
  ASSUME IInv, NEW m
  PROVE  Waits(m) <=> \E c \in Chats : m \in Items(c)
BY ItemsOf DEF IInv, Waits, In

(* A step that leaves queues, runners and results alone preserves PlaceInv *)
(* if it accepts nothing.                                                  *)
LEMMA PlaceFrame ==
  ASSUME PlaceInv, queue' = queue, runner' = runner, outcome' = outcome,
         \A m \in Msgs : Accepted(m)' <=> Accepted(m)
  PROVE  PlaceInv'
BY DEF PlaceInv, Waits, Works, Live

(* enqueue accepts its message and gives it a place.                       *)
LEMMA PlaceEnqueue ==
  ASSUME IInv, PlaceInv, NEW m \in Msgs, NEW c \in Chats, hpc[m] # "done", Enqueue(m, c),
         outcome' = outcome, Accepted(m)',
         \A n \in Msgs : n # m => (Accepted(n)' <=> Accepted(n))
  PROVE  PlaceInv'
<1> SUFFICES ASSUME NEW n \in Msgs
             PROVE  Accepted(n)' <=> Waits(n)' \/ Works(n)' \/ outcome'[n] # "none"
  BY DEF PlaceInv
<1>1. Waits(n)' \/ Works(n)' <=> Waits(n) \/ Works(n) \/ n = m
  BY EnqueuePlaces
<1> QED BY <1>1 DEF PlaceInv

(* Every step preserves PlaceInv.                                          *)
LEMMA NextPlace == ASSUME IInv, KindInv, PlaceInv, [Next]_vars PROVE PlaceInv'
<1>a. ASSUME NEW c \in Chats, NEW k \in Kinds, Arrive(c, k)
      PROVE  /\ received + 1 \in Msgs
             /\ hpc[received + 1] # "done"
             /\ \A m \in Msgs : m # received + 1 => kind'[m] = kind[m]
             /\ kind'[received + 1] = k
  BY <1>a, ControllerAssumption DEF IInv, Arrive, TypeOK, Msgs, HandlerInv
<1>h. hpc \in [Msgs -> HandlerPCs]
  BY DEF IInv, TypeOK
<1>1. ASSUME NEW c \in Chats, ReceiveNotice(c) \/ ReceivePrompt(c) PROVE PlaceInv'
  <2>1. \A m \in Msgs : Accepted(m)' <=> Accepted(m)
    BY <1>1, <1>a, <1>h DEF ReceiveNotice, ReceivePrompt, Accepted, Kinds
  <2> QED BY <1>1, <2>1, PlaceFrame DEF ReceiveNotice, ReceivePrompt
<1>2. ASSUME NEW c \in Chats, ReceiveNew(c) PROVE PlaceInv'
  <2>1. PICK m \in Msgs : m = received + 1 /\ hpc[m] # "done" /\ Enqueue(m, c)
    BY <1>2, <1>a DEF ReceiveNew, Kinds
  <2>2. \A n \in Msgs : n # m => (Accepted(n)' <=> Accepted(n))
    BY <1>2, <1>a, <1>h, <2>1 DEF ReceiveNew, Accepted, Kinds
  <2>3. Accepted(m)'
    BY <1>2, <1>a, <1>h, <2>1 DEF ReceiveNew, Accepted, Kinds
  <2> QED BY <1>2, <2>1, <2>2, <2>3, PlaceEnqueue DEF ReceiveNew
<1>3. ASSUME NEW c \in Chats, ReceiveAbort(c) PROVE PlaceInv'
  <2> SUFFICES ASSUME NEW n \in Msgs
               PROVE  Accepted(n)' <=> Waits(n)' \/ Works(n)' \/ outcome'[n] # "none"
    BY DEF PlaceInv
  <2>1. Accepted(n)' <=> Accepted(n)
    BY <1>3, <1>a, <1>h DEF ReceiveAbort, Accepted, Kinds
  <2>2. Works(n)' <=> Works(n)
    BY <1>3 DEF ReceiveAbort, Works, Live
  <2>3. \A d \in Chats : d # c => queue'[d].items = queue[d].items
    BY <1>3 DEF ReceiveAbort, AbortQueue, IInv, TypeOK
  <2>4. queue'[c].items = <<>>
    <3>1. queue[c].exists \/ queue[c].items = <<>>
      BY DEF IInv, FlagInv, RunnerInv
    <3> QED BY <1>3, <3>1 DEF ReceiveAbort, AbortQueue, IInv, TypeOK, QueueType
  <2>5. Waits(n) <=> Waits(n)' \/ n \in Items(c)
    <3>1. ~In(n, queue'[c].items)
      BY <2>4, EmptySeq DEF In
    <3>2. n \in Items(c) <=> In(n, queue[c].items)
      BY ItemsOf DEF IInv, In
    <3> QED BY <2>3, <3>1, <3>2 DEF Waits
  <2>6. outcome'[n] # "none" <=> outcome[n] # "none" \/ n \in Items(c)
    BY <1>3 DEF ReceiveAbort
  <2> QED BY <2>1, <2>2, <2>5, <2>6 DEF PlaceInv
<1>4. ASSUME NEW m \in Msgs, HandlerStep(m) PROVE PlaceInv'
  <2>1. CASE AckSent(m)
    <3>1. chat[m] \in Chats /\ hpc[m] # "done"
      BY <2>1 DEF AckSent, IInv, HandlerInv
    <3>2. Accepted(m)' /\ \A n \in Msgs : n # m => (Accepted(n)' <=> Accepted(n))
      BY <1>h, <2>1 DEF AckSent, KindInv, Accepted
    <3> QED BY <2>1, <3>1, <3>2, PlaceEnqueue DEF AckSent
  <2>2. CASE AckFails(m) \/ AbortBackendReturns(m) \/ HandlerAnswers(m)
    <3>1. \A n \in Msgs : Accepted(n)' <=> Accepted(n)
      BY <1>h, <2>2 DEF AckFails, AbortBackendReturns, HandlerAnswers, KindInv, Accepted
    <3> QED BY <2>2, <3>1, PlaceFrame DEF AckFails, AbortBackendReturns, HandlerAnswers
  <2> QED BY <1>4, <2>1, <2>2 DEF HandlerStep
<1>5. ASSUME NEW r \in Msgs, RunnerStep(r) PROVE PlaceInv'
  <2>1. Live(r)
    BY <1>5 DEF RunnerStep, BackendReturns, CallFails, ChunkSent, ErrorReplySent, Live
  <2>2. ASSUME NEW o \in Outcomes \ {"none"}, NextIteration(r, o) PROVE PlaceInv'
    <3>1. \A n \in Msgs : Accepted(n)' <=> Accepted(n)
      BY <2>2 DEF NextIteration, Accepted
    <3> QED BY <2>1, <2>2, <3>1, IterationPlaces DEF PlaceInv
  <2>3. ASSUME NEW pc \in RunnerPCs \ {"none"}, NEW n, Suspend(r, pc, n) PROVE PlaceInv'
    <3>1. \A m \in Msgs : Works(m)' <=> Works(m)
      <4>1. \A s \in Msgs : (Live(s)' <=> Live(s)) /\ runner'[s].item = runner[s].item
        BY <2>1, <2>3 DEF Suspend, Live, IInv, TypeOK, RunnerType
      <4> QED BY <4>1 DEF Works
    <3> QED BY <2>3, <3>1 DEF Suspend, PlaceInv, Accepted, Waits
  <2> QED BY <1>5, <2>2, <2>3
          DEF RunnerStep, BackendReturns, CallFails, ChunkSent, ErrorReplySent, RunnerPCs, Outcomes
<1>6. CASE Restart
  <2> SUFFICES ASSUME NEW n \in Msgs
               PROVE  Accepted(n)' <=> Waits(n)' \/ Works(n)' \/ outcome'[n] # "none"
    BY DEF PlaceInv
  <2>1. ~Waits(n)' /\ ~Works(n)'
    BY <1>6, EmptySeq DEF Restart, EmptyQueue, NoRunner, Waits, In, Works, Live
  <2>2. Accepted(n)' <=> Accepted(n)
    BY <1>6, <1>h DEF Restart, Finished, Accepted
  <2>3. outcome'[n] # "none" <=> outcome[n] # "none" \/ Accepted(n)
    BY <1>6 DEF Restart, Unsettled, Accepted
  <2> QED BY <2>1, <2>2, <2>3 DEF PlaceInv
<1>7. CASE DisposeController
  <2> SUFFICES ASSUME NEW n \in Msgs
               PROVE  Accepted(n)' <=> Waits(n)' \/ Works(n)' \/ outcome'[n] # "none"
    BY DEF PlaceInv
  <2>1. ~Waits(n)'
    <3>1. \A c \in Chats : queue'[c].items = <<>>
      BY <1>7 DEF DisposeController, IInv, TypeOK, QueueType
    <3> QED BY <3>1, EmptySeq DEF Waits, In
  <2>2. (Accepted(n)' <=> Accepted(n)) /\ (Works(n)' <=> Works(n))
    BY <1>7 DEF DisposeController, Accepted, Works, Live
  <2>3. outcome'[n] # "none" <=> outcome[n] # "none" \/ Waits(n)
    BY <1>7, WaitsInItems DEF DisposeController
  <2> QED BY <2>1, <2>2, <2>3 DEF PlaceInv
<1>8. CASE CloseAdapter \/ BackendDisposed \/ Terminated \/ UNCHANGED vars
  BY <1>8, PlaceFrame DEF CloseAdapter, BackendDisposed, Terminated, vars, Accepted
<1> QED BY <1>1, <1>2, <1>3, <1>4, <1>5, <1>6, <1>7, <1>8 DEF Next, Receive, ErrorReplyFails, Crash

(* Initially nothing has been accepted and nothing has a place.            *)
LEMMA InitPlace == Init => KindInv /\ PlaceInv
<1> SUFFICES ASSUME Init PROVE KindInv /\ PlaceInv
  OBVIOUS
<1>1. KindInv /\ \A m \in Msgs : ~Accepted(m) /\ ~Works(m) /\ outcome[m] = "none"
  BY DEF Init, KindInv, Accepted, Works, Live, NoRunner
<1>2. \A m \in Msgs : ~Waits(m)
  BY EmptySeq DEF Init, Waits, In, EmptyQueue
<1> QED BY <1>1, <1>2 DEF PlaceInv

(* An accepted item always waits, is worked on or has ended: whatever      *)
(* handle() has enqueued is never forgotten, by any number of aborts,      *)
(* shutdowns and restarts.                                                 *)
THEOREM AcceptedHasPlace == Spec => [](KindInv /\ PlaceInv)
<1>1. IInv /\ KindInv /\ PlaceInv /\ [Next]_vars => (KindInv /\ PlaceInv)'
  BY NextKind, NextPlace
<1> QED BY <1>1, InitPlace, Invariance, PTL DEF Spec

-----------------------------------------------------------------------------
(* Counting the places.                                                    *)

(* A queue holds no more items than there are messages.                    *)
LEMMA ShortQueue ==
  ASSUME IInv, NEW c \in Chats
  PROVE  Len(queue[c].items) <= MaxMsgs
<1> DEFINE s == queue[c].items
<1>1. s \in Seq(Msgs) /\ Len(s) \in Nat /\ MaxMsgs \in Nat
  BY LenProperties, ControllerAssumption DEF IInv, TypeOK, QueueType
<1>2. s \in [1..Len(s) -> Msgs]
  BY <1>1, LenProperties
<1>3. \A i, j \in 1..Len(s) : s[i] = s[j] => i = j
  BY DEF IInv, QueueInv
<1>4. /\ IsFiniteSet(1..Len(s)) /\ Cardinality(1..Len(s)) = Len(s)
      /\ IsFiniteSet(Msgs) /\ Cardinality(Msgs) = MaxMsgs
  <2>1. ASSUME NEW n \in Nat PROVE IsFiniteSet(1..n) /\ Cardinality(1..n) = n
    <3>1. IsFiniteSet(1..n) /\ Cardinality(1..n) = IF 1 > n THEN 0 ELSE n - 1 + 1
      BY FS_Interval
    <3> QED BY <3>1
  <2> QED BY <1>1, <2>1 DEF Msgs
<1> HIDE DEF s
<1>5. ~(MaxMsgs < Len(s))
  BY <1>2, <1>3, <1>4, FS_PigeonHole
<1> QED BY <1>1, <1>5 DEF s

(* A work item is in its chat's queue, in one runner's hands or at one of  *)
(* its ends, never in two of these places and never twice in one.          *)
THEOREM Conservation == Spec => []ItemsConserved
<1>1. ASSUME IInv, PlaceInv PROVE ItemsConserved
  <2> SUFFICES ASSUME NEW m \in Msgs
               PROVE  LET queued  == {p \in Chats \X (1..MaxMsgs) :
                                        p[2] \in DOMAIN queue[p[1]].items /\ queue[p[1]].items[p[2]] = m}
                          running == {r \in Msgs : Live(r) /\ runner[r].item = m}
                          ended   == IF outcome[m] = "none" THEN {} ELSE {outcome[m]}
                      IN  Cardinality(queued) + Cardinality(running) + Cardinality(ended)
                            = IF Accepted(m) THEN 1 ELSE 0
    BY DEF ItemsConserved, Accepted
  <2> DEFINE queued  == {p \in Chats \X (1..MaxMsgs) :
                           p[2] \in DOMAIN queue[p[1]].items /\ queue[p[1]].items[p[2]] = m}
             running == {r \in Msgs : Live(r) /\ runner[r].item = m}
             ended   == IF outcome[m] = "none" THEN {} ELSE {outcome[m]}
  <2>d. \A c \in Chats : DOMAIN queue[c].items = 1..Len(queue[c].items) /\ Len(queue[c].items) \in Nat
    BY <1>1, LenProperties DEF IInv, TypeOK, QueueType
  <2>e. Cardinality({}) = 0 /\ \A x : Cardinality({x}) = 1
    BY FS_EmptySet, FS_Singleton
  <2>1. Cardinality(ended) = IF outcome[m] = "none" THEN 0 ELSE 1
    BY <2>e
  <2>2. ~Works(m) => running = {}
    BY DEF Works
  <2>3. Works(m) => Cardinality(running) = 1 /\ outcome[m] = "none" /\ ~Waits(m)
    <3> SUFFICES ASSUME NEW r \in Msgs, Live(r), runner[r].item = m
                 PROVE  Cardinality(running) = 1 /\ outcome[m] = "none" /\ ~Waits(m)
      BY DEF Works
    <3>1. ASSUME NEW t \in Msgs, Live(t), runner[t].item = m PROVE t = r
      <4>1. chat[t] = chat[m] /\ chat[r] = chat[m]
        BY <1>1, <3>1 DEF IInv, RunnerInv
      <4> QED BY <1>1, <3>1, <4>1 DEF IInv, RunnerInv
    <3>2. running = {r}
      BY <3>1
    <3>3. outcome[m] = "none" /\ ~Waits(m)
      BY <1>1 DEF IInv, RunnerInv, QueueInv, Waits, In
    <3> QED BY <2>e, <3>2, <3>3
  <2>4. ~Waits(m) => queued = {}
    BY <2>d DEF Waits, In
  <2>5. Waits(m) => Cardinality(queued) = 1 /\ outcome[m] = "none"
    <3> SUFFICES ASSUME NEW c \in Chats, NEW i \in 1..Len(queue[c].items), queue[c].items[i] = m
                 PROVE  Cardinality(queued) = 1 /\ outcome[m] = "none"
      BY DEF Waits, In
    <3>1. outcome[m] = "none" /\ chat[m] = c
      BY <1>1 DEF IInv, QueueInv
    <3>2. i \in 1..MaxMsgs
      BY <1>1, <2>d, ShortQueue, ControllerAssumption
    <3>3. <<c, i>> \in queued
      BY <2>d, <3>2
    <3>4. ASSUME NEW p \in queued PROVE p = <<c, i>>
      <4>1. p = <<p[1], p[2]>> /\ p[1] \in Chats /\ p[2] \in 1..Len(queue[p[1]].items)
            /\ queue[p[1]].items[p[2]] = m
        BY <2>d
      <4>2. p[1] = c
        BY <1>1, <3>1, <4>1 DEF IInv, QueueInv
      <4>3. p[2] = i
        BY <1>1, <4>1, <4>2 DEF IInv, QueueInv
      <4> QED BY <4>1, <4>2, <4>3
    <3>5. queued = {<<c, i>>}
      BY <3>3, <3>4
    <3> QED BY <2>e, <3>1, <3>5
  <2>6. Accepted(m) <=> Waits(m) \/ Works(m) \/ outcome[m] # "none"
    BY <1>1 DEF PlaceInv
  <2> HIDE DEF queued, running, ended
  <2>7. Cardinality(queued) + Cardinality(running) + Cardinality(ended) = IF Accepted(m) THEN 1 ELSE 0
    BY <2>e, <2>1, <2>2, <2>3, <2>4, <2>5, <2>6
  <2> QED BY <2>7 DEF queued, running, ended
<1> QED BY <1>1, Invariance, AcceptedHasPlace, PTL

-----------------------------------------------------------------------------
(* The controller implements SerialExecutor, for any number of chats,      *)
(* messages, pieces and restarts.                                          *)

(* What chat c shows of its loop: nothing, or the item of the only one.    *)
Idle(c)    == ItemOf(c) = NoMsg /\ ~Speaking(c) /\ ~Muted(c)
Busy(c, r) == /\ ItemOf(c) = runner[r].item
              /\ Speaking(c) <=> runner[r].pc \in {"reply", "errorReply"}
              /\ Muted(c) <=> runner[r].epoch # queue[c].epoch

(* Each chat has one loop, which is what it shows, or none.                *)
View ==
  \A c \in Chats :
    /\ (\A r \in Msgs : Live(r) => chat[r] # c) => Idle(c)
    /\ \A r \in Msgs : Live(r) /\ chat[r] = c => Busy(c, r)

(* The view follows from the invariant: the loop of a chat is alone.       *)
LEMMA ViewHolds == IInv => View
<1> SUFFICES ASSUME IInv, NEW c \in Chats
             PROVE  /\ (\A r \in Msgs : Live(r) => chat[r] # c) => Idle(c)
                    /\ \A r \in Msgs : Live(r) /\ chat[r] = c => Busy(c, r)
  BY DEF View
<1>1. (\A r \in Msgs : Live(r) => chat[r] # c) => InChat(c) = {}
  BY DEF InChat
<1>2. InChat(c) = {} => Idle(c)
  BY DEF Idle, ItemOf, Speaking, Muted
<1>3. ASSUME NEW r \in Msgs, Live(r), chat[r] = c PROVE Busy(c, r)
  <2>1. InChat(c) = {r}
    BY <1>3 DEF InChat, IInv, RunnerInv
  <2>2. (CHOOSE s \in InChat(c) : TRUE) = r
    BY <2>1
  <2> QED BY <1>3, <2>1, <2>2 DEF Busy, ItemOf, Speaking, Muted, SameEpoch
<1> QED BY <1>1, <1>2, <1>3

(* The same after a step.                                                  *)
LEMMA ViewNext == IInv' => View'
BY ViewHolds, PTL

(* A chat whose loop and epoch a step leaves alone shows what it showed.   *)
LEMMA SameView ==
  ASSUME IInv, View, View', NEW c \in Chats,
         \A r \in Msgs : (Live(r) /\ chat[r] = c) <=> (Live(r)' /\ chat'[r] = c),
         \A r \in Msgs : Live(r) /\ chat[r] = c => runner'[r] = runner[r],
         queue'[c].epoch = queue[c].epoch
  PROVE  /\ ItemOf(c)' = ItemOf(c)
         /\ Speaking(c)' = Speaking(c)
         /\ Muted(c)' = Muted(c)
<1>b. Speaking(c) \in BOOLEAN /\ Muted(c) \in BOOLEAN /\ Speaking(c)' \in BOOLEAN /\ Muted(c)' \in BOOLEAN
  BY DEF Speaking, Muted
<1>1. CASE \A r \in Msgs : Live(r) => chat[r] # c
  <2>1. Idle(c) /\ Idle(c)'
    BY <1>1 DEF View
  <2> QED BY <1>b, <2>1 DEF Idle
<1>2. ASSUME NEW r \in Msgs, Live(r), chat[r] = c
      PROVE  /\ ItemOf(c)' = ItemOf(c)
             /\ Speaking(c)' = Speaking(c)
             /\ Muted(c)' = Muted(c)
  <2>1. Busy(c, r) /\ Busy(c, r)' /\ runner'[r] = runner[r]
    BY <1>2 DEF View
  <2> QED BY <1>b, <2>1 DEF Busy
<1> QED BY <1>1, <1>2

(* A step of the executor, in the words of the controller.                 *)
Same(c) == /\ queue'[c].items = queue[c].items
           /\ ItemOf(c)' = ItemOf(c)
           /\ Speaking(c)' = Speaking(c)
           /\ Muted(c)' = Muted(c)

(* A chat that becomes what it was leaves the executor's functions alone.  *)
LEMMA Stutter ==
  ASSUME \A c \in Chats : Same(c), Submitted' = Submitted
  PROVE  UNCHANGED Executor!evars
<1>1. [d \in Chats |-> queue[d].items]' = [d \in Chats |-> queue[d].items]
  BY DEF Same
<1>2. [d \in Chats |-> ItemOf(d)]' = [d \in Chats |-> ItemOf(d)]
  BY DEF Same
<1>3. [d \in Chats |-> Speaking(d)]' = [d \in Chats |-> Speaking(d)]
  BY DEF Same
<1>4. [d \in Chats |-> Muted(d)]' = [d \in Chats |-> Muted(d)]
  BY DEF Same
<1> QED BY <1>1, <1>2, <1>3, <1>4 DEF Executor!evars

-----------------------------------------------------------------------------
(* Where runner r and chat c stand after the head of the loop.             *)
LEMMA LoopTopView ==
  ASSUME IInv, NEW r \in Msgs, NEW c \in Chats, NEW q \in QueueType, LoopTop(r, c, q)
  PROVE  /\ \A s \in Msgs : s # r => runner'[s] = runner[s]
         /\ \A d \in Chats : d # c => queue'[d] = queue[d]
         /\ queue'[c].epoch = q.epoch
         /\ IF q.items = <<>>
            THEN ~Live(r)' /\ queue'[c].items = <<>>
            ELSE /\ Live(r)' /\ runner'[r].item = Head(q.items)
                 /\ runner'[r].pc \in {"newSession", "prompt"} /\ runner'[r].epoch = q.epoch
                 /\ queue'[c].items = Tail(q.items)
<1>0. runner \in [Msgs -> RunnerType] /\ queue \in [Chats -> QueueType]
  BY DEF IInv, TypeOK
<1>1. CASE q.items = <<>>
  <2>1. Stop(r, c, q)
    BY <1>1 DEF LoopTop
  <2>2. queue'[c] = [q EXCEPT !.running = FALSE] /\ runner'[r] = NoRunner
    BY <1>0, <2>1 DEF Stop
  <2>3. queue'[c].items = <<>> /\ queue'[c].epoch = q.epoch /\ ~Live(r)'
    BY <1>1, <2>2 DEF QueueType, NoRunner, Live
  <2> QED BY <1>0, <1>1, <2>1, <2>3 DEF Stop
<1>2. CASE q.items # <<>>
  <2>1. Take(r, c, q, Head(q.items), Tail(q.items))
    BY <1>2 DEF LoopTop
  <2>2. /\ queue'[c].items = Tail(q.items) /\ queue'[c].epoch = q.epoch
        /\ Live(r)' /\ runner'[r].item = Head(q.items)
        /\ runner'[r].pc \in {"newSession", "prompt"} /\ runner'[r].epoch = q.epoch
    BY <1>0, <2>1 DEF Take, QueueType, Live
  <2> QED BY <1>0, <1>2, <2>1, <2>2 DEF Take
<1> QED BY <1>1, <1>2

(* enqueue submits its message.                                            *)
LEMMA SubmitStep ==
  ASSUME IInv, IInv', NEW m \in Msgs, NEW c \in Chats, hpc[m] # "done", Enqueue(m, c),
         chat' = [chat EXCEPT ![m] = c],
         Accepted(m)', \A n \in Msgs : n # m => (Accepted(n)' <=> Accepted(n))
  PROVE  Executor!Submit(c, m)
<1> DEFINE q == [queue[c] EXCEPT !.items = Append(@, m), !.exists = TRUE]
           p == [q EXCEPT !.running = TRUE]
<1>v. View /\ View'
  BY ViewHolds, ViewNext
<1>1. /\ queue[c] \in QueueType /\ queue[c].items \in Seq(Msgs) /\ ~Live(m)
      /\ chat'[m] = c /\ \A s \in Msgs : s # m => chat'[s] = chat[s]
  BY DEF IInv, TypeOK, QueueType, RunnerInv
<1>2. /\ q.items = Append(queue[c].items, m) /\ p.items = q.items /\ p.epoch = q.epoch
      /\ q.running = queue[c].running /\ q.epoch = queue[c].epoch /\ p \in QueueType
  BY <1>1, AppendProperties DEF QueueType
<1> HIDE DEF q, p
<1>3. m \notin Submitted /\ Submitted' = Submitted \cup {m}
  BY DEF Submitted, Accepted
<1>4. CASE queue[c].running
  <2>1. queue' = [queue EXCEPT ![c] = q] /\ runner' = runner
    BY <1>2, <1>4 DEF Enqueue, q
  <2>2. queue'[c] = q /\ \A d \in Chats : d # c => queue'[d] = queue[d]
    BY <2>1 DEF IInv, TypeOK
  <2>3. ASSUME NEW d \in Chats
        PROVE  ItemOf(d)' = ItemOf(d) /\ Speaking(d)' = Speaking(d) /\ Muted(d)' = Muted(d)
    <3>1. \A r \in Msgs : (Live(r) /\ chat[r] = d) <=> (Live(r)' /\ chat'[r] = d)
      BY <1>1, <2>1 DEF Live
    <3>2. queue'[d].epoch = queue[d].epoch
      BY <1>2, <2>2
    <3> QED BY <1>v, <2>1, <3>1, <3>2, SameView
  <2>5. ItemOf(c) # NoMsg
    <3>1. PICK r \in Msgs : Live(r) /\ chat[r] = c
      BY <1>4 DEF IInv, FlagInv
    <3>2. ItemOf(c) = runner[r].item /\ runner[r].item \in Msgs
      BY <1>v, <3>1 DEF View, Busy, IInv, RunnerInv
    <3> QED BY <3>2, ControllerAssumption DEF Msgs, NoMsg
  <2>6. UNCHANGED <<[d \in Chats |-> ItemOf(d)], [d \in Chats |-> Speaking(d)], [d \in Chats |-> Muted(d)]>>
    BY <2>3
  <2>7. [d \in Chats |-> queue[d].items]'
          = [[d \in Chats |-> queue[d].items] EXCEPT ![c] = Append(@, m)]
    BY <1>2, <2>2
  <2>8. [d \in Chats |-> ItemOf(d)][c] # NoMsg
    BY <2>5
  <2> QED BY <1>3, <2>6, <2>7, <2>8 DEF Executor!Submit
<1>5. CASE ~queue[c].running
  <2>1. LoopTop(m, c, p) /\ queue[c].items = <<>>
    BY <1>2, <1>5 DEF Enqueue, q, p, IInv, FlagInv
  <2>2. p.items # <<>> /\ Head(p.items) = m /\ Tail(p.items) = <<>>
    BY <1>1, <1>2, <2>1, HeadTailAppend, AppendProperties
  <2>3. /\ \A s \in Msgs : s # m => runner'[s] = runner[s]
        /\ \A d \in Chats : d # c => queue'[d] = queue[d]
        /\ queue'[c].epoch = p.epoch /\ queue'[c].items = <<>>
        /\ Live(m)' /\ runner'[m].item = m /\ runner'[m].epoch = p.epoch
        /\ runner'[m].pc \in {"newSession", "prompt"}
    BY <1>2, <2>1, <2>2, LoopTopView
  <2>4. ASSUME NEW d \in Chats \ {c} PROVE Same(d)
    <3>1. \A r \in Msgs : (Live(r) /\ chat[r] = d) <=> (Live(r)' /\ chat'[r] = d)
      BY <1>1, <2>3 DEF Live
    <3>2. \A r \in Msgs : Live(r) /\ chat[r] = d => runner'[r] = runner[r]
      BY <1>1, <2>3
    <3> QED BY <1>v, <2>3, <3>1, <3>2, SameView DEF Same
  <2>5. Idle(c)
    <3>1. \A r \in Msgs : Live(r) => chat[r] # c
      BY <1>5 DEF IInv, RunnerInv
    <3> QED BY <1>v, <3>1 DEF View
  <2>6. Busy(c, m)'
    BY <1>1, <1>v, <2>3 DEF View
  <2>7. ItemOf(c)' = m /\ Speaking(c)' = Speaking(c) /\ Muted(c)' = Muted(c)
    <3>1. Speaking(c) = FALSE /\ Muted(c) = FALSE /\ ItemOf(c) = NoMsg
      BY <2>5 DEF Idle, Speaking, Muted
    <3>2. ~Speaking(c)' /\ ~Muted(c)' /\ ItemOf(c)' = m
      BY <2>3, <2>6 DEF Busy
    <3>3. Speaking(c)' \in BOOLEAN /\ Muted(c)' \in BOOLEAN
      BY DEF Speaking, Muted
    <3> QED BY <3>1, <3>2, <3>3
  <2>9. ItemOf(c) = NoMsg
    BY <2>5 DEF Idle
  <2>10. [d \in Chats |-> ItemOf(d)][c] = NoMsg
    BY <2>9
  <2>11. [d \in Chats |-> ItemOf(d)]' = [[d \in Chats |-> ItemOf(d)] EXCEPT ![c] = m]
    BY <2>4, <2>7 DEF Same
  <2>12. UNCHANGED <<[d \in Chats |-> queue[d].items], [d \in Chats |-> Speaking(d)], [d \in Chats |-> Muted(d)]>>
    BY <2>1, <2>3, <2>4, <2>7 DEF Same
  <2> QED BY <1>3, <2>10, <2>11, <2>12 DEF Executor!Submit
<1> QED BY <1>4, <1>5

(* The end of an iteration finishes the executor's current task.           *)
LEMMA FinishStep ==
  ASSUME IInv, IInv', NEW r \in Msgs, Live(r), NEW c, c = chat[r],
         NEW o, NextIteration(r, o),
         runner[r].pc \in {"reply", "errorReply"} \/ ~SameEpoch(r)
  PROVE  Executor!Finish(c)
<1>v. View /\ View'
  BY ViewHolds, ViewNext
<1>1. /\ c \in Chats /\ queue[c] \in QueueType /\ LoopTop(r, c, queue[c])
      /\ hpc' = hpc /\ kind' = kind /\ chat' = chat
      /\ \A s \in Msgs : Live(s) /\ chat[s] = c => s = r
      /\ runner[r].item \in Msgs
  BY DEF NextIteration, IInv, RunnerInv, HandlerInv, TypeOK
<1>2. Busy(c, r)
  BY <1>1, <1>v DEF View
<1>3. /\ \A s \in Msgs : s # r => runner'[s] = runner[s]
      /\ \A d \in Chats : d # c => queue'[d] = queue[d]
      /\ queue'[c].epoch = queue[c].epoch
      /\ IF queue[c].items = <<>>
         THEN ~Live(r)' /\ queue'[c].items = <<>>
         ELSE /\ Live(r)' /\ runner'[r].item = Head(queue[c].items)
              /\ runner'[r].pc \in {"newSession", "prompt"} /\ runner'[r].epoch = queue[c].epoch
              /\ queue'[c].items = Tail(queue[c].items)
  BY <1>1, LoopTopView
<1>4. ASSUME NEW d \in Chats \ {c} PROVE Same(d)
  <2>1. \A s \in Msgs : (Live(s) /\ chat[s] = d) <=> (Live(s)' /\ chat'[s] = d)
    BY <1>1, <1>3 DEF Live
  <2>2. \A s \in Msgs : Live(s) /\ chat[s] = d => runner'[s] = runner[s]
    BY <1>3
  <2> QED BY <1>v, <1>3, <2>1, <2>2, SameView DEF Same
<1>5. Submitted' = Submitted
  BY <1>1 DEF Submitted
<1>6. /\ ItemOf(c) # NoMsg
      /\ Speaking(c) \/ Muted(c)
  BY <1>2, <1>1, ControllerAssumption DEF Busy, SameEpoch, Msgs, NoMsg
<1>7. Speaking(c)' = FALSE /\ Muted(c)' = FALSE
      /\ ItemOf(c)' = IF queue[c].items = <<>> THEN NoMsg ELSE Head(queue[c].items)
  <2>1. CASE queue[c].items = <<>>
    <3>1. \A s \in Msgs : Live(s)' => chat'[s] # c
      BY <1>1, <1>3, <2>1 DEF Live
    <3>2. Idle(c)'
      BY <1>1, <1>v, <3>1 DEF View
    <3> QED BY <2>1, <3>2 DEF Idle, Speaking, Muted
  <2>2. CASE queue[c].items # <<>>
    <3>1. Busy(c, r)'
      BY <1>1, <1>v, <1>3, <2>2 DEF View
    <3>2. ~Speaking(c)' /\ ~Muted(c)' /\ ItemOf(c)' = Head(queue[c].items)
      BY <1>3, <2>2, <3>1 DEF Busy
    <3> QED BY <2>2, <3>2 DEF Speaking, Muted
  <2> QED BY <2>1, <2>2
<1>8. [d \in Chats |-> Speaking(d)]' = [[d \in Chats |-> Speaking(d)] EXCEPT ![c] = FALSE]
  BY <1>4, <1>7 DEF Same
<1>9. [d \in Chats |-> Muted(d)]' = [[d \in Chats |-> Muted(d)] EXCEPT ![c] = FALSE]
  BY <1>4, <1>7 DEF Same
<1>10. /\ [d \in Chats |-> ItemOf(d)][c] # NoMsg
       /\ [d \in Chats |-> Speaking(d)][c] \/ [d \in Chats |-> Muted(d)][c]
       /\ [d \in Chats |-> queue[d].items][c] = queue[c].items
  BY <1>1, <1>6
<1>11. CASE queue[c].items = <<>>
  <2>1. [d \in Chats |-> ItemOf(d)]' = [[d \in Chats |-> ItemOf(d)] EXCEPT ![c] = NoMsg]
    BY <1>4, <1>7, <1>11 DEF Same
  <2>2. UNCHANGED [d \in Chats |-> queue[d].items]
    BY <1>3, <1>4, <1>11 DEF Same
  <2> QED
    BY <1>5, <1>8, <1>9, <1>10, <1>11, <2>1, <2>2 DEF Executor!Finish
<1>12. CASE queue[c].items # <<>>
  <2>1. [d \in Chats |-> ItemOf(d)]' = [[d \in Chats |-> ItemOf(d)] EXCEPT ![c] = Head(queue[c].items)]
    BY <1>4, <1>7, <1>12 DEF Same
  <2>2. [d \in Chats |-> queue[d].items]' = [[d \in Chats |-> queue[d].items] EXCEPT ![c] = Tail(@)]
    BY <1>3, <1>4, <1>12 DEF Same
  <2> QED
    BY <1>5, <1>8, <1>9, <1>10, <1>12, <2>1, <2>2 DEF Executor!Finish
<1> QED BY <1>11, <1>12

(* The first await of an answer makes the executor speak; later ones are   *)
(* stutters.                                                               *)
LEMMA SpeakStep ==
  ASSUME IInv, IInv', NEW r \in Msgs, Live(r), NEW c, c = chat[r],
         NEW pc \in {"reply", "errorReply"}, NEW n, Suspend(r, pc, n),
         runner[r].pc \in {"newSession", "prompt"} => SameEpoch(r),
         runner[r].pc \in {"newSession", "prompt", "reply", "errorReply"}
  PROVE  Executor!Speak(c) \/ UNCHANGED Executor!evars
<1>v. View /\ View'
  BY ViewHolds, ViewNext
<1>1. /\ c \in Chats /\ runner[r].item \in Msgs
      /\ hpc' = hpc /\ kind' = kind /\ chat' = chat /\ queue' = queue
      /\ \A s \in Msgs : s # r => runner'[s] = runner[s]
      /\ \A s \in Msgs : Live(s) /\ chat[s] = c => s = r
      /\ runner'[r].pc = pc /\ runner'[r].item = runner[r].item /\ runner'[r].epoch = runner[r].epoch
  BY DEF Suspend, IInv, RunnerInv, HandlerInv, TypeOK, RunnerType
<1>2. Live(r)' /\ \A s \in Msgs : Live(s)' <=> Live(s)
  BY <1>1 DEF Live
<1>3. Busy(c, r) /\ Busy(c, r)'
  BY <1>1, <1>2, <1>v DEF View
<1>4. ASSUME NEW d \in Chats \ {c} PROVE Same(d)
  <2>1. \A s \in Msgs : (Live(s) /\ chat[s] = d) <=> (Live(s)' /\ chat'[s] = d)
    BY <1>1, <1>2
  <2>2. \A s \in Msgs : Live(s) /\ chat[s] = d => runner'[s] = runner[s]
    BY <1>1
  <2> QED BY <1>1, <1>v, <2>1, <2>2, SameView DEF Same
<1>5. Submitted' = Submitted
  BY <1>1 DEF Submitted
<1>6. ItemOf(c)' = ItemOf(c) /\ ItemOf(c) # NoMsg
  BY <1>1, <1>3, ControllerAssumption DEF Busy, Msgs, NoMsg
<1>7. Muted(c)' = Muted(c)
  <2>1. Muted(c)' <=> Muted(c)
    BY <1>1, <1>3 DEF Busy
  <2> QED BY <2>1 DEF Muted
<1>8. Speaking(c)' = TRUE
  <2>1. Speaking(c)'
    BY <1>1, <1>3 DEF Busy
  <2> QED BY <2>1 DEF Speaking
<1>9. CASE runner[r].pc \in {"reply", "errorReply"}
  <2>1. Speaking(c) = TRUE
    <3>1. Speaking(c)
      BY <1>3, <1>9 DEF Busy
    <3> QED BY <3>1 DEF Speaking
  <2>2. Same(c)
    BY <1>1, <1>6, <1>7, <1>8, <2>1 DEF Same
  <2> QED BY <1>4, <1>5, <2>2, Stutter
<1>10. CASE runner[r].pc \in {"newSession", "prompt"}
  <2>1. ~Speaking(c) /\ ~Muted(c)
    BY <1>3, <1>10 DEF Busy, SameEpoch
  <2>2. [d \in Chats |-> Speaking(d)]' = [[d \in Chats |-> Speaking(d)] EXCEPT ![c] = TRUE]
    BY <1>4, <1>8 DEF Same
  <2>3. /\ UNCHANGED <<[d \in Chats |-> queue[d].items], [d \in Chats |-> ItemOf(d)]>>
    BY <1>1, <1>4, <1>6 DEF Same
  <2>4. UNCHANGED [d \in Chats |-> Muted(d)]
    BY <1>4, <1>7 DEF Same
  <2>5. [d \in Chats |-> ItemOf(d)][c] # NoMsg /\ ~[d \in Chats |-> Speaking(d)][c] /\ ~[d \in Chats |-> Muted(d)][c]
    BY <1>1, <1>6, <2>1
  <2> QED
    BY <1>5, <2>2, <2>3, <2>4, <2>5 DEF Executor!Speak
<1> QED BY <1>9, <1>10

(* /abort cancels: what waits is gone, what runs falls behind its epoch.   *)
LEMMA CancelStep ==
  ASSUME IInv, IInv', NEW c \in Chats, ReceiveAbort(c), \A n \in Msgs : Accepted(n)' <=> Accepted(n)
  PROVE  Executor!Cancel(c)
<1>v. View /\ View'
  BY ViewHolds, ViewNext
<1>1. runner' = runner /\ queue' = AbortQueue(c)
  BY DEF ReceiveAbort
<1>2. \A r \in Msgs : (Live(r)' <=> Live(r)) /\ (Live(r) => chat'[r] = chat[r])
  <2>1. received \in Nat
    BY ControllerAssumption DEF IInv, TypeOK
  <2>2. hpc[received + 1] # "done" \/ received + 1 \notin Msgs
    BY <2>1 DEF IInv, HandlerInv
  <2>3. \A r \in Msgs : hpc[r] = "done" => chat'[r] = chat[r]
    BY <2>2 DEF ReceiveAbort, Arrive, IInv, TypeOK
  <2> QED BY <1>1, <2>3 DEF Live, IInv, RunnerInv
<1>3. queue[c].exists \/ (queue[c].items = <<>> /\ ~queue[c].running)
  BY DEF IInv, FlagInv, RunnerInv
<1>4. /\ \A d \in Chats : d # c => queue'[d] = queue[d]
      /\ queue'[c].items = <<>>
      /\ queue[c].exists => queue'[c].epoch = queue[c].epoch + 1
  <2>1. CASE queue[c].exists
    <3>1. queue' = [queue EXCEPT ![c] = [queue[c] EXCEPT !.items = <<>>, !.epoch = @ + 1]]
      BY <1>1, <2>1 DEF AbortQueue, IInv, TypeOK
    <3>2. queue'[c] = [queue[c] EXCEPT !.items = <<>>, !.epoch = @ + 1]
          /\ \A d \in Chats : d # c => queue'[d] = queue[d]
      BY <3>1 DEF IInv, TypeOK
    <3>3. queue[c] \in QueueType
      BY DEF IInv, TypeOK
    <3> QED BY <3>2, <3>3 DEF QueueType
  <2>2. CASE ~queue[c].exists
    BY <1>1, <1>3, <2>2 DEF AbortQueue
  <2> QED BY <2>1, <2>2
<1>5. ASSUME NEW d \in Chats \ {c} PROVE Same(d)
  <2>1. \A r \in Msgs : (Live(r) /\ chat[r] = d) <=> (Live(r)' /\ chat'[r] = d)
    BY <1>2
  <2> QED BY <1>v, <1>1, <1>4, <2>1, SameView DEF Same
<1>6. /\ ItemOf(c)' = ItemOf(c) /\ Speaking(c)' = Speaking(c)
      /\ Muted(c)' = (ItemOf(c) # NoMsg)
  <2>b. Speaking(c) \in BOOLEAN /\ Muted(c) \in BOOLEAN /\ Speaking(c)' \in BOOLEAN /\ Muted(c)' \in BOOLEAN
    BY DEF Speaking, Muted
  <2>1. CASE \A r \in Msgs : Live(r) => chat[r] # c
    <3>1. Idle(c) /\ Idle(c)'
      BY <1>2, <1>v, <2>1 DEF View
    <3> QED BY <2>b, <3>1 DEF Idle
  <2>2. ASSUME NEW r \in Msgs, Live(r), chat[r] = c
        PROVE  /\ ItemOf(c)' = ItemOf(c) /\ Speaking(c)' = Speaking(c)
               /\ Muted(c)' = (ItemOf(c) # NoMsg)
    <3>1. Busy(c, r) /\ Busy(c, r)'
      BY <1>2, <1>v, <2>2 DEF View
    <3>2. runner[r].item # NoMsg
      BY <2>2, ControllerAssumption DEF IInv, RunnerInv, Msgs, NoMsg
    <3>3. runner[r].epoch # queue'[c].epoch
      <4>1. /\ runner[r].epoch \in Nat /\ queue[c].epoch \in Nat
            /\ runner[r].epoch <= queue[c].epoch /\ queue[c].exists
        BY <2>2 DEF IInv, RunnerInv, TypeOK, RunnerType, QueueType
      <4> QED BY <1>4, <4>1
    <3>4. ItemOf(c)' = ItemOf(c) /\ (Speaking(c)' <=> Speaking(c)) /\ Muted(c)' /\ ItemOf(c) # NoMsg
      BY <1>1, <3>1, <3>2, <3>3 DEF Busy
    <3> QED BY <2>b, <3>4
  <2> QED BY <2>1, <2>2
<1>7. Submitted' = Submitted
  BY DEF Submitted, Accepted
<1>8. [d \in Chats |-> queue[d].items]' = [[d \in Chats |-> queue[d].items] EXCEPT ![c] = <<>>]
  BY <1>4, <1>5 DEF Same
<1>9. [d \in Chats |-> Muted(d)]'
        = [[d \in Chats |-> Muted(d)] EXCEPT ![c] = [d \in Chats |-> ItemOf(d)][c] # NoMsg]
  <2>1. [d \in Chats |-> ItemOf(d)][c] = ItemOf(c)
    OBVIOUS
  <2> QED BY <1>5, <1>6, <2>1 DEF Same
<1>10. UNCHANGED <<[d \in Chats |-> ItemOf(d)], [d \in Chats |-> Speaking(d)]>>
  BY <1>5, <1>6 DEF Same
<1> QED BY <1>7, <1>8, <1>9, <1>10 DEF Executor!Cancel

(* dispose() discards what waits.                                          *)
LEMMA DiscardStep ==
  ASSUME IInv, IInv', DisposeController
  PROVE  Executor!DiscardWaiting
<1>v. View /\ View'
  BY ViewHolds, ViewNext
<1>1. /\ runner' = runner /\ chat' = chat /\ hpc' = hpc /\ kind' = kind
      /\ \A c \in Chats : queue'[c].items = <<>> /\ queue'[c].epoch = queue[c].epoch
  BY DEF DisposeController, IInv, TypeOK, QueueType
<1>2. ASSUME NEW c \in Chats
      PROVE  ItemOf(c)' = ItemOf(c) /\ Speaking(c)' = Speaking(c) /\ Muted(c)' = Muted(c)
  <2>1. \A r \in Msgs : (Live(r) /\ chat[r] = c) <=> (Live(r)' /\ chat'[r] = c)
    BY <1>1 DEF Live
  <2> QED BY <1>v, <1>1, <2>1, SameView
<1>3. UNCHANGED <<[d \in Chats |-> ItemOf(d)], [d \in Chats |-> Speaking(d)], [d \in Chats |-> Muted(d)]>>
  BY <1>2
<1>4. [d \in Chats |-> queue[d].items]' = [d \in Chats |-> <<>>] /\ Submitted' = Submitted
  BY <1>1 DEF Submitted
<1> QED BY <1>3, <1>4 DEF Executor!DiscardWaiting

(* The death and restart of the process restarts the executor.             *)
LEMMA RestartStep ==
  ASSUME IInv, IInv', Restart
  PROVE  Executor!Restart
<1>1. \A r \in Msgs : ~Live(r)'
  BY DEF Restart, Live, NoRunner
<1>2. ASSUME NEW c \in Chats
      PROVE  ItemOf(c)' = NoMsg /\ Speaking(c)' = FALSE /\ Muted(c)' = FALSE
  <2>1. Idle(c)'
    BY <1>1, ViewNext DEF View
  <2> QED BY <2>1 DEF Idle, Speaking, Muted
<1>3. Submitted' = Submitted
  BY DEF Restart, Submitted, Finished, IInv, TypeOK
<1>4. [d \in Chats |-> queue[d].items]' = [d \in Chats |-> <<>>]
  BY DEF Restart, EmptyQueue
<1>5. [d \in Chats |-> ItemOf(d)]' = [d \in Chats |-> NoMsg]
  BY <1>2
<1>6. [d \in Chats |-> Speaking(d)]' = [d \in Chats |-> FALSE]
  BY <1>2
<1>7. [d \in Chats |-> Muted(d)]' = [d \in Chats |-> FALSE]
  BY <1>2
<1> QED BY <1>3, <1>4, <1>5, <1>6, <1>7 DEF Executor!Restart

(* A step that leaves loops and queues alone and accepts nothing is no     *)
(* step of the executor.                                                   *)
LEMMA QuietStep ==
  ASSUME IInv, IInv', queue' = queue, runner' = runner,
         \A n \in Msgs : Accepted(n)' <=> Accepted(n),
         \A r \in Msgs : hpc[r] = "done" => chat'[r] = chat[r]
  PROVE  UNCHANGED Executor!evars
<1>1. View /\ View'
  BY ViewHolds, ViewNext
<1>2. \A r \in Msgs : (Live(r)' <=> Live(r)) /\ (Live(r) => chat'[r] = chat[r])
  BY DEF Live, IInv, RunnerInv
<1>3. \A c \in Chats : Same(c)
  BY <1>1, <1>2, SameView DEF Same
<1>4. Submitted' = Submitted
  BY DEF Submitted, Accepted
<1> QED BY <1>3, <1>4, Stutter

-----------------------------------------------------------------------------
(* A controller that has received nothing is an executor in its first state.*)
LEMMA InitialExecutor == Init => Executor!Init
<1> SUFFICES ASSUME Init PROVE Executor!Init
  OBVIOUS
<1>1. View /\ \A r \in Msgs : ~Live(r)
  BY InitIInv, ViewHolds DEF Init, Live, NoRunner
<1>2. \A c \in Chats : ItemOf(c) = NoMsg /\ Speaking(c) = FALSE /\ Muted(c) = FALSE
  BY <1>1 DEF View, Idle, Speaking, Muted
<1>3. Submitted = {} /\ \A c \in Chats : queue[c].items = <<>>
  BY DEF Init, Submitted, EmptyQueue
<1>4. [d \in Chats |-> queue[d].items] = [d \in Chats |-> <<>>]
  BY <1>3
<1>5. [d \in Chats |-> ItemOf(d)] = [d \in Chats |-> NoMsg]
  BY <1>2
<1>6. [d \in Chats |-> Speaking(d)] = [d \in Chats |-> FALSE] /\ [d \in Chats |-> Muted(d)] = [d \in Chats |-> FALSE]
  BY <1>2
<1> QED BY <1>3, <1>4, <1>5, <1>6 DEF Executor!Init

(* Every step of the controller is one of the executor's, or none.         *)
LEMMA ExecutorStep ==
  ASSUME IInv, IInv', KindInv, [Next]_vars
  PROVE  Executor!Next \/ UNCHANGED Executor!evars
<1>h. hpc \in [Msgs -> HandlerPCs]
  BY DEF IInv, TypeOK
<1>a. ASSUME NEW c \in Chats, NEW k \in Kinds, Arrive(c, k)
      PROVE  \E m \in Msgs : /\ m = received + 1 /\ hpc[m] # "done"
                             /\ chat' = [chat EXCEPT ![m] = c]
                             /\ \A n \in Msgs : n # m => kind'[n] = kind[n] /\ chat'[n] = chat[n]
                             /\ kind'[m] = k
  <2>1. received + 1 \in Msgs /\ hpc[received + 1] # "done"
    BY <1>a, ControllerAssumption DEF IInv, Arrive, TypeOK, Msgs, HandlerInv
  <2> QED BY <1>a, <2>1 DEF Arrive, IInv, TypeOK
<1>1. ASSUME NEW c \in Chats, ReceiveNotice(c) \/ ReceivePrompt(c) PROVE UNCHANGED Executor!evars
  <2>1. PICK m \in Msgs : /\ m = received + 1 /\ hpc[m] # "done"
                          /\ \A n \in Msgs : n # m => kind'[n] = kind[n] /\ chat'[n] = chat[n]
    BY <1>1, <1>a DEF ReceiveNotice, ReceivePrompt, Kinds
  <2>2. \A n \in Msgs : Accepted(n)' <=> Accepted(n)
    BY <1>1, <1>h, <2>1 DEF ReceiveNotice, ReceivePrompt, Accepted
  <2> QED BY <1>1, <2>1, <2>2, QuietStep DEF ReceiveNotice, ReceivePrompt
<1>2. ASSUME NEW c \in Chats, ReceiveNew(c) PROVE Executor!Next
  <2>1. PICK m \in Msgs : /\ m = received + 1 /\ hpc[m] # "done" /\ kind'[m] = "new"
                          /\ chat' = [chat EXCEPT ![m] = c]
                          /\ \A n \in Msgs : n # m => kind'[n] = kind[n] /\ chat'[n] = chat[n]
    BY <1>2, <1>a DEF ReceiveNew, Kinds
  <2>2. Accepted(m)' /\ \A n \in Msgs : n # m => (Accepted(n)' <=> Accepted(n))
    BY <1>2, <1>h, <2>1 DEF ReceiveNew, Accepted
  <2>3. Executor!Submit(c, m)
    BY <1>2, <2>1, <2>2, SubmitStep DEF ReceiveNew
  <2> QED BY <2>3 DEF Executor!Next
<1>3. ASSUME NEW c \in Chats, ReceiveAbort(c) PROVE Executor!Next
  <2>1. PICK m \in Msgs : /\ m = received + 1 /\ hpc[m] # "done"
                          /\ \A n \in Msgs : n # m => kind'[n] = kind[n] /\ chat'[n] = chat[n]
    BY <1>3, <1>a DEF ReceiveAbort, Kinds
  <2>2. \A n \in Msgs : Accepted(n)' <=> Accepted(n)
    BY <1>3, <1>h, <2>1 DEF ReceiveAbort, Accepted
  <2>3. Executor!Cancel(c)
    BY <1>3, <2>2, CancelStep
  <2> QED BY <2>3 DEF Executor!Next
<1>4. ASSUME NEW m \in Msgs, HandlerStep(m) PROVE Executor!Next \/ UNCHANGED Executor!evars
  <2>1. CASE AckSent(m)
    <3>1. chat[m] \in Chats /\ hpc[m] # "done" /\ chat' = [chat EXCEPT ![m] = chat[m]]
      BY <2>1 DEF AckSent, IInv, HandlerInv, TypeOK
    <3>2. Accepted(m)' /\ \A n \in Msgs : n # m => (Accepted(n)' <=> Accepted(n))
      BY <1>h, <2>1 DEF AckSent, KindInv, Accepted
    <3>3. PICK c \in Chats : c = chat[m] /\ chat' = [chat EXCEPT ![m] = c] /\ Enqueue(m, c)
      BY <2>1, <3>1 DEF AckSent
    <3>4. Executor!Submit(c, m)
      BY <3>1, <3>2, <3>3, SubmitStep
    <3> QED BY <3>4 DEF Executor!Next
  <2>2. CASE AckFails(m) \/ AbortBackendReturns(m) \/ HandlerAnswers(m)
    <3>1. \A n \in Msgs : Accepted(n)' <=> Accepted(n)
      BY <1>h, <2>2 DEF AckFails, AbortBackendReturns, HandlerAnswers, KindInv, Accepted
    <3> QED BY <2>2, <3>1, QuietStep DEF AckFails, AbortBackendReturns, HandlerAnswers
  <2> QED BY <1>4, <2>1, <2>2 DEF HandlerStep
<1>5. ASSUME NEW r \in Msgs, RunnerStep(r) PROVE Executor!Next \/ UNCHANGED Executor!evars
  <2>1. Live(r)
    BY <1>5 DEF RunnerStep, BackendReturns, CallFails, ChunkSent, ErrorReplySent, Live
  <2>2. PICK c \in Chats : c = chat[r]
    BY <2>1 DEF IInv, RunnerInv, HandlerInv
  <2>3. ASSUME NEW o, NextIteration(r, o), runner[r].pc \in {"reply", "errorReply"} \/ ~SameEpoch(r)
        PROVE  Executor!Next
    <3>1. Executor!Finish(c)
      BY <2>1, <2>2, <2>3, FinishStep
    <3> QED BY <3>1 DEF Executor!Next
  <2>4. ASSUME NEW pc \in {"reply", "errorReply"}, NEW n, Suspend(r, pc, n),
               runner[r].pc \in {"newSession", "prompt"} => SameEpoch(r),
               runner[r].pc \in {"newSession", "prompt", "reply", "errorReply"}
        PROVE  Executor!Next \/ UNCHANGED Executor!evars
    <3>1. Executor!Speak(c) \/ UNCHANGED Executor!evars
      BY <2>1, <2>2, <2>4, SpeakStep
    <3> QED BY <3>1 DEF Executor!Next
  <2> QED BY <1>5, <2>3, <2>4 DEF RunnerStep, BackendReturns, CallFails, ChunkSent, ErrorReplySent
<1>6. CASE Restart
  BY <1>6, RestartStep DEF Executor!Next
<1>7. CASE DisposeController
  BY <1>7, DiscardStep DEF Executor!Next
<1>8. CASE CloseAdapter \/ BackendDisposed \/ Terminated \/ UNCHANGED vars
  BY <1>8, QuietStep DEF CloseAdapter, BackendDisposed, Terminated, vars, Accepted
<1> QED BY <1>1, <1>2, <1>3, <1>4, <1>5, <1>6, <1>7, <1>8
        DEF Next, Receive, ErrorReplyFails, Crash

(* With its detached loops, epochs and restarts the controller is a serial *)
(* executor per chat, for any number of chats, messages and pieces: FIFO   *)
(* from enqueue on, one task at a time, never idle with work waiting, and  *)
(* silent after an /abort (controller.ts:58-111).                          *)
THEOREM Refinement == Spec => ImplementsSerialExecutor
<1>1. IInv /\ IInv' /\ KindInv /\ [Next]_vars => [Executor!Next]_Executor!evars
  BY ExecutorStep
<1> QED BY <1>1, InitialExecutor, Invariance, AcceptedHasPlace, PTL
        DEF Spec, ImplementsSerialExecutor, Executor!Spec
=============================================================================
