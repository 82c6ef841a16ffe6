------------------------ MODULE ControllerRefinement ------------------------
(* The chat controller implements the serial executor, chat by chat.       *)
EXTENDS ImclawController

(* The item the chat's runQueue loop is busy with.                         *)
ItemOf(c) == IF InChat(c) = {} THEN NoMsg
             ELSE runner[CHOOSE r \in InChat(c) : TRUE].item

(* The items enqueued so far.                                              *)
Submitted == {m \in Msgs : hpc[m] = "done" /\ kind[m] \in {"prompt", "new"}}

(* The loop has begun to answer the user; the loop's item was aborted.     *)
Speaking(c) == \E r \in InChat(c) : runner[r].pc \in {"reply", "errorReply"}
Muted(c)    == \E r \in InChat(c) : ~SameEpoch(r)

Executor == INSTANCE SerialExecutor WITH
  Tasks     <- Msgs,
  NoTask    <- NoMsg,
  submitted <- Submitted,
  waiting   <- [c \in Chats |-> queue[c].items],
  current   <- [c \in Chats |-> ItemOf(c)],
  speaking  <- [c \in Chats |-> Speaking(c)],
  muted     <- [c \in Chats |-> Muted(c)]

(* Epochs, the running flag, detached coroutines, partial sends and        *)
(* restarts together behave as one serial executor per chat                *)
(* (controller.ts:58-111): FIFO from enqueue on, one task at a time, never *)
(* idle with work waiting, and silent after an /abort.                     *)
ImplementsSerialExecutor == Executor!Spec
=============================================================================
