--------------------------- MODULE SerialExecutor ---------------------------
(***************************************************************************)
(* What the chat controller promises, without coroutines, flags or epochs: *)
(* each chat owns a serial executor.  It works on one task at a time, in   *)
(* the order of submission, never idles while a task is waiting, and gives *)
(* every task an audible end - unless the task was cancelled, in which     *)
(* case it stays silent for good if it had not spoken yet.                 *)
(***************************************************************************)
EXTENDS Naturals, Sequences

CONSTANTS
  Chats,
  Tasks,
  NoTask   \* not one of Tasks

VARIABLES
  submitted,  \* tasks handed in so far
  waiting,    \* per chat: tasks not yet begun
  current,    \* per chat: the task being worked on
  speaking,   \* per chat: the current task has begun to answer the user
  muted       \* per chat: the current task was cancelled

evars == <<submitted, waiting, current, speaking, muted>>

Init ==
  /\ submitted = {}
  /\ waiting = [c \in Chats |-> <<>>]
  /\ current = [c \in Chats |-> NoTask]
  /\ speaking = [c \in Chats |-> FALSE]
  /\ muted = [c \in Chats |-> FALSE]

Submit(c, t) ==
  /\ t \notin submitted
  /\ submitted' = submitted \cup {t}
  /\ IF current[c] = NoTask
     THEN current' = [current EXCEPT ![c] = t] /\ UNCHANGED waiting
     ELSE waiting' = [waiting EXCEPT ![c] = Append(@, t)] /\ UNCHANGED current
  /\ UNCHANGED <<speaking, muted>>

Speak(c) ==
  /\ current[c] # NoTask
  /\ ~muted[c] /\ ~speaking[c]
  /\ speaking' = [speaking EXCEPT ![c] = TRUE]
  /\ UNCHANGED <<submitted, waiting, current, muted>>

(* The current task ends and the next one, if any, begins at once.         *)
Finish(c) ==
  /\ current[c] # NoTask
  /\ speaking[c] \/ muted[c]
  /\ IF waiting[c] = <<>>
     THEN current' = [current EXCEPT ![c] = NoTask] /\ UNCHANGED waiting
     ELSE /\ current' = [current EXCEPT ![c] = Head(waiting[c])]
          /\ waiting' = [waiting EXCEPT ![c] = Tail(@)]
  /\ speaking' = [speaking EXCEPT ![c] = FALSE]
  /\ muted' = [muted EXCEPT ![c] = FALSE]
  /\ UNCHANGED submitted

Cancel(c) ==
  /\ waiting' = [waiting EXCEPT ![c] = <<>>]
  /\ muted' = [muted EXCEPT ![c] = current[c] # NoTask]
  /\ UNCHANGED <<submitted, current, speaking>>

(* Shutdown: what is waiting is discarded, what is running goes on.        *)
DiscardWaiting ==
  /\ waiting' = [c \in Chats |-> <<>>]
  /\ UNCHANGED <<submitted, current, speaking, muted>>

(* A new process starts with nothing; no task comes back from the dead.    *)
Restart ==
  /\ submitted' = submitted
  /\ waiting' = [c \in Chats |-> <<>>]
  /\ current' = [c \in Chats |-> NoTask]
  /\ speaking' = [c \in Chats |-> FALSE]
  /\ muted' = [c \in Chats |-> FALSE]

Next ==
  \/ \E c \in Chats : \/ \E t \in Tasks : Submit(c, t)
                      \/ Speak(c)
                      \/ Finish(c)
                      \/ Cancel(c)
  \/ DiscardWaiting
  \/ Restart

Spec == Init /\ [][Next]_evars
=============================================================================
