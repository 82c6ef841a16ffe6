------------------------------ MODULE FileTools ------------------------------
(***************************************************************************)
(* The tools that change files and the queue they share:                   *)
(* withFileMutationQueue (coding-agent, core/tools/file-mutation-queue.ts) *)
(* with its registration chain and its map of promise chains, the write    *)
(* and edit tools that run under it, and deliver_file (packages/imclaw),   *)
(* which sends a file to the chat and then deletes it.                     *)
(*                                                                         *)
(* A call is a coroutine that awaits the file system, the queue and the    *)
(* Feishu API.  The file system is external: a file is written in two      *)
(* steps (it is created or emptied, then filled), and any step may fail.   *)
(* The content of a file is the set of the calls it shows the effect of.   *)
(***************************************************************************)
EXTENDS Naturals

CONSTANTS
  Files,       \* canonical paths
  Links,       \* paths that lead to a file through a symbolic link
  Tools,       \* the tools called: among "write", "edit", "deliver"
  Present,     \* whether the files exist at first
  MaxCalls,    \* bound: tool calls
  MaxShell     \* bound: changes made by bash, which does not use the queue

ASSUME FileAssumption ==
  /\ Files # {} /\ Files \cap Links = {}
  /\ Tools \subseteq {"write", "edit", "deliver"}
  /\ Present \in BOOLEAN
  /\ MaxCalls \in Nat /\ MaxShell \in Nat

Calls  == 1..MaxCalls
Shell  == {MaxCalls + i : i \in 1..MaxShell}
Paths  == Files \cup Links
NoCall == 0
SomePath == CHOOSE f \in Files : TRUE

VARIABLES
  real,      \* where each link leads
  exists, content,  \* the file system
  tool, path, pc,   \* the calls
  key,       \* the queue each call is in
  prev,      \* currentQueue: the call before it there
  tail,      \* fileMutationQueues: the last call of each queue
  buffer,    \* what an edit has read, what a delivery has uploaded
  aborted,   \* the signal of the run the calls belong to
  shell      \* changes made by bash so far

files == <<exists, content>>
queue == <<key, prev, tail>>
vars  == <<real, files, tool, path, pc, queue, buffer, aborted, shell>>

Real(p) == IF p \in Files THEN p ELSE real[p]
File(c) == Real(path[c])

Inside == {"mkdir", "access", "read", "opening", "writing", "resolve", "stat", "upload", "message", "unlink"}
Ended  == {"done", "failed"}

Init ==
  /\ real \in [Links -> Files]
  /\ exists = [f \in Files |-> Present] /\ content = [f \in Files |-> IF Present THEN {NoCall} ELSE {}]
  /\ tool = [c \in Calls |-> "none"] /\ path = [c \in Calls |-> SomePath]
  /\ pc = [c \in Calls |-> "absent"]
  /\ key = [c \in Calls |-> SomePath]
  /\ prev = [c \in Calls |-> NoCall] /\ tail = [p \in Paths |-> NoCall]
  /\ buffer = [c \in Calls |-> {}]
  /\ aborted = FALSE /\ shell = 0

Goto(c, l) == pc' = [pc EXCEPT ![c] = l]

-----------------------------------------------------------------------------
(* withFileMutationQueue                                                   *)

(* A tool is called: deliver_file looks at the signal before it queues.    *)
Call(c) ==
  /\ pc[c] = "absent"
  /\ \A d \in Calls : d < c => pc[d] # "absent"
  /\ \E t \in Tools, p \in Paths :
       /\ tool' = [tool EXCEPT ![c] = t]
       /\ path' = [path EXCEPT ![c] = p]
       /\ IF t = "deliver" /\ aborted
          THEN Goto(c, "failed") ELSE Goto(c, "registering")
  /\ UNCHANGED <<real, files, queue, buffer, aborted, shell>>

(* getMutationQueueKey: the real path if the file exists.                  *)
KeyOf(p) == IF exists[Real(p)] THEN Real(p) ELSE p

(* Mutant: a call that waits itself is not waited for.                     *)
Chain_Running(k) == IF tail[k] # NoCall /\ pc[tail[k]] = "waiting" THEN NoCall ELSE tail[k]
Chain(k) == tail[k]

(* registrationQueue: one after the other, in the order of the calls.      *)
MayRegister(c) ==
  /\ pc[c] = "registering"
  /\ \A d \in Calls : d < c => pc[d] # "registering"

Register(c) ==
  /\ MayRegister(c)
  /\ Goto(c, "waiting")
  /\ LET k == KeyOf(path[c]) IN
     /\ key' = [key EXCEPT ![c] = k]
     /\ prev' = [prev EXCEPT ![c] = Chain(k)]
     /\ tail' = [tail EXCEPT ![k] = c]
  /\ UNCHANGED <<real, files, tool, path, buffer, aborted, shell>>

(* realpath fails otherwise than on a missing path: only this call fails.  *)
RegistrationFails(c) ==
  /\ MayRegister(c)
  /\ Goto(c, "failed")
  /\ UNCHANGED <<real, files, tool, path, queue, buffer, aborted, shell>>

(* Mutant: the entry of the map is deleted whoever is the last.            *)
Leave_Deletes(c) == tail' = [tail EXCEPT ![key[c]] = NoCall]
(* releaseNext; the entry goes if nobody has queued behind.                *)
Leave(c) == tail' = IF tail[key[c]] = c THEN [tail EXCEPT ![key[c]] = NoCall] ELSE tail

End(c, l) == Goto(c, l) /\ Leave(c)

(* Mutant: a call that fails does not release the next one.                *)
Released_OnSuccess(c) == pc[c] = "done"
(* Mutant: it is the beginning of the last call that is awaited.           *)
Released_Begun(c) == pc[c] \in Inside \cup Ended
Released(c) == pc[c] \in Ended

Enter(c) ==
  /\ pc[c] = "waiting"
  /\ prev[c] # NoCall => Released(prev[c])
  /\ IF tool[c] = "deliver" THEN Goto(c, "resolve") /\ UNCHANGED tail
     ELSE IF aborted THEN End(c, "failed")
     ELSE Goto(c, IF tool[c] = "write" THEN "mkdir" ELSE "access") /\ UNCHANGED tail
  /\ UNCHANGED <<real, files, tool, path, key, prev, buffer, aborted, shell>>

-----------------------------------------------------------------------------
(* The write and edit tools.  They look at the signal after every await.   *)

(* Any step of the file system may fail.                                   *)
StepFails(c) ==
  /\ pc[c] \in Inside \ {"unlink"}
  /\ End(c, "failed")
  /\ UNCHANGED <<real, files, tool, path, key, prev, buffer, aborted, shell>>

MkdirEnds(c) ==
  /\ pc[c] = "mkdir"
  /\ IF aborted THEN End(c, "failed") ELSE Goto(c, "opening") /\ UNCHANGED tail
  /\ UNCHANGED <<real, files, tool, path, key, prev, buffer, aborted, shell>>

AccessEnds(c) ==
  /\ pc[c] = "access"
  /\ IF ~exists[File(c)] \/ aborted THEN End(c, "failed") ELSE Goto(c, "read") /\ UNCHANGED tail
  /\ UNCHANGED <<real, files, tool, path, key, prev, buffer, aborted, shell>>

ReadEnds(c) ==
  /\ pc[c] = "read" /\ exists[File(c)]
  /\ buffer' = [buffer EXCEPT ![c] = content[File(c)]]
  /\ IF aborted THEN End(c, "failed") ELSE Goto(c, "opening") /\ UNCHANGED tail
  /\ UNCHANGED <<real, files, tool, path, key, prev, aborted, shell>>

Opened(c) ==
  /\ pc[c] = "opening"
  /\ Goto(c, "writing")
  /\ exists' = [exists EXCEPT ![File(c)] = TRUE]
  /\ content' = [content EXCEPT ![File(c)] = {}]
  /\ UNCHANGED <<real, tool, path, queue, buffer, aborted, shell>>

WriteEnds(c) ==
  /\ pc[c] = "writing"
  /\ content' = [content EXCEPT ![File(c)] = buffer[c] \cup {c}]
  /\ End(c, IF aborted THEN "failed" ELSE "done")
  /\ UNCHANGED <<real, exists, tool, path, key, prev, buffer, aborted, shell>>

-----------------------------------------------------------------------------
(* deliver_file                                                            *)

ResolveEnds(c) ==
  /\ pc[c] = "resolve"
  /\ IF exists[File(c)] THEN Goto(c, "stat") /\ UNCHANGED tail ELSE End(c, "failed")
  /\ UNCHANGED <<real, files, tool, path, key, prev, buffer, aborted, shell>>

StatEnds(c) ==
  /\ pc[c] = "stat"
  /\ IF exists[File(c)] /\ content[File(c)] # {} THEN Goto(c, "upload") /\ UNCHANGED tail ELSE End(c, "failed")
  /\ UNCHANGED <<real, files, tool, path, key, prev, buffer, aborted, shell>>

Uploaded(c) ==
  /\ pc[c] = "upload" /\ exists[File(c)]
  /\ buffer' = [buffer EXCEPT ![c] = content[File(c)]]
  /\ Goto(c, "message")
  /\ UNCHANGED <<real, files, tool, path, queue, aborted, shell>>

MessageSent(c) ==
  /\ pc[c] = "message"
  /\ Goto(c, "unlink")
  /\ UNCHANGED <<real, files, tool, path, queue, buffer, aborted, shell>>

(* The delivery has succeeded, whether or not the file can be deleted.     *)
Unlinked(c) ==
  /\ pc[c] = "unlink"
  /\ \/ /\ exists' = [exists EXCEPT ![File(c)] = FALSE]
        /\ content' = [content EXCEPT ![File(c)] = {}]
     \/ UNCHANGED files
  /\ End(c, "done")
  /\ UNCHANGED <<real, tool, path, key, prev, buffer, aborted, shell>>

-----------------------------------------------------------------------------
Abort ==
  /\ ~aborted /\ aborted' = TRUE
  /\ UNCHANGED <<real, files, tool, path, pc, queue, buffer, shell>>

(* A bash command of the same batch changes a file.                        *)
ShellWrites ==
  /\ shell < MaxShell /\ shell' = shell + 1
  /\ \E f \in Files :
       /\ exists' = [exists EXCEPT ![f] = TRUE]
       /\ content' = [content EXCEPT ![f] = @ \cup {MaxCalls + shell + 1}]
  /\ UNCHANGED <<real, tool, path, pc, queue, buffer, aborted>>

(* No further call will come.                                              *)
Quiet == (\A c \in Calls : pc[c] # "absent") /\ UNCHANGED vars

Step(c) ==
  \/ Register(c) \/ RegistrationFails(c)
  \/ Enter(c) \/ StepFails(c) \/ MkdirEnds(c) \/ AccessEnds(c) \/ ReadEnds(c) \/ Opened(c) \/ WriteEnds(c)
  \/ ResolveEnds(c) \/ StatEnds(c) \/ Uploaded(c) \/ MessageSent(c) \/ Unlinked(c)

Next ==
  \/ \E c \in Calls : Call(c) \/ Step(c)
  \/ Abort \/ ShellWrites
  \/ Quiet

Spec == Init /\ [][Next]_vars

(* The file system and the Feishu API answer, and promises are run.        *)
FairSpec == Spec /\ \A c \in Calls : WF_vars(Step(c))

-----------------------------------------------------------------------------
(* Properties.                                                             *)

(* Every variable has its type; a call waits for an earlier one only.      *)
TypeOK ==
  /\ real \in [Links -> Files]
  /\ exists \in [Files -> BOOLEAN]
  /\ content \in [Files -> SUBSET ({NoCall} \cup Calls \cup Shell)]
  /\ tool \in [Calls -> Tools \cup {"none"}] /\ path \in [Calls -> Paths]
  /\ pc \in [Calls -> {"absent", "registering", "waiting"} \cup Inside \cup Ended]
  /\ key \in [Calls -> Paths]
  /\ \A c \in Calls : prev[c] \in Nat /\ prev[c] < c
  /\ tail \in [Paths -> Calls \cup {NoCall}]
  /\ buffer \in [Calls -> SUBSET ({NoCall} \cup Calls \cup Shell)]
  /\ aborted \in BOOLEAN /\ shell \in 0..MaxShell

(* Each call so far was given the real path of its file, or found the file  *)
(* when it registered.  A link to nothing is its own key.                  *)
Resolved == \A c \in Calls : pc[c] \in {"waiting"} \cup Inside \cup Ended => key[c] \in Files

(* Operations on one file exclude one another, whatever path leads to it   *)
(* and whoever fails, is aborted or deletes the file.                      *)
OneCallPerFile ==
  Resolved => \A c, d \in Calls : pc[c] \in Inside /\ pc[d] \in Inside /\ File(c) = File(d) => c = d

(* They begin in the order of the calls, although each call awaits the real *)
(* path of its file before it has a place in the queue.                    *)
CallOrder ==
  Resolved => \A c, d \in Calls : c < d /\ File(c) = File(d) /\ pc[d] \in Inside => pc[c] \in Inside \cup Ended

(* The map of queues does not grow: an entry lasts as long as its calls.   *)
MapIsClean == \A p \in Paths : tail[p] # NoCall => pc[tail[p]] \notin Ended

(* No update by a tool call is lost: what an edit overwrites is what it    *)
(* has read, and what deliver_file deletes is what it has sent             *)
(* (2026-07-22-file-delivery-design.md:86).  Only bash, which has no part  *)
(* in the queue, can come between.                                         *)
NoUpdateLost ==
  [][Resolved => \A c \in Calls :
       (\/ tool[c] = "edit" /\ pc[c] = "opening" /\ pc'[c] = "writing"
        \/ pc[c] = "unlink" /\ pc'[c] = "done") =>
       content[File(c)] \ Shell = buffer[c] \ Shell]_vars

(* Every call ends: one that fails does not block those behind it.         *)
EveryCallEnds == \A c \in Calls : (pc[c] # "absent") ~> (pc[c] \in Ended)
=============================================================================
