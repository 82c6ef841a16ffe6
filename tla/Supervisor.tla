----------------------------- MODULE Supervisor -----------------------------
(***************************************************************************)
(* The server that keeps agent processes for its clients: the supervisor's *)
(* live instances, the records in instances.json, the child processes and  *)
(* the requests sent to them, the presence of each instance at Radius, and *)
(* the life of the server itself (recovery, service, shutdown, death).     *)
(*                                                                         *)
(* Every stretch of code between two awaits is one action.  spawnInstance, *)
(* two stopInstance calls (a client's and shutdown's), the exit handler of *)
(* the child, a re-registration at Radius and a client's request run       *)
(* concurrently on each instance.                                          *)
(***************************************************************************)
EXTENDS Naturals, FiniteSets, FiniteSetsExt

CONSTANTS
  Ids,          \* instance identifiers, numbered as they are handed out
  MaxEvents     \* bound: stops, requests, exits of a child, re-registrations,
                \* refused disconnects and deaths of the server, together

ASSUME SupervisorAssumption ==
  /\ Ids \subseteq Nat
  /\ MaxEvents \in Nat

VARIABLES
  radius,     \* Radius is enabled
  server,     \* "recovering", "up", "closing", "stuck", "exited", "down"
  live,       \* keys of liveInstances
  rec,        \* live.record of each instance; NoRecord before its spawn
  res,        \* live.resources: process, Radius Pi; and the bound listeners
  disk,       \* the records of instances.json
  child,      \* the child process of each instance
  spawning,   \* where spawnInstance stands
  closer,     \* cleanupAcquiredResources of a failed spawn, stop or shutdown
  exiting,    \* handleUnexpectedRpcExit awaits the disconnect
  renewal,    \* the copy of the record that is being registered again
  heart,      \* piHeartbeatStates
  call,       \* a client's request to the child
  todo,       \* instances shutdown has not come to
  snapshot,   \* what recoverAfterRestart has read
  events,     \* events so far
  late,       \* history, of this server process: registered at Radius while
              \* it was being ended
  hidden,     \* the same: left out of the records recovery wrote back
  refused     \* the same: not cleaned up, Radius refused the disconnect

vars == <<radius, server, live, rec, res, disk, child, spawning, closer,
          exiting, renewal, heart, call, todo, snapshot, events, late, hidden,
          refused>>
presence == <<exiting, renewal, heart>>
history  == <<late, hidden, refused>>
process  == <<radius, server, todo, snapshot>>

Closers  == {"spawn", "stop", "shutdown"}
NoRecord == [status |-> "none", pi |-> FALSE]
Nothing  == [proc |-> FALSE, pi |-> FALSE, bound |-> FALSE]
Free     == [at |-> "idle", proc |-> FALSE, asked |-> FALSE]

Init ==
  /\ radius \in BOOLEAN
  /\ server = "recovering"
  /\ live = {}
  /\ rec = [i \in Ids |-> NoRecord]
  /\ res = [i \in Ids |-> Nothing]
  /\ disk = [i \in Ids |-> NoRecord]
  /\ child = [i \in Ids |-> "none"]
  /\ spawning = [i \in Ids |-> "idle"]
  /\ closer = [w \in Closers |-> [i \in Ids |-> Free]]
  /\ exiting = [i \in Ids |-> FALSE]
  /\ renewal = [i \in Ids |-> NoRecord]
  /\ heart = [i \in Ids |-> FALSE]
  /\ call = [i \in Ids |-> "none"]
  /\ todo = {}
  /\ snapshot = [i \in Ids |-> NoRecord]
  /\ events = 0
  /\ late = {} /\ hidden = {} /\ refused = {}

Event ==
  /\ events < MaxEvents
  /\ events' = events + 1

-----------------------------------------------------------------------------
(* The socket is open before recovery, and recovery only awaits anything   *)
(* when a record it has read names a Pi.                                   *)
Awaits  == \E i \in Ids : snapshot[i].pi
Serving == server \in {"up", "closing"} \/ (server = "recovering" /\ Awaits)

(* setStatus: the record changes in memory and in the file.                *)
SetStatus(i, s) ==
  /\ rec' = [rec EXCEPT ![i].status = s]
  /\ disk' = [disk EXCEPT ![i] = [rec[i] EXCEPT !.status = s]]

(* Somebody is ending instance i, or has.                                  *)
Ending(i) ==
  i \notin live \/ exiting[i] \/ \E w \in Closers : closer[w][i].at # "idle"

-----------------------------------------------------------------------------
(* cleanupAcquiredResources                                                *)

(* spawnInstance w has given up; one that waits for get_state is rejected. *)
SpawnAfter(w, i, rejects) ==
  spawning' = [spawning EXCEPT ![i] =
                 IF w = "spawn" THEN "done"
                 ELSE IF @ = "syncing" /\ rejects THEN "rejected" ELSE @]

(* Mutant: dispose() waits for an exit it has not asked for.               *)
Dispose_NoKill(w, i, proc) ==
  /\ closer' = [closer EXCEPT ![w][i] = [at |-> "disposing", proc |-> proc, asked |-> FALSE]]
  /\ res' = [res EXCEPT ![i] = [proc |-> @.proc /\ ~proc, pi |-> FALSE, bound |-> FALSE]]
  /\ SpawnAfter(w, i, proc)
  /\ call' = IF proc THEN [call EXCEPT ![i] = "none"] ELSE call
  /\ child' = child

(* The rest after the disconnect: rpcProcess.dispose() rejects what waits  *)
(* for the child, sends SIGTERM and waits for the exit.                    *)
Dispose(w, i, proc) ==
  /\ closer' = [closer EXCEPT ![w][i] = [at |-> "disposing", proc |-> proc, asked |-> FALSE]]
  /\ res' = [res EXCEPT ![i] = [proc |-> @.proc /\ ~proc, pi |-> FALSE, bound |-> FALSE]]
  /\ SpawnAfter(w, i, proc)
  /\ call' = IF proc THEN [call EXCEPT ![i] = "none"] ELSE call
  /\ child' = IF proc /\ child[i] = "running"
                THEN [child EXCEPT ![i] = "terminating"] ELSE child

(* The disconnect asks Radius if the record names a Pi by now.             *)
Disconnecting(i) == [at |-> "disconnecting", proc |-> res[i].proc, asked |-> rec[i].pi]

(* Mutant: the heartbeat goes on.                                          *)
Close_KeepsHeartbeat(w, i) ==
  IF res[i].pi
    THEN /\ heart' = heart
         /\ closer' = [closer EXCEPT ![w][i] = Disconnecting(i)]
         /\ res' = [res EXCEPT ![i].bound = FALSE]
         /\ SpawnAfter(w, i, FALSE)
         /\ UNCHANGED <<child, call>>
    ELSE /\ Dispose(w, i, res[i].proc)
         /\ UNCHANGED heart

(* From the start to the first await.  disconnectPi stops the heartbeat at *)
(* once; the process is remembered in a local variable.                    *)
Close(w, i) ==
  IF res[i].pi
    THEN /\ heart' = [heart EXCEPT ![i] = FALSE]
         /\ closer' = [closer EXCEPT ![w][i] = Disconnecting(i)]
         /\ res' = [res EXCEPT ![i].bound = FALSE]
         /\ SpawnAfter(w, i, FALSE)
         /\ UNCHANGED <<child, call>>
    ELSE /\ Dispose(w, i, res[i].proc)
         /\ UNCHANGED heart

(* The finally of stopInstance (removeInstance) and of failSpawn.          *)
Finish(w, i) ==
  /\ closer' = [closer EXCEPT ![w][i] = Free]
  /\ live' = live \ {i}
  /\ rec' = [rec EXCEPT ![i].status = "stopped"]
  /\ disk' = [disk EXCEPT ![i] = IF w = "spawn" THEN rec'[i] ELSE NoRecord]

Disconnected(w, i) ==
  /\ Serving
  /\ closer[w][i].at = "disconnecting"
  /\ rec' = [rec EXCEPT ![i].pi = FALSE]
  /\ Dispose(w, i, closer[w][i].proc)
  /\ UNCHANGED <<process, history, presence, live, disk, events>>

(* The error skips dispose(); it ends a shutdown, whose rejected promise   *)
(* every unhandledRejection handler then awaits again.                     *)
DisconnectRefused(w, i) ==
  /\ Serving
  /\ closer[w][i].at = "disconnecting" /\ closer[w][i].asked
  /\ Event
  /\ Finish(w, i)
  /\ refused' = refused \cup {i}
  /\ server' = IF w = "shutdown" THEN "stuck" ELSE server
  /\ UNCHANGED <<radius, todo, snapshot, late, hidden, presence, res,
                 child, spawning, call>>

Disposed(w, i) ==
  /\ Serving
  /\ closer[w][i].at = "disposing"
  /\ closer[w][i].proc => child[i] = "exited"
  /\ Finish(w, i)
  /\ UNCHANGED <<process, history, presence, res, child, spawning, call, events>>

-----------------------------------------------------------------------------
(* spawnInstance                                                           *)

Spawn(i) ==
  /\ Serving
  /\ rec[i] = NoRecord
  /\ \A j \in Ids : j < i => rec[j] # NoRecord
  /\ live' = live \cup {i}
  /\ SetStatus(i, "starting")
  /\ child' = [child EXCEPT ![i] = "running"]
  /\ res' = [res EXCEPT ![i] = [proc |-> TRUE, pi |-> FALSE, bound |-> TRUE]]
  /\ spawning' = [spawning EXCEPT ![i] = "syncing"]
  /\ UNCHANGED <<process, history, presence, closer, call, events>>

(* get_state is answered; without Radius nothing else is awaited.          *)
SpawnSynced(i) ==
  /\ Serving
  /\ spawning[i] = "syncing" /\ child[i] = "running"
  /\ spawning' = [spawning EXCEPT ![i] = IF radius THEN "registering" ELSE "done"]
  /\ SetStatus(i, IF radius THEN rec[i].status ELSE "online")
  /\ UNCHANGED <<process, history, presence, live, res, child, closer, call, events>>

(* registerPi has returned; nothing asks whether the instance still lives. *)
SpawnRegistered(i) ==
  /\ Serving
  /\ spawning[i] = "registering"
  /\ spawning' = [spawning EXCEPT ![i] = "done"]
  /\ heart' = [heart EXCEPT ![i] = TRUE]
  /\ res' = [res EXCEPT ![i].pi = TRUE]
  /\ rec' = [rec EXCEPT ![i] = [status |-> "online", pi |-> TRUE]]
  /\ disk' = [disk EXCEPT ![i] = rec'[i]]
  /\ late' = IF Ending(i) THEN late \cup {i} ELSE late
  /\ UNCHANGED <<process, hidden, refused, exiting, renewal, live, child, closer,
                 call, events>>

(* failSpawn: the child is gone, or the registration failed.               *)
SpawnFails(i) ==
  /\ Serving
  /\ spawning[i] \in {"rejected", "registering"}
  /\ SetStatus(i, "error")
  /\ Close("spawn", i)
  /\ UNCHANGED <<process, history, exiting, renewal, live, events>>

-----------------------------------------------------------------------------
(* stopInstance, by a client                                               *)

StopInstance(w, i) ==
  /\ i \in live
  /\ closer[w][i] = Free
  /\ SetStatus(i, "stopping")
  /\ Close(w, i)

Stop(i) ==
  /\ Serving
  /\ Event
  /\ StopInstance("stop", i)
  /\ UNCHANGED <<process, history, exiting, renewal, live>>

-----------------------------------------------------------------------------
(* The child process                                                       *)

(* Mutant: the exit of the child leaves what waits for it waiting.         *)
Rejects_Nothing(i) ==
  /\ call' = call
  /\ spawning' = spawning

(* rejectAllPending at the exit.                                           *)
Rejects(i) ==
  /\ call' = [call EXCEPT ![i] = "none"]
  /\ spawning' = [spawning EXCEPT ![i] = IF @ = "syncing" THEN "rejected" ELSE @]

(* The child dies by itself; its exit listener, while bound, runs          *)
(* handleUnexpectedRpcExit, which deletes the instance or first awaits the *)
(* disconnect of its Pi.                                                   *)
UnexpectedExit(i) ==
  /\ Serving
  /\ Event
  /\ child[i] = "running"
  /\ child' = [child EXCEPT ![i] = "exited"]
  /\ Rejects(i)
  /\ IF res[i].bound /\ i \in live /\ rec[i].status \notin {"stopping", "stopped"}
       THEN /\ SetStatus(i, "error")
            /\ res' = [res EXCEPT ![i].proc = FALSE, ![i].bound = FALSE]
            /\ exiting' = [exiting EXCEPT ![i] = res[i].pi]
            /\ heart' = [heart EXCEPT ![i] = @ /\ ~res[i].pi]
            /\ live' = IF res[i].pi THEN live ELSE live \ {i}
       ELSE UNCHANGED <<rec, disk, res, exiting, heart, live>>
  /\ UNCHANGED <<process, history, renewal, closer>>

(* The disconnect is answered, or refused and logged; a live instance that *)
(* holds a Pi names it in its record, so Radius has been asked.            *)
ExitHandled(i) ==
  /\ Serving
  /\ exiting[i]
  /\ exiting' = [exiting EXCEPT ![i] = FALSE]
  /\ live' = live \ {i}
  /\ \/ /\ rec' = [rec EXCEPT ![i].pi = FALSE]
        /\ disk' = [disk EXCEPT ![i] = rec'[i]]
        /\ UNCHANGED events
     \/ /\ Event
        /\ UNCHANGED <<rec, disk>>
  /\ UNCHANGED <<process, history, renewal, heart, res, child, spawning, closer, call>>

(* The child obeys SIGTERM, or the end of its standard input.              *)
ChildTerminates(i) ==
  /\ child[i] = "terminating"
  /\ child' = [child EXCEPT ![i] = "exited"]
  /\ Rejects(i)
  /\ UNCHANGED <<process, history, presence, live, rec, res, disk, closer, events>>

(* A request of a client that names the instance or holds a stream to it,  *)
(* from this server: send() only refuses when the child has exited.        *)
HandleRpc(i) ==
  /\ Serving
  /\ Event
  /\ call[i] = "none" /\ spawning[i] # "idle"
  /\ child[i] \in {"running", "terminating"}
  /\ call' = [call EXCEPT ![i] = "waiting"]
  /\ UNCHANGED <<process, history, presence, live, rec, res, disk, child, spawning,
                 closer>>

(* The answer; after a command that may change the session, the record is  *)
(* refreshed, with another request if the process is still at hand.        *)
RpcAnswered(i) ==
  /\ Serving
  /\ call[i] \in {"waiting", "syncing"}
  /\ child[i] \in {"running", "terminating"}
  /\ \/ /\ call[i] = "waiting" /\ res[i].proc
        /\ call' = [call EXCEPT ![i] = "syncing"]
        /\ UNCHANGED disk
     \/ /\ call[i] = "syncing" \/ ~res[i].proc
        /\ call' = [call EXCEPT ![i] = "none"]
        /\ disk' = [disk EXCEPT ![i] = rec[i]]
     \/ /\ call[i] = "waiting"
        /\ call' = [call EXCEPT ![i] = "none"]
        /\ UNCHANGED disk
  /\ UNCHANGED <<process, history, presence, live, rec, res, child, spawning, closer,
                 events>>

-----------------------------------------------------------------------------
(* reRegisterPi: Radius has forgotten the Pi or the machine.               *)

ReRegister(i) ==
  /\ Serving
  /\ Event
  /\ radius
  /\ i \in live /\ renewal[i] = NoRecord
  /\ renewal' = [renewal EXCEPT ![i] = rec[i]]
  /\ UNCHANGED <<process, history, exiting, heart, live, rec, res, disk, child,
                 spawning, closer, call>>

(* The copy goes to updateInstance, whatever happened to the record since. *)
ReRegistered(i) ==
  /\ Serving
  /\ renewal[i] # NoRecord
  /\ renewal' = [renewal EXCEPT ![i] = NoRecord]
  /\ heart' = [heart EXCEPT ![i] = TRUE]
  /\ LET new == [renewal[i] EXCEPT !.pi = TRUE]
     IN /\ disk' = [disk EXCEPT ![i] = new]
        /\ IF i \in live
             THEN /\ rec' = [rec EXCEPT ![i] = new]
                  /\ res' = [res EXCEPT ![i].pi = TRUE]
             ELSE UNCHANGED <<rec, res>>
  /\ late' = IF Ending(i) THEN late \cup {i} ELSE late
  /\ UNCHANGED <<process, hidden, refused, exiting, live, child, spawning, closer,
                 call, events>>

-----------------------------------------------------------------------------
(* serve: recovery, shutdown, death of the server process                  *)

Recovered(r) ==
  IF r.status \in {"online", "starting"} THEN [r EXCEPT !.status = "stopped"] ELSE r

(* Mutant: recovery writes the records back as it has read them.           *)
RecoverEnds_Unchanged ==
  /\ server = "recovering"
  /\ server' = "up"
  /\ disk' = snapshot
  /\ hidden' = hidden \cup {i \in live : snapshot[i] = NoRecord}
  /\ snapshot' = [i \in Ids |-> NoRecord]
  /\ UNCHANGED <<radius, todo, late, refused, presence, live, rec,
                 res, child, spawning, closer, call, events>>

(* The records read before the disconnects are written back after them.    *)
RecoverEnds ==
  /\ server = "recovering"
  /\ server' = "up"
  /\ disk' = [i \in Ids |-> Recovered(snapshot[i])]
  /\ hidden' = hidden \cup {i \in live : snapshot[i] = NoRecord}
  /\ snapshot' = [i \in Ids |-> NoRecord]
  /\ UNCHANGED <<radius, todo, late, refused, presence, live, rec,
                 res, child, spawning, closer, call, events>>

(* A signal, or an error nobody catches: a child's line that is not JSON,  *)
(* a write to a child that has just died.                                  *)
ShutdownBegins ==
  /\ server = "up"
  /\ server' = "closing"
  /\ todo' = live
  /\ UNCHANGED <<radius, snapshot, history, presence, live, rec, res, disk,
                 child, spawning, closer, call, events>>

ShutdownStops == \E i \in Ids : closer["shutdown"][i] # Free

ShutdownNext ==
  /\ server = "closing" /\ ~ShutdownStops
  /\ todo # {}
  /\ LET i == Min(todo)
     IN /\ todo' = todo \ {i}
        /\ IF i \in live
             THEN StopInstance("shutdown", i)
             ELSE UNCHANGED <<rec, res, disk, child, spawning, closer, call, heart>>
  /\ UNCHANGED <<radius, server, snapshot, history, exiting, renewal, live,
                 events>>

(* The process is gone, and with it all but the file and the children,     *)
(* whose standard input ends.                                              *)
ProcessEnds ==
  /\ live' = {}
  /\ rec' = [i \in Ids |-> IF rec[i] = NoRecord THEN NoRecord
                           ELSE [status |-> "stopped", pi |-> FALSE]]
  /\ res' = [i \in Ids |-> Nothing]
  /\ child' = [i \in Ids |-> IF child[i] = "running" THEN "terminating" ELSE child[i]]
  /\ spawning' = [i \in Ids |-> "idle"]
  /\ closer' = [w \in Closers |-> [i \in Ids |-> Free]]
  /\ exiting' = [i \in Ids |-> FALSE]
  /\ renewal' = [i \in Ids |-> NoRecord]
  /\ heart' = [i \in Ids |-> FALSE]
  /\ call' = [i \in Ids |-> "none"]
  /\ todo' = {}
  /\ snapshot' = [i \in Ids |-> NoRecord]
  /\ late' = {} /\ hidden' = {} /\ refused' = {}
  /\ UNCHANGED <<radius, disk>>

(* radiusPresence.stop(), the last step; its error ends like a refusal.    *)
RadiusStops ==
  /\ server = "closing" /\ ~ShutdownStops
  /\ todo = {}
  /\ \/ /\ server' = "exited"
        /\ ProcessEnds
        /\ UNCHANGED events
     \/ /\ radius
        /\ Event
        /\ server' = "stuck"
        /\ UNCHANGED <<radius, todo, snapshot, history, presence, live, rec,
                       res, disk, child, spawning, closer, call>>

(* Killed, or recovery failed: a refused disconnect there ends the server. *)
Crash ==
  /\ server \in {"recovering", "up", "closing", "stuck"}
  /\ Event
  /\ server' = "down"
  /\ ProcessEnds

Restart ==
  /\ server \in {"exited", "down"}
  /\ server' = "recovering"
  /\ snapshot' = disk
  /\ UNCHANGED <<radius, todo, history, presence, live, rec, res, disk, child,
                 spawning, closer, call, events>>

-----------------------------------------------------------------------------
Instance(i) ==
  \/ Spawn(i) \/ SpawnSynced(i) \/ SpawnRegistered(i) \/ SpawnFails(i)
  \/ Stop(i)
  \/ \E w \in Closers : Disconnected(w, i) \/ DisconnectRefused(w, i) \/ Disposed(w, i)
  \/ UnexpectedExit(i) \/ ExitHandled(i) \/ ChildTerminates(i)
  \/ HandleRpc(i) \/ RpcAnswered(i)
  \/ ReRegister(i) \/ ReRegistered(i)

Next ==
  \/ \E i \in Ids : Instance(i)
  \/ RecoverEnds \/ ShutdownBegins \/ ShutdownNext \/ RadiusStops
  \/ Crash \/ Restart

Spec == Init /\ [][Next]_vars

(* Children answer, obey SIGTERM, and Radius answers something; the server *)
(* goes on with what it awaits.  Nothing forces clients, deaths, refusals. *)
Fairness ==
  /\ WF_vars(RecoverEnds) /\ WF_vars(ShutdownNext) /\ WF_vars(RadiusStops)
  /\ \A i \in Ids :
       /\ WF_vars(ChildTerminates(i)) /\ WF_vars(RpcAnswered(i))
       /\ WF_vars(SpawnSynced(i)) /\ WF_vars(SpawnRegistered(i) \/ SpawnFails(i))
       /\ WF_vars(ExitHandled(i)) /\ WF_vars(ReRegistered(i))
       /\ \A w \in Closers : WF_vars(Disconnected(w, i)) /\ WF_vars(Disposed(w, i))

FairSpec == Spec /\ Fairness

-----------------------------------------------------------------------------
Records == [status : {"none", "starting", "online", "stopping", "stopped", "error"},
            pi : BOOLEAN]

(* Every variable has the shape the code gives it.                         *)
TypeOK ==
  /\ radius \in BOOLEAN
  /\ server \in {"recovering", "up", "closing", "stuck", "exited", "down"}
  /\ live \subseteq Ids
  /\ rec \in [Ids -> Records] /\ disk \in [Ids -> Records]
  /\ renewal \in [Ids -> Records] /\ snapshot \in [Ids -> Records]
  /\ res \in [Ids -> [proc : BOOLEAN, pi : BOOLEAN, bound : BOOLEAN]]
  /\ child \in [Ids -> {"none", "running", "terminating", "exited"}]
  /\ spawning \in [Ids -> {"idle", "syncing", "registering", "rejected", "done"}]
  /\ closer \in [Closers ->
       [Ids -> [at : {"idle", "disconnecting", "disposing"}, proc : BOOLEAN,
               asked : BOOLEAN]]]
  /\ exiting \in [Ids -> BOOLEAN] /\ heart \in [Ids -> BOOLEAN]
  /\ call \in [Ids -> {"none", "waiting", "syncing"}]
  /\ todo \subseteq Ids
  /\ events \in 0..MaxEvents
  /\ late \subseteq Ids /\ hidden \subseteq Ids /\ refused \subseteq Ids

(* What a client may read in the file, at any moment it is served: a record *)
(* that says starting or online is that of a live instance whose process   *)
(* runs, or, during recovery, one the last server left, which recovery     *)
(* will mark as stopped; and a live instance has a record.  Whatever the   *)
(* file was left with, by a death or a race, does not outlive recovery.    *)
(* Two races of the code do make the file lie as long as this server       *)
(* lives, and are excepted: Radius answering a registration after the end  *)
(* has begun, and recovery writing back an older list.                     *)
RecordsAreTrue ==
  Serving =>
    \A i \in Ids :
      /\ disk[i].status \in {"starting", "online"} =>
           \/ i \in live /\ child[i] = "running"
           \/ server = "recovering" /\ disk[i] = snapshot[i]
           \/ radius /\ i \in late
      /\ i \in live => disk[i] # NoRecord \/ i \in hidden

(* As long as the server serves, somebody answers for every running child: *)
(* its live instance, or the cleanup that is about to kill it.  Only a     *)
(* disconnect refused by Radius leaves a child to nobody.                  *)
NoOrphanProcess ==
  Serving =>
    \A i \in Ids : child[i] = "running" =>
      \/ i \in live /\ res[i].proc
      \/ \E w \in Closers : closer[w][i].at = "disconnecting" /\ closer[w][i].proc
      \/ i \in refused

(* Radius is told of an instance only while its process is at hand, unless *)
(* the registration was answered after the end had begun.                  *)
HeartbeatsAreLive ==
  \A i \in Ids : heart[i] => (i \in live /\ res[i].proc) \/ i \in late

(* Whatever happens to the child and the server, a client that waits for   *)
(* an answer of the child or for a stop is not left waiting; a server that *)
(* is stuck answers nobody.                                                *)
EveryRequestReturns ==
  \A i \in Ids :
    /\ call[i] # "none" ~> call[i] = "none" \/ server = "stuck"
    /\ closer["stop"][i] # Free ~> closer["stop"][i] = Free \/ server = "stuck"

(* A shutdown does not wait for ever, whatever spawns, stops and exits it  *)
(* meets: it ends with the process, or is stuck on an error of Radius.     *)
ShutdownEnds ==
  server = "closing" ~> server # "closing"

(* serve.ts: a signal or fatal error triggers shutdown, and the process    *)
(* ends.                                                                   *)
ShutdownExits ==
  server = "closing" ~> server \in {"exited", "down"}
=============================================================================
