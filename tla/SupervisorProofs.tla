-------------------------- MODULE SupervisorProofs --------------------------
(***************************************************************************)
(* The supervisor's instances, for any number of them and of events: no    *)
(* child process is left to nobody, and Radius hears of an instance only   *)
(* while its process is at hand.                                           *)
(***************************************************************************)
EXTENDS Supervisor, TLAPS

-----------------------------------------------------------------------------
(* Types                                                                   *)

Statuses  == {"none", "starting", "online", "stopping", "stopped", "error"}
Slots     == [at : {"idle", "disconnecting", "disposing"}, proc : BOOLEAN, asked : BOOLEAN]
Resources == [proc : BOOLEAN, pi : BOOLEAN, bound : BOOLEAN]

(* A record stays one when a field is set.                                 *)
LEMMA FieldSet ==
  /\ \A r \in Records, s \in Statuses : [r EXCEPT !.status = s] \in Records
  /\ \A r \in Records : [r EXCEPT !.pi = TRUE] \in Records /\ [r EXCEPT !.pi = FALSE] \in Records
  /\ NoRecord \in Records
<1>1. ASSUME NEW r \in Records, NEW s \in Statuses PROVE [r EXCEPT !.status = s] \in Records
  BY DEF Records, Statuses
<1>2. ASSUME NEW r \in Records, NEW b \in BOOLEAN PROVE [r EXCEPT !.pi = b] \in Records
  BY DEF Records
<1>3. NoRecord \in Records
  BY DEF NoRecord, Records
<1> QED BY <1>1, <1>2, <1>3

(* A record stays one when its status is set.                               *)
LEMMA StatusSet ==
  ASSUME NEW f \in [Ids -> Records], NEW i \in Ids, NEW s \in Statuses
  PROVE  [f EXCEPT ![i].status = s] \in [Ids -> Records]
BY FieldSet

(* The progress of a closer may be set to any slot.                         *)
LEMMA SlotSet ==
  ASSUME NEW f \in [Closers -> [Ids -> Slots]], NEW i \in Ids, NEW w \in Closers, NEW x \in Slots
  PROVE  [f EXCEPT ![w][i] = x] \in [Closers -> [Ids -> Slots]]
OBVIOUS

(* What an instance holds keeps its type when parts of it are released.     *)
LEMMA ResourceSet ==
  ASSUME NEW f \in [Ids -> Resources], NEW i \in Ids
  PROVE  /\ [f EXCEPT ![i].bound = FALSE] \in [Ids -> Resources]
         /\ [f EXCEPT ![i].proc = FALSE, ![i].bound = FALSE] \in [Ids -> Resources]
         /\ [f EXCEPT ![i].pi = TRUE] \in [Ids -> Resources]
         /\ \A p \in BOOLEAN :
              [f EXCEPT ![i] = [proc |-> @.proc /\ ~p, pi |-> FALSE, bound |-> FALSE]] \in [Ids -> Resources]
<1>1. [f EXCEPT ![i].bound = FALSE] \in [Ids -> Resources]
  BY DEF Resources
<1>2. [f EXCEPT ![i].proc = FALSE, ![i].bound = FALSE] \in [Ids -> Resources]
  BY DEF Resources
<1>3. [f EXCEPT ![i].pi = TRUE] \in [Ids -> Resources]
  BY DEF Resources
<1>4. ASSUME NEW p \in BOOLEAN
      PROVE  [f EXCEPT ![i] = [proc |-> @.proc /\ ~p, pi |-> FALSE, bound |-> FALSE]] \in [Ids -> Resources]
  BY DEF Resources
<1> QED BY <1>1, <1>2, <1>3, <1>4

(* The parts of TypeOK, one per variable that a record or function fills.  *)
Shape ==
  /\ live \subseteq Ids
  /\ rec \in [Ids -> Records] /\ disk \in [Ids -> Records]
  /\ renewal \in [Ids -> Records] /\ snapshot \in [Ids -> Records]
  /\ res \in [Ids -> Resources]
  /\ child \in [Ids -> {"none", "running", "terminating", "exited"}]
  /\ spawning \in [Ids -> {"idle", "syncing", "registering", "rejected", "done"}]
  /\ closer \in [Closers -> [Ids -> Slots]]
  /\ exiting \in [Ids -> BOOLEAN] /\ heart \in [Ids -> BOOLEAN]
  /\ call \in [Ids -> {"none", "waiting", "syncing"}]

Rest ==
  /\ radius \in BOOLEAN
  /\ server \in {"recovering", "up", "closing", "stuck", "exited", "down"}
  /\ todo \subseteq Ids
  /\ events \in 0..MaxEvents
  /\ late \subseteq Ids /\ hidden \subseteq Ids /\ refused \subseteq Ids

(* setStatus keeps the types.                                               *)
LEMMA SetStatusType ==
  ASSUME Shape, NEW i \in Ids, NEW s \in Statuses, SetStatus(i, s)
  PROVE  rec' \in [Ids -> Records] /\ disk' \in [Ids -> Records]
<1>1. rec \in [Ids -> Records] /\ disk \in [Ids -> Records]
  BY DEF Shape
<1> QED BY <1>1, FieldSet, StatusSet DEF SetStatus

Closed ==
  /\ closer \in [Closers -> [Ids -> Slots]]
  /\ res \in [Ids -> Resources]
  /\ spawning \in [Ids -> {"idle", "syncing", "registering", "rejected", "done"}]
  /\ call \in [Ids -> {"none", "waiting", "syncing"}]
  /\ child \in [Ids -> {"none", "running", "terminating", "exited"}]

(* So does what follows a spawn, once its answer is out.                    *)
LEMMA SpawnAfterType ==
  ASSUME Shape, NEW w \in Closers, NEW i \in Ids, NEW rejects \in BOOLEAN, SpawnAfter(w, i, rejects)
  PROVE  spawning' \in [Ids -> {"idle", "syncing", "registering", "rejected", "done"}]
BY DEF SpawnAfter, Shape

(* dispose() keeps the types, whether or not there is a child.              *)
LEMMA DisposeType ==
  ASSUME Shape, NEW w \in Closers, NEW i \in Ids, NEW proc \in BOOLEAN, Dispose(w, i, proc)
  PROVE  Closed'
<1>1. [at |-> "disposing", proc |-> proc, asked |-> FALSE] \in Slots
  BY DEF Slots
<1>2. closer' \in [Closers -> [Ids -> Slots]]
  BY <1>1, SlotSet DEF Dispose, Shape
<1>3. res' \in [Ids -> Resources]
  BY ResourceSet DEF Dispose, Shape
<1> QED BY <1>2, <1>3 DEF Dispose, SpawnAfter, Shape, Closed

(* cleanupAcquiredResources keeps the types.                                *)
LEMMA CloseType ==
  ASSUME Shape, NEW w \in Closers, NEW i \in Ids, Close(w, i)
  PROVE  Closed' /\ heart' \in [Ids -> BOOLEAN]
<1>1. res[i].proc \in BOOLEAN /\ rec[i].pi \in BOOLEAN
  BY DEF Shape, Resources, Records
<1>2. CASE res[i].pi
  <2>1. Disconnecting(i) \in Slots
    BY <1>1 DEF Slots, Disconnecting
  <2>2. [closer EXCEPT ![w][i] = Disconnecting(i)] \in [Closers -> [Ids -> Slots]]
    BY <2>1, SlotSet DEF Shape
  <2>3. [res EXCEPT ![i].bound = FALSE] \in [Ids -> Resources]
    BY ResourceSet DEF Shape
  <2>4. closer' \in [Closers -> [Ids -> Slots]] /\ res' \in [Ids -> Resources]
    BY <1>2, <2>2, <2>3 DEF Close
  <2>5. spawning' \in [Ids -> {"idle", "syncing", "registering", "rejected", "done"}]
    BY <1>2, SpawnAfterType DEF Close
  <2>6. /\ heart' \in [Ids -> BOOLEAN]
        /\ call' \in [Ids -> {"none", "waiting", "syncing"}]
        /\ child' \in [Ids -> {"none", "running", "terminating", "exited"}]
    BY <1>2 DEF Close, Shape
  <2> QED BY <2>4, <2>5, <2>6 DEF Closed
<1>3. CASE ~res[i].pi
  BY <1>1, <1>3, DisposeType DEF Close, Shape
<1> QED BY <1>2, <1>3

(* The end of stopInstance keeps the types.                                 *)
LEMMA FinishType ==
  ASSUME Shape, NEW w \in Closers, NEW i \in Ids, Finish(w, i)
  PROVE  /\ closer' \in [Closers -> [Ids -> Slots]]
         /\ live' \subseteq Ids
         /\ rec' \in [Ids -> Records] /\ disk' \in [Ids -> Records]
<1>1. Free \in Slots /\ "stopped" \in Statuses
  BY DEF Free, Slots, Statuses
<1>2. closer' \in [Closers -> [Ids -> Slots]]
  BY <1>1, SlotSet DEF Finish, Shape
<1>3. rec' \in [Ids -> Records]
  BY <1>1, StatusSet DEF Finish, Shape
<1> QED BY <1>2, <1>3, FieldSet DEF Finish, Shape

(* The end of the server process keeps the types.                           *)
LEMMA ProcessEndsType == ASSUME Shape, ProcessEnds PROVE Shape'
<1>1. Nothing \in Resources /\ Free \in Slots /\ [status |-> "stopped", pi |-> FALSE] \in Records
  BY DEF Nothing, Resources, Free, Slots, Records
<1>2. rec' \in [Ids -> Records]
  BY <1>1, FieldSet DEF ProcessEnds
<1>3. disk' = disk /\ disk \in [Ids -> Records]
  BY DEF ProcessEnds, Shape
<1> QED BY <1>1, <1>2, <1>3, FieldSet DEF ProcessEnds, Shape

(* The begin of stopInstance keeps the types.                               *)
LEMMA StopType ==
  ASSUME Shape, NEW w \in Closers, NEW i \in Ids, StopInstance(w, i),
         UNCHANGED <<snapshot, exiting, renewal, live>>
  PROVE  Shape'
<1>1. "stopping" \in Statuses
  BY DEF Statuses
<1> QED BY <1>1, SetStatusType, CloseType DEF StopInstance, Shape, Closed

(* Every step keeps the types of what an instance consists of.              *)
LEMMA NextShape == ASSUME Shape, [Next]_vars PROVE Shape'
<1>s. {"starting", "online", "stopping", "stopped", "error"} \subseteq Statuses
  BY DEF Statuses
<1>c. {"spawn", "stop", "shutdown"} \subseteq Closers
  BY DEF Closers
<1>1. ASSUME NEW i \in Ids, Spawn(i) PROVE Shape'
  <2>1. res' \in [Ids -> Resources]
    BY <1>1 DEF Spawn, Shape, Resources
  <2> QED BY <1>1, <1>s, <2>1, SetStatusType DEF Spawn, Shape, process, presence
<1>2. ASSUME NEW i \in Ids, SpawnSynced(i) PROVE Shape'
  <2>1. rec[i].status \in Statuses
    BY DEF Shape, Records, Statuses
  <2>2. rec' \in [Ids -> Records] /\ disk' \in [Ids -> Records]
    BY <1>2, <1>s, <2>1, SetStatusType DEF SpawnSynced
  <2> QED BY <1>2, <2>2 DEF SpawnSynced, Shape, process, presence
<1>3. ASSUME NEW i \in Ids, SpawnRegistered(i) PROVE Shape'
  <2>1. [status |-> "online", pi |-> TRUE] \in Records
    BY DEF Records
  <2>2. res' \in [Ids -> Resources]
    BY <1>3, ResourceSet DEF SpawnRegistered, Shape
  <2> QED BY <1>3, <2>1, <2>2 DEF SpawnRegistered, Shape, process
<1>4. ASSUME NEW i \in Ids, SpawnFails(i) PROVE Shape'
  BY <1>4, <1>s, <1>c, SetStatusType, CloseType DEF SpawnFails, Shape, Closed, process
<1>5. ASSUME NEW i \in Ids, Stop(i) PROVE Shape'
  BY <1>5, <1>c, StopType DEF Stop, process
<1>6. ASSUME NEW i \in Ids, NEW w \in Closers, Disconnected(w, i) PROVE Shape'
  <2>1. closer[w][i].proc \in BOOLEAN
    BY DEF Shape, Slots
  <2>2. rec' \in [Ids -> Records]
    BY <1>6, FieldSet DEF Disconnected, Shape
  <2> QED BY <1>6, <2>1, <2>2, DisposeType DEF Disconnected, Shape, Closed, process, presence
<1>7. ASSUME NEW i \in Ids, NEW w \in Closers, DisconnectRefused(w, i) PROVE Shape'
  BY <1>7, FinishType DEF DisconnectRefused, Shape, presence
<1>8. ASSUME NEW i \in Ids, NEW w \in Closers, Disposed(w, i) PROVE Shape'
  BY <1>8, FinishType DEF Disposed, Shape, process, presence
<1>9. ASSUME NEW i \in Ids, UnexpectedExit(i) PROVE Shape'
  <2>1. rec' \in [Ids -> Records] /\ disk' \in [Ids -> Records]
    BY <1>9, <1>s, SetStatusType DEF UnexpectedExit, Shape
  <2>0. /\ res \in [Ids -> Resources]
        /\ [res EXCEPT ![i].proc = FALSE, ![i].bound = FALSE] \in [Ids -> Resources]
    BY ResourceSet DEF Shape
  <2>2. res' \in [Ids -> Resources]
    BY <1>9, <2>0 DEF UnexpectedExit
  <2>3. res[i].pi \in BOOLEAN
    BY DEF Shape, Resources
  <2>4. exiting' \in [Ids -> BOOLEAN] /\ heart' \in [Ids -> BOOLEAN] /\ live' \subseteq Ids
    BY <1>9, <2>3 DEF UnexpectedExit, Shape
  <2>5. snapshot' = snapshot /\ renewal' = renewal /\ closer' = closer
    BY <1>9 DEF UnexpectedExit, process
  <2>6. /\ child' \in [Ids -> {"none", "running", "terminating", "exited"}]
        /\ spawning' \in [Ids -> {"idle", "syncing", "registering", "rejected", "done"}]
        /\ call' \in [Ids -> {"none", "waiting", "syncing"}]
    BY <1>9 DEF UnexpectedExit, Rejects, Shape
  <2> QED BY <2>1, <2>2, <2>4, <2>5, <2>6 DEF Shape
<1>10. ASSUME NEW i \in Ids, ExitHandled(i) PROVE Shape'
  <2>0. /\ rec \in [Ids -> Records] /\ disk \in [Ids -> Records]
        /\ [rec EXCEPT ![i].pi = FALSE] \in [Ids -> Records]
    BY FieldSet DEF Shape
  <2>1. rec' \in [Ids -> Records] /\ disk' \in [Ids -> Records]
    BY <1>10, <2>0 DEF ExitHandled
  <2> QED BY <1>10, <2>1 DEF ExitHandled, Shape, process
<1>11. ASSUME NEW i \in Ids, ChildTerminates(i) PROVE Shape'
  BY <1>11 DEF ChildTerminates, Rejects, Shape, process, presence
<1>12. ASSUME NEW i \in Ids, HandleRpc(i) PROVE Shape'
  BY <1>12 DEF HandleRpc, Shape, process, presence
<1>13. ASSUME NEW i \in Ids, RpcAnswered(i) PROVE Shape'
  BY <1>13 DEF RpcAnswered, Shape, process, presence
<1>14. ASSUME NEW i \in Ids, ReRegister(i) PROVE Shape'
  BY <1>14 DEF ReRegister, Shape, process
<1>15. ASSUME NEW i \in Ids, ReRegistered(i) PROVE Shape'
  <2>1. [renewal[i] EXCEPT !.pi = TRUE] \in Records
    BY FieldSet DEF Shape
  <2>0. res \in [Ids -> Resources] /\ [res EXCEPT ![i].pi = TRUE] \in [Ids -> Resources]
    BY ResourceSet DEF Shape
  <2>2. res' \in [Ids -> Resources]
    BY <1>15, <2>0 DEF ReRegistered
  <2>3. /\ rec' \in [Ids -> Records] /\ disk' \in [Ids -> Records]
        /\ renewal' \in [Ids -> Records] /\ heart' \in [Ids -> BOOLEAN]
    BY <1>15, <2>1, FieldSet DEF ReRegistered, Shape
  <2> QED BY <1>15, <2>2, <2>3 DEF ReRegistered, Shape, process
<1>16. ASSUME RecoverEnds PROVE Shape'
  <2>1. \A i \in Ids : Recovered(snapshot[i]) \in Records
    BY <1>s, FieldSet DEF Recovered, Shape
  <2> QED BY <1>16, <2>1, FieldSet DEF RecoverEnds, Shape, presence
<1>17. ASSUME ShutdownBegins PROVE Shape'
  BY <1>17 DEF ShutdownBegins, Shape, presence
<1>18. ASSUME ShutdownNext PROVE Shape'
  <2>1. CASE Min(todo) \in live
    <3>1. Min(todo) \in Ids
      BY <2>1 DEF Shape
    <3> QED BY <1>18, <1>c, <2>1, <3>1, StopType DEF ShutdownNext
  <2>2. CASE Min(todo) \notin live
    BY <1>18, <2>2 DEF ShutdownNext, Shape
  <2> QED BY <2>1, <2>2
<1>20. ASSUME RadiusStops PROVE Shape'
  BY <1>20, ProcessEndsType DEF RadiusStops, Shape, presence
<1>21. ASSUME Crash PROVE Shape'
  BY <1>21, ProcessEndsType DEF Crash
<1>22. ASSUME Restart PROVE Shape'
  BY <1>22 DEF Restart, Shape, presence
<1>23. ASSUME UNCHANGED vars PROVE Shape'
  BY <1>23 DEF vars, Shape, process, presence
<1>24. ASSUME NEW i \in Ids, Instance(i) PROVE Shape'
  BY <1>24, <1>1, <1>2, <1>3, <1>4, <1>5, <1>6, <1>7, <1>8, <1>9, <1>10, <1>11, <1>12, <1>13,
     <1>14, <1>15 DEF Instance
<1> QED
  BY <1>16, <1>17, <1>18, <1>20, <1>21, <1>22, <1>23, <1>24 DEF Next

(* Every step keeps the types of the server as a whole.                     *)
LEMMA NextRest == ASSUME Shape, Rest, [Next]_vars PROVE Rest'
<1>e. Event => events' \in 0..MaxEvents
  BY SupervisorAssumption DEF Event, Rest
<1>1. ASSUME NEW i \in Ids, Instance(i) PROVE Rest'
  <2>1. UNCHANGED <<radius, todo>> /\ server' \in {server, "stuck"}
    BY <1>1 DEF Instance, Spawn, SpawnSynced, SpawnRegistered, SpawnFails, Stop, Disconnected,
                DisconnectRefused, Disposed, UnexpectedExit, ExitHandled, ChildTerminates, HandleRpc,
                RpcAnswered, ReRegister, ReRegistered, process
  <2>2. late' \in {late, late \cup {i}} /\ hidden' = hidden /\ refused' \in {refused, refused \cup {i}}
    BY <1>1 DEF Instance, Spawn, SpawnSynced, SpawnRegistered, SpawnFails, Stop, Disconnected,
                DisconnectRefused, Disposed, UnexpectedExit, ExitHandled, ChildTerminates, HandleRpc,
                RpcAnswered, ReRegister, ReRegistered, history
  <2>3. events' = events \/ Event
    BY <1>1 DEF Instance, Spawn, SpawnSynced, SpawnRegistered, SpawnFails, Stop, Disconnected,
                DisconnectRefused, Disposed, UnexpectedExit, ExitHandled, ChildTerminates, HandleRpc,
                RpcAnswered, ReRegister, ReRegistered
  <2> QED BY <1>e, <2>1, <2>2, <2>3 DEF Rest
<1>2. CASE RecoverEnds
  BY <1>2 DEF RecoverEnds, Rest, Shape
<1>3. CASE ShutdownBegins
  BY <1>3 DEF ShutdownBegins, Rest, Shape, history
<1>4. CASE ShutdownNext
  BY <1>4 DEF ShutdownNext, Rest, history
<1>5. CASE RadiusStops
  BY <1>e, <1>5 DEF RadiusStops, ProcessEnds, Rest, history
<1>6. CASE Crash
  BY <1>e, <1>6 DEF Crash, ProcessEnds, Rest, history
<1>7. CASE Restart
  BY <1>7 DEF Restart, Rest, history
<1>8. CASE UNCHANGED vars
  BY <1>8 DEF vars, Rest, process, history
<1> QED BY <1>1, <1>2, <1>3, <1>4, <1>5, <1>6, <1>7, <1>8 DEF Next

(* The initial state has the types.                                         *)
LEMMA InitType == Init => Shape /\ Rest
<1> SUFFICES ASSUME Init PROVE Shape /\ Rest
  OBVIOUS
<1>1. Nothing \in Resources /\ Free \in Slots
  BY DEF Nothing, Resources, Free, Slots
<1>2. Shape
  BY <1>1, FieldSet DEF Init, Shape
<1>3. Rest
  BY SupervisorAssumption DEF Init, Rest
<1> QED BY <1>2, <1>3

(* TypeOK: every variable has the shape the code gives it.                 *)
THEOREM TypeCorrect == Spec => []TypeOK
<1>1. Shape /\ Rest => TypeOK
  BY DEF Shape, Rest, TypeOK, Resources, Slots
<1> QED BY <1>1, InitType, NextShape, NextRest, PTL DEF Spec

-----------------------------------------------------------------------------
(* The invariant, instance by instance.                                    *)

NoCloser(i) == \A w \in Closers : closer[w][i].at = "idle"

(* A heartbeat belongs to an instance that is at hand and that nobody      *)
(* ends; such an instance has its process.                                 *)
HeartInv(i) ==
  /\ heart[i] => \/ i \in late
                 \/ i \in live /\ res[i].proc /\ res[i].pi /\ ~exiting[i] /\ NoCloser(i)
  /\ i \in live /\ ~exiting[i] /\ NoCloser(i) => res[i].proc

(* The process of a running child is in the hands of the instance or of a  *)
(* cleanup that has yet to dispose of it.                                  *)
ChildInv(i) ==
  child[i] = "running" =>
    \/ i \in live /\ res[i].proc
    \/ \E w \in Closers : closer[w][i].at = "disconnecting" /\ closer[w][i].proc
    \/ i \in refused

(* A cleanup under way belongs to an instance that was spawned, and the    *)
(* process it does not hold itself is nobody's.                            *)
CloserInv(i) ==
  /\ \A w \in Closers :
       /\ closer[w][i].at # "idle" => rec[i].status # "none"
       /\ closer[w][i].at = "disposing" => ~res[i].proc
       /\ closer[w][i].at = "disconnecting" /\ ~closer[w][i].proc => ~res[i].proc
  /\ closer["spawn"][i].at # "idle" => spawning[i] = "done"

(* Whatever is live, renewed or ended has had a record.                    *)
RecordInv(i) ==
  /\ i \in live => rec[i].status # "none"
  /\ renewal[i] # NoRecord => renewal[i].status # "none"
  /\ exiting[i] => rec[i].status # "none" /\ child[i] # "running"

InstanceInv(i) == HeartInv(i) /\ ChildInv(i) /\ CloserInv(i) /\ RecordInv(i)

IInv == Shape /\ \A i \in Ids : InstanceInv(i)

(* What instance j sees of a step on another one.                          *)
Untouched(j) ==
  /\ (j \in live') = (j \in live) /\ (j \in late') = (j \in late) /\ (j \in refused') = (j \in refused)
  /\ rec'[j] = rec[j] /\ res'[j] = res[j] /\ child'[j] = child[j] /\ spawning'[j] = spawning[j]
  /\ exiting'[j] = exiting[j] /\ renewal'[j] = renewal[j] /\ heart'[j] = heart[j]
  /\ \A w \in Closers : closer'[w][j] = closer[w][j]

(* An instance that a step leaves alone keeps its invariant.                *)
LEMMA UntouchedInv ==
  ASSUME NEW j \in Ids, InstanceInv(j), Untouched(j)
  PROVE  InstanceInv(j)'
<1>1. "spawn" \in Closers
  BY DEF Closers
<1>2. HeartInv(j)'
  BY DEF InstanceInv, HeartInv, NoCloser, Untouched
<1>3. ChildInv(j)'
  BY DEF InstanceInv, ChildInv, Untouched
<1>4. CloserInv(j)'
  BY <1>1 DEF InstanceInv, CloserInv, Untouched
<1>5. RecordInv(j)'
  BY DEF InstanceInv, RecordInv, Untouched
<1> QED BY <1>2, <1>3, <1>4, <1>5 DEF InstanceInv

(* What cleanupAcquiredResources does up to an await.                      *)
Others(w, i) ==
  /\ \A v \in Closers, j \in Ids : v # w \/ j # i => closer'[v][j] = closer[v][j]
  /\ \A j \in Ids \ {i} : res'[j] = res[j] /\ child'[j] = child[j] /\ spawning'[j] = spawning[j]
  /\ spawning[i] = "done" \/ w = "spawn" => spawning'[i] = "done"

(* What dispose() does to the instance, and to no other.                    *)
LEMMA DisposeEffect ==
  ASSUME Shape, NEW w \in Closers, NEW i \in Ids, NEW proc \in BOOLEAN, Dispose(w, i, proc)
  PROVE  /\ Others(w, i)
         /\ closer'[w][i].at = "disposing"
         /\ res'[i].proc => res[i].proc /\ ~proc
         /\ ~res'[i].pi
         /\ child'[i] = "running" => child[i] = "running" /\ ~proc
<1>1. closer'[w][i].at = "disposing"
  BY DEF Dispose, Shape
<1>2. \A v \in Closers, j \in Ids : v # w \/ j # i => closer'[v][j] = closer[v][j]
  BY DEF Dispose, Shape
<1>3. (res'[i].proc => res[i].proc /\ ~proc) /\ ~res'[i].pi
  BY DEF Dispose, Shape
<1>4. \A j \in Ids \ {i} : res'[j] = res[j] /\ child'[j] = child[j] /\ spawning'[j] = spawning[j]
  BY DEF Dispose, SpawnAfter, Shape
<1>5. spawning[i] = "done" \/ w = "spawn" => spawning'[i] = "done"
  BY DEF Dispose, SpawnAfter, Shape
<1>6. child'[i] = "running" => child[i] = "running" /\ ~proc
  BY DEF Dispose, Shape
<1> QED BY <1>1, <1>2, <1>3, <1>4, <1>5, <1>6 DEF Others

(* What cleanupAcquiredResources does to the instance, and to no other.     *)
LEMMA CloseEffect ==
  ASSUME Shape, NEW w \in Closers, NEW i \in Ids, Close(w, i)
  PROVE  /\ Others(w, i) /\ \A j \in Ids \ {i} : heart'[j] = heart[j]
         /\ \/ /\ closer'[w][i].at = "disconnecting" /\ closer'[w][i].proc = res[i].proc
               /\ res'[i].proc = res[i].proc
               /\ child'[i] = child[i]
               /\ ~heart'[i]
            \/ /\ closer'[w][i].at = "disposing"
               /\ ~res'[i].proc
               /\ child'[i] = "running" => child[i] = "running" /\ ~res[i].proc
               /\ heart' = heart /\ ~res[i].pi
<1>1. res[i].proc \in BOOLEAN
  BY DEF Shape, Resources
<1>2. CASE ~res[i].pi
  BY <1>1, <1>2, DisposeEffect DEF Close
<1>3. CASE res[i].pi
  <2>1. closer'[w][i].at = "disconnecting" /\ closer'[w][i].proc = res[i].proc
    BY <1>3 DEF Close, Disconnecting, Shape
  <2>2. \A v \in Closers, j \in Ids : v # w \/ j # i => closer'[v][j] = closer[v][j]
    BY <1>3 DEF Close, Shape
  <2>3. /\ res'[i].proc = res[i].proc /\ child' = child /\ ~heart'[i]
        /\ \A j \in Ids \ {i} : res'[j] = res[j] /\ heart'[j] = heart[j]
    BY <1>3 DEF Close, Shape, Resources
  <2>4. \A j \in Ids \ {i} : spawning'[j] = spawning[j]
    BY <1>3 DEF Close, SpawnAfter, Shape
  <2>5. spawning[i] = "done" \/ w = "spawn" => spawning'[i] = "done"
    BY <1>3 DEF Close, SpawnAfter, Shape
  <2> QED BY <2>1, <2>2, <2>3, <2>4, <2>5 DEF Others
<1> QED BY <1>2, <1>3

(* What setStatus does to the instance, and to no other.                    *)
LEMMA SetStatusEffect ==
  ASSUME Shape, NEW i \in Ids, NEW s, SetStatus(i, s)
  PROVE  rec'[i].status = s /\ \A j \in Ids \ {i} : rec'[j] = rec[j]
BY DEF SetStatus, Shape, Records

(* What the end of stopInstance does to the instance, and to no other.      *)
LEMMA FinishEffect ==
  ASSUME Shape, NEW w \in Closers, NEW i \in Ids, Finish(w, i)
  PROVE  /\ closer'[w][i].at = "idle"
         /\ \A v \in Closers, j \in Ids : v # w \/ j # i => closer'[v][j] = closer[v][j]
         /\ live' = live \ {i}
         /\ rec'[i].status = "stopped" /\ \A j \in Ids \ {i} : rec'[j] = rec[j]
<1>1. closer'[w][i] = Free /\ \A v \in Closers, j \in Ids : v # w \/ j # i => closer'[v][j] = closer[v][j]
  BY DEF Finish, Shape
<1>2. rec'[i].status = "stopped" /\ \A j \in Ids \ {i} : rec'[j] = rec[j]
  BY DEF Finish, Shape, Records
<1> QED BY <1>1, <1>2 DEF Finish, Free

(* The beginning of a cleanup that is not under way yet.                   *)
LEMMA CloseInv ==
  ASSUME IInv, NEW w \in Closers, NEW i \in Ids, Close(w, i),
         closer[w][i].at = "idle", rec'[i].status # "none",
         UNCHANGED <<live, late, refused, exiting, renewal>>
  PROVE  InstanceInv(i)'
<1> USE CloseEffect
<1>1. HeartInv(i)'
  BY DEF IInv, InstanceInv, HeartInv, NoCloser
<1>2. ChildInv(i)'
  BY DEF IInv, InstanceInv, ChildInv, Others
<1>3. CloserInv(i)'
  <2>1. "spawn" \in Closers
    BY DEF Closers
  <2>2. res'[i].proc => res[i].proc
    BY DEF IInv
  <2>3. ASSUME NEW v \in Closers
        PROVE  /\ closer'[v][i].at = "disposing" => ~res'[i].proc
               /\ closer'[v][i].at = "disconnecting" /\ ~closer'[v][i].proc => ~res'[i].proc
    <3>1. CASE v = w
      BY <3>1 DEF IInv
    <3>2. CASE v # w
      BY <2>2, <3>2 DEF IInv, InstanceInv, CloserInv, Others
    <3> QED BY <3>1, <3>2
  <2>4. closer'["spawn"][i].at # "idle" => spawning'[i] = "done"
    BY <2>1 DEF IInv, InstanceInv, CloserInv, Others
  <2> QED BY <2>3, <2>4 DEF CloserInv
<1>4. RecordInv(i)'
  BY DEF IInv, InstanceInv, RecordInv
<1> QED BY <1>1, <1>2, <1>3, <1>4 DEF InstanceInv

(* A step on one instance preserves the invariant if it does so for it.     *)
LEMMA StepOfOne ==
  ASSUME IInv, Shape', NEW n \in Ids, InstanceInv(n)', \A j \in Ids \ {n} : Untouched(j)
  PROVE  IInv'
<1>1. ASSUME NEW j \in Ids PROVE InstanceInv(j)'
  <2>1. CASE j = n
    BY <2>1
  <2>2. CASE j # n
    BY <2>2, UntouchedInv DEF IInv
  <2> QED BY <2>1, <2>2
<1> QED BY <1>1 DEF IInv

(* The begin of a stop preserves the invariant.                             *)
LEMMA StopInv ==
  ASSUME IInv, Shape', NEW w \in Closers, NEW i \in Ids, StopInstance(w, i),
         UNCHANGED <<history, live, exiting, renewal>>
  PROVE  IInv'
<1>1. rec'[i].status = "stopping" /\ \A j \in Ids \ {i} : rec'[j] = rec[j]
  BY SetStatusEffect DEF StopInstance, IInv
<1>2. InstanceInv(i)'
  BY <1>1, CloseInv DEF StopInstance, history, Free
<1>3. \A j \in Ids \ {i} : Untouched(j)
  BY <1>1, CloseEffect DEF StopInstance, IInv, Others, Untouched, history
<1> QED BY <1>2, <1>3, StepOfOne

(* The disconnect has been answered, the process is disposed of.           *)
LEMMA DisconnectedInv ==
  ASSUME IInv, Shape', NEW w \in Closers, NEW i \in Ids, Disconnected(w, i)
  PROVE  IInv'
<1>1. closer[w][i].proc \in BOOLEAN
  BY DEF IInv, Shape, Slots
<1>2. /\ Others(w, i)
      /\ closer'[w][i].at = "disposing"
      /\ res'[i].proc => res[i].proc /\ ~closer[w][i].proc
      /\ child'[i] = "running" => child[i] = "running" /\ ~closer[w][i].proc
  BY <1>1, DisposeEffect DEF Disconnected, IInv
<1>3. rec'[i].status = rec[i].status /\ \A j \in Ids \ {i} : rec'[j] = rec[j]
  BY DEF Disconnected, IInv, Shape, Records
<1>4. UNCHANGED <<live, late, refused, exiting, renewal, heart>>
  BY DEF Disconnected, history, presence
<1>5. closer[w][i].at = "disconnecting" /\ ~res'[i].proc
  BY <1>2 DEF Disconnected, IInv, InstanceInv, CloserInv
<1>6. InstanceInv(i)'
  <2>1. HeartInv(i)'
    BY <1>2, <1>4, <1>5 DEF IInv, InstanceInv, HeartInv, NoCloser
  <2>2. ChildInv(i)'
    BY <1>2, <1>4, <1>5 DEF IInv, InstanceInv, ChildInv, CloserInv, Others
  <2>3. CloserInv(i)'
    BY <1>2, <1>3, <1>5 DEF IInv, InstanceInv, CloserInv, Others, Closers
  <2>4. RecordInv(i)'
    BY <1>2, <1>3, <1>4 DEF IInv, InstanceInv, RecordInv
  <2> QED BY <2>1, <2>2, <2>3, <2>4 DEF InstanceInv
<1>7. \A j \in Ids \ {i} : Untouched(j)
  BY <1>2, <1>3, <1>4 DEF Untouched, Others
<1> QED BY <1>6, <1>7, StepOfOne

(* The end of a cleanup, regular or on a refused disconnect.               *)
LEMMA FinishInv ==
  ASSUME IInv, Shape', NEW w \in Closers, NEW i \in Ids, Finish(w, i), closer[w][i].at # "idle",
         late' = late, refused \subseteq refused', refused' \subseteq refused \cup {i},
         UNCHANGED <<presence, res, child, spawning>>,
         child[i] # "running" \/ ~res[i].proc \/ i \in refused',
         closer[w][i].at = "disconnecting" /\ closer[w][i].proc => i \in refused'
  PROVE  IInv'
<1>1. /\ closer'[w][i].at = "idle"
      /\ \A v \in Closers, j \in Ids : v # w \/ j # i => closer'[v][j] = closer[v][j]
      /\ live' = live \ {i}
      /\ rec'[i].status = "stopped" /\ \A j \in Ids \ {i} : rec'[j] = rec[j]
  BY FinishEffect DEF IInv
<1>2. UNCHANGED <<exiting, renewal, heart>>
  BY DEF presence
<1>3. InstanceInv(i)'
  <2>1. HeartInv(i)'
    BY <1>1, <1>2 DEF IInv, InstanceInv, HeartInv, NoCloser
  <2>2. ChildInv(i)'
    BY <1>1 DEF IInv, InstanceInv, ChildInv
  <2>3. CloserInv(i)'
    BY <1>1 DEF IInv, InstanceInv, CloserInv, Closers
  <2>4. RecordInv(i)'
    BY <1>1, <1>2 DEF IInv, InstanceInv, RecordInv
  <2> QED BY <2>1, <2>2, <2>3, <2>4 DEF InstanceInv
<1>4. \A j \in Ids \ {i} : Untouched(j)
  BY <1>1, <1>2 DEF Untouched
<1> QED BY <1>3, <1>4, StepOfOne

(* The death of a child nobody stopped preserves the invariant.             *)
LEMMA UnexpectedExitInv ==
  ASSUME IInv, Shape', NEW i \in Ids, UnexpectedExit(i)
  PROVE  IInv'
<1>1. /\ child[i] = "running" /\ child'[i] = "exited" /\ (\A j \in Ids \ {i} : child'[j] = child[j])
      /\ UNCHANGED <<late, refused, renewal, closer>>
  BY DEF UnexpectedExit, IInv, Shape, process, history
<1>2. spawning'[i] \in {spawning[i], "rejected"} /\ (spawning[i] = "done" => spawning'[i] = "done")
  BY DEF UnexpectedExit, Rejects, IInv, Shape
<1>3. \A j \in Ids \ {i} : spawning'[j] = spawning[j]
  BY DEF UnexpectedExit, Rejects, IInv, Shape
<1>4. CASE /\ i \in live /\ SetStatus(i, "error")
           /\ res' = [res EXCEPT ![i].proc = FALSE, ![i].bound = FALSE]
           /\ exiting' = [exiting EXCEPT ![i] = res[i].pi]
           /\ heart' = [heart EXCEPT ![i] = @ /\ ~res[i].pi]
           /\ live' = IF res[i].pi THEN live ELSE live \ {i}
  <2>1. rec'[i].status = "error" /\ \A j \in Ids \ {i} : rec'[j] = rec[j]
    BY <1>4, SetStatusEffect DEF IInv
  <2>2. ~res'[i].proc /\ \A j \in Ids \ {i} : res'[j] = res[j]
    BY <1>4 DEF IInv, Shape, Resources
  <2>3. res[i].pi \in BOOLEAN
    BY DEF IInv, Shape, Resources
  <2>4. exiting'[i] = res[i].pi /\ \A j \in Ids \ {i} : exiting'[j] = exiting[j]
    BY <1>4, <2>3 DEF IInv, Shape
  <2>5. (heart'[i] => heart[i] /\ ~res[i].pi) /\ \A j \in Ids \ {i} : heart'[j] = heart[j]
    BY <1>4, <2>3 DEF IInv, Shape
  <2>6. InstanceInv(i)'
    <3>1. HeartInv(i)'
      BY <1>1, <1>4, <2>4, <2>5 DEF IInv, InstanceInv, HeartInv, NoCloser
    <3>2. CloserInv(i)'
      BY <1>1, <1>2, <2>1, <2>2 DEF IInv, InstanceInv, CloserInv
    <3>3. ChildInv(i)' /\ RecordInv(i)'
      BY <1>1, <2>1 DEF IInv, InstanceInv, RecordInv, ChildInv
    <3> QED BY <3>1, <3>2, <3>3 DEF InstanceInv
  <2>7. \A j \in Ids \ {i} : Untouched(j)
    <3>1. \A j \in Ids \ {i} : (j \in live') = (j \in live)
      BY <1>4
    <3> QED BY <1>1, <1>3, <2>1, <2>2, <2>4, <2>5, <3>1 DEF Untouched
  <2> QED BY <2>6, <2>7, StepOfOne
<1>5. CASE UNCHANGED <<rec, disk, res, exiting, heart, live>>
  <2>1. InstanceInv(i)'
    <3>1. HeartInv(i)'
      BY <1>1, <1>5 DEF IInv, InstanceInv, HeartInv, NoCloser
    <3>2. CloserInv(i)'
      BY <1>1, <1>2, <1>5 DEF IInv, InstanceInv, CloserInv
    <3>3. ChildInv(i)' /\ RecordInv(i)'
      BY <1>1, <1>5 DEF IInv, InstanceInv, RecordInv, ChildInv
    <3> QED BY <3>1, <3>2, <3>3 DEF InstanceInv
  <2>2. \A j \in Ids \ {i} : Untouched(j)
    BY <1>1, <1>3, <1>5 DEF Untouched
  <2> QED BY <2>1, <2>2, StepOfOne
<1> QED BY <1>4, <1>5 DEF UnexpectedExit

(* The steps that begin, register, renew or lose an instance.              *)
LEMMA SpawnInv ==
  ASSUME IInv, Shape', NEW i \in Ids, Spawn(i)
  PROVE  IInv'
<1>1. rec[i] = NoRecord /\ rec[i].status = "none"
  BY DEF Spawn, NoRecord
<1>2. rec'[i].status = "starting" /\ \A j \in Ids \ {i} : rec'[j] = rec[j]
  BY SetStatusEffect DEF Spawn, IInv
<1>3. /\ child'[i] = "running" /\ res'[i].proc /\ live' = live \cup {i}
      /\ \A j \in Ids \ {i} : child'[j] = child[j] /\ res'[j] = res[j] /\ spawning'[j] = spawning[j]
  BY DEF Spawn, IInv, Shape
<1>4. UNCHANGED <<late, refused, closer, exiting, renewal, heart>>
  BY DEF Spawn, history, presence
<1>5. i \notin live /\ ~exiting[i] /\ \A w \in Closers : closer[w][i].at = "idle"
  <2>1. \A w \in Closers : closer[w][i].at \in {"idle", "disconnecting", "disposing"}
    BY DEF IInv, Shape, Slots
  <2> QED BY <1>1, <2>1 DEF IInv, InstanceInv, CloserInv, RecordInv
<1>6. InstanceInv(i)'
  <2>1. HeartInv(i)'
    BY <1>3, <1>4, <1>5 DEF IInv, InstanceInv, HeartInv
  <2>2. ChildInv(i)' /\ CloserInv(i)'
    BY <1>3, <1>4, <1>5 DEF ChildInv, CloserInv, Closers
  <2>3. RecordInv(i)'
    BY <1>2, <1>4, <1>5 DEF IInv, InstanceInv, RecordInv
  <2> QED BY <2>1, <2>2, <2>3 DEF InstanceInv
<1>7. \A j \in Ids \ {i} : Untouched(j)
  BY <1>2, <1>3, <1>4 DEF Untouched
<1> QED BY <1>6, <1>7, StepOfOne

(* An instance is live, and nobody is at ending it, unless it is Ending.    *)
LEMMA EndingKnown ==
  ASSUME Shape, NEW i \in Ids, ~Ending(i)
  PROVE  i \in live /\ ~exiting[i] /\ NoCloser(i)
BY DEF Ending, NoCloser

(* The answer of Radius to a spawn preserves the invariant, late or not.    *)
LEMMA SpawnRegisteredInv ==
  ASSUME IInv, Shape', NEW i \in Ids, SpawnRegistered(i)
  PROVE  IInv'
<1>1. /\ heart'[i] /\ res'[i].pi /\ res'[i].proc = res[i].proc /\ spawning'[i] = "done"
      /\ \A j \in Ids \ {i} : heart'[j] = heart[j] /\ res'[j] = res[j] /\ spawning'[j] = spawning[j]
  BY DEF SpawnRegistered, IInv, Shape, Resources
<1>2. rec'[i].status = "online" /\ \A j \in Ids \ {i} : rec'[j] = rec[j]
  BY DEF SpawnRegistered, IInv, Shape
<1>3. UNCHANGED <<refused, live, exiting, renewal, child, closer>>
  BY DEF SpawnRegistered
<1>4. late' = IF Ending(i) THEN late \cup {i} ELSE late
  BY DEF SpawnRegistered
<1>5. InstanceInv(i)'
  <2>1. HeartInv(i)'
    BY <1>1, <1>3, <1>4, EndingKnown DEF IInv, InstanceInv, HeartInv, NoCloser
  <2>2. ChildInv(i)'
    BY <1>1, <1>3 DEF IInv, InstanceInv, ChildInv
  <2>3. CloserInv(i)'
    BY <1>1, <1>2, <1>3 DEF IInv, InstanceInv, CloserInv
  <2>4. RecordInv(i)'
    BY <1>2, <1>3 DEF IInv, InstanceInv, RecordInv
  <2> QED BY <2>1, <2>2, <2>3, <2>4 DEF InstanceInv
<1>6. \A j \in Ids \ {i} : Untouched(j)
  BY <1>1, <1>2, <1>3, <1>4 DEF Untouched
<1> QED BY <1>5, <1>6, StepOfOne

(* The answer to a re-registration preserves the invariant, late or not.    *)
LEMMA ReRegisteredInv ==
  ASSUME IInv, Shape', NEW i \in Ids, ReRegistered(i)
  PROVE  IInv'
<1>1. /\ renewal[i] # NoRecord /\ renewal'[i] = NoRecord /\ heart'[i]
      /\ \A j \in Ids \ {i} : heart'[j] = heart[j] /\ renewal'[j] = renewal[j]
  BY DEF ReRegistered, IInv, Shape
<1>2. UNCHANGED <<refused, live, exiting, child, spawning, closer>>
  BY DEF ReRegistered
<1>3. late' = IF Ending(i) THEN late \cup {i} ELSE late
  BY DEF ReRegistered
<1>4. /\ rec[i].status # "none" => rec'[i].status # "none"
      /\ i \in live => rec'[i].status # "none"
      /\ \A j \in Ids \ {i} : rec'[j] = rec[j]
  <2> DEFINE new == [renewal[i] EXCEPT !.pi = TRUE]
  <2>1. new.status # "none"
    BY <1>1 DEF IInv, InstanceInv, RecordInv, Shape, Records
  <2>2. CASE i \in live
    <3>1. rec' = [rec EXCEPT ![i] = new]
      BY <2>2 DEF ReRegistered
    <3> QED BY <2>1, <3>1 DEF IInv, Shape
  <2>3. CASE i \notin live
    BY <2>3 DEF ReRegistered
  <2> QED BY <2>2, <2>3
<1>5. /\ res'[i].proc = res[i].proc /\ (i \in live => res'[i].pi)
      /\ \A j \in Ids \ {i} : res'[j] = res[j]
  BY DEF ReRegistered, IInv, Shape, Resources
<1>6. InstanceInv(i)'
  <2>1. HeartInv(i)'
    BY <1>1, <1>2, <1>3, <1>5, EndingKnown DEF IInv, InstanceInv, HeartInv, NoCloser
  <2>2. ChildInv(i)'
    BY <1>2, <1>5 DEF IInv, InstanceInv, ChildInv
  <2>3. CloserInv(i)'
    BY <1>2, <1>4, <1>5 DEF IInv, InstanceInv, CloserInv
  <2>4. RecordInv(i)'
    BY <1>1, <1>2, <1>4 DEF IInv, InstanceInv, RecordInv
  <2> QED BY <2>1, <2>2, <2>3, <2>4 DEF InstanceInv
<1>7. \A j \in Ids \ {i} : Untouched(j)
  BY <1>1, <1>2, <1>3, <1>4, <1>5 DEF Untouched
<1> QED BY <1>6, <1>7, StepOfOne

(* The end of handleUnexpectedRpcExit preserves the invariant.              *)
LEMMA ExitHandledInv ==
  ASSUME IInv, Shape', NEW i \in Ids, ExitHandled(i)
  PROVE  IInv'
<1>1. exiting[i] /\ ~exiting'[i] /\ (\A j \in Ids \ {i} : exiting'[j] = exiting[j]) /\ live' = live \ {i}
  BY DEF ExitHandled, IInv, Shape
<1>2. UNCHANGED <<late, refused, renewal, heart, res, child, spawning, closer>>
  BY DEF ExitHandled, history
<1>3. rec'[i].status = rec[i].status /\ \A j \in Ids \ {i} : rec'[j] = rec[j]
  BY DEF ExitHandled, IInv, Shape, Records
<1>4. InstanceInv(i)'
  <2>1. HeartInv(i)'
    BY <1>1, <1>2 DEF IInv, InstanceInv, HeartInv
  <2>2. ChildInv(i)'
    BY <1>1, <1>2 DEF IInv, InstanceInv, ChildInv, RecordInv
  <2>3. CloserInv(i)'
    BY <1>2, <1>3 DEF IInv, InstanceInv, CloserInv
  <2>4. RecordInv(i)'
    BY <1>1, <1>2, <1>3 DEF IInv, InstanceInv, RecordInv
  <2> QED BY <2>1, <2>2, <2>3, <2>4 DEF InstanceInv
<1>5. \A j \in Ids \ {i} : Untouched(j)
  BY <1>1, <1>2, <1>3 DEF Untouched
<1> QED BY <1>4, <1>5, StepOfOne

(* The steps that leave alone what the invariant speaks of, but for one.   *)
LEMMA SmallStepInv ==
  ASSUME IInv, Shape', NEW i \in Ids,
         SpawnSynced(i) \/ ChildTerminates(i) \/ HandleRpc(i) \/ RpcAnswered(i) \/ ReRegister(i)
  PROVE  IInv'
<1>1. UNCHANGED <<live, late, refused, res, closer, exiting, heart>>
  BY DEF SpawnSynced, ChildTerminates, HandleRpc, RpcAnswered, ReRegister, history, presence
<1>2. /\ rec[i].status # "none" => rec'[i].status # "none"
      /\ \A j \in Ids \ {i} : rec'[j] = rec[j]
  <2>1. CASE SpawnSynced(i)
    BY <2>1, SetStatusEffect DEF SpawnSynced, IInv
  <2>2. CASE ChildTerminates(i) \/ HandleRpc(i) \/ RpcAnswered(i) \/ ReRegister(i)
    BY <2>2 DEF ChildTerminates, HandleRpc, RpcAnswered, ReRegister
  <2> QED BY <2>1, <2>2
<1>3. /\ child'[i] = child[i] \/ child'[i] = "exited"
      /\ \A j \in Ids \ {i} : child'[j] = child[j]
  BY DEF SpawnSynced, ChildTerminates, HandleRpc, RpcAnswered, ReRegister, IInv, Shape
<1>4. /\ spawning[i] = "done" => spawning'[i] = "done"
      /\ \A j \in Ids \ {i} : spawning'[j] = spawning[j]
  <2>1. CASE SpawnSynced(i)
    BY <2>1 DEF SpawnSynced, IInv, Shape
  <2>2. CASE ChildTerminates(i) \/ HandleRpc(i) \/ RpcAnswered(i) \/ ReRegister(i)
    BY <2>2 DEF ChildTerminates, HandleRpc, RpcAnswered, ReRegister, Rejects, IInv, Shape
  <2> QED BY <2>1, <2>2
<1>5. /\ renewal'[i] = renewal[i] \/ (i \in live /\ renewal'[i] = rec[i])
      /\ \A j \in Ids \ {i} : renewal'[j] = renewal[j]
  BY DEF SpawnSynced, ChildTerminates, HandleRpc, RpcAnswered, ReRegister, presence, IInv, Shape
<1>6. InstanceInv(i)'
  <2>1. HeartInv(i)'
    BY <1>1 DEF IInv, InstanceInv, HeartInv, NoCloser
  <2>2. ChildInv(i)'
    BY <1>1, <1>3 DEF IInv, InstanceInv, ChildInv
  <2>3. CloserInv(i)'
    BY <1>1, <1>2, <1>4 DEF IInv, InstanceInv, CloserInv
  <2>4. RecordInv(i)'
    BY <1>1, <1>2, <1>3, <1>5 DEF IInv, InstanceInv, RecordInv
  <2> QED BY <2>1, <2>2, <2>3, <2>4 DEF InstanceInv
<1>7. \A j \in Ids \ {i} : Untouched(j)
  BY <1>1, <1>2, <1>3, <1>4, <1>5 DEF Untouched
<1> QED BY <1>6, <1>7, StepOfOne

(* The end of the process leaves nothing to be invariant about.             *)
LEMMA ProcessEndsInv ==
  ASSUME IInv, Shape', ProcessEnds
  PROVE  IInv'
<1>1. ASSUME NEW i \in Ids PROVE InstanceInv(i)'
  <2>1. /\ live' = {} /\ ~exiting'[i] /\ renewal'[i] = NoRecord /\ ~heart'[i]
        /\ \A w \in Closers : closer'[w][i].at = "idle"
    BY DEF ProcessEnds, Free
  <2>2. child'[i] # "running"
    BY DEF ProcessEnds
  <2> QED BY <2>1, <2>2 DEF InstanceInv, HeartInv, ChildInv, CloserInv, RecordInv, Closers
<1> QED BY <1>1 DEF IInv

(* Every step preserves IInv: one step of the proof per action.             *)
LEMMA NextInv == ASSUME IInv, [Next]_vars PROVE IInv'
<1>s. Shape'
  BY NextShape DEF IInv
<1>c. {"spawn", "stop", "shutdown"} \subseteq Closers
  BY DEF Closers
<1>u. ASSUME UNCHANGED <<live, late, refused, rec, res, child, spawning, exiting, renewal, heart, closer>>
      PROVE  IInv'
  BY <1>s, <1>u, UntouchedInv DEF Untouched, IInv
<1>1. ASSUME NEW i \in Ids, SpawnFails(i) PROVE IInv'
  <2>1. rec'[i].status = "error" /\ \A j \in Ids \ {i} : rec'[j] = rec[j]
    BY <1>1, SetStatusEffect DEF SpawnFails, IInv
  <2>2. closer["spawn"][i].at = "idle"
    <3>1. closer["spawn"][i].at \in {"idle", "disconnecting", "disposing"}
      BY <1>c DEF IInv, Shape, Slots
    <3>2. spawning[i] # "done"
      BY <1>1 DEF SpawnFails
    <3> QED BY <3>1, <3>2 DEF IInv, InstanceInv, CloserInv
  <2>3. Close("spawn", i) /\ UNCHANGED <<live, late, refused, exiting, renewal>>
    BY <1>1 DEF SpawnFails, history
  <2>4. InstanceInv(i)'
    BY <1>c, <2>1, <2>2, <2>3, CloseInv
  <2>5. \A j \in Ids \ {i} : Untouched(j)
    BY <1>c, <2>1, <2>3, CloseEffect DEF IInv, Others, Untouched
  <2> QED BY <1>s, <2>4, <2>5, StepOfOne
<1>2. ASSUME NEW i \in Ids, Stop(i) PROVE IInv'
  BY <1>2, <1>s, <1>c, StopInv DEF Stop
<1>3. ASSUME NEW i \in Ids, NEW w \in Closers, DisconnectRefused(w, i) PROVE IInv'
  BY <1>3, <1>s, FinishInv DEF DisconnectRefused
<1>4. ASSUME NEW i \in Ids, NEW w \in Closers, Disposed(w, i) PROVE IInv'
  <2>1. ~res[i].proc
    BY <1>4 DEF Disposed, IInv, InstanceInv, CloserInv
  <2> QED BY <1>4, <1>s, <2>1, FinishInv DEF Disposed, history
<1>5. ASSUME NEW i \in Ids, Instance(i) PROVE IInv'
  BY <1>1, <1>2, <1>3, <1>4, <1>5, <1>s, SpawnInv, SpawnRegisteredInv, DisconnectedInv, UnexpectedExitInv,
     ExitHandledInv, ReRegisteredInv, SmallStepInv DEF Instance
<1>6. CASE ShutdownNext
  <2>1. CASE Min(todo) \in live
    <3>1. Min(todo) \in Ids
      BY <2>1 DEF IInv, Shape
    <3> QED BY <1>6, <1>s, <1>c, <2>1, <3>1, StopInv DEF ShutdownNext
  <2>2. CASE Min(todo) \notin live
    BY <1>6, <1>u, <2>2 DEF ShutdownNext, history
  <2> QED BY <2>1, <2>2
<1>7. CASE RecoverEnds \/ ShutdownBegins \/ Restart \/ UNCHANGED vars
  BY <1>7, <1>u DEF RecoverEnds, ShutdownBegins, Restart, vars, presence, history
<1>8. CASE RadiusStops \/ Crash
  <2>1. CASE ProcessEnds
    BY <1>s, <2>1, ProcessEndsInv
  <2>2. CASE ~ProcessEnds
    BY <1>8, <1>u, <2>2 DEF RadiusStops, Crash, presence, history
  <2> QED BY <2>1, <2>2
<1> QED BY <1>5, <1>6, <1>7, <1>8 DEF Next

(* The inductive invariant IInv holds in every reachable state.            *)
THEOREM Invariance == Spec => []IInv
<1>1. Init => IInv
  <2> SUFFICES ASSUME Init PROVE IInv
    OBVIOUS
  <2>1. ASSUME NEW i \in Ids PROVE InstanceInv(i)
    BY DEF Init, InstanceInv, HeartInv, ChildInv, CloserInv, RecordInv, Free, Closers
  <2> QED BY <2>1, InitType DEF IInv
<1> QED BY <1>1, NextInv, PTL DEF Spec

(* NoOrphanProcess: somebody answers for every running child, for any      *)
(* number of instances, stops, exits, registrations and restarts.          *)
THEOREM ChildrenHaveOwners == Spec => []NoOrphanProcess
<1>1. IInv => NoOrphanProcess
  BY DEF IInv, InstanceInv, ChildInv, NoOrphanProcess
<1> QED BY <1>1, Invariance, PTL

(* HeartbeatsAreLive: Radius hears of an instance only while its process   *)
(* is at hand, but for answers that came after the end had begun.          *)
THEOREM HeartbeatsOfTheLiving == Spec => []HeartbeatsAreLive
<1>1. IInv => HeartbeatsAreLive
  BY DEF IInv, InstanceInv, HeartInv, HeartbeatsAreLive
<1> QED BY <1>1, Invariance, PTL

-----------------------------------------------------------------------------
(* The records: what rec says of an instance nobody ends, and what the     *)
(* file says of what rec says.                                             *)

Active == {"starting", "online"}

Alive(i) == i \in live /\ ~exiting[i] /\ NoCloser(i)

(* Without Radius there is nothing to disconnect or to register again.     *)
RadiusInv(i) ==
  /\ i \in late => radius
  /\ ~radius => ~res[i].pi /\ spawning[i] # "registering" /\ renewal[i] = NoRecord

(* An instance nobody ends is starting or online, with its child running   *)
(* and its listeners bound; no other record says so, but for late answers. *)
AliveInv(i) ==
  /\ Alive(i) => rec[i].status \in Active /\ res[i].bound /\ child[i] = "running"
  /\ Alive(i) /\ renewal[i] # NoRecord => renewal[i].status \in Active
  /\ renewal[i] # NoRecord => rec[i].status # "none"
  /\ rec[i].status \in Active => Alive(i) \/ i \in late
  /\ ~radius /\ spawning[i] = "syncing" /\ child[i] = "running" => Alive(i)

(* The file follows the record, or still says what recovery has read.      *)
DiskInv(i) ==
  /\ server \in {"recovering", "up", "closing"} /\ disk[i].status \in Active =>
       \/ rec[i].status \in Active \/ i \in late
       \/ server = "recovering" /\ disk[i] = snapshot[i]
  /\ i \in live => disk[i] # NoRecord \/ i \in hidden

FileInv == \A i \in Ids : RadiusInv(i) /\ AliveInv(i) /\ DiskInv(i)

(* Instance j does not see the step, in memory or in the file.             *)
Unseen(j) == Untouched(j) /\ disk'[j] = disk[j] /\ (j \in hidden') = (j \in hidden)

(* The server neither changes its mind about Radius nor comes up, and      *)
(* recovery goes on with what it has read.                                 *)
NotUp ==
  /\ radius' = radius /\ snapshot' = snapshot
  /\ server' \in {"up", "closing"} => server \in {"up", "closing"}
  /\ server' = "recovering" => server = "recovering"

(* An instance whose record and state a step leaves alone keeps FileInv.    *)
LEMMA UnseenInv ==
  ASSUME NEW j \in Ids, RadiusInv(j) /\ AliveInv(j) /\ DiskInv(j), Unseen(j), NotUp
  PROVE  RadiusInv(j)' /\ AliveInv(j)' /\ DiskInv(j)'
<1>1. RadiusInv(j)'
  BY DEF RadiusInv, Unseen, Untouched, NotUp
<1>2. Alive(j)' = Alive(j)
  BY DEF Alive, NoCloser, Unseen, Untouched
<1>3. AliveInv(j)'
  BY <1>2 DEF AliveInv, Unseen, Untouched, NotUp
<1>4. DiskInv(j)'
  BY DEF DiskInv, Unseen, Untouched, NotUp
<1> QED BY <1>1, <1>3, <1>4

(* A step on one instance preserves FileInv if it does so for it.           *)
LEMMA FileStepOfOne ==
  ASSUME FileInv, NotUp, NEW n \in Ids, RadiusInv(n)' /\ AliveInv(n)' /\ DiskInv(n)',
         \A j \in Ids \ {n} : Unseen(j)
  PROVE  FileInv'
<1>1. ASSUME NEW j \in Ids PROVE RadiusInv(j)' /\ AliveInv(j)' /\ DiskInv(j)'
  <2>1. CASE j = n
    BY <2>1
  <2>2. CASE j # n
    BY <2>2, UnseenInv DEF FileInv
  <2> QED BY <2>1, <2>2
<1> QED BY <1>1 DEF FileInv

(* setStatus writes what it sets.                                           *)
LEMMA StatusOnDisk ==
  ASSUME Shape, NEW i \in Ids, NEW s, SetStatus(i, s)
  PROVE  /\ rec'[i].status = s /\ disk'[i].status = s
         /\ \A j \in Ids \ {i} : rec'[j] = rec[j] /\ disk'[j] = disk[j]
BY DEF SetStatus, Shape, Records

(* A step that ends instance i or goes on ending it, and leaves no active  *)
(* record behind that was not there.                                       *)
LEMMA EndedInv ==
  ASSUME IInv, FileInv, NEW i \in Ids, NotUp, ~Alive(i)', i \in live' => i \in live,
         late' = late, hidden' = hidden,
         res'[i].pi => res[i].pi,
         spawning'[i] \in {spawning[i], "rejected", "done"},
         renewal'[i] = renewal[i],
         rec[i].status # "none" => rec'[i].status # "none",
         rec'[i].status \in Active => rec'[i].status = rec[i].status /\ ~Alive(i),
         disk'[i].status \in Active =>
           \/ disk'[i] = disk[i] /\ rec'[i].status = rec[i].status
           \/ disk'[i].status = rec'[i].status,
         i \in live' => disk'[i] = disk[i] \/ disk'[i] # NoRecord,
         ~radius /\ spawning'[i] = "syncing" /\ child'[i] = "running" =>
           spawning[i] = "syncing" /\ child[i] = "running" /\ ~Alive(i)
  PROVE  RadiusInv(i)' /\ AliveInv(i)' /\ DiskInv(i)'
<1>1. RadiusInv(i) /\ AliveInv(i) /\ DiskInv(i)
  BY DEF FileInv
<1>2. RadiusInv(i)'
  BY <1>1 DEF RadiusInv, NotUp
<1>3. AliveInv(i)'
  BY <1>1 DEF AliveInv, NotUp
<1>4. DiskInv(i)'
  BY <1>1 DEF DiskInv, NotUp, AliveInv
<1> QED BY <1>2, <1>3, <1>4

(* What cleanupAcquiredResources leaves of Pi and spawnInstance.           *)
LEMMA DisposePi ==
  ASSUME Shape, NEW w \in Closers, NEW i \in Ids, NEW proc \in BOOLEAN, Dispose(w, i, proc)
  PROVE  /\ ~res'[i].pi
         /\ spawning'[i] \in {spawning[i], "rejected", "done"}
         /\ spawning'[i] = "syncing" => spawning[i] = "syncing" /\ ~proc
         /\ child'[i] = "running" => child[i] = "running"
<1>1. ~res'[i].pi
  BY DEF Dispose, Shape
<1>2. /\ spawning'[i] \in {spawning[i], "rejected", "done"}
      /\ spawning'[i] = "syncing" => spawning[i] = "syncing" /\ ~proc
  BY DEF Dispose, SpawnAfter, Shape
<1>3. child'[i] = "running" => child[i] = "running"
  BY DEF Dispose, Shape
<1> QED BY <1>1, <1>2, <1>3

(* What a cleanup leaves of the registration, the spawn and the child.      *)
LEMMA ClosePi ==
  ASSUME Shape, NEW w \in Closers, NEW i \in Ids, Close(w, i)
  PROVE  /\ res'[i].pi => res[i].pi
         /\ spawning'[i] \in {spawning[i], "rejected", "done"}
         /\ spawning'[i] = "syncing" => spawning[i] = "syncing" /\ (res[i].pi \/ ~res[i].proc)
         /\ child'[i] = "running" => child[i] = "running"
<1>1. res[i].proc \in BOOLEAN
  BY DEF Shape, Resources
<1>2. CASE res[i].pi
  <2>1. spawning'[i] \in {spawning[i], "rejected", "done"} /\ child' = child
    BY <1>2 DEF Close, SpawnAfter, Shape
  <2>2. spawning'[i] = "syncing" => spawning[i] = "syncing"
    BY <2>1
  <2> QED BY <1>2, <2>1, <2>2
<1>3. CASE ~res[i].pi
  BY <1>1, <1>3, DisposePi DEF Close
<1> QED BY <1>2, <1>3

(* A cleanup begins: by stopInstance, shutdown or a failed spawn.          *)
LEMMA CloseFile ==
  ASSUME IInv, FileInv, NotUp, NEW w \in Closers, NEW i \in Ids, NEW s \in {"stopping", "error"},
         SetStatus(i, s), Close(w, i), UNCHANGED <<live, late, refused, hidden, exiting, renewal>>
  PROVE  FileInv'
<1>1. /\ rec'[i].status = s /\ disk'[i].status = s
      /\ \A j \in Ids \ {i} : rec'[j] = rec[j] /\ disk'[j] = disk[j]
  BY StatusOnDisk DEF IInv
<1>2. closer'[w][i].at # "idle" /\ Others(w, i) /\ \A j \in Ids \ {i} : heart'[j] = heart[j]
  BY CloseEffect DEF IInv
<1>3. /\ res'[i].pi => res[i].pi
      /\ spawning'[i] \in {spawning[i], "rejected", "done"}
      /\ spawning'[i] = "syncing" => spawning[i] = "syncing" /\ (res[i].pi \/ ~res[i].proc)
      /\ child'[i] = "running" => child[i] = "running"
  BY ClosePi DEF IInv
<1>4. disk'[i] # NoRecord /\ rec'[i].status \notin Active /\ disk'[i].status \notin Active
  BY <1>1 DEF NoRecord, Active
<1>5. ~Alive(i)'
  BY <1>2 DEF Alive, NoCloser
<1>6. ~radius /\ spawning'[i] = "syncing" => ~Alive(i)
  BY <1>3 DEF FileInv, RadiusInv, IInv, InstanceInv, HeartInv, Alive
<1>7. RadiusInv(i)' /\ AliveInv(i)' /\ DiskInv(i)'
  BY <1>1, <1>3, <1>4, <1>5, <1>6, EndedInv
<1>8. \A j \in Ids \ {i} : Unseen(j)
  BY <1>1, <1>2 DEF Unseen, Untouched, Others
<1> QED BY <1>7, <1>8, FileStepOfOne

(* The end of a disconnection preserves FileInv.                            *)
LEMMA DisconnectedFile ==
  ASSUME IInv, FileInv, NotUp, NEW w \in Closers, NEW i \in Ids, Disconnected(w, i)
  PROVE  FileInv'
<1>1. closer[w][i].proc \in BOOLEAN
  BY DEF IInv, Shape, Slots
<1>2. Dispose(w, i, closer[w][i].proc)
  BY DEF Disconnected
<1>3. Others(w, i) /\ closer'[w][i].at = "disposing"
  BY <1>1, <1>2, DisposeEffect DEF IInv
<1>4. /\ ~res'[i].pi
      /\ spawning'[i] \in {spawning[i], "rejected", "done"}
      /\ spawning'[i] = "syncing" => spawning[i] = "syncing"
      /\ child'[i] = "running" => child[i] = "running"
  BY <1>1, <1>2, DisposePi DEF IInv
<1>5. rec'[i].status = rec[i].status /\ \A j \in Ids \ {i} : rec'[j] = rec[j]
  BY DEF Disconnected, IInv, Shape, Records
<1>6. UNCHANGED <<live, late, refused, hidden, exiting, renewal, heart, disk>>
  BY DEF Disconnected, history, presence
<1>7. ~Alive(i) /\ ~Alive(i)'
  BY <1>3 DEF Disconnected, Alive, NoCloser
<1>8. RadiusInv(i)' /\ AliveInv(i)' /\ DiskInv(i)'
  BY <1>4, <1>5, <1>6, <1>7, EndedInv
<1>9. \A j \in Ids \ {i} : Unseen(j)
  BY <1>3, <1>5, <1>6 DEF Unseen, Untouched, Others
<1> QED BY <1>8, <1>9, FileStepOfOne

(* The end of stopInstance preserves FileInv.                               *)
LEMMA FinishFile ==
  ASSUME IInv, FileInv, NotUp, NEW w \in Closers, NEW i \in Ids, Finish(w, i), closer[w][i].at # "idle",
         UNCHANGED <<late, hidden, presence, res, child, spawning>>,
         refused \subseteq refused', refused' \subseteq refused \cup {i}
  PROVE  FileInv'
<1>1. /\ \A v \in Closers, j \in Ids : v # w \/ j # i => closer'[v][j] = closer[v][j]
      /\ live' = live \ {i}
      /\ rec'[i].status = "stopped" /\ \A j \in Ids \ {i} : rec'[j] = rec[j]
  BY FinishEffect DEF IInv
<1>2. /\ disk'[i] \in {rec'[i], NoRecord} /\ \A j \in Ids \ {i} : disk'[j] = disk[j]
  BY DEF Finish, IInv, Shape
<1>3. disk'[i].status \notin Active /\ rec'[i].status \notin Active
  BY <1>1, <1>2 DEF Active, NoRecord
<1>4. ~Alive(i) /\ ~Alive(i)' /\ i \notin live'
  BY <1>1 DEF Alive, NoCloser
<1>5. UNCHANGED <<exiting, renewal, heart>>
  BY DEF presence
<1>6. RadiusInv(i)' /\ AliveInv(i)' /\ DiskInv(i)'
  BY <1>1, <1>3, <1>4, <1>5, EndedInv
<1>7. \A j \in Ids \ {i} : Unseen(j)
  BY <1>1, <1>2, <1>5 DEF Unseen, Untouched
<1> QED BY <1>6, <1>7, FileStepOfOne

(* The death of a child nobody stopped preserves FileInv.                   *)
LEMMA UnexpectedExitFile ==
  ASSUME IInv, FileInv, NotUp, NEW i \in Ids, UnexpectedExit(i)
  PROVE  FileInv'
<1>1. /\ child'[i] = "exited" /\ (\A j \in Ids \ {i} : child'[j] = child[j])
      /\ UNCHANGED <<late, hidden, refused, renewal, closer>>
  BY DEF UnexpectedExit, IInv, Shape, process, history
<1>2. /\ spawning'[i] \in {spawning[i], "rejected"}
      /\ \A j \in Ids \ {i} : spawning'[j] = spawning[j]
  BY DEF UnexpectedExit, Rejects, IInv, Shape
<1>3. CASE /\ i \in live /\ SetStatus(i, "error")
           /\ res' = [res EXCEPT ![i].proc = FALSE, ![i].bound = FALSE]
           /\ exiting' = [exiting EXCEPT ![i] = res[i].pi]
           /\ heart' = [heart EXCEPT ![i] = @ /\ ~res[i].pi]
           /\ live' = IF res[i].pi THEN live ELSE live \ {i}
  <2>1. /\ rec'[i].status = "error" /\ disk'[i].status = "error"
        /\ \A j \in Ids \ {i} : rec'[j] = rec[j] /\ disk'[j] = disk[j]
    BY <1>3, StatusOnDisk DEF IInv
  <2>2. res'[i].pi = res[i].pi /\ \A j \in Ids \ {i} : res'[j] = res[j]
    BY <1>3 DEF IInv, Shape, Resources
  <2>3. /\ exiting'[i] = res[i].pi
        /\ \A j \in Ids \ {i} : exiting'[j] = exiting[j] /\ heart'[j] = heart[j]
    BY <1>3 DEF IInv, Shape, Resources
  <2>4. /\ rec'[i].status \notin Active /\ disk'[i].status \notin Active
        /\ disk'[i] # NoRecord /\ rec'[i].status # "none"
    BY <2>1 DEF Active, NoRecord
  <2>5. ~Alive(i)'
    BY <1>3, <2>3 DEF Alive
  <2>6. RadiusInv(i)' /\ AliveInv(i)' /\ DiskInv(i)'
    <3>1. i \in live' => i \in live
      BY <1>3
    <3> QED BY <1>1, <1>2, <2>2, <2>4, <2>5, <3>1, EndedInv
  <2>7. \A j \in Ids \ {i} : Unseen(j)
    <3>1. \A j \in Ids \ {i} : (j \in live') = (j \in live)
      BY <1>3
    <3> QED BY <1>1, <1>2, <2>1, <2>2, <2>3, <3>1 DEF Unseen, Untouched
  <2> QED BY <2>6, <2>7, FileStepOfOne
<1>4. CASE /\ ~(res[i].bound /\ i \in live /\ rec[i].status \notin {"stopping", "stopped"})
           /\ UNCHANGED <<rec, disk, res, exiting, heart, live>>
  <2>1. ~Alive(i)
    BY <1>4 DEF FileInv, AliveInv, Active, Alive
  <2>2. ~Alive(i)'
    BY <1>1, <1>4, <2>1 DEF Alive, NoCloser
  <2>3. RadiusInv(i)' /\ AliveInv(i)' /\ DiskInv(i)'
    BY <1>1, <1>2, <1>4, <2>1, <2>2, EndedInv
  <2>4. \A j \in Ids \ {i} : Unseen(j)
    BY <1>1, <1>2, <1>4 DEF Unseen, Untouched
  <2> QED BY <2>3, <2>4, FileStepOfOne
<1> QED BY <1>3, <1>4 DEF UnexpectedExit

(* The end of handleUnexpectedRpcExit preserves FileInv.                    *)
LEMMA ExitHandledFile ==
  ASSUME IInv, FileInv, NotUp, NEW i \in Ids, ExitHandled(i)
  PROVE  FileInv'
<1>1. exiting[i] /\ (\A j \in Ids \ {i} : exiting'[j] = exiting[j]) /\ live' = live \ {i}
  BY DEF ExitHandled, IInv, Shape
<1>2. UNCHANGED <<late, hidden, refused, renewal, heart, res, child, spawning, closer>>
  BY DEF ExitHandled, history
<1>3. rec'[i].status = rec[i].status /\ \A j \in Ids \ {i} : rec'[j] = rec[j]
  BY DEF ExitHandled, IInv, Shape, Records
<1>4. disk'[i] \in {disk[i], rec'[i]} /\ \A j \in Ids \ {i} : disk'[j] = disk[j]
  BY DEF ExitHandled, IInv, Shape
<1>5. ~Alive(i) /\ ~Alive(i)' /\ i \notin live'
  BY <1>1 DEF Alive
<1>6. RadiusInv(i)' /\ AliveInv(i)' /\ DiskInv(i)'
  BY <1>2, <1>3, <1>4, <1>5, EndedInv
<1>7. \A j \in Ids \ {i} : Unseen(j)
  BY <1>1, <1>2, <1>3, <1>4 DEF Unseen, Untouched
<1> QED BY <1>6, <1>7, FileStepOfOne

(* A spawn writes its record with the instance.                             *)
LEMMA SpawnFile ==
  ASSUME IInv, FileInv, NotUp, NEW i \in Ids, Spawn(i)
  PROVE  FileInv'
<1>1. rec[i].status = "none" /\ i \notin live
  BY DEF Spawn, NoRecord, IInv, InstanceInv, RecordInv
<1>2. /\ rec'[i].status = "starting" /\ disk'[i].status = "starting"
      /\ \A j \in Ids \ {i} : rec'[j] = rec[j] /\ disk'[j] = disk[j]
  BY StatusOnDisk DEF Spawn, IInv
<1>3. /\ child'[i] = "running" /\ res'[i].bound /\ ~res'[i].pi /\ spawning'[i] = "syncing"
      /\ live' = live \cup {i}
      /\ \A j \in Ids \ {i} : child'[j] = child[j] /\ res'[j] = res[j] /\ spawning'[j] = spawning[j]
  BY DEF Spawn, IInv, Shape
<1>4. UNCHANGED <<late, hidden, refused, closer, exiting, renewal, heart>>
  BY DEF Spawn, history, presence
<1>5. Alive(i)'
  <2>1. \A w \in Closers : closer[w][i].at \in {"idle", "disconnecting", "disposing"}
    BY DEF IInv, Shape, Slots
  <2>2. ~exiting[i] /\ \A w \in Closers : closer[w][i].at = "idle"
    BY <1>1, <2>1 DEF IInv, InstanceInv, CloserInv, RecordInv
  <2> QED BY <1>3, <1>4, <2>2 DEF Alive, NoCloser
<1>6. RadiusInv(i)' /\ AliveInv(i)' /\ DiskInv(i)'
  <2>1. renewal'[i] = NoRecord
    BY <1>1, <1>4 DEF FileInv, AliveInv
  <2>2. RadiusInv(i)'
    BY <1>3, <1>4, <2>1 DEF FileInv, RadiusInv, NotUp
  <2>3. AliveInv(i)'
    BY <1>2, <1>3, <1>5, <2>1 DEF AliveInv, Active
  <2>4. DiskInv(i)'
    BY <1>2 DEF DiskInv, Active, NoRecord
  <2> QED BY <2>2, <2>3, <2>4
<1>7. \A j \in Ids \ {i} : Unseen(j)
  BY <1>2, <1>3, <1>4 DEF Unseen, Untouched
<1> QED BY <1>6, <1>7, FileStepOfOne

(* The first answer of a child preserves FileInv.                           *)
LEMMA SpawnSyncedFile ==
  ASSUME IInv, FileInv, NotUp, NEW i \in Ids, SpawnSynced(i)
  PROVE  FileInv'
<1>1. spawning[i] = "syncing" /\ child[i] = "running"
  BY DEF SpawnSynced
<1>2. /\ rec'[i].status = IF radius THEN rec[i].status ELSE "online"
      /\ disk'[i].status = rec'[i].status
      /\ \A j \in Ids \ {i} : rec'[j] = rec[j] /\ disk'[j] = disk[j]
  BY StatusOnDisk DEF SpawnSynced, IInv
<1>3. /\ spawning'[i] = IF radius THEN "registering" ELSE "done"
      /\ \A j \in Ids \ {i} : spawning'[j] = spawning[j]
  BY DEF SpawnSynced, IInv, Shape
<1>4. UNCHANGED <<live, late, hidden, refused, child, res, closer, exiting, renewal, heart>>
  BY DEF SpawnSynced, history, presence
<1>5. Alive(i)' = Alive(i)
  BY <1>4 DEF Alive, NoCloser
<1>6. RadiusInv(i)' /\ AliveInv(i)' /\ DiskInv(i)'
  <2>1. RadiusInv(i)'
    BY <1>3, <1>4 DEF FileInv, RadiusInv, NotUp
  <2>2. AliveInv(i)'
    BY <1>1, <1>2, <1>3, <1>4, <1>5 DEF FileInv, AliveInv, Active
  <2>3. DiskInv(i)'
    BY <1>2, <1>4 DEF DiskInv, NoRecord, IInv, InstanceInv, RecordInv
  <2> QED BY <2>1, <2>2, <2>3
<1>7. \A j \in Ids \ {i} : Unseen(j)
  BY <1>2, <1>3, <1>4 DEF Unseen, Untouched
<1> QED BY <1>6, <1>7, FileStepOfOne

(* The answer of Radius to a spawn preserves FileInv, late or not.          *)
LEMMA SpawnRegisteredFile ==
  ASSUME IInv, FileInv, NotUp, NEW i \in Ids, SpawnRegistered(i)
  PROVE  FileInv'
<1>1. /\ res'[i].bound = res[i].bound /\ spawning'[i] = "done"
      /\ \A j \in Ids \ {i} : heart'[j] = heart[j] /\ res'[j] = res[j] /\ spawning'[j] = spawning[j]
  BY DEF SpawnRegistered, IInv, Shape, Resources
<1>2. /\ rec'[i].status = "online" /\ disk'[i].status = "online"
      /\ \A j \in Ids \ {i} : rec'[j] = rec[j] /\ disk'[j] = disk[j]
  BY DEF SpawnRegistered, IInv, Shape
<1>3. UNCHANGED <<hidden, refused, live, exiting, renewal, child, closer>>
  BY DEF SpawnRegistered
<1>4. late' = IF Ending(i) THEN late \cup {i} ELSE late
  BY DEF SpawnRegistered
<1>5. Alive(i)' = Alive(i) /\ (Alive(i) \/ i \in late')
  BY <1>3, <1>4, EndingKnown DEF Alive, NoCloser, IInv
<1>6. radius
  BY DEF SpawnRegistered, FileInv, RadiusInv
<1>7. RadiusInv(i)' /\ AliveInv(i)' /\ DiskInv(i)'
  <2>1. RadiusInv(i)'
    BY <1>6 DEF RadiusInv, NotUp
  <2>2. AliveInv(i)'
    BY <1>1, <1>2, <1>3, <1>5 DEF FileInv, AliveInv, Active
  <2>3. DiskInv(i)'
    BY <1>2 DEF DiskInv, NoRecord, Active
  <2> QED BY <2>1, <2>2, <2>3
<1>8. \A j \in Ids \ {i} : Unseen(j)
  BY <1>1, <1>2, <1>3, <1>4 DEF Unseen, Untouched
<1> QED BY <1>7, <1>8, FileStepOfOne

(* The answer to a re-registration preserves FileInv, late or not.          *)
LEMMA ReRegisteredFile ==
  ASSUME IInv, FileInv, NotUp, NEW i \in Ids, ReRegistered(i)
  PROVE  FileInv'
<1> DEFINE new == [renewal[i] EXCEPT !.pi = TRUE]
<1>1. /\ renewal[i] # NoRecord /\ renewal'[i] = NoRecord
      /\ \A j \in Ids \ {i} : heart'[j] = heart[j] /\ renewal'[j] = renewal[j]
  BY DEF ReRegistered, IInv, Shape
<1>2. UNCHANGED <<hidden, refused, live, exiting, child, spawning, closer>>
  BY DEF ReRegistered
<1>3. late' = IF Ending(i) THEN late \cup {i} ELSE late
  BY DEF ReRegistered
<1>4. new.status = renewal[i].status /\ new.status # "none"
  BY <1>1 DEF IInv, InstanceInv, RecordInv, Shape, Records
<1>5. /\ disk'[i] = new
      /\ \A j \in Ids \ {i} : rec'[j] = rec[j] /\ disk'[j] = disk[j]
      /\ IF i \in live THEN rec'[i] = new ELSE rec' = rec
  <2>1. disk' = [disk EXCEPT ![i] = new] /\ (i \in live => rec' = [rec EXCEPT ![i] = new])
        /\ (i \notin live => rec' = rec)
    BY DEF ReRegistered
  <2> HIDE DEF new
  <2> QED BY <2>1 DEF IInv, Shape
<1> HIDE DEF new
<1>6. res'[i].bound = res[i].bound /\ \A j \in Ids \ {i} : res'[j] = res[j]
  BY DEF ReRegistered, IInv, Shape, Resources
<1>7. Alive(i)' = Alive(i) /\ (Alive(i) \/ i \in late')
  BY <1>2, <1>3, EndingKnown DEF Alive, NoCloser, IInv
<1>8. radius
  BY <1>1 DEF FileInv, RadiusInv
<1>9. RadiusInv(i)' /\ AliveInv(i)' /\ DiskInv(i)'
  <2>1. RadiusInv(i)'
    BY <1>8 DEF RadiusInv, NotUp
  <2>2. AliveInv(i)'
    BY <1>1, <1>2, <1>4, <1>5, <1>6, <1>7, <1>8 DEF FileInv, AliveInv, Alive, NotUp
  <2>3. DiskInv(i)'
    BY <1>4, <1>5, <1>7 DEF DiskInv, NoRecord, Alive
  <2> QED BY <2>1, <2>2, <2>3
<1>10. \A j \in Ids \ {i} : Unseen(j)
  BY <1>1, <1>2, <1>3, <1>5, <1>6 DEF Unseen, Untouched
<1> QED BY <1>9, <1>10, FileStepOfOne

(* Requests, their answers and re-registrations preserve FileInv.           *)
LEMMA RequestFile ==
  ASSUME IInv, FileInv, NotUp, NEW i \in Ids,
         ChildTerminates(i) \/ HandleRpc(i) \/ RpcAnswered(i) \/ ReRegister(i)
  PROVE  FileInv'
<1>1. UNCHANGED <<live, late, hidden, refused, rec, res, closer, exiting, heart>>
  BY DEF ChildTerminates, HandleRpc, RpcAnswered, ReRegister, history, presence
<1>2. /\ child'[i] = child[i] \/ (child[i] # "running" /\ child'[i] # "running")
      /\ \A j \in Ids \ {i} : child'[j] = child[j]
  BY DEF ChildTerminates, HandleRpc, RpcAnswered, ReRegister, IInv, Shape
<1>3. /\ spawning'[i] = spawning[i] \/ spawning'[i] = "rejected"
      /\ \A j \in Ids \ {i} : spawning'[j] = spawning[j]
  BY DEF ChildTerminates, HandleRpc, RpcAnswered, ReRegister, Rejects, IInv, Shape
<1>4. /\ renewal'[i] = renewal[i] \/ (i \in live /\ radius /\ renewal'[i] = rec[i])
      /\ \A j \in Ids \ {i} : renewal'[j] = renewal[j]
  BY DEF ChildTerminates, HandleRpc, RpcAnswered, ReRegister, presence, IInv, Shape
<1>5. disk'[i] \in {disk[i], rec[i]} /\ \A j \in Ids \ {i} : disk'[j] = disk[j]
  BY DEF ChildTerminates, HandleRpc, RpcAnswered, ReRegister, IInv, Shape
<1>6. Alive(i)' = Alive(i)
  BY <1>1 DEF Alive, NoCloser
<1>7. RadiusInv(i)' /\ AliveInv(i)' /\ DiskInv(i)'
  <2>1. RadiusInv(i)'
    BY <1>1, <1>3, <1>4 DEF FileInv, RadiusInv, NotUp
  <2>2. AliveInv(i)'
    BY <1>1, <1>2, <1>3, <1>4, <1>6 DEF FileInv, AliveInv, NotUp, IInv, InstanceInv, RecordInv
  <2>3. DiskInv(i)'
    BY <1>1, <1>5 DEF FileInv, DiskInv, NotUp, NoRecord, IInv, InstanceInv, RecordInv
  <2> QED BY <2>1, <2>2, <2>3
<1>8. \A j \in Ids \ {i} : Unseen(j)
  BY <1>1, <1>2, <1>3, <1>4, <1>5 DEF Unseen, Untouched
<1> QED BY <1>7, <1>8, FileStepOfOne

(* Every step preserves FileInv: one step of the proof per action.          *)
LEMMA NextFile == ASSUME IInv, FileInv, [Next]_vars PROVE FileInv'
<1>c. {"spawn", "stop", "shutdown"} \subseteq Closers
  BY DEF Closers
<1>u. ASSUME NotUp, UNCHANGED <<live, late, refused, hidden, rec, res, disk, child, spawning, exiting,
                                renewal, heart, closer>>
      PROVE  FileInv'
  BY <1>u, UnseenInv DEF Unseen, Untouched, FileInv
<1>1. ASSUME NEW i \in Ids, Instance(i) PROVE FileInv'
  <2>1. NotUp
    BY <1>1 DEF Instance, Spawn, SpawnSynced, SpawnRegistered, SpawnFails, Stop, Disconnected,
                DisconnectRefused, Disposed, UnexpectedExit, ExitHandled, ChildTerminates, HandleRpc,
                RpcAnswered, ReRegister, ReRegistered, process, NotUp
  <2>2. CASE SpawnFails(i)
    BY <1>c, <2>1, <2>2, CloseFile DEF SpawnFails, history
  <2>3. CASE Stop(i)
    BY <1>c, <2>1, <2>3, CloseFile DEF Stop, StopInstance, history
  <2>4. ASSUME NEW w \in Closers, DisconnectRefused(w, i) PROVE FileInv'
    BY <2>1, <2>4, FinishFile DEF DisconnectRefused
  <2>5. ASSUME NEW w \in Closers, Disposed(w, i) PROVE FileInv'
    BY <2>1, <2>5, FinishFile DEF Disposed, history
  <2> QED BY <1>1, <2>1, <2>2, <2>3, <2>4, <2>5, DisconnectedFile, UnexpectedExitFile, ExitHandledFile,
             SpawnFile, SpawnSyncedFile, SpawnRegisteredFile, ReRegisteredFile, RequestFile DEF Instance
<1>2. CASE ShutdownNext
  <2>1. NotUp
    BY <1>2 DEF ShutdownNext, NotUp
  <2>2. CASE Min(todo) \in live
    <3>1. Min(todo) \in Ids
      BY <2>2 DEF IInv, Shape
    <3> QED BY <1>2, <1>c, <2>1, <2>2, <3>1, CloseFile DEF ShutdownNext, StopInstance, history
  <2>3. CASE Min(todo) \notin live
    BY <1>2, <1>u, <2>1, <2>3 DEF ShutdownNext, history
  <2> QED BY <2>2, <2>3
<1>3. CASE RecoverEnds
  <2>1. /\ disk' = [i \in Ids |-> Recovered(snapshot[i])] /\ radius' = radius
        /\ hidden' = hidden \cup {i \in live : snapshot[i] = NoRecord}
        /\ UNCHANGED <<live, late, rec, res, child, spawning, exiting, renewal, closer>>
    BY <1>3 DEF RecoverEnds, presence
  <2>2. \A i \in Ids : Recovered(snapshot[i]).status \notin Active
    BY DEF Recovered, Active, IInv, Shape, Records
  <2>3. \A i \in Ids : snapshot[i] # NoRecord => Recovered(snapshot[i]) # NoRecord
    BY DEF Recovered, NoRecord, IInv, Shape, Records
  <2>4. ASSUME NEW i \in Ids PROVE RadiusInv(i)' /\ AliveInv(i)' /\ DiskInv(i)'
    <3>1. RadiusInv(i)'
      BY <2>1 DEF FileInv, RadiusInv
    <3>2. Alive(i)' = Alive(i)
      BY <2>1 DEF Alive, NoCloser
    <3>3. AliveInv(i)'
      BY <2>1, <3>2 DEF FileInv, AliveInv
    <3>4. DiskInv(i)'
      BY <2>1, <2>2, <2>3 DEF DiskInv
    <3> QED BY <3>1, <3>3, <3>4
  <2> QED BY <2>4 DEF FileInv
<1>4. CASE ShutdownBegins \/ UNCHANGED vars
  BY <1>4, <1>u DEF ShutdownBegins, vars, presence, history, process, NotUp
<1>6. CASE Restart
  <2>1. /\ UNCHANGED <<radius, live, late, hidden, rec, res, disk, child, spawning, exiting, renewal, closer>>
        /\ snapshot' = disk /\ server' = "recovering"
    BY <1>6 DEF Restart, presence, history
  <2>2. ASSUME NEW i \in Ids PROVE RadiusInv(i)' /\ AliveInv(i)' /\ DiskInv(i)'
    <3>1. RadiusInv(i)'
      BY <2>1 DEF FileInv, RadiusInv
    <3>2. Alive(i)' = Alive(i)
      BY <2>1 DEF Alive, NoCloser
    <3>3. AliveInv(i)'
      BY <2>1, <3>2 DEF FileInv, AliveInv
    <3>4. DiskInv(i)'
      BY <2>1 DEF FileInv, DiskInv
    <3> QED BY <3>1, <3>3, <3>4
  <2> QED BY <2>2 DEF FileInv
<1>5. CASE RadiusStops \/ Crash
  <2>1. CASE ProcessEnds /\ server' \in {"exited", "down"}
    <3>1. ASSUME NEW i \in Ids PROVE RadiusInv(i)' /\ AliveInv(i)' /\ DiskInv(i)'
      <4>1. /\ live' = {} /\ renewal'[i] = NoRecord /\ ~res'[i].pi /\ spawning'[i] = "idle"
            /\ rec'[i].status \in {"none", "stopped"}
        BY <2>1 DEF ProcessEnds, NoRecord, Nothing
      <4>2. late' = {} /\ radius' = radius
        BY <2>1 DEF ProcessEnds
      <4>3. ~Alive(i)'
        BY <4>1 DEF Alive
      <4> QED BY <2>1, <4>1, <4>2, <4>3 DEF FileInv, RadiusInv, AliveInv, DiskInv, Active
    <3> QED BY <3>1 DEF FileInv
  <2>2. CASE ~(ProcessEnds /\ server' \in {"exited", "down"})
    BY <1>5, <1>u, <2>2 DEF RadiusStops, Crash, presence, history, NotUp
  <2> QED BY <2>1, <2>2
<1> QED BY <1>1, <1>2, <1>3, <1>4, <1>5, <1>6 DEF Next

(* RecordsAreTrue, for any number of instances and events: whenever a      *)
(* client is served, recovery included, a record that says starting or     *)
(* online is that of a live instance with a running child, one recovery    *)
(* has read and will mark as stopped, or one that this server registered   *)
(* while it was being ended; and a live instance has a record, unless      *)
(* recovery wrote an older list over it.  No such exception survives the   *)
(* server process.                                                         *)
THEOREM FileTellsTheTruth == Spec => []RecordsAreTrue
<1>1. Init => FileInv
  <2> SUFFICES ASSUME Init PROVE FileInv
    OBVIOUS
  <2>1. ASSUME NEW i \in Ids PROVE RadiusInv(i) /\ AliveInv(i) /\ DiskInv(i)
    BY DEF Init, RadiusInv, AliveInv, DiskInv, Alive, NoRecord, Nothing, Active
  <2> QED BY <2>1 DEF FileInv
<1>2. FileInv => RecordsAreTrue
  BY DEF FileInv, RadiusInv, AliveInv, DiskInv, Alive, Active, RecordsAreTrue, Serving
<1> QED BY <1>1, <1>2, NextFile, Invariance, PTL DEF Spec
=============================================================================
