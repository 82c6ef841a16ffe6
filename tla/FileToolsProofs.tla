--------------------------- MODULE FileToolsProofs ---------------------------
(***************************************************************************)
(* The file mutation queue excludes and orders the calls on a file, for    *)
(* any files, links and number of calls.                                   *)
(*                                                                         *)
(* A step either leaves the queue alone or is of one of five kinds (see    *)
(* StepKinds); the invariant is proved on the kinds.  Its heart is Chained *)
(* and InTurn: whoever is queued on a key is at or before currentQueue of  *)
(* every later call on that key, and a call that has begun, or that has    *)
(* ended and is still somebody's currentQueue, has nobody queued before it.*)
(***************************************************************************)
EXTENDS FileTools, TLAPS

Queued(c) == pc[c] \in {"waiting"} \cup Inside
Alone(c, k) == \A d \in Calls : Queued(d) /\ key[d] = k => ~(d < c)

PCs == {"absent", "registering", "waiting"} \cup Inside \cup Ended

ChainType ==
  /\ real \in [Links -> Files] /\ path \in [Calls -> Paths]
  /\ pc \in [Calls -> PCs] /\ key \in [Calls -> Paths]
  /\ prev \in [Calls -> Nat] /\ (\A c \in Calls : prev[c] \in Calls \cup {NoCall} /\ prev[c] < c)
  /\ tail \in [Paths -> Calls \cup {NoCall}]

(* A key that is a file is the file of the call.                           *)
KeyIsFile == \A c \in Calls : Queued(c) /\ key[c] \in Files => key[c] = File(c)

(* Calls come, and take their place, in order.                             *)
InOrder ==
  /\ \A c, d \in Calls : pc[c] = "absent" /\ pc[d] # "absent" => d < c
  /\ \A c, d \in Calls : pc[c] = "registering" /\ Queued(d) => d < c

(* The map has an entry for a key as long as calls are queued on it: the   *)
(* last of them.                                                           *)
TailIsLast ==
  /\ \A d \in Calls : Queued(d) => tail[key[d]] # NoCall /\ d <= tail[key[d]]
  /\ \A k \in Paths : tail[k] # NoCall => Queued(tail[k]) /\ key[tail[k]] = k

Chained ==
  /\ \A c, d \in Calls : Queued(c) /\ Queued(d) /\ key[c] = key[d] /\ d < c => d <= prev[c]
  /\ \A c \in Calls : Queued(c) /\ prev[c] # NoCall =>
       pc[prev[c]] \in {"waiting"} \cup Inside \cup Ended /\ key[prev[c]] = key[c]

InTurn ==
  /\ \A c \in Calls : pc[c] \in Inside => Alone(c, key[c])
  /\ \A c \in Calls : Queued(c) /\ prev[c] # NoCall /\ pc[prev[c]] \in Ended => Alone(prev[c], key[c])

IInv == ChainType /\ KeyIsFile /\ InOrder /\ TailIsLast /\ Chained /\ InTurn

-----------------------------------------------------------------------------
(* The kinds of steps, as the queue sees them.                             *)

Same == UNCHANGED <<real, path, pc, queue>>

Calling(c) ==
  /\ pc[c] = "absent" /\ \A d \in Calls : d < c => pc[d] # "absent"
  /\ \E p \in Paths, l \in {"failed", "registering"} :
       /\ path' = [path EXCEPT ![c] = p]
       /\ pc' = [pc EXCEPT ![c] = l]
  /\ UNCHANGED <<real, queue>>

Registering(c) ==
  /\ MayRegister(c)
  /\ pc' = [pc EXCEPT ![c] = "waiting"]
  /\ \E k \in {Real(path[c]), path[c]} :
       /\ key' = [key EXCEPT ![c] = k]
       /\ prev' = [prev EXCEPT ![c] = tail[k]]
       /\ tail' = [tail EXCEPT ![k] = c]
  /\ UNCHANGED <<real, path>>

Rejected(c) ==
  /\ pc[c] = "registering" /\ pc' = [pc EXCEPT ![c] = "failed"]
  /\ UNCHANGED <<real, path, queue>>

MayMove(c) ==
  \/ pc[c] \in Inside
  \/ pc[c] = "waiting" /\ (prev[c] # NoCall => pc[prev[c]] \in Ended)

Moving(c) ==
  /\ MayMove(c)
  /\ \E l \in Inside : pc' = [pc EXCEPT ![c] = l]
  /\ UNCHANGED <<real, path, queue>>

Leaving(c) ==
  /\ MayMove(c)
  /\ \E l \in Ended : pc' = [pc EXCEPT ![c] = l]
  /\ tail' = IF tail[key[c]] = c THEN [tail EXCEPT ![key[c]] = NoCall] ELSE tail
  /\ UNCHANGED <<real, path, key, prev>>

(* Every action is one of five kinds of step, as far as the queue goes.    *)
LEMMA StepKinds ==
  ASSUME [Next]_vars
  PROVE  \/ Same
         \/ \E c \in Calls : \/ Calling(c) \/ Registering(c) \/ Rejected(c) \/ Moving(c) \/ Leaving(c)
<1> USE DEF queue, files, Goto, End, Leave
<1>1. CASE UNCHANGED vars
  BY <1>1 DEF vars, Same
<1>2. CASE Abort \/ ShellWrites \/ Quiet
  BY <1>2 DEF Abort, ShellWrites, Quiet, vars, Same
<1>3. ASSUME NEW c \in Calls, Call(c)
      PROVE  Calling(c)
  BY <1>3 DEF Call, Calling
<1>4. ASSUME NEW c \in Calls, Register(c)
      PROVE  Registering(c)
  BY <1>4 DEF Register, Registering, KeyOf, Chain
<1>5. ASSUME NEW c \in Calls, RegistrationFails(c)
      PROVE  Rejected(c)
  BY <1>5 DEF RegistrationFails, Rejected, MayRegister
<1>6. ASSUME NEW c \in Calls, Enter(c)
      PROVE  Moving(c) \/ Leaving(c)
  <2> USE DEF Enter, Released, MayMove
  <2>1. CASE tool[c] = "deliver"
    <3>1. Moving(c)
      BY <1>6, <2>1 DEF Moving, Inside
    <3> QED BY <3>1
  <2>2. CASE tool[c] # "deliver" /\ aborted
    <3>1. Leaving(c)
      BY <1>6, <2>2 DEF Leaving, Ended
    <3> QED BY <3>1
  <2>3. CASE tool[c] # "deliver" /\ ~aborted
    <3>1. Moving(c)
      BY <1>6, <2>3 DEF Moving, Inside
    <3> QED BY <3>1
  <2> QED BY <2>1, <2>2, <2>3
<1>7. ASSUME NEW c \in Calls,
             StepFails(c) \/ MkdirEnds(c) \/ AccessEnds(c) \/ ReadEnds(c) \/ ResolveEnds(c) \/ StatEnds(c)
      PROVE  Moving(c) \/ Leaving(c)
  <2>1. CASE StepFails(c)
    BY <2>1 DEF StepFails, Leaving, MayMove, Ended
  <2>2. CASE MkdirEnds(c)
    BY <2>2 DEF MkdirEnds, Moving, Leaving, MayMove, Inside, Ended
  <2>3. CASE AccessEnds(c)
    BY <2>3 DEF AccessEnds, Moving, Leaving, MayMove, Inside, Ended
  <2>4. CASE ReadEnds(c)
    BY <2>4 DEF ReadEnds, Moving, Leaving, MayMove, Inside, Ended
  <2>5. CASE ResolveEnds(c)
    BY <2>5 DEF ResolveEnds, Moving, Leaving, MayMove, Inside, Ended
  <2>6. CASE StatEnds(c)
    BY <2>6 DEF StatEnds, Moving, Leaving, MayMove, Inside, Ended
  <2> QED BY <1>7, <2>1, <2>2, <2>3, <2>4, <2>5, <2>6
<1>8. ASSUME NEW c \in Calls, Opened(c) \/ Uploaded(c) \/ MessageSent(c)
      PROVE  Moving(c)
  BY <1>8 DEF Opened, Uploaded, MessageSent, Moving, MayMove, Inside
<1>9. ASSUME NEW c \in Calls, WriteEnds(c) \/ Unlinked(c)
      PROVE  Leaving(c)
  BY <1>9 DEF WriteEnds, Unlinked, Leaving, MayMove, Inside, Ended
<1> QED
  BY <1>1, <1>2, <1>3, <1>4, <1>5, <1>6, <1>7, <1>8, <1>9 DEF Next, Step

-----------------------------------------------------------------------------
(* The invariant holds initially.                                          *)
LEMMA InitIInv == Init => IInv
<1> SUFFICES ASSUME Init PROVE IInv
  OBVIOUS
<1>1. SomePath \in Files /\ SomePath \in Paths
  BY FileAssumption DEF SomePath, Paths
<1>2. \A c \in Calls : c \in Nat /\ 0 < c
  BY FileAssumption DEF Calls
<1>3. \A c \in Calls : pc[c] = "absent" /\ ~Queued(c)
  BY DEF Init, Queued, Inside
<1>4. ChainType
  BY <1>1, <1>2 DEF Init, ChainType, PCs, NoCall
<1> QED
  BY <1>3, <1>4 DEF IInv, Init, KeyIsFile, InOrder, TailIsLast, Chained, InTurn, Inside

(* A call that waits on nobody, or on a call that has ended, is first.     *)
LEMMA MoverIsFirst ==
  ASSUME IInv, NEW c \in Calls, MayMove(c)
  PROVE  Queued(c) /\ Alone(c, key[c])
<1> USE FileAssumption DEF Calls
<1>1. Queued(c)
  BY DEF MayMove, Queued
<1>2. CASE pc[c] \in Inside
  BY <1>1, <1>2 DEF IInv, InTurn
<1>3. CASE prev[c] = NoCall
  <2> SUFFICES ASSUME NEW d \in Calls, Queued(d), key[d] = key[c], d < c
               PROVE  FALSE
    BY <1>1 DEF Alone
  <2>1. d <= prev[c]
    BY <1>1 DEF IInv, Chained
  <2> QED BY <1>3, <2>1 DEF NoCall
<1>4. CASE prev[c] # NoCall /\ pc[prev[c]] \in Ended
  <2> SUFFICES ASSUME NEW d \in Calls, Queued(d), key[d] = key[c], d < c
               PROVE  FALSE
    BY <1>1 DEF Alone
  <2>1. d <= prev[c] /\ prev[c] \in Calls
    BY <1>1, <1>4 DEF IInv, Chained, ChainType
  <2>2. Alone(prev[c], key[c])
    BY <1>1, <1>4 DEF IInv, InTurn
  <2>3. d # prev[c]
    BY <1>4 DEF Queued, Inside, Ended
  <2> QED BY <2>1, <2>2, <2>3 DEF Alone
<1> QED BY <1>2, <1>3, <1>4 DEF MayMove

-----------------------------------------------------------------------------
(* Each kind of step preserves the invariant.                              *)

(* A new call preserves it.                                                *)
LEMMA CallingIInv == ASSUME IInv, NEW c \in Calls, Calling(c) PROVE IInv'
<1> USE FileAssumption DEF Calls, IInv, Calling, queue
<1>0. PICK p \in Paths, l \in {"failed", "registering"} :
        path' = [path EXCEPT ![c] = p] /\ pc' = [pc EXCEPT ![c] = l]
  OBVIOUS
<1>1. ChainType'
  BY <1>0 DEF ChainType, PCs, Ended
<1>2. \A d \in Calls : /\ Queued(d)' <=> Queued(d)
                       /\ d # c => pc'[d] = pc[d] /\ path'[d] = path[d]
  BY <1>0 DEF Queued, Inside, ChainType
<1>3. ~Queued(c) /\ pc'[c] \notin Inside /\ pc'[c] # "absent"
  BY <1>0 DEF Queued, Inside, ChainType
<1>4. KeyIsFile'
  BY <1>2, <1>3 DEF KeyIsFile, File, Real
<1>5. InOrder'
  <2>1. \A d, e \in Calls : pc'[d] = "absent" /\ pc'[e] # "absent" => e < d
    BY <1>2, <1>3 DEF InOrder
  <2>2. \A d, e \in Calls : pc'[d] = "registering" /\ Queued(e)' => e < d
    BY <1>2, <1>3 DEF InOrder, Queued, Inside
  <2> QED BY <2>1, <2>2 DEF InOrder, Queued
<1>6. TailIsLast'
  BY <1>2 DEF TailIsLast, ChainType
<1>7. Chained'
  <2>1. \A d \in Calls : Queued(d) /\ prev[d] # NoCall => prev[d] # c
    BY DEF Chained, Inside, Ended
  <2> QED BY <1>2, <2>1 DEF Chained, ChainType
<1>8. InTurn'
  <2>1. \A d \in Calls : Queued(d) /\ prev[d] # NoCall => prev[d] # c /\ prev[d] \in Calls
    BY DEF Chained, Inside, Ended, ChainType
  <2> QED BY <1>2, <1>3, <2>1 DEF InTurn, Alone
<1> QED BY <1>1, <1>4, <1>5, <1>6, <1>7, <1>8

(* So does a call that ends before it registers.                           *)
LEMMA RejectedIInv == ASSUME IInv, NEW c \in Calls, Rejected(c) PROVE IInv'
<1> USE FileAssumption DEF Calls, IInv, Rejected, queue
<1>1. ChainType'
  BY DEF ChainType, PCs, Ended
<1>2. \A d \in Calls : (Queued(d)' <=> Queued(d)) /\ (d # c => pc'[d] = pc[d])
  BY DEF Queued, Inside, ChainType
<1>3. ~Queued(c) /\ pc'[c] = "failed"
  BY DEF Queued, Inside, ChainType
<1>4. KeyIsFile'
  BY <1>2 DEF KeyIsFile, File, Real
<1>5. InOrder'
  <2>1. \A d, e \in Calls : pc'[d] = "absent" /\ pc'[e] # "absent" => e < d
    BY <1>2, <1>3 DEF InOrder
  <2>2. \A d, e \in Calls : pc'[d] = "registering" /\ Queued(e)' => e < d
    BY <1>2, <1>3 DEF InOrder
  <2> QED BY <2>1, <2>2 DEF InOrder, Queued
<1>6. TailIsLast'
  BY <1>2 DEF TailIsLast, ChainType
<1>7. \A d \in Calls : Queued(d) /\ prev[d] # NoCall => prev[d] # c /\ prev[d] \in Calls
  BY DEF Chained, Inside, Ended, ChainType
<1>8. Chained'
  BY <1>2, <1>7 DEF Chained, ChainType
<1>9. InTurn'
  BY <1>2, <1>3, <1>7 DEF InTurn, Alone, Inside
<1> QED BY <1>1, <1>4, <1>5, <1>6, <1>8, <1>9

(* So does a call that registers behind the last one of its key.           *)
LEMMA RegisteringIInv == ASSUME IInv, NEW c \in Calls, Registering(c) PROVE IInv'
<1> USE FileAssumption DEF Calls, IInv
<1>0. PICK k \in {Real(path[c]), path[c]} :
        /\ key' = [key EXCEPT ![c] = k]
        /\ prev' = [prev EXCEPT ![c] = tail[k]]
        /\ tail' = [tail EXCEPT ![k] = c]
  BY DEF Registering
<1>a. /\ pc[c] = "registering" /\ pc' = [pc EXCEPT ![c] = "waiting"]
      /\ real' = real /\ path' = path
      /\ \A d \in Calls : d < c => pc[d] # "registering"
  BY DEF Registering, MayRegister
<1>b. k \in Paths
  BY DEF ChainType, Real, Paths
<1>c. ~Queued(c) /\ Queued(c)' /\ pc'[c] \notin Inside
  BY <1>a DEF Queued, Inside, ChainType
<1>d. \A d \in Calls : d # c => /\ Queued(d)' <=> Queued(d)
                                /\ pc'[d] = pc[d] /\ key'[d] = key[d] /\ prev'[d] = prev[d]
  BY <1>0, <1>a DEF Queued, ChainType
<1>e. key'[c] = k /\ prev'[c] = tail[k]
  BY <1>0 DEF ChainType
<1>f. tail'[k] = c /\ \A q \in Paths : q # k => tail'[q] = tail[q]
  BY <1>0, <1>b DEF ChainType
<1>g. \A d \in Calls : Queued(d) => d < c
  BY <1>a DEF InOrder
<1>h. tail[k] # NoCall => Queued(tail[k]) /\ key[tail[k]] = k /\ tail[k] \in Calls /\ tail[k] < c
  BY <1>b, <1>g DEF TailIsLast, ChainType
<1>1. ChainType'
  <2>1. /\ real' \in [Links -> Files] /\ path' \in [Calls -> Paths]
        /\ pc' \in [Calls -> PCs] /\ key' \in [Calls -> Paths]
    BY <1>0, <1>a, <1>b DEF ChainType, PCs
  <2>2. prev' \in [Calls -> Nat]
    BY <1>0, <1>b DEF ChainType, NoCall
  <2>3. tail' \in [Paths -> Calls \cup {NoCall}]
    BY <1>0, <1>b DEF ChainType
  <2>4. \A d \in Calls : prev'[d] \in Calls \cup {NoCall} /\ prev'[d] < d
    BY <1>d, <1>e, <1>h, <1>b DEF ChainType, NoCall
  <2> QED BY <2>1, <2>2, <2>3, <2>4 DEF ChainType
<1>2. KeyIsFile'
  <2>1. k \in Files => k = File(c)
    BY FileAssumption DEF File, Real, ChainType, Paths
  <2>2. \A d \in Calls : File(d)' = File(d)
    BY <1>a DEF File, Real
  <2> QED BY <1>d, <1>e, <2>1, <2>2 DEF KeyIsFile
<1>3. InOrder'
  <2>1. \A d, e \in Calls : pc'[d] = "absent" /\ pc'[e] # "absent" => e < d
    BY <1>a, <1>d DEF InOrder, ChainType
  <2>2. \A d, e \in Calls : pc'[d] = "registering" /\ Queued(e)' => e < d
    <3> SUFFICES ASSUME NEW d \in Calls, NEW e \in Calls, pc'[d] = "registering", Queued(e)'
                 PROVE  e < d
      OBVIOUS
    <3>1. d # c /\ pc[d] = "registering"
      BY <1>a, <1>d DEF ChainType
    <3>2. c < d
      BY <1>a, <3>1
    <3>3. e = c \/ e < c
      BY <1>d, <1>g
    <3> QED BY <3>2, <3>3
  <2> QED BY <2>1, <2>2 DEF InOrder, Queued
<1>4. TailIsLast'
  <2>1. ASSUME NEW d \in Calls, Queued(d)'
        PROVE  tail'[key'[d]] # NoCall /\ d <= tail'[key'[d]]
    <3>1. CASE d = c
      BY <3>1, <1>e, <1>f DEF NoCall
    <3>2. CASE d # c /\ key[d] = k
      BY <2>1, <3>2, <1>d, <1>f, <1>g DEF NoCall
    <3>3. CASE d # c /\ key[d] # k
      BY <3>3, <1>d, <1>f, <2>1 DEF TailIsLast, ChainType
    <3> QED BY <3>1, <3>2, <3>3
  <2>2. ASSUME NEW q \in Paths, tail'[q] # NoCall
        PROVE  pc'[tail'[q]] \in {"waiting"} \cup Inside /\ key'[tail'[q]] = q
    <3>1. CASE q = k
      BY <3>1, <1>e, <1>f, <1>c DEF Queued
    <3>2. CASE q # k
      <4>1. tail'[q] = tail[q] /\ tail[q] # NoCall /\ tail[q] \in Calls
        BY <2>2, <3>2, <1>f DEF ChainType
      <4>2. Queued(tail[q]) /\ key[tail[q]] = q
        BY <4>1 DEF TailIsLast
      <4>3. tail[q] # c
        BY <4>2, <1>c
      <4> QED BY <4>1, <4>2, <4>3, <1>d DEF Queued
    <3> QED BY <3>1, <3>2
  <2> QED BY <2>1, <2>2 DEF TailIsLast, Queued
<1>5. Chained'
  <2>1. ASSUME NEW d \in Calls, NEW e \in Calls, Queued(d)', Queued(e)', key'[d] = key'[e], d < e
        PROVE  d <= prev'[e]
    <3>1. d # c
      <4>1. CASE e = c
        BY <4>1, <2>1
      <4>2. CASE e # c
        BY <4>2, <2>1, <1>d, <1>g
      <4> QED BY <4>1, <4>2
    <3>2. Queued(d) /\ key'[d] = key[d]
      BY <3>1, <2>1, <1>d
    <3>3. CASE e = c
      BY <3>2, <3>3, <2>1, <1>e DEF TailIsLast
    <3>4. CASE e # c
      BY <3>2, <3>4, <2>1, <1>d DEF Chained
    <3> QED BY <3>3, <3>4
  <2>2. ASSUME NEW d \in Calls, Queued(d)', prev'[d] # NoCall
        PROVE  pc'[prev'[d]] \in {"waiting"} \cup Inside \cup Ended /\ key'[prev'[d]] = key'[d]
    <3>1. CASE d = c
      <4>1. Queued(tail[k]) /\ key[tail[k]] = k /\ tail[k] \in Calls /\ tail[k] # c
        BY <3>1, <2>2, <1>e, <1>h
      <4> QED BY <3>1, <4>1, <1>d, <1>e DEF Queued
    <3>2. CASE d # c
      <4>1. /\ prev'[d] = prev[d] /\ prev[d] \in Calls
            /\ pc[prev[d]] \in {"waiting"} \cup Inside \cup Ended /\ key[prev[d]] = key[d]
        BY <3>2, <2>2, <1>d DEF Chained, ChainType
      <4>2. prev[d] # c
        BY <4>1, <1>a DEF Inside, Ended
      <4> QED BY <3>2, <4>1, <4>2, <1>d
    <3> QED BY <3>1, <3>2
  <2> QED BY <2>1, <2>2 DEF Chained, Queued
<1>6. InTurn'
  <2>1. ASSUME NEW d \in Calls, pc'[d] \in Inside
        PROVE  Alone(d, key[d])' 
    <3>1. d # c /\ pc[d] \in Inside /\ key'[d] = key[d] /\ Queued(d)
      BY <2>1, <1>c, <1>d DEF Queued
    <3>2. Alone(d, key[d]) /\ d < c
      BY <3>1, <1>g DEF InTurn
    <3> QED BY <3>1, <3>2, <1>d DEF Alone
  <2>2. ASSUME NEW d \in Calls, Queued(d)', prev'[d] # NoCall, pc'[prev'[d]] \in Ended
        PROVE  Alone(prev[d], key[d])'
    <3>1. d # c
      <4> SUFFICES ASSUME d = c PROVE FALSE
        OBVIOUS
      <4>1. Queued(tail[k]) /\ tail[k] \in Calls /\ tail[k] # c
        BY <2>2, <1>e, <1>h
      <4> QED BY <4>1, <2>2, <1>d, <1>e DEF Queued, Inside, Ended
    <3>2. /\ Queued(d) /\ prev'[d] = prev[d] /\ key'[d] = key[d]
          /\ prev[d] \in Calls /\ prev[d] # NoCall /\ prev[d] < d
      BY <3>1, <2>2, <1>d DEF ChainType
    <3>3. pc'[c] \notin Ended
      BY <1>a DEF ChainType, Ended
    <3>4. pc[prev[d]] \in Ended
      BY <2>2, <3>2, <3>3, <1>d
    <3>5. Alone(prev[d], key[d]) /\ prev[d] < c
      BY <3>2, <3>4, <1>g DEF InTurn
    <3> QED BY <3>2, <3>5, <1>d DEF Alone
  <2> QED BY <2>1, <2>2 DEF InTurn, Queued, Alone
<1> QED BY <1>1, <1>2, <1>3, <1>4, <1>5, <1>6

(* So does a call whose turn has come, or that goes on inside.             *)
LEMMA MovingIInv == ASSUME IInv, NEW c \in Calls, Moving(c) PROVE IInv'
<1> USE FileAssumption DEF Calls, IInv, queue
<1>0. PICK l \in Inside : pc' = [pc EXCEPT ![c] = l]
  BY DEF Moving
<1>a. /\ real' = real /\ path' = path /\ key' = key /\ prev' = prev /\ tail' = tail
      /\ Queued(c) /\ Alone(c, key[c])
  BY MoverIsFirst DEF Moving
<1>b. Queued(c)' /\ pc'[c] \in Inside
  BY <1>0 DEF Queued, ChainType
<1>c. \A d \in Calls : (Queued(d)' <=> Queued(d)) /\ (d # c => pc'[d] = pc[d])
  BY <1>0, <1>a, <1>b DEF Queued, ChainType
<1>d. pc'[c] \notin Ended /\ pc'[c] # "absent" /\ pc'[c] # "registering"
      /\ pc[c] \notin Ended /\ pc[c] # "absent" /\ pc[c] # "registering"
  BY <1>a, <1>b DEF Queued, Inside, Ended
<1>1. ChainType'
  BY <1>0, <1>a DEF ChainType, PCs
<1>2. KeyIsFile'
  BY <1>a, <1>c DEF KeyIsFile, File, Real
<1>3. InOrder'
  <2>1. \A d, e \in Calls : pc'[d] = "absent" /\ pc'[e] # "absent" => e < d
    BY <1>c, <1>d DEF InOrder
  <2>2. \A d, e \in Calls : pc'[d] = "registering" /\ Queued(e)' => e < d
    BY <1>c, <1>d DEF InOrder
  <2> QED BY <2>1, <2>2 DEF InOrder, Queued
<1>4. TailIsLast'
  BY <1>a, <1>c DEF TailIsLast, ChainType
<1>5. Chained'
  <2>1. \A d, e \in Calls : Queued(d)' /\ Queued(e)' /\ key'[d] = key'[e] /\ e < d => e <= prev'[d]
    BY <1>a, <1>c DEF Chained
  <2>2. ASSUME NEW d \in Calls, Queued(d)', prev'[d] # NoCall
        PROVE  pc'[prev'[d]] \in {"waiting"} \cup Inside \cup Ended /\ key'[prev'[d]] = key'[d]
    <3>1. /\ prev'[d] = prev[d] /\ prev[d] \in Calls /\ key[prev[d]] = key[d]
          /\ pc[prev[d]] \in {"waiting"} \cup Inside \cup Ended
      BY <2>2, <1>a, <1>c DEF Chained, ChainType
    <3>2. pc'[prev[d]] \in {"waiting"} \cup Inside \cup Ended
      BY <3>1, <1>b, <1>c
    <3> QED BY <3>1, <3>2, <1>a
  <2> QED BY <2>1, <2>2 DEF Chained, Queued
<1>6. InTurn'
  <2>1. ASSUME NEW d \in Calls, pc'[d] \in Inside
        PROVE  Alone(d, key[d])'
    <3>1. Alone(d, key[d])
      BY <2>1, <1>a, <1>c DEF InTurn
    <3> QED BY <3>1, <1>a, <1>c DEF Alone
  <2>2. ASSUME NEW d \in Calls, Queued(d)', prev'[d] # NoCall, pc'[prev'[d]] \in Ended
        PROVE  Alone(prev[d], key[d])'
    <3>1. Queued(d) /\ prev[d] # NoCall /\ prev[d] \in Calls /\ pc'[prev[d]] \in Ended
      BY <2>2, <1>a, <1>c DEF ChainType
    <3>2. pc[prev[d]] \in Ended
      BY <3>1, <1>c, <1>d
    <3>3. Alone(prev[d], key[d])
      BY <3>1, <3>2 DEF InTurn
    <3> QED BY <3>3, <1>a, <1>c DEF Alone
  <2> QED BY <2>1, <2>2 DEF InTurn, Queued, Alone
<1> QED BY <1>1, <1>2, <1>3, <1>4, <1>5, <1>6

(* So does a call that leaves the queue.                                   *)
LEMMA LeavingIInv == ASSUME IInv, NEW c \in Calls, Leaving(c) PROVE IInv'
<1> USE FileAssumption DEF Calls, IInv
<1>0. PICK l \in Ended : pc' = [pc EXCEPT ![c] = l]
  BY DEF Leaving
<1>a. /\ real' = real /\ path' = path /\ key' = key /\ prev' = prev
      /\ tail' = IF tail[key[c]] = c THEN [tail EXCEPT ![key[c]] = NoCall] ELSE tail
      /\ Queued(c) /\ Alone(c, key[c])
  BY MoverIsFirst DEF Leaving
<1>b. ~Queued(c)' /\ pc'[c] \in Ended /\ pc'[c] \notin Inside
  BY <1>0 DEF Queued, Inside, Ended, ChainType
<1>c. \A d \in Calls : d # c => (Queued(d)' <=> Queued(d)) /\ pc'[d] = pc[d]
  BY <1>0 DEF Queued, ChainType
<1>d. /\ pc'[c] # "absent" /\ pc'[c] # "registering"
      /\ pc[c] \notin Ended /\ pc[c] # "absent" /\ pc[c] # "registering"
  BY <1>a, <1>b DEF Queued, Inside, Ended
<1>e. /\ key[c] \in Paths
      /\ \A k \in Paths : tail'[k] = IF k = key[c] /\ tail[k] = c THEN NoCall ELSE tail[k]
  BY <1>a DEF ChainType
<1>1. ChainType'
  <2>1. tail' \in [Paths -> Calls \cup {NoCall}]
    BY <1>a DEF ChainType
  <2> QED BY <1>0, <1>a, <2>1 DEF ChainType, PCs
<1>2. KeyIsFile'
  BY <1>a, <1>b, <1>c DEF KeyIsFile, File, Real
<1>3. InOrder'
  <2>1. \A d, e \in Calls : pc'[d] = "absent" /\ pc'[e] # "absent" => e < d
    BY <1>c, <1>d DEF InOrder
  <2>2. \A d, e \in Calls : pc'[d] = "registering" /\ Queued(e)' => e < d
    BY <1>b, <1>c, <1>d DEF InOrder
  <2> QED BY <2>1, <2>2 DEF InOrder, Queued
<1>4. TailIsLast'
  <2>1. ASSUME NEW d \in Calls, Queued(d)'
        PROVE  tail'[key'[d]] # NoCall /\ d <= tail'[key'[d]]
    <3>1. d # c /\ Queued(d) /\ key'[d] = key[d] /\ key[d] \in Paths
      BY <2>1, <1>a, <1>b, <1>c DEF ChainType
    <3>2. tail[key[d]] # NoCall /\ d <= tail[key[d]]
      BY <3>1 DEF TailIsLast
    <3>3. ~(key[d] = key[c] /\ tail[key[d]] = c)
      BY <3>1, <3>2, <1>a DEF Alone
    <3> QED BY <3>1, <3>2, <3>3, <1>e
  <2>2. ASSUME NEW q \in Paths, tail'[q] # NoCall
        PROVE  pc'[tail'[q]] \in {"waiting"} \cup Inside /\ key'[tail'[q]] = q
    <3>1. tail'[q] = tail[q] /\ tail[q] # NoCall /\ ~(q = key[c] /\ tail[q] = c)
      BY <2>2, <1>e
    <3>2. tail[q] \in Calls /\ Queued(tail[q]) /\ key[tail[q]] = q
      BY <3>1 DEF TailIsLast, ChainType
    <3>3. tail[q] # c
      BY <3>1, <3>2
    <3> QED BY <3>1, <3>2, <3>3, <1>a, <1>c DEF Queued
  <2> QED BY <2>1, <2>2 DEF TailIsLast, Queued
<1>5. Chained'
  <2>1. \A d, e \in Calls : Queued(d)' /\ Queued(e)' /\ key'[d] = key'[e] /\ e < d => e <= prev'[d]
    BY <1>a, <1>b, <1>c DEF Chained
  <2>2. ASSUME NEW d \in Calls, Queued(d)', prev'[d] # NoCall
        PROVE  pc'[prev'[d]] \in {"waiting"} \cup Inside \cup Ended /\ key'[prev'[d]] = key'[d]
    <3>1. /\ prev'[d] = prev[d] /\ prev[d] \in Calls /\ key[prev[d]] = key[d]
          /\ pc[prev[d]] \in {"waiting"} \cup Inside \cup Ended
      BY <2>2, <1>a, <1>b, <1>c DEF Chained, ChainType
    <3>2. pc'[prev[d]] \in {"waiting"} \cup Inside \cup Ended
      BY <3>1, <1>b, <1>c
    <3> QED BY <3>1, <3>2, <1>a
  <2> QED BY <2>1, <2>2 DEF Chained, Queued
<1>6. InTurn'
  <2>1. ASSUME NEW d \in Calls, pc'[d] \in Inside
        PROVE  Alone(d, key[d])'
    <3>1. Alone(d, key[d]) /\ key[d] \in Paths
      BY <2>1, <1>b, <1>c DEF InTurn, ChainType
    <3> QED BY <3>1, <1>a, <1>b, <1>c DEF Alone
  <2>2. ASSUME NEW d \in Calls, Queued(d)', prev'[d] # NoCall, pc'[prev'[d]] \in Ended
        PROVE  Alone(prev[d], key[d])'
    <3>1. Queued(d) /\ prev[d] # NoCall /\ prev[d] \in Calls /\ pc'[prev[d]] \in Ended
      BY <2>2, <1>a, <1>b, <1>c DEF ChainType
    <3>2. CASE prev[d] = c
      <4>1. Alone(c, key[c]) /\ key[c] = key[d]
        BY <1>a, <3>1, <3>2 DEF Chained
      <4> QED BY <3>2, <4>1, <1>a, <1>b, <1>c DEF Alone
    <3>3. CASE prev[d] # c
      <4>1. Alone(prev[d], key[d])
        BY <3>1, <3>3, <1>c DEF InTurn
      <4> QED BY <4>1, <1>a, <1>b, <1>c DEF Alone
    <3> QED BY <3>2, <3>3
  <2> QED BY <2>1, <2>2 DEF InTurn, Queued, Alone
<1> QED BY <1>1, <1>2, <1>3, <1>4, <1>5, <1>6

(* Every step preserves the invariant.                                     *)
LEMMA NextIInv == IInv /\ [Next]_vars => IInv'
<1> SUFFICES ASSUME IInv, [Next]_vars PROVE IInv'
  OBVIOUS
<1>1. CASE Same
  BY <1>1 DEF Same, queue, IInv, ChainType, KeyIsFile, File, Real, InOrder, TailIsLast, Chained, InTurn, Queued, Alone
<1> QED
  BY <1>1, StepKinds, CallingIInv, RegisteringIInv, RejectedIInv, MovingIInv, LeavingIInv

(* The inductive invariant holds in every reachable state.                 *)
THEOREM Invariance == Spec => []IInv
BY InitIInv, NextIInv, PTL DEF Spec

-----------------------------------------------------------------------------
(* Operations on one file exclude one another (OneCallPerFile), as long as *)
(* their keys were real paths.                                             *)
THEOREM Exclusion == Spec => []OneCallPerFile
<1>1. IInv => OneCallPerFile
  <2> SUFFICES ASSUME IInv, Resolved, NEW c \in Calls, NEW d \in Calls,
                      pc[c] \in Inside, pc[d] \in Inside, File(c) = File(d)
               PROVE  c = d
    BY DEF OneCallPerFile
  <2>1. Queued(c) /\ Queued(d)
    BY DEF Queued
  <2>2. key[c] = key[d]
    BY <2>1 DEF Resolved, IInv, KeyIsFile
  <2>3. ~(d < c) /\ ~(c < d)
    BY <2>1, <2>2 DEF IInv, InTurn, Alone
  <2> QED BY <2>3, FileAssumption DEF Calls
<1> QED BY <1>1, Invariance, PTL

(* They begin in the order of the calls (CallOrder), although each awaits  *)
(* its real path before it has a place in the queue.                       *)
THEOREM Order == Spec => []CallOrder
<1>1. IInv => CallOrder
  <2> SUFFICES ASSUME IInv, Resolved, NEW c \in Calls, NEW d \in Calls,
                      c < d, File(c) = File(d), pc[d] \in Inside
               PROVE  pc[c] \in Inside \cup Ended
    BY DEF CallOrder
  <2>1. Queued(d) /\ pc[d] # "absent"
    BY DEF Queued, Inside
  <2>2. pc[c] # "absent" /\ pc[c] # "registering"
    BY <2>1, FileAssumption DEF IInv, InOrder, Calls
  <2>3. pc[c] # "waiting"
    <3> SUFFICES ASSUME pc[c] = "waiting" PROVE FALSE
      OBVIOUS
    <3>1. Queued(c) /\ key[c] = key[d]
      BY <2>1 DEF Queued, Resolved, IInv, KeyIsFile
    <3> QED BY <3>1 DEF IInv, InTurn, Alone
  <2> QED BY <2>2, <2>3 DEF IInv, ChainType, PCs
<1> QED BY <1>1, Invariance, PTL

(* The map of queues does not grow (MapIsClean): every entry is a call     *)
(* that has still to end.                                                  *)
THEOREM CleanMap == Spec => []MapIsClean
<1>1. IInv => MapIsClean
  BY DEF IInv, TailIsLast, MapIsClean, Queued, Inside, Ended
<1> QED BY <1>1, Invariance, PTL

-----------------------------------------------------------------------------
(* Every variable has its type, and a call waits for an earlier call only  *)
(* (TypeOK): no cycle of calls that wait for one another can come to be.   *)
Marks == {NoCall} \cup Calls \cup Shell

DataType ==
  /\ exists \in [Files -> BOOLEAN] /\ content \in [Files -> SUBSET Marks]
  /\ tool \in [Calls -> Tools \cup {"none"}]
  /\ buffer \in [Calls -> SUBSET Marks]
  /\ aborted \in BOOLEAN /\ shell \in 0..MaxShell

(* Every step keeps the types of the data.                                 *)
LEMMA NextDataType == ASSUME IInv, DataType, [Next]_vars PROVE DataType'
<1> USE DEF DataType
<1>1. \A c \in Calls : File(c) \in Files
  BY DEF IInv, ChainType, File, Real, Paths
<1>2. CASE UNCHANGED vars
  BY <1>2 DEF vars, files
<1>3. CASE Abort \/ Quiet
  BY <1>3 DEF Abort, Quiet, vars, files
<1>4. CASE ShellWrites
  <2>1. MaxCalls + shell + 1 \in Shell
    BY <1>4, FileAssumption DEF ShellWrites, Shell
  <2> QED BY <1>4, <2>1, FileAssumption DEF ShellWrites, Marks
<1>5. ASSUME NEW c \in Calls,
             \/ Call(c) \/ Register(c) \/ RegistrationFails(c) \/ Enter(c) \/ StepFails(c)
             \/ MkdirEnds(c) \/ AccessEnds(c) \/ ResolveEnds(c) \/ StatEnds(c) \/ MessageSent(c)
      PROVE  DataType'
  <2>1. UNCHANGED <<exists, content, buffer, aborted, shell>>
    BY <1>5 DEF Call, Register, RegistrationFails, Enter, StepFails, MkdirEnds, AccessEnds, ResolveEnds,
                StatEnds, MessageSent, files
  <2>2. tool' \in [Calls -> Tools \cup {"none"}]
    BY <1>5 DEF Call, Register, RegistrationFails, Enter, StepFails, MkdirEnds, AccessEnds, ResolveEnds,
                StatEnds, MessageSent
  <2> QED BY <2>1, <2>2
<1>6. ASSUME NEW c \in Calls, ReadEnds(c) \/ Opened(c) \/ WriteEnds(c) \/ Uploaded(c) \/ Unlinked(c)
      PROVE  DataType'
  <2>1. UNCHANGED <<tool, aborted, shell>>
    BY <1>6 DEF ReadEnds, Opened, WriteEnds, Uploaded, Unlinked
  <2>2. exists' \in [Files -> BOOLEAN]
    BY <1>6 DEF ReadEnds, Opened, WriteEnds, Uploaded, Unlinked, files
  <2>3. content' \in [Files -> SUBSET Marks]
    BY <1>1, <1>6 DEF ReadEnds, Opened, WriteEnds, Uploaded, Unlinked, files, Marks
  <2>4. buffer' \in [Calls -> SUBSET Marks]
    BY <1>1, <1>6 DEF ReadEnds, Opened, WriteEnds, Uploaded, Unlinked
  <2> QED BY <2>1, <2>2, <2>3, <2>4
<1> QED BY <1>2, <1>3, <1>4, <1>5, <1>6 DEF Next, Step

LEMMA InitDataType == Init => DataType
<1> SUFFICES ASSUME Init PROVE DataType
  OBVIOUS
<1>1. exists \in [Files -> BOOLEAN]
  BY FileAssumption, Zenon DEF Init
<1>2. content \in [Files -> SUBSET Marks]
  BY DEF Init, Marks
<1>3. aborted \in BOOLEAN
  BY DEF Init
<1>4. shell \in 0..MaxShell
  <2>1. MaxShell \in Nat /\ shell = 0
    BY FileAssumption DEF Init
  <2> QED BY <2>1
<1> QED BY <1>1, <1>2, <1>3, <1>4 DEF Init, DataType

(* TypeOK: every variable keeps its type.                                  *)
THEOREM TypeCorrect == Spec => []TypeOK
<1>1. IInv /\ DataType => TypeOK
  BY DEF IInv, ChainType, DataType, TypeOK, PCs, Marks
<1> QED BY <1>1, InitDataType, NextDataType, Invariance, PTL DEF Spec

-----------------------------------------------------------------------------
(* What a call has read is still there when it overwrites or deletes the   *)
(* file, but for what bash has added.                                      *)

(* A call that will replace what it has read (an edit) or delete what it   *)
(* has sent (a delivery).                                                  *)
Holds(c) == (tool[c] = "edit" /\ pc[c] = "opening") \/ pc[c] \in {"message", "unlink"}

UpToDate ==
  /\ \A c \in Calls : pc[c] = "mkdir" => tool[c] = "write"
  /\ Resolved => \A c \in Calls : Holds(c) => content[File(c)] \ Shell = buffer[c] \ Shell

Placed(c) == pc[c] \in {"waiting"} \cup Inside \cup Ended

(* A call keeps its key once it has one.                                   *)
LEMMA ResolvedBefore == ASSUME IInv, [Next]_vars, Resolved' PROVE Resolved
<1> SUFFICES ASSUME NEW d \in Calls, Placed(d) PROVE key[d] \in Files
  BY DEF Resolved, Placed
<1>0. pc \in [Calls -> PCs] /\ key \in [Calls -> Paths] /\ pc[d] # "absent" /\ pc[d] # "registering"
  BY DEF IInv, ChainType, Placed, Inside, Ended
<1>1. Placed(d)' /\ key'[d] = key[d]
  <2>1. CASE UNCHANGED vars \/ Abort \/ ShellWrites \/ Quiet
    BY <2>1 DEF vars, Abort, ShellWrites, Quiet, queue, Placed
  <2>2. ASSUME NEW c \in Calls, Call(c) \/ Register(c) \/ RegistrationFails(c) PROVE Placed(d)' /\ key'[d] = key[d]
    <3>1. pc[c] \in {"absent", "registering"}
      BY <2>2 DEF Call, Register, RegistrationFails, MayRegister
    <3>2. c # d
      BY <1>0, <3>1
    <3>3. pc'[d] = pc[d] /\ key'[d] = key[d]
      BY <1>0, <2>2, <3>2 DEF Call, Register, RegistrationFails, Goto, queue
    <3> QED BY <3>3 DEF Placed
  <2>3. ASSUME NEW c \in Calls,
               \/ Enter(c) \/ StepFails(c) \/ MkdirEnds(c) \/ AccessEnds(c) \/ ReadEnds(c) \/ Opened(c)
               \/ WriteEnds(c) \/ ResolveEnds(c) \/ StatEnds(c) \/ Uploaded(c) \/ MessageSent(c) \/ Unlinked(c)
        PROVE  Placed(d)' /\ key'[d] = key[d]
    <3>1. key' = key
      BY <2>3 DEF Enter, StepFails, MkdirEnds, AccessEnds, ReadEnds, Opened, WriteEnds, ResolveEnds, StatEnds,
                  Uploaded, MessageSent, Unlinked, queue
    <3>2. \E l \in Inside \cup Ended : pc' = [pc EXCEPT ![c] = l]
      BY <2>3 DEF Enter, StepFails, MkdirEnds, AccessEnds, ReadEnds, Opened, WriteEnds, ResolveEnds, StatEnds,
                  Uploaded, MessageSent, Unlinked, Goto, End, Inside, Ended
    <3> QED BY <1>0, <3>1, <3>2 DEF Placed
  <2> QED BY <2>1, <2>2, <2>3 DEF Next, Step
<1> QED BY <1>1 DEF Resolved, Placed

(* A step of one call touches its own state, and its own file.             *)
LEMMA OwnState ==
  ASSUME IInv, DataType, NEW c \in Calls, Call(c) \/ Step(c)
  PROVE  /\ real' = real
         /\ \A d \in Calls \ {c} : pc'[d] = pc[d] /\ tool'[d] = tool[d] /\ path'[d] = path[d] /\ buffer'[d] = buffer[d]
         /\ \A f \in Files : content'[f] = content[f] \/ (pc[c] \in Inside /\ f = File(c))
<1>0. /\ pc \in [Calls -> PCs] /\ path \in [Calls -> Paths] /\ tool \in [Calls -> Tools \cup {"none"}]
      /\ buffer \in [Calls -> SUBSET Marks] /\ content \in [Files -> SUBSET Marks]
  BY DEF IInv, ChainType, DataType
<1>1. CASE Call(c)
  BY <1>0, <1>1 DEF Call, Goto, files
<1>2. CASE Register(c) \/ RegistrationFails(c)
  BY <1>0, <1>2 DEF Register, RegistrationFails, Goto, files
<1>3. CASE Enter(c) \/ StepFails(c) \/ MkdirEnds(c) \/ AccessEnds(c)
  BY <1>0, <1>3 DEF Enter, StepFails, MkdirEnds, AccessEnds, Goto, End, files
<1>4. CASE ReadEnds(c) \/ ResolveEnds(c) \/ StatEnds(c) \/ Uploaded(c) \/ MessageSent(c)
  BY <1>0, <1>4 DEF ReadEnds, ResolveEnds, StatEnds, Uploaded, MessageSent, Goto, End, files
<1>5. CASE Opened(c) \/ WriteEnds(c) \/ Unlinked(c)
  BY <1>0, <1>5 DEF Opened, WriteEnds, Unlinked, Goto, End, files, Inside
<1> QED BY <1>1, <1>2, <1>3, <1>4, <1>5 DEF Step

(* It begins to hold what it has just read, or goes on holding it.         *)
LEMMA OwnHold ==
  ASSUME IInv, DataType, UpToDate, Resolved, NEW c \in Calls, Call(c) \/ Step(c), Holds(c)'
  PROVE  content'[File(c)'] \ Shell = buffer'[c] \ Shell
<1>0. /\ pc \in [Calls -> PCs] /\ path \in [Calls -> Paths] /\ tool \in [Calls -> Tools \cup {"none"}]
      /\ buffer \in [Calls -> SUBSET Marks] /\ content \in [Files -> SUBSET Marks]
  BY DEF IInv, ChainType, DataType
<1>1. CASE \/ Call(c) \/ Register(c) \/ RegistrationFails(c) \/ Enter(c) \/ StepFails(c) \/ AccessEnds(c)
           \/ Opened(c) \/ WriteEnds(c) \/ ResolveEnds(c) \/ StatEnds(c) \/ Unlinked(c)
  <2>1. pc'[c] \notin {"opening", "message", "unlink"}
    BY <1>0, <1>1 DEF Call, Register, RegistrationFails, Enter, StepFails, AccessEnds, Opened, WriteEnds,
                      ResolveEnds, StatEnds, Unlinked, Goto, End
  <2> QED BY <2>1 DEF Holds
<1>2. CASE MkdirEnds(c)
  <2>1. tool'[c] = "write" /\ pc'[c] \notin {"message", "unlink"}
    BY <1>0, <1>2 DEF MkdirEnds, Goto, End, UpToDate
  <2> QED BY <2>1 DEF Holds
<1>3. CASE ReadEnds(c) \/ Uploaded(c)
  <2>1. buffer'[c] = content[File(c)] /\ content' = content /\ real' = real /\ path' = path
    BY <1>0, <1>3 DEF ReadEnds, Uploaded, files
  <2> QED BY <2>1 DEF File, Real
<1>4. CASE MessageSent(c)
  <2>1. pc[c] = "message" /\ buffer' = buffer /\ content' = content /\ real' = real /\ path' = path
    BY <1>4 DEF MessageSent, files
  <2>2. content[File(c)] \ Shell = buffer[c] \ Shell
    BY <2>1 DEF UpToDate, Holds
  <2> QED BY <2>1, <2>2 DEF File, Real
<1> QED BY <1>1, <1>2, <1>3, <1>4 DEF Step

(* The first part of UpToDate.                                             *)
LEMMA WriteMakesDirectory ==
  ASSUME IInv, DataType, UpToDate, NEW c \in Calls, Call(c) \/ Step(c), pc'[c] = "mkdir"
  PROVE  tool'[c] = "write"
<1>0. pc \in [Calls -> PCs] /\ tool \in [Calls -> Tools \cup {"none"}]
  BY DEF IInv, ChainType, DataType
<1>1. Enter(c)
  BY <1>0 DEF Step, Call, Register, RegistrationFails, StepFails, MkdirEnds, AccessEnds, ReadEnds, Opened, WriteEnds,
              ResolveEnds, StatEnds, Uploaded, MessageSent, Unlinked, Goto, End
<1> QED BY <1>0, <1>1 DEF Enter, Goto, End

(* Nobody else has touched the file in the meantime.                       *)
LEMMA NextUpToDate ==
  ASSUME IInv, DataType, OneCallPerFile, UpToDate, [Next]_vars
  PROVE  UpToDate'
<1>0. \A d \in Calls : File(d) \in Files
  BY DEF IInv, ChainType, File, Real, Paths
<1>1. CASE UNCHANGED vars \/ Abort \/ Quiet
  <2>1. UNCHANGED <<real, files, tool, path, pc, key, buffer>>
    BY <1>1 DEF vars, Abort, Quiet, queue
  <2> QED BY <2>1 DEF UpToDate, Holds, Resolved, File, Real, files
<1>2. CASE ShellWrites
  <2>1. PICK f \in Files : content' = [content EXCEPT ![f] = @ \cup {MaxCalls + shell + 1}]
    BY <1>2 DEF ShellWrites
  <2>2. UNCHANGED <<real, tool, path, pc, key, buffer>>
    BY <1>2 DEF ShellWrites, queue
  <2>3. MaxCalls + shell + 1 \in Shell
    BY <1>2, FileAssumption DEF ShellWrites, Shell, DataType
  <2>4. \A g \in Files : content'[g] \ Shell = content[g] \ Shell
    BY <2>1, <2>3 DEF DataType
  <2>5. Resolved' => Resolved
    BY <2>2 DEF Resolved
  <2>6. \A d \in Calls : File(d)' = File(d) /\ (Holds(d)' <=> Holds(d))
    BY <2>2 DEF File, Real, Holds
  <2>7. Resolved' => \A d \in Calls : Holds(d)' => content'[File(d)'] \ Shell = buffer'[d] \ Shell
    BY <1>0, <2>2, <2>4, <2>5, <2>6 DEF UpToDate
  <2> QED BY <2>2, <2>7 DEF UpToDate
<1>3. ASSUME NEW c \in Calls, Call(c) \/ Step(c) PROVE UpToDate'
  <2>1. ASSUME NEW d \in Calls, pc'[d] = "mkdir" PROVE tool'[d] = "write"
    <3>1. CASE d = c
      BY <1>3, <2>1, <3>1, WriteMakesDirectory
    <3>2. CASE d # c
      BY <1>3, <2>1, <3>2, OwnState DEF UpToDate
    <3> QED BY <3>1, <3>2
  <2>2. ASSUME Resolved', NEW d \in Calls, Holds(d)'
        PROVE  content'[File(d)'] \ Shell = buffer'[d] \ Shell
    <3>0. Resolved
      BY <1>3, <2>2, ResolvedBefore DEF Next
    <3>1. CASE d = c
      BY <1>3, <2>2, <3>0, <3>1, OwnHold
    <3>2. CASE d # c
      <4>1. /\ real' = real
            /\ pc'[d] = pc[d] /\ tool'[d] = tool[d] /\ path'[d] = path[d] /\ buffer'[d] = buffer[d]
            /\ \A f \in Files : content'[f] = content[f] \/ (pc[c] \in Inside /\ f = File(c))
        BY <1>3, <3>2, OwnState
      <4>2. Holds(d) /\ File(d)' = File(d)
        BY <2>2, <4>1 DEF Holds, File, Real
      <4>3. pc[d] \in Inside
        BY <4>2 DEF Holds, Inside
      <4>4. content'[File(d)] = content[File(d)]
        BY <1>0, <3>0, <3>2, <4>1, <4>3 DEF OneCallPerFile
      <4> QED BY <3>0, <4>1, <4>2, <4>4 DEF UpToDate
    <3> QED BY <3>1, <3>2
  <2> QED BY <2>1, <2>2 DEF UpToDate
<1> QED BY <1>1, <1>2, <1>3 DEF Next

(* No update by a tool call is lost, for any files, links, calls and       *)
(* changes by bash: what an edit overwrites is what it has read, and what  *)
(* deliver_file deletes is what it has sent, but for what bash has added   *)
(* (2026-07-22-file-delivery-design.md:86).                                *)
THEOREM UpdatesKept == Spec => NoUpdateLost
<1>1. Init => DataType /\ UpToDate
  <2>1. Init => UpToDate
    BY DEF Init, UpToDate, Holds
  <2> QED BY <2>1, InitDataType
<1>2. IInv /\ DataType /\ OneCallPerFile /\ UpToDate /\ [Next]_vars => DataType' /\ UpToDate'
  BY NextDataType, NextUpToDate
<1>3. UpToDate => [Resolved => \A c \in Calls :
                     (\/ tool[c] = "edit" /\ pc[c] = "opening" /\ pc'[c] = "writing"
                      \/ pc[c] = "unlink" /\ pc'[c] = "done") =>
                     content[File(c)] \ Shell = buffer[c] \ Shell]_vars
  BY DEF UpToDate, Holds
<1> QED BY <1>1, <1>2, <1>3, Invariance, Exclusion, PTL DEF Spec, NoUpdateLost
=============================================================================
