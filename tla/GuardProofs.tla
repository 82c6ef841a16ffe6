----------------------------- MODULE GuardProofs -----------------------------
(***************************************************************************)
(* The guard of a task keeps its limits, for any limits, batches, runs,    *)
(* tasks and aborts, and no timer or listener outlives its task, nor a     *)
(* file or browser that the cleanup was silent about.  The limits rest     *)
(* on the guard's counters being ahead of what executes: a call is counted *)
(* when it is announced and waits, counted, for the rest of its batch;     *)
(* and a run that was on when the guard said stop has its signal up.       *)
(***************************************************************************)
EXTENDS GuardedTask, FiniteSetTheorems, TLAPS

TaskPhases == {"preflight", "turn", "announce", "prepare", "tools", "ending", "between"}

(* What is left is what the cleanup of the last task has logged.           *)
Accounted == litter \cap Removable \subseteq logged

(* Only the current task is watched, exactly while it has a session.       *)
Watch ==
  /\ phase # "idle" => task # 0
  /\ timers \subseteq {task}
  /\ phase \in TaskPhases => listeners = {task}
  /\ phase \notin TaskPhases => timers = {} /\ listeners = {}
  /\ phase \in {"idle", "creating"} => Accounted

BatchInv ==
  /\ phase \in {"announce", "prepare"} => todo \in 1..MaxBatch
  /\ phase \notin {"announce", "prepare"} => held = {}
  /\ IsFiniteSet(held)

(* A stop has aborted the run that can call tools, unless the run began    *)
(* after it.                                                               *)
StopInv ==
  /\ (stop # "none" /\ ~late /\ phase \in {"turn", "announce", "prepare", "tools"}) => signal
  /\ stop = "none" => count <= ToolLimit

Pending(n) == IF phase = "prepare" THEN n ELSE 0

(* The counters are ahead of what has executed, is held and is announced.  *)
CountInv ==
  (phase \in TaskPhases /\ hears /\ ~late /\ stop = "none") =>
    /\ done.calls + Cardinality(held) + Pending(1) <= count
    /\ done.starts + StartsOf(held) + Pending(call.starts) <= launches
    /\ phase = "prepare" => call.legal
    /\ \A c \in held : c.legal

Fresh == phase \in {"creating", "preflight"} => done = Idle /\ runs = 0

IInv == TypeOK /\ Watch /\ BatchInv /\ StopInv /\ CountInv /\ Fresh /\ WithinLimits

Calls == [n : 1..MaxBatch, starts : 0..(BrowserLimit + 1), legal : BOOLEAN]

-----------------------------------------------------------------------------
(* Counting the browsers of a set of calls.                                *)

Pairs(S) == {p \in S \X (1..(BrowserLimit + 1)) : p[2] <= p[1].starts}

(* StartsOf counts finitely many pairs, for the empty set too.             *)
LEMMA StartsOfPairs ==
  ASSUME NEW S, IsFiniteSet(S)
  PROVE  /\ IsFiniteSet(Pairs(S))
         /\ StartsOf(S) = Cardinality(Pairs(S))
         /\ StartsOf(S) \in Nat
<1>1. IsFiniteSet(1..(BrowserLimit + 1))
  BY FS_Interval, GuardAssumption
<1>2. IsFiniteSet(S \X (1..(BrowserLimit + 1)))
  BY <1>1, FS_Product
<1>3. Pairs(S) \in SUBSET (S \X (1..(BrowserLimit + 1)))
  BY DEF Pairs
<1>4. IsFiniteSet(Pairs(S))
  BY <1>2, <1>3, FS_Subset
<1>5. S = {} => Pairs(S) = {}
  BY DEF Pairs
<1>6. StartsOf(S) = Cardinality(Pairs(S))
  BY <1>5, FS_EmptySet DEF StartsOf, Pairs
<1> QED
  BY <1>4, <1>6, FS_CardinalityType

(* One call adds at most the browsers it starts.                           *)
LEMMA PairsOfOne ==
  ASSUME NEW x \in Calls
  PROVE  IsFiniteSet(Pairs({x})) /\ Cardinality(Pairs({x})) <= x.starts
<1>1. x.starts \in 0..(BrowserLimit + 1)
  BY DEF Calls
<1>2. x.starts \in Nat
  BY <1>1, GuardAssumption
<1>3. IsFiniteSet(1..x.starts) /\ Cardinality(1..x.starts) = x.starts
  BY <1>2, FS_Interval, SMTT(20)
<1>4. IsFiniteSet({x} \X (1..x.starts)) /\ Cardinality({x} \X (1..x.starts)) = x.starts
  <2>1. IsFiniteSet({x}) /\ Cardinality({x}) = 1
    BY FS_Singleton, Zenon
  <2>2. /\ IsFiniteSet({x} \X (1..x.starts))
        /\ Cardinality({x} \X (1..x.starts)) = Cardinality({x}) * Cardinality(1..x.starts)
    BY <1>3, <2>1, FS_Product, Zenon
  <2>3. 1 * x.starts = x.starts
    BY <1>2
  <2> QED
    BY <1>3, <2>1, <2>2, <2>3, Zenon
<1>5. Pairs({x}) \in SUBSET ({x} \X (1..x.starts))
  BY <1>2, GuardAssumption DEF Pairs
<1>6. IsFiniteSet(Pairs({x})) /\ Cardinality(Pairs({x})) <= Cardinality({x} \X (1..x.starts))
  BY <1>4, <1>5, FS_Subset
<1> QED
  BY <1>2, <1>4, <1>6

(* A call that joins the held ones adds at most itself and its browsers.   *)
LEMMA OneMore ==
  ASSUME NEW S, IsFiniteSet(S), NEW x \in Calls
  PROVE  /\ IsFiniteSet(S \cup {x})
         /\ Cardinality(S) \in Nat
         /\ Cardinality(S \cup {x}) \in Nat
         /\ Cardinality(S \cup {x}) <= Cardinality(S) + 1
         /\ StartsOf(S) \in Nat
         /\ StartsOf(S \cup {x}) \in Nat
         /\ StartsOf(S \cup {x}) <= StartsOf(S) + x.starts
<1>1. IsFiniteSet(S \cup {x}) /\ Cardinality(S) \in Nat /\ Cardinality(S \cup {x}) \in Nat
  BY FS_AddElement, FS_CardinalityType
<1>2. Cardinality(S \cup {x}) <= Cardinality(S) + 1
  BY <1>1, FS_AddElement
<1>3. IsFiniteSet(Pairs(S)) /\ StartsOf(S) = Cardinality(Pairs(S)) /\ StartsOf(S) \in Nat
  BY StartsOfPairs
<1>4. StartsOf(S \cup {x}) = Cardinality(Pairs(S \cup {x})) /\ StartsOf(S \cup {x}) \in Nat
  BY <1>1, StartsOfPairs
<1>5. IsFiniteSet(Pairs({x})) /\ Cardinality(Pairs({x})) <= x.starts
  BY PairsOfOne
<1>6. Pairs(S \cup {x}) = Pairs(S) \cup Pairs({x})
  BY DEF Pairs
<1>7. Pairs(S) \cap Pairs({x}) \in SUBSET Pairs(S)
  OBVIOUS
<1>8. IsFiniteSet(Pairs(S) \cap Pairs({x}))
  BY <1>3, <1>7, FS_Subset
<1>9. /\ Cardinality(Pairs({x})) \in Nat
      /\ Cardinality(Pairs(S) \cap Pairs({x})) \in Nat
  BY <1>5, <1>8, FS_CardinalityType
<1>10. Cardinality(Pairs(S) \cup Pairs({x}))
         = Cardinality(Pairs(S)) + Cardinality(Pairs({x})) - Cardinality(Pairs(S) \cap Pairs({x}))
  BY <1>3, <1>5, FS_Union
<1>11. x.starts \in Nat
  BY GuardAssumption DEF Calls
<1>12. StartsOf(S \cup {x}) <= StartsOf(S) + x.starts
  <2>1. \A a, b, c, d \in Nat : b <= d => a + b - c <= a + d
    OBVIOUS
  <2>2. Cardinality(Pairs(S)) \in Nat
    BY <1>3
  <2>3. Cardinality(Pairs(S)) + Cardinality(Pairs({x})) - Cardinality(Pairs(S) \cap Pairs({x}))
          <= Cardinality(Pairs(S)) + x.starts
    BY <1>5, <1>9, <1>11, <2>1, <2>2, Zenon
  <2> QED
    BY <1>3, <1>4, <1>6, <1>10, <2>3, Zenon
<1> QED
  BY <1>1, <1>2, <1>3, <1>4, <1>12

-----------------------------------------------------------------------------
(* Types.                                                                  *)

Dones == [calls : 0..(ToolLimit + 1), starts : 0..(BrowserLimit + 1), illegal : BOOLEAN]

(* TypeOK in three parts.                                                  *)
Numbers ==
  /\ task \in 0..MaxTasks /\ runs \in 0..MaxRuns
  /\ todo \in 0..MaxBatch
  /\ count \in 0..(ToolLimit + 1) /\ launches \in 0..BrowserLimit

Flags ==
  /\ known \in BOOLEAN /\ hears \in BOOLEAN /\ signal \in BOOLEAN /\ resumes \in BOOLEAN
  /\ phase \in {"idle", "creating", "preflight", "turn", "announce", "prepare", "tools", "ending", "between",
                "cleaning"}
  /\ call \in Commands
  /\ stop \in Reasons \cup {"none"}
  /\ timers \subseteq Tasks /\ listeners \subseteq Tasks
  /\ litter \in SUBSET {"browsers", "files"} /\ logged \in SUBSET {"browsers", "files"}
  /\ outcome \in Reasons \cup {"none", "reply", "error"}
  /\ aborts \in [Aborts -> {"absent", "waiting", "cleaning", "done"}]
  /\ server \in {"up", "cleaning", "down"}
  /\ late \in BOOLEAN

Records == held \in SUBSET Calls /\ running \in SUBSET Calls /\ done \in Dones

(* The parts make up TypeOK.                                               *)
LEMMA TypeParts == TypeOK <=> Numbers /\ Flags /\ Records
<1>1. held \cup running \subseteq Calls <=> held \in SUBSET Calls /\ running \in SUBSET Calls
  OBVIOUS
<1> QED
  BY <1>1, Zenon DEF TypeOK, Numbers, Flags, Records, Calls, Dones

(* The same of the next state.                                             *)
LEMMA TypePartsNext == TypeOK' <=> Numbers' /\ Flags' /\ Records'
  BY TypeParts, PTL

(* The fields of a command.                                                *)
LEMMA CommandFields ==
  ASSUME NEW k \in Commands
  PROVE  k.starts \in 0..(BrowserLimit + 1) /\ k.legal \in BOOLEAN /\ (k.starts = 0 => k.legal)
<1>1. CASE k \in [starts : {0}, legal : {TRUE}]
  <2>1. k.starts \in {0} /\ k.legal \in {TRUE}
    BY <1>1
  <2>2. k.starts \in 0..(BrowserLimit + 1)
    BY <2>1, GuardAssumption
  <2> QED
    BY <2>1, <2>2, Zenon
<1>2. CASE k \in [starts : 1..(BrowserLimit + 1), legal : BOOLEAN]
  <2>1. k.starts \in 1..(BrowserLimit + 1) /\ k.legal \in BOOLEAN
    BY <1>2
  <2> QED
    BY <2>1, GuardAssumption
<1> QED
  BY <1>1, <1>2 DEF Commands

(* The fields of the history.                                              *)
LEMMA DoneFields ==
  ASSUME done \in Dones
  PROVE  done.calls \in Nat /\ done.starts \in Nat /\ done.illegal \in BOOLEAN
<1>1. done.calls \in 0..(ToolLimit + 1) /\ done.starts \in 0..(BrowserLimit + 1) /\ done.illegal \in BOOLEAN
  BY DEF Dones
<1> QED
  BY <1>1, GuardAssumption

(* What the guard does with an announced command.                          *)
LEMMA HandleEventType ==
  ASSUME Numbers, Flags, StopInv, NEW k \in Commands, HandleEvent(k)
  PROVE  /\ count' \in 0..(ToolLimit + 1) /\ launches' \in 0..BrowserLimit
         /\ stop' \in Reasons \cup {"none"} /\ signal' \in BOOLEAN
<1>1. CASE hears /\ task \in listeners /\ stop = "none"
  <2>1. Verdict(k) \in Reasons \cup {"none"}
    BY Zenon DEF Verdict, Reasons
  <2>2. k.starts \in Nat
    BY CommandFields, GuardAssumption
  <2>3. Verdict(k) = "none" => launches + k.starts <= BrowserLimit
    BY GuardAssumption, <2>2 DEF Verdict, Numbers
  <2>4. launches' \in 0..BrowserLimit
    BY <1>1, <2>2, <2>3, GuardAssumption DEF HandleEvent, Numbers, Flags
  <2>5. count' \in 0..(ToolLimit + 1)
    BY <1>1, GuardAssumption DEF HandleEvent, Numbers, StopInv
  <2>6. stop' \in Reasons \cup {"none"} /\ signal' \in BOOLEAN
    BY <1>1, <2>1 DEF HandleEvent, Numbers, Flags
  <2> QED
    BY <2>4, <2>5, <2>6
<1>2. CASE ~(hears /\ task \in listeners /\ stop = "none")
  BY <1>2 DEF HandleEvent, Numbers, Flags
<1> QED
  BY <1>1, <1>2

(* What executing a set of calls does to the history.                      *)
LEMMA ExecuteType ==
  ASSUME Numbers, Flags, Records, NEW S \in SUBSET Calls, IsFiniteSet(S), Execute(S)
  PROVE  /\ running' = S /\ phase' \in {"turn", "tools"} /\ litter' \in SUBSET {"browsers", "files"}
         /\ done' \in Dones
<1>1. Cardinality(S) \in Nat /\ StartsOf(S) \in Nat
  BY FS_CardinalityType, StartsOfPairs
<1>2. \A n, l \in Nat : Capped(n, l) \in 0..(l + 1)
  BY DEF Capped
<1>3. done.calls + Cardinality(S) \in Nat /\ done.starts + StartsOf(S) \in Nat
  BY <1>1, DoneFields DEF Records
<1>4. /\ Capped(done.calls + Cardinality(S), ToolLimit) \in 0..(ToolLimit + 1)
      /\ Capped(done.starts + StartsOf(S), BrowserLimit) \in 0..(BrowserLimit + 1)
  BY <1>2, <1>3, GuardAssumption, Zenon
<1>5. (done.illegal \/ \E c \in S : ~c.legal) \in BOOLEAN
  OBVIOUS
<1>6. CASE signal
  BY <1>6, Zenon DEF Execute, Records, Flags
<1>7. CASE ~signal
  <2>1. done' = [calls   |-> Capped(done.calls + Cardinality(S), ToolLimit),
                 starts  |-> Capped(done.starts + StartsOf(S), BrowserLimit),
                 illegal |-> done.illegal \/ \E c \in S : ~c.legal]
    BY <1>7, Zenon DEF Execute
  <2>2. \A x \in 0..(ToolLimit + 1), y \in 0..(BrowserLimit + 1), z \in BOOLEAN :
          [calls |-> x, starts |-> y, illegal |-> z] \in Dones
    BY DEF Dones
  <2>3. done' \in Dones
    BY <1>4, <1>5, <2>1, <2>2, Zenon
  <2>4. litter' \in SUBSET {"browsers", "files"}
    <3>1. litter' = {"browsers", "files"} \/ litter' = litter
      BY <1>7, Zenon DEF Execute
    <3> QED
      BY <3>1 DEF Flags
  <2> QED
    BY <2>3, <2>4, Zenon DEF Execute
<1> QED
  BY <1>6, <1>7

(* What the rest of a batch does to what is held.                          *)
LEMMA PrepareType ==
  ASSUME Numbers, Flags, Records, BatchInv, Prepare
  PROVE  Numbers' /\ Flags' /\ Records'
<1>1. todo \in 1..MaxBatch /\ todo' \in 0..MaxBatch /\ call' = Nothing
  BY GuardAssumption DEF Prepare, BatchInv
<1>2. [n |-> todo, starts |-> call.starts, legal |-> call.legal] \in Calls
  BY <1>1, CommandFields DEF Flags, Calls
<1>3. held \in SUBSET Calls /\ running \in SUBSET Calls /\ IsFiniteSet(held)
  BY DEF Records, BatchInv
<1>4. PICK S : /\ S = held \/ S = held \cup {[n |-> todo, starts |-> call.starts, legal |-> call.legal]}
               /\ \/ held' = {} /\ Execute(S)
                  \/ held' = S /\ phase' = "announce" /\ UNCHANGED <<running, done, litter>>
  BY DEF Prepare
<1>5. S \in SUBSET Calls
  BY <1>2, <1>3, <1>4
<1>6. IsFiniteSet(S)
  BY <1>3, <1>4, FS_AddElement
<1>7. Execute(S) => running' = S /\ phase' \in {"turn", "tools"} /\ litter' \in SUBSET {"browsers", "files"} /\ done' \in Dones
  BY <1>5, <1>6, ExecuteType
<1>8. /\ held' \in SUBSET Calls /\ running' \in SUBSET Calls /\ litter' \in SUBSET {"browsers", "files"}
      /\ phase' \in {"turn", "tools", "announce"}
      /\ done' \in Dones
  BY <1>3, <1>4, <1>5, <1>7 DEF Records, Flags
<1>9. Nothing \in Commands
  BY DEF Nothing, Commands
<1>10. Numbers' /\ Records'
  BY <1>1, <1>8 DEF Prepare, Numbers, Records, session, guard, waste
<1>11. Flags'
  BY <1>1, <1>8, <1>9 DEF Prepare, Flags, session, guard, waste
<1> QED
  BY <1>10, <1>11

(* What an announcement does to the types.                                 *)
LEMMA AnnounceType ==
  ASSUME Numbers, Flags, Records, StopInv, Announce
  PROVE  Numbers' /\ Flags' /\ Records'
<1>1. PICK k \in Commands : call' = k /\ HandleEvent(k)
  BY DEF Announce
<1>2. /\ count' \in 0..(ToolLimit + 1) /\ launches' \in 0..BrowserLimit
      /\ stop' \in Reasons \cup {"none"} /\ signal' \in BOOLEAN
  BY <1>1, HandleEventType
<1>3. Numbers' /\ Records'
  BY <1>1, <1>2 DEF Announce, Numbers, Records, session
<1>4. Flags'
  BY <1>1, <1>2 DEF Announce, Flags, session, waste
<1> QED
  BY <1>3, <1>4

(* What the beginning of a task does to them.                              *)
LEMMA PromptType ==
  ASSUME Numbers, Flags, Records, Watch, Prompt \/ RuntimeCreated
  PROVE  Numbers' /\ Flags' /\ Records'
<1> USE GuardAssumption
<1>1. task' \in 0..MaxTasks /\ runs' \in 0..MaxRuns /\ UNCHANGED <<batch, signal, resumes, litter, aborts, server>>
  BY DEF Prompt, RuntimeCreated, Numbers
<1>2. /\ done' \in {done, Idle} /\ late' \in BOOLEAN /\ outcome' \in {outcome, "none"}
      /\ known' \in BOOLEAN /\ hears' \in BOOLEAN
  BY Zenon DEF Prompt, RuntimeCreated, Flags, session
<1>3. (StartGuard(task') /\ task' \in Tasks) \/ (UNCHANGED <<guard, logged>> /\ phase' = "creating")
  <2>1. CASE Prompt
    <3>1. task' \in Tasks /\ task' = task + 1
      BY <2>1 DEF Prompt, Numbers, Tasks
    <3> QED
      BY <2>1, <3>1 DEF Prompt, StartGuard
  <2>2. CASE RuntimeCreated
    BY <2>2 DEF RuntimeCreated, StartGuard, Numbers, Tasks, Watch
  <2> QED
    BY <2>1, <2>2
<1>4. /\ count' \in 0..(ToolLimit + 1) /\ launches' \in 0..BrowserLimit
      /\ stop' \in Reasons \cup {"none"} /\ timers' \subseteq Tasks /\ listeners' \subseteq Tasks
      /\ phase' \in {"creating", "preflight"}
  BY <1>3 DEF StartGuard, Numbers, Flags, guard
<1>9. logged' \in SUBSET {"browsers", "files"}
  BY <1>3 DEF StartGuard, Flags
<1>5. Numbers'
  BY <1>1, <1>4 DEF Numbers, batch
<1>6. Flags'
  BY <1>1, <1>2, <1>4, <1>9 DEF Flags, batch
<1>7. Idle \in Dones
  BY DEF Idle, Dones
<1>8. Records'
  BY <1>1, <1>2, <1>7 DEF Records, batch
<1> QED
  BY <1>5, <1>6, <1>8

(* A cleanup takes away and adds nothing, whatever fails of it.            *)
LEMMA CleanedLess ==
  ASSUME NEW errors, Cleaned(errors)
  PROVE  litter' \subseteq litter
BY DEF Cleaned

(* Every step keeps the types.                                             *)
LEMMA TypeStep ==
  ASSUME TypeOK, Watch, BatchInv, StopInv, Fresh, [Next]_vars
  PROVE  TypeOK'
<1> USE GuardAssumption
<1> SUFFICES Numbers' /\ Flags' /\ Records'
  BY TypePartsNext
<1>0. Numbers /\ Flags /\ Records
  BY TypeParts
<1>1. CASE Prompt \/ RuntimeCreated \/ Announce \/ Prepare
  BY <1>0, <1>1, PromptType, AnnounceType, PrepareType
<1>2. CASE RuntimeFails \/ NewSession \/ CallTools \/ Answers \/ RunEnds
  <2>1. Numbers' /\ Records'
    BY <1>0, <1>2 DEF RuntimeFails, NewSession, CallTools, Answers, RunEnds, Numbers, Records, session, batch, guard, waste
  <2>2. Flags'
    <3>1. CASE RuntimeFails \/ Answers \/ RunEnds
      BY <1>0, <3>1 DEF RuntimeFails, Answers, RunEnds, Flags, session, batch, guard, waste
    <3>2. CASE NewSession
      BY <1>0, <3>2 DEF NewSession, Flags, batch, guard, waste
    <3>3. CASE CallTools
      BY <1>0, <3>3 DEF CallTools, Flags, session, guard, waste
    <3> QED
      BY <1>2, <3>1, <3>2, <3>3
  <2> QED
    BY <2>1, <2>2
<1>3. CASE PreflightEnds \/ Continue
  <2>1. Numbers' /\ Records'
    BY <1>0, <1>3 DEF PreflightEnds, Continue, StartRun, Fresh, Numbers, Records, session, batch, guard, waste
  <2>2. Flags'
    BY <1>0, <1>3 DEF PreflightEnds, Continue, StartRun, Flags, session, batch, guard, waste
  <2> QED
    BY <2>1, <2>2
<1>4. CASE ToolEnds \/ Settle \/ CleanUp
  <2>0. CleanUp => {litter', logged'} \subseteq SUBSET {"browsers", "files"}
    BY <1>0, CleanedLess DEF CleanUp, Flags
  <2>1. Numbers' /\ Records'
    BY <1>0, <1>4 DEF ToolEnds, Settle, CleanUp, Numbers, Records, session, batch, guard, waste
  <2>2. Flags'
    <3>1. CASE Settle
      <4>1. outcome' \in Reasons \cup {"none", "reply", "error"}
        BY <1>0, <3>1 DEF Settle, Outcomes, Flags
      <4> QED
        BY <1>0, <3>1, <4>1 DEF Settle, Release, Flags, session, batch, waste
    <3>2. CASE ToolEnds
      BY <1>0, <3>2 DEF ToolEnds, Flags, session, batch, guard, waste
    <3>3. CASE CleanUp
      BY <1>0, <2>0, <3>3, Zenon DEF CleanUp, Flags, session, batch, guard
    <3> QED
      BY <1>4, <3>1, <3>2, <3>3
  <2> QED
    BY <2>1, <2>2
<1>5. ASSUME NEW t \in Tasks, TimeOut(t)  PROVE Numbers' /\ Flags' /\ Records'
  <2>1. Numbers' /\ Records'
    BY <1>0, <1>5 DEF TimeOut, Numbers, Records, session, batch
  <2>2. Flags'
    BY <1>0, <1>5 DEF TimeOut, Flags, Reasons, session, batch, waste
  <2> QED
    BY <2>1, <2>2
<1>6. ASSUME NEW a \in Aborts, Abort(a) \/ AbortSettles(a) \/ AbortCleans(a)
      PROVE  Numbers' /\ Flags' /\ Records'
  <2>1. Numbers' /\ Records'
    BY <1>0, <1>6 DEF Abort, AbortSettles, AbortCleans, Numbers, Records, session, batch, guard, waste
  <2>2. AbortCleans(a) => litter' \in SUBSET {"browsers", "files"}
    BY <1>0, CleanedLess DEF AbortCleans, Flags
  <2>3. Flags'
    BY <1>0, <1>6, <2>2, ZenonT(30) DEF Abort, AbortSettles, AbortCleans, Flags, session, batch, guard, waste
  <2> QED
    BY <2>1, <2>3
<1>7. CASE OtherCleans \/ Dispose \/ Disposed \/ UNCHANGED vars
  <2>1. Numbers' /\ Records'
    BY <1>0, <1>7 DEF OtherCleans, Dispose, Disposed, Numbers, Records, vars, session, batch, guard, waste
  <2>2. OtherCleans \/ Disposed => litter' \in SUBSET {"browsers", "files"}
    BY <1>0, CleanedLess DEF OtherCleans, Disposed, Flags
  <2>3. Flags'
    BY <1>0, <1>7, <2>2, ZenonT(30) DEF OtherCleans, Dispose, Disposed, Flags, vars, session, batch, guard, waste
  <2> QED
    BY <2>1, <2>3
<1> QED
  BY <1>1, <1>2, <1>3, <1>4, <1>5, <1>6, <1>7 DEF Next, Step

-----------------------------------------------------------------------------
(* The guard and its task.                                                 *)

(* Execution leads back to the model or to running calls.                  *)
LEMMA PreparePhase ==
  ASSUME Prepare
  PROVE  phase' \in {"turn", "tools", "announce"}
BY DEF Prepare, Execute

(* A new guard watches its task alone.                                     *)
LEMMA GuardStarts ==
  ASSUME Watch, phase \in {"idle", "creating"}, task' \in Nat \ {0}, StartGuard(task')
  PROVE  Watch'
<1>1. timers = {} /\ listeners = {}
  BY DEF Watch, TaskPhases
<1>2. timers' = {task'} /\ listeners' = {task'} /\ phase' = "preflight"
  BY <1>1 DEF StartGuard
<1> QED
  BY <1>1, <1>2 DEF Watch, TaskPhases

(* A step that leaves the guard alone stays on one side of TaskPhases.     *)
LEMMA GuardStays ==
  ASSUME Watch, UNCHANGED <<task, timers, listeners>>,
         phase' \in TaskPhases <=> phase \in TaskPhases,
         phase' # "idle" => phase # "idle",
         phase' \in {"idle", "creating"} => Accounted'
  PROVE  Watch'
BY Zenon DEF Watch

(* Every step keeps the watch.                                             *)
LEMMA WatchStep ==
  ASSUME task \in Nat, Watch, [Next]_vars
  PROVE  Watch'
<1>1. CASE Prompt
  <2>1. task' = task + 1 /\ litter' = litter /\ phase = "idle"
    BY <1>1 DEF Prompt
  <2>2. CASE StartGuard(task')
    BY <2>1, <2>2, GuardStarts
  <2>3. CASE phase' = "creating" /\ UNCHANGED <<guard, logged>>
    <3>1. timers = {} /\ listeners = {} /\ Accounted'
      BY <2>1, <2>3 DEF Watch, Accounted, Removable, TaskPhases
    <3>2. timers' = {} /\ listeners' = {}
      BY <2>3, <3>1 DEF guard
    <3> QED
      BY <2>1, <2>3, <3>1, <3>2 DEF Watch, TaskPhases
  <2>4. StartGuard(task') \/ (phase' = "creating" /\ UNCHANGED <<guard, logged>>)
    BY <1>1, <2>1 DEF Prompt, StartGuard
  <2> QED
    BY <2>2, <2>3, <2>4
<1>2. CASE RuntimeCreated
  <2>1. phase = "creating" /\ task' = task /\ litter' = litter /\ StartGuard(task')
    BY <1>2 DEF RuntimeCreated, StartGuard
  <2>2. task' \in Nat \ {0}
    BY <2>1 DEF Watch
  <2> QED
    BY <2>1, <2>2, GuardStarts
<1>3. CASE RuntimeFails \/ NewSession
  <2>1. phase \in {"idle", "creating"} /\ phase' = "idle" /\ UNCHANGED <<task, timers, listeners, litter, logged>>
    BY <1>3 DEF RuntimeFails, NewSession, guard, waste
  <2> QED
    BY <2>1 DEF Watch, Accounted, Removable, TaskPhases
<1>4. CASE PreflightEnds \/ Continue \/ CallTools \/ Answers \/ RunEnds \/ ToolEnds
  <2>1. /\ UNCHANGED <<task, timers, listeners>>
        /\ phase \in {"preflight", "between", "turn", "ending", "tools"}
        /\ phase' \in {"turn", "announce", "ending", "between", "tools"}
    BY <1>4 DEF PreflightEnds, Continue, StartRun, CallTools, Answers, RunEnds, ToolEnds, guard
  <2> QED
    BY <2>1, GuardStays DEF TaskPhases
<1>5. CASE Announce
  <2>1. UNCHANGED <<task, timers, listeners>> /\ phase = "announce" /\ phase' = "prepare"
    BY <1>5 DEF Announce
  <2> QED
    BY <2>1, GuardStays DEF TaskPhases
<1>6. CASE Prepare
  <2>1. UNCHANGED <<task, timers, listeners>> /\ phase = "prepare" /\ phase' \in {"turn", "tools", "announce"}
    BY <1>6, PreparePhase DEF Prepare, guard
  <2> QED
    BY <2>1, GuardStays DEF TaskPhases
<1>7. CASE Settle
  <2>1. phase \in {"preflight", "between"} /\ phase' = "cleaning" /\ task' = task
    BY <1>7 DEF Settle
  <2>2. timers' = {} /\ listeners' = {} /\ task # 0
    BY <1>7, <2>1 DEF Settle, Release, Watch, TaskPhases
  <2> QED
    BY <2>1, <2>2 DEF Watch, TaskPhases
<1>8. CASE CleanUp
  <2>1. phase = "cleaning" /\ phase' = "idle" /\ UNCHANGED <<task, timers, listeners>>
    BY <1>8 DEF CleanUp, guard
  <2>2. Accounted'
    BY <1>8 DEF CleanUp, Cleaned, Accounted, Removable
  <2> QED
    BY <2>1, <2>2 DEF Watch, TaskPhases
<1>9. ASSUME NEW t \in Tasks, TimeOut(t)  PROVE Watch'
  BY <1>9 DEF TimeOut, Watch, Accounted, Removable, TaskPhases, waste
<1>10. ASSUME NEW a \in Aborts, Abort(a) \/ AbortSettles(a) \/ AbortCleans(a)  PROVE Watch'
  <2>1. UNCHANGED <<task, phase, timers, listeners, logged>> /\ litter' \subseteq litter
    BY <1>10, CleanedLess DEF Abort, AbortSettles, AbortCleans, guard, waste
  <2> QED
    BY <2>1 DEF Watch, Accounted, Removable, TaskPhases
<1>11. CASE OtherCleans \/ Dispose \/ Disposed \/ UNCHANGED vars
  <2>1. UNCHANGED <<task, phase, timers, listeners, logged>>
    BY <1>11 DEF OtherCleans, Dispose, Disposed, vars, guard, waste
  <2>2. litter' \subseteq litter
    BY <1>11, CleanedLess DEF OtherCleans, Dispose, Disposed, vars, waste
  <2> QED
    BY <2>1, <2>2 DEF Watch, Accounted, Removable, TaskPhases
<1> QED
  BY <1>1, <1>2, <1>3, <1>4, <1>5, <1>6, <1>7, <1>8, <1>9, <1>10, <1>11 DEF Next, Step

(* Every step keeps the batch, and a task is fresh before its first run.   *)
LEMMA BatchStep ==
  ASSUME todo \in Nat, BatchInv, Fresh, [Next]_vars
  PROVE  BatchInv' /\ Fresh'
<1>1. CASE Prompt
  <2>1. UNCHANGED batch /\ done' = Idle /\ runs' = 0 /\ phase' \in {"creating", "preflight"}
    BY <1>1, Zenon DEF Prompt, StartGuard
  <2> QED
    BY <1>1, <2>1 DEF Prompt, BatchInv, Fresh, batch
<1>2. CASE RuntimeCreated \/ RuntimeFails \/ NewSession \/ PreflightEnds \/ Continue \/ Answers \/ RunEnds
  BY <1>2 DEF RuntimeCreated, StartGuard, RuntimeFails, NewSession, PreflightEnds, Continue, StartRun,
              Answers, RunEnds, BatchInv, Fresh, batch
<1>3. CASE CallTools
  BY <1>3, FS_EmptySet DEF CallTools, BatchInv, Fresh
<1>4. CASE Announce \/ ToolEnds \/ Settle \/ CleanUp
  BY <1>4 DEF Announce, ToolEnds, Settle, CleanUp, BatchInv, Fresh, batch
<1>5. CASE Prepare
  <2>1. PICK S : /\ S = held \/ S = held \cup {[n |-> todo, starts |-> call.starts, legal |-> call.legal]}
                 /\ \/ held' = {} /\ Execute(S)
                    \/ held' = S /\ phase' = "announce" /\ todo # 1
    BY <1>5 DEF Prepare
  <2>2. IsFiniteSet(S)
    <3>1. IsFiniteSet(held \cup {[n |-> todo, starts |-> call.starts, legal |-> call.legal]})
      BY FS_AddElement, Zenon DEF BatchInv
    <3> QED
      BY <2>1, <3>1, Zenon DEF BatchInv
  <2>3. phase = "prepare" /\ todo' = todo - 1 /\ todo \in 1..MaxBatch
    BY <1>5 DEF Prepare, BatchInv
  <2>4. CASE held' = {} /\ Execute(S)
    BY <2>4, FS_EmptySet DEF Execute, BatchInv, Fresh
  <2>5. CASE held' = S /\ phase' = "announce" /\ todo # 1
    BY <2>2, <2>3, <2>5, GuardAssumption DEF BatchInv, Fresh
  <2> QED
    BY <2>1, <2>4, <2>5
<1>6. ASSUME NEW t \in Tasks, TimeOut(t)  PROVE BatchInv' /\ Fresh'
  BY <1>6 DEF TimeOut, BatchInv, Fresh, batch
<1>7. ASSUME NEW a \in Aborts, Abort(a) \/ AbortSettles(a) \/ AbortCleans(a)  PROVE BatchInv' /\ Fresh'
  BY <1>7 DEF Abort, AbortSettles, AbortCleans, BatchInv, Fresh, batch
<1>8. CASE OtherCleans \/ Dispose \/ Disposed \/ UNCHANGED vars
  BY <1>8 DEF OtherCleans, Dispose, Disposed, BatchInv, Fresh, vars, batch
<1> QED
  BY <1>1, <1>2, <1>3, <1>4, <1>5, <1>6, <1>7, <1>8 DEF Next, Step

(* Every step that stops the guard aborts the run, or is late.             *)
LEMMA StopStep ==
  ASSUME TypeOK, Watch, StopInv, [Next]_vars
  PROVE  StopInv'
<1> USE GuardAssumption
<1>0. count \in Nat /\ stop \in Reasons \cup {"none"} /\ signal \in BOOLEAN /\ late \in BOOLEAN
  BY TypeParts DEF Numbers, Flags
<1>1. CASE Prompt
  <2>1. CASE known
    BY <1>0, <1>1, <2>1 DEF Prompt, StartGuard, StopInv
  <2>2. CASE ~known
    BY <1>0, <1>1, <2>2 DEF Prompt, StopInv, TaskPhases, guard
  <2> QED
    BY <2>1, <2>2
<1>2. CASE RuntimeCreated
  BY <1>0, <1>2 DEF RuntimeCreated, StartGuard, StopInv
<1>3. CASE RuntimeFails \/ NewSession \/ CallTools \/ Answers \/ RunEnds \/ ToolEnds \/ CleanUp
  BY <1>0, <1>3 DEF RuntimeFails, NewSession, CallTools, Answers, RunEnds, ToolEnds, CleanUp, StopInv, TaskPhases, guard
<1>4. CASE PreflightEnds \/ Continue
  BY <1>0, <1>4 DEF PreflightEnds, Continue, StartRun, StopInv, TaskPhases, guard
<1>5. CASE Announce
  <2>1. PICK k \in Commands : HandleEvent(k)
    BY <1>5 DEF Announce
  <2>2. phase = "announce" /\ phase' = "prepare" /\ late' = late
    BY <1>5 DEF Announce
  <2>3. CASE hears /\ task \in listeners /\ stop = "none"
    <3>1. count' = count + 1 /\ stop' = Verdict(k) /\ (stop' # "none" => signal')
      BY <2>1, <2>3, Zenon DEF HandleEvent
    <3>2. Verdict(k) = "none" => count + 1 <= ToolLimit
      BY <1>0 DEF Verdict
    <3> QED
      BY <2>2, <3>1, <3>2 DEF StopInv
  <2>4. CASE ~(hears /\ task \in listeners /\ stop = "none")
    BY <2>1, <2>2, <2>4 DEF HandleEvent, StopInv, TaskPhases
  <2> QED
    BY <2>3, <2>4
<1>6. CASE Prepare
  BY <1>0, <1>6, PreparePhase DEF Prepare, StopInv, TaskPhases, guard
<1>7. CASE Settle
  BY <1>0, <1>7 DEF Settle, StopInv, TaskPhases
<1>8. ASSUME NEW t \in Tasks, TimeOut(t)  PROVE StopInv'
  BY <1>0, <1>8 DEF TimeOut, Watch, StopInv, TaskPhases, InRun
<1>9. ASSUME NEW a \in Aborts, Abort(a) \/ AbortSettles(a) \/ AbortCleans(a)  PROVE StopInv'
  BY <1>0, <1>9 DEF Abort, AbortSettles, AbortCleans, StopInv, guard
<1>10. CASE OtherCleans \/ Dispose \/ Disposed \/ UNCHANGED vars
  BY <1>0, <1>10 DEF OtherCleans, Dispose, Disposed, StopInv, vars, guard
<1> QED
  BY <1>1, <1>2, <1>3, <1>4, <1>5, <1>6, <1>7, <1>8, <1>9, <1>10 DEF Next, Step

-----------------------------------------------------------------------------
(* The limits.                                                             *)

(* What the invariant says of the numbers.                                 *)
LEMMA Counts ==
  ASSUME IInv
  PROVE  /\ done.calls \in Nat /\ done.starts \in Nat /\ done.illegal \in BOOLEAN
         /\ count \in Nat /\ launches \in Nat /\ launches <= BrowserLimit
         /\ Cardinality(held) \in Nat /\ StartsOf(held) \in Nat
         /\ call.starts \in Nat /\ call.legal \in BOOLEAN
<1>1. Numbers /\ Flags /\ Records
  BY TypeParts DEF IInv
<1>2. done.calls \in Nat /\ done.starts \in Nat /\ done.illegal \in BOOLEAN
  BY <1>1, DoneFields DEF Records
<1>3. count \in Nat /\ launches \in Nat /\ launches <= BrowserLimit
  BY <1>1, GuardAssumption DEF Numbers
<1>4. Cardinality(held) \in Nat /\ StartsOf(held) \in Nat
  BY FS_CardinalityType, StartsOfPairs DEF IInv, BatchInv
<1>5. call.starts \in Nat /\ call.legal \in BOOLEAN
  BY <1>1, CommandFields, GuardAssumption DEF Flags
<1> QED
  BY <1>2, <1>3, <1>4, <1>5

(* A task that begins has executed nothing.                                *)
LEMMA LimitsBegin ==
  ASSUME phase' \in {"creating", "preflight"}, done' = Idle, held' = {},
         phase' = "preflight" => count' = 0 /\ launches' = 0
  PROVE  CountInv' /\ WithinLimits'
<1>1. done'.calls = 0 /\ done'.starts = 0 /\ ~done'.illegal
  BY DEF Idle
<1>2. Cardinality(held') = 0 /\ StartsOf(held') = 0
  BY FS_EmptySet DEF StartsOf
<1>3. WithinLimits'
  BY <1>1, GuardAssumption DEF WithinLimits
<1>4. CountInv'
  BY <1>1, <1>2 DEF CountInv, Pending, TaskPhases
<1> QED
  BY <1>3, <1>4

(* A step that executes, holds and counts nothing keeps the limits.        *)
LEMMA LimitsQuiet ==
  ASSUME IInv, UNCHANGED <<done, held, call, count, launches>>,
         phase' = phase \/ phase' # "prepare",
         phase' \in TaskPhases => phase \in TaskPhases,
         phase' # "idle" => phase # "idle" /\ (hears' => hears) /\ (late => late'),
         stop' = "none" => stop = "none"
  PROVE  CountInv' /\ WithinLimits'
<1>1. WithinLimits'
  BY DEF IInv, WithinLimits
<1>2. CountInv'
  <2>1. SUFFICES ASSUME phase' \in TaskPhases, hears', ~late', stop' = "none"
                 PROVE  /\ done.calls + Cardinality(held) + Pending(1)' <= count
                        /\ done.starts + StartsOf(held) + (Pending(call.starts))' <= launches
                        /\ phase' = "prepare" => call.legal
                        /\ \A c \in held : c.legal
    BY DEF CountInv
  <2>2. phase' # "idle" /\ phase \in TaskPhases /\ hears /\ ~late /\ stop = "none"
    BY <2>1 DEF TaskPhases
  <2>3. /\ done.calls + Cardinality(held) + Pending(1) <= count
        /\ done.starts + StartsOf(held) + Pending(call.starts) <= launches
        /\ phase = "prepare" => call.legal
        /\ \A c \in held : c.legal
    BY <2>2 DEF IInv, CountInv
  <2>4. CASE phase' = phase
    BY <2>3, <2>4 DEF Pending
  <2>5. CASE phase' # "prepare"
    BY <2>3, <2>5, Counts DEF Pending
  <2> QED
    BY <2>4, <2>5
<1> QED
  BY <1>1, <1>2

(* What is announced is counted first.                                     *)
LEMMA LimitsAnnounce ==
  ASSUME IInv, Announce
  PROVE  CountInv' /\ WithinLimits'
<1>1. PICK k \in Commands : call' = k /\ HandleEvent(k)
  BY DEF Announce
<1>2. /\ phase = "announce" /\ phase' = "prepare"
      /\ UNCHANGED <<hears, late, held, done, task, listeners>>
  BY DEF Announce, session
<1>3. WithinLimits'
  BY <1>2 DEF IInv, WithinLimits
<1>4. CountInv'
  <2>1. SUFFICES ASSUME hears, ~late, stop' = "none"
                 PROVE  /\ done.calls + Cardinality(held) + 1 <= count'
                        /\ done.starts + StartsOf(held) + k.starts <= launches'
                        /\ k.legal
                        /\ \A c \in held : c.legal
    BY <1>1, <1>2 DEF CountInv, Pending
  <2>2. task \in listeners
    BY <1>2 DEF IInv, Watch, TaskPhases
  <2>3. stop = "none" /\ count' = count + 1 /\ Verdict(k) = "none" /\ launches' = launches + k.starts
    BY <1>1, <2>1, <2>2, Zenon DEF HandleEvent
  <2>4. /\ done.calls + Cardinality(held) <= count
        /\ done.starts + StartsOf(held) <= launches
        /\ \A c \in held : c.legal
    BY <1>2, <2>1, <2>3, Counts DEF IInv, CountInv, Pending, TaskPhases
  <2>5. k.starts \in Nat /\ k.legal
    BY <2>3, CommandFields, GuardAssumption DEF Verdict
  <2> QED
    BY <2>3, <2>4, <2>5, Counts
<1> QED
  BY <1>3, <1>4

(* What executes or is held was counted.                                   *)
LEMMA LimitsPrepare ==
  ASSUME IInv, Prepare
  PROVE  CountInv' /\ WithinLimits'
<1> DEFINE x == [n |-> todo, starts |-> call.starts, legal |-> call.legal]
<1>1. /\ phase = "prepare" /\ phase' \in {"turn", "tools", "announce"}
      /\ UNCHANGED <<hears, late, count, launches, stop, signal>>
  BY PreparePhase DEF Prepare, session, guard, waste
<1>2. PICK S : /\ S = held \/ (~signal /\ S = held \cup {x})
               /\ \/ held' = {} /\ Execute(S)
                  \/ ~signal /\ held' = S /\ phase' = "announce" /\ UNCHANGED done
  BY DEF Prepare
<1>3. x \in Calls /\ x.starts = call.starts /\ x.legal = call.legal
  BY <1>1, TypeParts, CommandFields DEF IInv, BatchInv, Flags, Calls
<1>4. /\ Cardinality(S) \in Nat /\ Cardinality(S) <= Cardinality(held) + 1
      /\ StartsOf(S) \in Nat /\ StartsOf(S) <= StartsOf(held) + call.starts
  <2>1. CASE S = held
    BY <2>1, Counts
  <2>2. CASE S = held \cup {x}
    BY <1>3, <2>2, OneMore DEF IInv, BatchInv
  <2> QED
    BY <1>2, <2>1, <2>2
<1>5. CASE signal
  <2>1. held' = {} /\ done' = done /\ phase' # "prepare"
    BY <1>1, <1>2, <1>5 DEF Execute
  <2>2. Cardinality(held') = 0 /\ StartsOf(held') = 0
    BY <2>1, FS_EmptySet DEF StartsOf
  <2>3. WithinLimits'
    BY <1>1, <2>1 DEF IInv, WithinLimits
  <2>4. CountInv'
    BY <1>1, <2>1, <2>2, Counts DEF IInv, CountInv, Pending, TaskPhases
  <2> QED
    BY <2>3, <2>4
<1>6. CASE ~signal
  <2>1. SUFFICES ASSUME hears, ~late
                 PROVE  CountInv' /\ WithinLimits'
    BY <1>1 DEF CountInv, WithinLimits
  <2>2. stop = "none"
    BY <1>1, <1>6, <2>1 DEF IInv, StopInv, TaskPhases
  <2>3. /\ done.calls + Cardinality(S) <= count /\ count <= ToolLimit
        /\ done.starts + StartsOf(S) <= launches /\ launches <= BrowserLimit
    BY <1>1, <1>4, <2>1, <2>2, Counts DEF IInv, CountInv, StopInv, Pending, TaskPhases
  <2>4. ~done.illegal /\ \A c \in S : c.legal
    BY <1>1, <1>2, <1>3, <2>1, <2>2 DEF IInv, CountInv, WithinLimits, TaskPhases
  <2>5. CASE held' = {} /\ Execute(S)
    <3>1. /\ Capped(done.calls + Cardinality(S), ToolLimit) = done.calls + Cardinality(S)
          /\ Capped(done.starts + StartsOf(S), BrowserLimit) = done.starts + StartsOf(S)
      BY <1>4, <2>3, Counts, GuardAssumption DEF Capped
    <3>2. /\ done'.calls = done.calls + Cardinality(S)
          /\ done'.starts = done.starts + StartsOf(S)
          /\ ~done'.illegal
      <4>1. done' = [calls   |-> Capped(done.calls + Cardinality(S), ToolLimit),
                     starts  |-> Capped(done.starts + StartsOf(S), BrowserLimit),
                     illegal |-> done.illegal \/ \E c \in S : ~c.legal]
        BY <1>6, <2>5, Zenon DEF Execute
      <4> QED
        BY <2>4, <3>1, <4>1
    <3>3. Cardinality(held') = 0 /\ StartsOf(held') = 0 /\ phase' # "prepare"
      BY <1>1, <2>5, FS_EmptySet DEF StartsOf
    <3>4. CountInv'
      BY <1>1, <1>4, <2>3, <2>5, <3>2, <3>3, Counts DEF CountInv, Pending
    <3>5. WithinLimits'
      BY <1>4, <2>3, <3>2, Counts, GuardAssumption DEF WithinLimits
    <3> QED
      BY <3>4, <3>5
  <2>6. CASE held' = S /\ phase' = "announce" /\ UNCHANGED done
    <3>1. WithinLimits'
      BY <1>1, <2>6 DEF IInv, WithinLimits
    <3>2. CountInv'
      BY <1>1, <1>4, <2>3, <2>4, <2>6, Counts DEF CountInv, Pending
    <3> QED
      BY <3>1, <3>2
  <2> QED
    BY <1>2, <2>5, <2>6
<1> QED
  BY <1>5, <1>6

(* Every step keeps the limits.                                            *)
LEMMA LimitsStep ==
  ASSUME IInv, [Next]_vars
  PROVE  CountInv' /\ WithinLimits'
<1>1. CASE Prompt
  <2>1. /\ phase' \in {"creating", "preflight"} /\ done' = Idle /\ held' = held
        /\ phase' = "preflight" => count' = 0 /\ launches' = 0
    BY <1>1 DEF Prompt, StartGuard, batch
  <2>2. held = {}
    BY <1>1 DEF Prompt, IInv, BatchInv
  <2> QED
    BY <2>1, <2>2, LimitsBegin
<1>2. CASE RuntimeCreated
  <2>1. phase' = "preflight" /\ done' = done /\ held' = held /\ count' = 0 /\ launches' = 0
    BY <1>2 DEF RuntimeCreated, StartGuard, batch
  <2>2. held = {} /\ done = Idle
    BY <1>2 DEF RuntimeCreated, IInv, BatchInv, Fresh
  <2> QED
    BY <2>1, <2>2, LimitsBegin
<1>3. CASE RuntimeFails \/ NewSession \/ CleanUp
  <2>1. phase' = "idle"
    BY <1>3 DEF RuntimeFails, NewSession, CleanUp
  <2> QED
    BY <2>1 DEF CountInv, WithinLimits, TaskPhases
<1>4. CASE PreflightEnds \/ Continue \/ Answers \/ RunEnds \/ ToolEnds \/ Settle
  <2>0. late \in BOOLEAN
    BY TypeParts DEF IInv, Flags
  <2>1. /\ UNCHANGED <<done, held, call, count, launches, hears, stop>>
        /\ late => late'
        /\ phase \in {"preflight", "between", "turn", "ending", "tools"}
        /\ phase' \in {"turn", "ending", "between", "tools", "cleaning"}
    <3>1. CASE PreflightEnds \/ Continue
      BY <2>0, <3>1 DEF PreflightEnds, Continue, StartRun, session, batch, guard
    <3>2. CASE Answers \/ RunEnds \/ ToolEnds \/ Settle
      BY <3>2 DEF Answers, RunEnds, ToolEnds, Settle, session, batch, guard
    <3> QED
      BY <1>4, <3>1, <3>2
  <2> QED
    BY <2>1, LimitsQuiet DEF TaskPhases
<1>5. CASE CallTools
  <2>1. /\ UNCHANGED <<done, call, count, launches, hears, late, stop>>
        /\ phase = "turn" /\ phase' = "announce" /\ held' = {}
    BY <1>5 DEF CallTools, session, guard, waste
  <2>2. held' = held
    BY <2>1 DEF IInv, BatchInv
  <2> QED
    BY <2>1, <2>2, LimitsQuiet DEF TaskPhases
<1>6. CASE Announce
  BY <1>6, LimitsAnnounce
<1>7. CASE Prepare
  BY <1>7, LimitsPrepare
<1>8. ASSUME NEW t \in Tasks, TimeOut(t)  PROVE CountInv' /\ WithinLimits'
  <2>1. /\ UNCHANGED <<done, held, call, count, launches, hears, phase>>
        /\ late => late'
        /\ stop' = "none" => stop = "none"
    BY <1>8 DEF TimeOut, session, batch
  <2> QED
    BY <2>1, LimitsQuiet
<1>9. ASSUME NEW a \in Aborts, Abort(a) \/ AbortSettles(a) \/ AbortCleans(a)
      PROVE  CountInv' /\ WithinLimits'
  <2>1. UNCHANGED <<done, held, call, count, launches, hears, phase, late, stop>>
    BY <1>9 DEF Abort, AbortSettles, AbortCleans, session, batch, guard, waste
  <2> QED
    BY <2>1, LimitsQuiet
<1>10. CASE OtherCleans \/ Dispose \/ Disposed \/ UNCHANGED vars
  <2>1. UNCHANGED <<done, held, call, count, launches, phase, late, stop>>
    BY <1>10 DEF OtherCleans, Dispose, Disposed, vars, session, batch, guard, waste
  <2>2. hears' = hears \/ hears' = FALSE
    BY <1>10, Zenon DEF OtherCleans, Dispose, Disposed, vars, session
  <2> QED
    BY <2>1, <2>2, LimitsQuiet
<1> QED
  BY <1>1, <1>2, <1>3, <1>4, <1>5, <1>6, <1>7, <1>8, <1>9, <1>10 DEF Next, Step

-----------------------------------------------------------------------------
(* Theorems.                                                               *)

(* The inductive invariant of the guard.                                   *)
THEOREM Invariance == Spec => []IInv
<1>1. Init => IInv
  <2> SUFFICES ASSUME Init PROVE IInv
    OBVIOUS
  <2> USE GuardAssumption
  <2>1. Nothing \in Commands /\ Idle \in Dones
    BY DEF Nothing, Commands, Idle, Dones
  <2>2. Numbers /\ Records
    BY <2>1 DEF Init, Numbers, Records
  <2>3. Flags
    BY <2>1 DEF Init, Flags
  <2>4. Watch /\ StopInv /\ Fresh /\ CountInv /\ WithinLimits
    BY DEF Init, Watch, Accounted, StopInv, Fresh, CountInv, WithinLimits, TaskPhases
  <2>5. BatchInv
    BY FS_EmptySet DEF Init, BatchInv
  <2> QED
    BY <2>2, <2>3, <2>4, <2>5, TypeParts DEF IInv
<1>2. IInv /\ [Next]_vars => IInv'
  <2> SUFFICES ASSUME IInv, [Next]_vars PROVE IInv'
    OBVIOUS
  <2>1. task \in Nat /\ todo \in Nat
    BY TypeParts, GuardAssumption DEF IInv, Numbers
  <2>2. TypeOK'
    BY TypeStep DEF IInv
  <2>3. Watch' /\ StopInv'
    BY <2>1, WatchStep, StopStep DEF IInv
  <2>4. BatchInv' /\ Fresh'
    BY <2>1, BatchStep DEF IInv
  <2> QED
    BY <2>2, <2>3, <2>4, LimitsStep DEF IInv
<1> QED
  BY <1>1, <1>2, PTL DEF Spec

(* Type correctness of the guarded task.                                   *)
THEOREM TypeCorrect == Spec => []TypeOK
<1>1. IInv => TypeOK
  BY DEF IInv
<1> QED
  BY <1>1, Invariance, PTL

(* No task that the guard hears in time executes more calls or starts more *)
(* browsers than allowed (task-guard.ts:49-94), whatever the limits and    *)
(* however calls are batched.                                              *)
THEOREM LimitsHold == Spec => []WithinLimits
<1>1. IInv => WithinLimits
  BY DEF IInv
<1> QED
  BY <1>1, Invariance, PTL

(* A task that is over has left no timer and no listener, and of files and *)
(* browsers only what its cleanup has logged (task-guard.ts:110-127,       *)
(* temporary-artifacts.ts:36-58).                                          *)
THEOREM NothingLeft == Spec => []NothingOutlivesTask
<1>1. IInv => NothingOutlivesTask
  BY DEF IInv, Watch, Accounted, NothingOutlivesTask, TaskPhases
<1> QED
  BY <1>1, Invariance, PTL
=============================================================================
