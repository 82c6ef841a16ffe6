------------------------- MODULE AgentSessionProofs -------------------------
(* Proofs about AgentSession, for any number of prompts, aborts, retries   *)
(* and failures.                                                           *)
EXTENDS AgentSession, FiniteSetTheorems, TLAPS

(* prompt() is called in order, and each call queues one message at most.  *)
CallsInOrder ==
  \E n \in 0..MaxPrompts : queued <= n /\ \A p \in Prompts : pc[p] = "absent" <=> p > n

Places == {"absent", "settling", "settled"} \cup Preflight \cup Working \cup Ended

TypeOfRun ==
  /\ run \in Prompts \cup {Nobody} /\ runAborted \in BOOLEAN
  /\ tail \in Endings \cup {"input"} /\ saved \in Endings \cup {"input"}
  /\ overflowTried \in BOOLEAN
  /\ fruitless \in Nat
  /\ stuck \subseteq Prompts

TypeOfRest ==
  /\ active \in BOOLEAN
  /\ last \in Endings \cup {"none"}
  /\ retryAttempt \in 0..MaxRetries /\ retryCut \in BOOLEAN
  /\ waiting \in [Aborts -> {"absent", "waiting", "done"}]
  /\ progress \in 0..MaxProgress

TypeOfCalls ==
  /\ pc \in [Prompts -> Places]
  /\ queued \in 0..MaxPrompts
  /\ CallsInOrder

TypeInv == TypeOfRun /\ TypeOfRest /\ TypeOfCalls

-----------------------------------------------------------------------------
(* The four things continue() can do, and what follows a run.              *)

(* It throws, ...                                                          *)
Throws(p, t) ==
  /\ Goto(p, "settling") /\ tail' = t
  /\ stuck' = stuck \/ (stuck' = stuck \cup {p} /\ run = Nobody /\ t # "input" /\ queued = 0)
  /\ run # Nobody \/ t # "input"
  /\ UNCHANGED <<run, runAborted, saved, queued, overflowTried, fruitless>>

(* ... runs on what is there, ...                                          *)
RunsAgain(p, t) ==
  /\ t = "input" /\ run = Nobody
  /\ Goto(p, "run") /\ run' = p /\ runAborted' = FALSE
  /\ tail' = "input" /\ fruitless' = fruitless + 1
  /\ UNCHANGED <<saved, queued, overflowTried, stuck>>

(* ... or runs on a message that was queued.                               *)
RunsQueued(p) ==
  /\ queued > 0 /\ run = Nobody
  /\ Goto(p, "run") /\ run' = p /\ runAborted' = FALSE
  /\ tail' = "input" /\ saved' = "input" /\ overflowTried' = FALSE
  /\ queued' = queued - 1 /\ fruitless' = 1
  /\ UNCHANGED stuck

(* Nothing is left to do.                                                  *)
NothingLeft(p) ==
  /\ Goto(p, "settling") /\ (tail' = tail \/ tail' = saved)
  /\ UNCHANGED <<run, runAborted, saved, queued, overflowTried, fruitless, stuck>>

(* A compaction or a backoff comes first.                                  *)
Pauses(p, l) ==
  /\ Goto(p, l)
  /\ UNCHANGED <<run, runAborted, saved, queued, fruitless, stuck>>

(* agent.continue() throws, runs again or takes a queued message.          *)
LEMMA ContinueKinds ==
  ASSUME NEW p \in Prompts, NEW t, Continue(p, t)
  PROVE  Throws(p, t) \/ RunsAgain(p, t) \/ RunsQueued(p)
BY DEF Continue, Throws, RunsAgain, RunsQueued

(* Without a queued message the session settles; with one it continues.    *)
LEMMA ContinueIfQueuedKinds ==
  ASSUME NEW p \in Prompts, ContinueIfQueued(p)
  PROVE  NothingLeft(p) \/ (queued > 0 /\ Throws(p, tail)) \/ RunsAgain(p, tail) \/ RunsQueued(p)
BY ContinueKinds DEF ContinueIfQueued, NothingLeft

(* The outcomes of _checkCompaction.                                       *)
LEMMA CheckCompactionKinds ==
  ASSUME NEW p \in Prompts, NEW o, CheckCompaction(p, o)
  PROVE  \/ /\ o \in Overflowing /\ ~overflowTried /\ overflowTried' = TRUE
            /\ tail' = "input" /\ Pauses(p, "retryCompact")
         \/ /\ o \in {"answer", "error", "retryable"}
            /\ Pauses(p, "compact") /\ UNCHANGED <<tail, overflowTried>>
         \/ NothingLeft(p) \/ (queued > 0 /\ Throws(p, tail)) \/ RunsAgain(p, tail) \/ RunsQueued(p)
BY ContinueIfQueuedKinds DEF CheckCompaction, Compact, Pauses, WithoutAnswer

(* The step of a prompt() that is past its run, by what it leads to.       *)
LeadsOn(p) ==
  \/ NothingLeft(p)
  \/ \E t \in {tail, saved, Rebuilt} : Throws(p, t) \/ RunsAgain(p, t)
  \/ RunsQueued(p)
  \/ \E l \in {"backoff", "retryCompact", "compact"} :
       /\ Pauses(p, l)
       /\ tail' = tail \/ tail' = "input"
       /\ overflowTried' = overflowTried \/ overflowTried' = TRUE

AfterRun(p) == PostRun(p) \/ BackoffEnds(p) \/ RetryCompactionEnds(p) \/ CompactionEnds(p)

LEMMA AfterRunKinds ==
  ASSUME NEW p \in Prompts, AfterRun(p)
  PROVE  LeadsOn(p)
<1>1. CASE PostRun(p)
  <2>1. CASE last = "retryable" /\ MayRetry
    BY <1>1, <2>1 DEF PostRun, PrepareRetry, LeadsOn, Pauses, WithoutAnswer
  <2>2. CASE ~(last = "retryable" /\ MayRetry) /\ last = "none"
    BY <1>1, <2>2 DEF PostRun, LeadsOn, NothingLeft
  <2>3. CASE ~(last = "retryable" /\ MayRetry) /\ last # "none"
    <3>1. CheckCompaction(p, last)
      BY <1>1, <2>3 DEF PostRun
    <3> QED BY <3>1, CheckCompactionKinds DEF LeadsOn
  <2> QED BY <2>1, <2>2, <2>3
<1>2. CASE BackoffEnds(p)
  BY <1>2, CheckCompactionKinds, ContinueKinds DEF BackoffEnds, LeadsOn
<1>3. CASE RetryCompactionEnds(p)
  BY <1>3, ContinueIfQueuedKinds, ContinueKinds DEF RetryCompactionEnds, LeadsOn
<1>4. CASE CompactionEnds(p)
  <2>1. CASE ContinueIfQueued(p)
    BY <2>1, ContinueIfQueuedKinds DEF LeadsOn
  <2>2. CASE queued > 0 /\ Continue(p, saved)
    BY <2>2, ContinueKinds DEF LeadsOn
  <2>3. CASE /\ Goto(p, "settling") /\ tail' = saved
             /\ UNCHANGED <<run, runAborted, saved, queued, overflowTried, fruitless, stuck>>
    BY <2>3 DEF LeadsOn, NothingLeft
  <2> QED BY <1>4, <2>1, <2>2, <2>3 DEF CompactionEnds
<1> QED BY <1>1, <1>2, <1>3, <1>4 DEF AfterRun

-----------------------------------------------------------------------------
(* Types.                                                                  *)

LEMMA TypesFromParts == TypeInv => TypeOK
BY DEF TypeInv, TypeOK, TypeOfRun, TypeOfRest, TypeOfCalls, Places

(* A prompt() that has been called stays called, and the queue shrinks.    *)
LEMMA CalledStays ==
  ASSUME TypeOfCalls, NEW p \in Prompts, pc[p] # "absent",
         NEW l \in Places, l # "absent", pc' = [pc EXCEPT ![p] = l],
         queued' \in 0..queued
  PROVE  TypeOfCalls'
<1>1. PICK n \in 0..MaxPrompts : queued <= n /\ \A q \in Prompts : pc[q] = "absent" <=> q > n
  BY DEF TypeOfCalls, CallsInOrder
<1>2. queued' \in 0..MaxPrompts /\ queued' <= n
  BY <1>1, SessionAssumption DEF TypeOfCalls
<1>3. \A q \in Prompts : pc'[q] = "absent" <=> pc[q] = "absent"
  BY DEF TypeOfCalls
<1>4. pc' \in [Prompts -> Places]
  BY DEF TypeOfCalls
<1> QED BY <1>1, <1>2, <1>3, <1>4 DEF TypeOfCalls, CallsInOrder

(* Prompt(p) calls the next one.                                           *)
LEMMA CalledNext ==
  ASSUME TypeOfCalls, NEW p \in Prompts, Prompt(p)
  PROVE  TypeOfCalls'
<1>1. PICK n \in 0..MaxPrompts : queued <= n /\ \A q \in Prompts : pc[q] = "absent" <=> q > n
  BY DEF TypeOfCalls, CallsInOrder
<1>2. p = n + 1
  <2>1. p > n /\ \A q \in Prompts : q < p => q <= n
    BY <1>1, SessionAssumption DEF Prompt, Prompts
  <2>2. CASE n = 0
    <3>1. 1 \in Prompts
      BY SessionAssumption DEF Prompts
    <3> QED BY <2>1, <2>2, <3>1 DEF Prompts
  <2>3. CASE n # 0 /\ p > n + 1
    <3>1. n + 1 \in Prompts
      BY <2>3, <1>1, SessionAssumption DEF Prompts
    <3> QED BY <2>1, <2>3, <3>1, <1>1, SessionAssumption DEF Prompts
  <2> QED BY <2>1, <2>2, <2>3, <1>1, SessionAssumption DEF Prompts
<1>3. PICK l \in {"done", "rejected", "preflight"} : pc' = [pc EXCEPT ![p] = l]
  BY DEF Prompt, Goto
<1>4. l \in Places /\ l # "absent"
  BY <1>3 DEF Places, Preflight, Ended
<1>5. queued' = queued \/ queued' = queued + 1
  BY DEF Prompt
<1>6. n + 1 \in 0..MaxPrompts /\ queued' \in 0..MaxPrompts /\ queued' <= n + 1
  BY <1>1, <1>2, <1>5, SessionAssumption DEF Prompts, TypeOfCalls
<1>7. \A q \in Prompts : pc'[q] = "absent" <=> q > n + 1
  BY <1>1, <1>2, <1>3, <1>4, SessionAssumption DEF Prompts, TypeOfCalls
<1>8. pc' \in [Prompts -> Places]
  BY <1>3, <1>4 DEF TypeOfCalls
<1> QED BY <1>6, <1>7, <1>8 DEF TypeOfCalls, CallsInOrder

(* Whatever follows a run or a pause keeps the types it touches.           *)
LEMMA LeadsOnTypes ==
  ASSUME TypeOfRun, TypeOfCalls, NEW p \in Prompts, pc[p] # "absent", LeadsOn(p)
  PROVE  TypeOfRun' /\ TypeOfCalls'
<1>1. run' \in Prompts \cup {Nobody} /\ runAborted' \in BOOLEAN
  BY DEF LeadsOn, NothingLeft, Throws, RunsAgain, RunsQueued, Pauses, TypeOfRun
<1>2. (tail' = tail \/ tail' = saved \/ tail' = Rebuilt \/ tail' = "input")
      /\ (saved' = saved \/ saved' = "input")
  BY DEF LeadsOn, NothingLeft, Throws, RunsAgain, RunsQueued, Pauses
<1>3. tail' \in Endings \cup {"input"} /\ saved' \in Endings \cup {"input"}
  BY <1>2 DEF TypeOfRun, Rebuilt
<1>4. overflowTried' = overflowTried \/ overflowTried' = FALSE \/ overflowTried' = TRUE
  BY DEF LeadsOn, NothingLeft, Throws, RunsAgain, RunsQueued, Pauses
<1>5. fruitless' = fruitless \/ fruitless' = fruitless + 1 \/ fruitless' = 1
  BY DEF LeadsOn, NothingLeft, Throws, RunsAgain, RunsQueued, Pauses
<1>6. stuck' = stuck \/ stuck' = stuck \cup {p}
  BY DEF LeadsOn, NothingLeft, Throws, RunsAgain, RunsQueued, Pauses
<1>7. queued' = queued \/ (queued > 0 /\ queued' = queued - 1)
  BY DEF LeadsOn, NothingLeft, Throws, RunsAgain, RunsQueued, Pauses
<1>8. \E l \in {"settling", "run", "backoff", "retryCompact", "compact"} : pc' = [pc EXCEPT ![p] = l]
  BY DEF LeadsOn, NothingLeft, Throws, RunsAgain, RunsQueued, Pauses, Goto
<1>9. queued' \in 0..queued
  BY <1>7, SessionAssumption DEF TypeOfCalls
<1>10. TypeOfCalls'
  BY <1>8, <1>9, CalledStays DEF Places, Working
<1>11. overflowTried' \in BOOLEAN
  BY <1>4 DEF TypeOfRun
<1>12. fruitless' \in Nat
  BY <1>5 DEF TypeOfRun
<1>13. stuck' \subseteq Prompts
  BY <1>6 DEF TypeOfRun
<1> QED BY <1>1, <1>3, <1>10, <1>11, <1>12, <1>13 DEF TypeOfRun

(* ... and leaves the waiters alone, with the retries counted at most.     *)
LEMMA AfterRunRest ==
  ASSUME TypeOfRest, NEW p \in Prompts, AfterRun(p)
  PROVE  /\ TypeOfRest' /\ UNCHANGED <<active, waiting, progress>>
         /\ \E n \in 0..MaxRetries : retryAttempt' = n
<1>1. /\ UNCHANGED <<active, waiting, progress>>
      /\ last' = last \/ last' = "none"
  BY DEF AfterRun, PostRun, BackoffEnds, RetryCompactionEnds, CompactionEnds
<1>2. retryCut' = retryCut \/ retryCut' = FALSE
  BY DEF AfterRun, PostRun, BackoffEnds, RetryCompactionEnds, CompactionEnds, PrepareRetry
<1>3. \/ retryAttempt' = retryAttempt
      \/ retryAttempt' = 0
      \/ retryAttempt < MaxRetries /\ retryAttempt' = retryAttempt + 1
  BY DEF AfterRun, PostRun, BackoffEnds, RetryCompactionEnds, CompactionEnds, PrepareRetry, MayRetry
<1>4. retryAttempt' \in 0..MaxRetries
  BY <1>3, SessionAssumption DEF TypeOfRest
<1> QED BY <1>1, <1>2, <1>4 DEF TypeOfRest

(* A run ends.                                                             *)
LEMMA RunEndsTypes ==
  ASSUME TypeInv, NEW p \in Prompts, RunEnds(p)
  PROVE  TypeInv'
<1>1. PICK o \in Endings, progressed \in BOOLEAN :
        /\ progressed => o \in Errors /\ progress < MaxProgress
        /\ progress' = IF progressed THEN progress + 1 ELSE progress
        /\ fruitless' = IF o \notin Errors THEN 0 ELSE IF progressed THEN 1 ELSE fruitless
        /\ last' = o /\ tail' = o /\ saved' = o
        /\ queued' \in IF o \in {"answer", "length"} THEN {0}
                      ELSE IF progressed THEN 0..queued ELSE {queued}
        /\ ResetCounters(o, progressed)
  BY DEF RunEnds
<1>2. /\ pc[p] = "run" /\ run' = Nobody /\ pc' = [pc EXCEPT ![p] = "post"]
      /\ UNCHANGED <<active, runAborted, retryCut, waiting, stuck>>
  BY DEF RunEnds, Goto
<1>3. queued' \in 0..queued
  BY <1>1, SessionAssumption DEF TypeInv, TypeOfRun, TypeOfRest, TypeOfCalls
<1>4. TypeOfCalls'
  BY <1>2, <1>3, CalledStays DEF TypeInv, Places, Working
<1>5. progress' \in 0..MaxProgress
  BY <1>1, SessionAssumption DEF TypeInv, TypeOfRun, TypeOfRest, TypeOfCalls
<1>6. fruitless' \in Nat
  BY <1>1 DEF TypeInv, TypeOfRun, TypeOfRest, TypeOfCalls
<1>7. retryAttempt' = retryAttempt \/ retryAttempt' = 0
  BY <1>1 DEF ResetCounters
<1>8. overflowTried' = overflowTried \/ overflowTried' = FALSE
  BY <1>1 DEF ResetCounters
<1>9. retryAttempt' \in 0..MaxRetries
  BY <1>7, SessionAssumption DEF TypeInv, TypeOfRun, TypeOfRest, TypeOfCalls
<1>10. TypeOfRun'
  BY <1>1, <1>2, <1>6, <1>8 DEF TypeInv, TypeOfRun
<1>11. TypeOfRest'
  BY <1>1, <1>2, <1>5, <1>9 DEF TypeInv, TypeOfRest
<1> QED BY <1>4, <1>10, <1>11 DEF TypeInv

LEMMA InitTypes == Init => TypeInv
<1> SUFFICES ASSUME Init PROVE TypeInv
  OBVIOUS
<1>1. TypeOfRun /\ active \in BOOLEAN /\ last \in Endings \cup {"none"} /\ retryCut \in BOOLEAN
  BY DEF Init, TypeOfRun
<1>2. retryAttempt \in 0..MaxRetries /\ progress \in 0..MaxProgress /\ queued \in 0..MaxPrompts
  BY SessionAssumption DEF Init
<1>3. waiting \in [Aborts -> {"absent", "waiting", "done"}] /\ pc \in [Prompts -> Places]
  BY DEF Init, Places
<1>4. 0 \in 0..MaxPrompts /\ queued <= 0 /\ \A p \in Prompts : pc[p] = "absent" <=> p > 0
  BY SessionAssumption DEF Init, Prompts
<1>5. CallsInOrder
  BY <1>4 DEF CallsInOrder
<1> QED BY <1>1, <1>2, <1>3, <1>5 DEF TypeInv, TypeOfRest, TypeOfCalls

LEMMA NextTypes == ASSUME TypeInv, [Next]_vars PROVE TypeInv'
<1> USE DEF TypeInv
<1>1. ASSUME NEW p \in Prompts, Prompt(p) PROVE TypeInv'
  <2>1. TypeOfCalls'
    BY <1>1, CalledNext
  <2>2. TypeOfRun' /\ TypeOfRest'
    BY <1>1 DEF Prompt, TypeOfRun, TypeOfRest, retry, hist
  <2> QED BY <2>1, <2>2
<1>2. ASSUME NEW p \in Prompts, CheckPreflight(p) PROVE TypeInv'
  <2>1. \E l \in {"rejected", "ready", "preCompact"} : pc' = [pc EXCEPT ![p] = l]
    BY <1>2 DEF CheckPreflight, Goto
  <2>2. /\ pc[p] = "preflight"
        /\ tail' = tail \/ tail' = "input"
        /\ overflowTried' = overflowTried \/ overflowTried' = TRUE
        /\ UNCHANGED <<active, run, runAborted, last, saved, queued, retryAttempt, retryCut, waiting, hist>>
    BY <1>2 DEF CheckPreflight, WithoutAnswer
  <2>3. queued' \in 0..queued
    BY <2>2, SessionAssumption DEF TypeOfCalls
  <2>4. TypeOfCalls'
    BY <1>2, <2>1, <2>3, CalledStays DEF Places, Preflight, Ended, CheckPreflight
  <2>5. TypeOfRun' /\ TypeOfRest'
    BY <1>2, <2>2 DEF TypeOfRun, TypeOfRest, hist, CheckPreflight, WithoutAnswer
  <2> QED BY <2>4, <2>5
<1>3. ASSUME NEW p \in Prompts, PreCompactEnds(p) PROVE TypeInv'
  <2>1. queued' \in 0..queued
    BY <1>3, SessionAssumption DEF TypeOfCalls, PreCompactEnds
  <2>2. TypeOfCalls'
    BY <1>3, <2>1, CalledStays DEF Places, Preflight, PreCompactEnds, Goto
  <2>3. TypeOfRun' /\ TypeOfRest'
    BY <1>3 DEF TypeOfRun, TypeOfRest, hist, PreCompactEnds, Rebuilt, retry
  <2> QED BY <2>2, <2>3
<1>4. ASSUME NEW p \in Prompts, StartRun(p) PROVE TypeInv'
  <2>1. queued' \in 0..queued
    BY <1>4, SessionAssumption DEF TypeOfCalls, StartRun, agent
  <2>2. TypeOfCalls'
    BY <1>4, <2>1, CalledStays DEF Places, Working, StartRun, Goto
  <2>3. TypeOfRest'
    BY <1>4 DEF TypeOfRest, StartRun, agent
  <2>4. TypeOfRun'
    <3>1. CASE run # Nobody
      BY <1>4, <3>1 DEF TypeOfRun, StartRun, agent
    <3>2. CASE run = Nobody
      <4>1. /\ run' = p /\ runAborted' = FALSE /\ tail' = "input" /\ saved' = "input"
            /\ overflowTried' = FALSE /\ fruitless' = 1 /\ stuck' = stuck
        BY <1>4, <3>2 DEF StartRun
      <4> QED BY <4>1 DEF TypeOfRun
    <3> QED BY <3>1, <3>2
  <2> QED BY <2>2, <2>3, <2>4
<1>5. ASSUME NEW p \in Prompts, RunEnds(p) PROVE TypeInv'
  BY <1>5, RunEndsTypes
<1>6. ASSUME NEW p \in Prompts, AfterRun(p) PROVE TypeInv'
  <2>1. pc[p] # "absent"
    BY <1>6 DEF AfterRun, PostRun, BackoffEnds, RetryCompactionEnds, CompactionEnds
  <2> QED BY <1>6, <2>1, AfterRunKinds, AfterRunRest, LeadsOnTypes
<1>7. ASSUME NEW p \in Prompts, Settle(p) \/ Release(p) PROVE TypeInv'
  <2>1. queued' \in 0..queued
    BY <1>7, SessionAssumption DEF TypeOfCalls, Settle, Release, agent
  <2>2. TypeOfCalls'
    BY <1>7, <2>1, CalledStays DEF Places, Ended, Settle, Release, Goto
  <2>3. TypeOfRun' /\ TypeOfRest'
    BY <1>7 DEF TypeOfRun, TypeOfRest, hist, Settle, Release, agent, retry
  <2> QED BY <2>2, <2>3
<1>8. ASSUME NEW a \in Aborts, Abort(a) PROVE TypeInv'
  BY <1>8 DEF Abort, TypeOfRun, TypeOfRest, TypeOfCalls, CallsInOrder
<1>9. CASE UNCHANGED vars
  BY <1>9 DEF vars, TypeOfRun, TypeOfRest, TypeOfCalls, CallsInOrder
<1> QED BY <1>1, <1>2, <1>3, <1>4, <1>5, <1>6, <1>7, <1>8, <1>9 DEF Next, Step, AfterRun, Rest

(* Every variable has its type, however prompts, aborts and failures       *)
(* interleave, and even if prompts overlap in their preflight.             *)
THEOREM TypeCorrect == Spec => []TypeOK
<1> QED BY TypesFromParts, InitTypes, NextTypes, PTL DEF Spec

-----------------------------------------------------------------------------
(* Exclusion: with serial callers at most one prompt() is between its      *)
(* preflight and _emitAgentSettled.                                        *)

Busy == Preflight \cup Working \cup {"settling"}

OneAtATime == \A p, q \in Prompts : pc[p] \in Busy /\ pc[q] \in Busy => p = q
FlagUp     == \A p \in Prompts : pc[p] \in Working \cup {"settling"} => active
RunOwned   == run # Nobody => run \in Prompts /\ pc[run] = "run"

Exclusive == OneAtATime /\ FlagUp /\ RunOwned

(* A busy prompt() moves on, and what it leaves behind is nobody's.        *)
LEMMA MovesOn ==
  ASSUME pc \in [Prompts -> Places], Exclusive,
         NEW p \in Prompts, pc[p] \in Busy,
         NEW l, pc' = [pc EXCEPT ![p] = l],
         active' = active \/ active',
         l \in Working \cup {"settling"} => active',
         \/ run' = run /\ pc[p] # "run"
         \/ run' = Nobody
         \/ run' = p /\ l = "run"
  PROVE  Exclusive'
<1>1. OneAtATime'
  BY DEF Exclusive, OneAtATime
<1>2. FlagUp'
  BY DEF Exclusive, FlagUp
<1>3. RunOwned'
  BY DEF Exclusive, RunOwned
<1> QED BY <1>1, <1>2, <1>3 DEF Exclusive

LEMMA LeadsOnMoves ==
  ASSUME NEW p \in Prompts, LeadsOn(p)
  PROVE  \E l \in {"settling", "run", "backoff", "retryCompact", "compact"} :
           /\ pc' = [pc EXCEPT ![p] = l]
           /\ run' = run \/ (run' = p /\ l = "run")
BY DEF LeadsOn, NothingLeft, Throws, RunsAgain, RunsQueued, Pauses, Goto

LEMMA InitExclusive == Init => Exclusive
BY DEF Init, Exclusive, OneAtATime, FlagUp, RunOwned, Busy, Preflight, Working

LEMMA NextExclusive ==
  ASSUME SerialCallers, TypeInv, Exclusive, [Next]_vars PROVE Exclusive'
<1>0. pc \in [Prompts -> Places]
  BY DEF TypeInv, TypeOfCalls
<1>1. ASSUME NEW p \in Prompts, Prompt(p) PROVE Exclusive'
  <2>1. /\ pc[p] = "absent" /\ \A q \in Prompts : pc[q] \notin Preflight
        /\ active' = active /\ run' = run
    BY <1>1 DEF Prompt
  <2>2. CASE active
    <3>1. PICK l \in {"done", "rejected"} : pc' = [pc EXCEPT ![p] = l]
      BY <1>1, <2>2 DEF Prompt, Goto
    <3> QED BY <1>0, <2>1, <3>1 DEF Exclusive, OneAtATime, FlagUp, RunOwned, Busy, Preflight, Working
  <2>3. CASE ~active
    <3>1. pc' = [pc EXCEPT ![p] = "preflight"]
      BY <1>1, <2>3 DEF Prompt, Goto
    <3>2. \A q \in Prompts : pc[q] \notin Busy
      BY <2>1, <2>3 DEF Exclusive, FlagUp, Busy
    <3> QED BY <1>0, <2>1, <3>1, <3>2 DEF Exclusive, OneAtATime, FlagUp, RunOwned, Busy, Preflight, Working
  <2> QED BY <2>2, <2>3
<1>2. ASSUME NEW p \in Prompts, CheckPreflight(p) PROVE Exclusive'
  <2>1. PICK l \in {"rejected", "ready", "preCompact"} : pc' = [pc EXCEPT ![p] = l]
    BY <1>2 DEF CheckPreflight, Goto
  <2>2. pc[p] = "preflight" /\ active' = active /\ run' = run
    BY <1>2 DEF CheckPreflight
  <2> QED BY <1>0, <2>1, <2>2, MovesOn DEF Busy, Preflight, Working
<1>3. ASSUME NEW p \in Prompts, PreCompactEnds(p) PROVE Exclusive'
  <2>1. pc[p] = "preCompact" /\ pc' = [pc EXCEPT ![p] = "ready"] /\ active' = active /\ run' = run
    BY <1>3 DEF PreCompactEnds, Goto
  <2> QED BY <1>0, <2>1, MovesOn DEF Busy, Preflight, Working
<1>4. ASSUME NEW p \in Prompts, StartRun(p) PROVE Exclusive'
  <2>1. /\ pc[p] = "ready" /\ active'
        /\ \/ pc' = [pc EXCEPT ![p] = "settling"] /\ run' = run
           \/ pc' = [pc EXCEPT ![p] = "run"] /\ run' = p
    BY <1>4 DEF StartRun, Goto, agent
  <2> QED BY <1>0, <2>1, MovesOn DEF Busy, Preflight, Working
<1>5. ASSUME NEW p \in Prompts, RunEnds(p) PROVE Exclusive'
  <2>1. pc[p] = "run" /\ pc' = [pc EXCEPT ![p] = "post"] /\ run' = Nobody /\ active' = active
    BY <1>5 DEF RunEnds, Goto
  <2>2. active
    BY <2>1 DEF Exclusive, FlagUp, Working
  <2> QED BY <1>0, <2>1, <2>2, MovesOn DEF Busy, Preflight, Working
<1>6. ASSUME NEW p \in Prompts, AfterRun(p) PROVE Exclusive'
  <2>1. pc[p] \in {"post", "backoff", "retryCompact", "compact"} /\ active' = active
    BY <1>6 DEF AfterRun, PostRun, BackoffEnds, RetryCompactionEnds, CompactionEnds
  <2>2. active
    BY <2>1 DEF Exclusive, FlagUp, Working
  <2>3. PICK l \in {"settling", "run", "backoff", "retryCompact", "compact"} :
           /\ pc' = [pc EXCEPT ![p] = l]
           /\ run' = run \/ (run' = p /\ l = "run")
    BY <1>6, AfterRunKinds, LeadsOnMoves
  <2> QED BY <1>0, <2>1, <2>2, <2>3, MovesOn DEF Busy, Preflight, Working
<1>7. ASSUME NEW p \in Prompts, Settle(p) PROVE Exclusive'
  <2>1. pc[p] = "settling" /\ pc' = [pc EXCEPT ![p] = "settled"] /\ run' = run /\ active' = FALSE
    BY <1>7 DEF Settle, Goto, agent
  <2>2. \A q \in Prompts : q # p => pc[q] \notin Busy
    BY <2>1 DEF Exclusive, OneAtATime, Busy
  <2> QED BY <1>0, <2>1, <2>2 DEF Exclusive, OneAtATime, FlagUp, RunOwned, Busy, Preflight, Working
<1>8. ASSUME NEW p \in Prompts, Release(p) PROVE Exclusive'
  <2>1. pc[p] = "settled" /\ pc' = [pc EXCEPT ![p] = "done"] /\ run' = run /\ active' = active
    BY <1>8 DEF Release, Goto, agent
  <2> QED BY <1>0, <2>1 DEF Exclusive, OneAtATime, FlagUp, RunOwned, Busy, Preflight, Working
<1>9. ASSUME NEW a \in Aborts, Abort(a) PROVE Exclusive'
  BY <1>9 DEF Abort, Exclusive, OneAtATime, FlagUp, RunOwned
<1>10. CASE UNCHANGED vars
  BY <1>10 DEF vars, Exclusive, OneAtATime, FlagUp, RunOwned
<1> QED BY <1>1, <1>2, <1>3, <1>4, <1>5, <1>6, <1>7, <1>8, <1>9, <1>10
        DEF Next, Step, AfterRun, Rest

(* agent-session.ts:878: if prompt() is not called while another call is   *)
(* in its preflight, a session that says it is idle has no active run, no  *)
(* retry, no compaction after a run and no continuation.                   *)
THEOREM IdleIsIdle == SerialCallers => (Spec => []IdleMeansIdle)
<1> SUFFICES ASSUME SerialCallers PROVE Spec => []IdleMeansIdle
  OBVIOUS
<1>1. Init => TypeInv /\ Exclusive
  BY InitTypes, InitExclusive
<1>2. TypeInv /\ Exclusive /\ [Next]_vars => (TypeInv /\ Exclusive)'
  BY NextTypes, NextExclusive
<1>3. Exclusive => IdleMeansIdle
  BY DEF Exclusive, FlagUp, RunOwned, IdleMeansIdle, Working
<1> QED BY <1>1, <1>2, <1>3, PTL DEF Spec

-----------------------------------------------------------------------------
(* What the transcript looks like where a prompt() is suspended, and how   *)
(* many runs may have been fruitless by then.                              *)

Transcript ==
  \A p \in Prompts :
    /\ pc[p] = "post" => last \in Endings /\ tail = last /\ saved = last
    /\ pc[p] = "backoff" => tail = "input" /\ saved \in Endings
    /\ pc[p] = "retryCompact" => saved \in Overflowing
    /\ pc[p] = "compact" => saved \in Endings

Aborted   == {a \in Aborts : waiting[a] # "absent"}
Allowance == MaxRetries * Cardinality(Aborted)
Recovered == IF overflowTried THEN MaxRetries + 1 ELSE 0

(* An overflow is recovered from once, and its recovery and every abort of *)
(* a backoff start the count of retries over.                              *)
Spent(n) == fruitless <= n + Recovered + Allowance

(* ... with the count of retries that the step leaves.                     *)
SpentNext == fruitless <= retryAttempt' + Recovered + Allowance

Budget ==
  /\ Spent(MaxRetries + 1)
  /\ \A p \in Prompts :
       /\ pc[p] \in {"run", "post"} => Spent(retryAttempt + 1)
       /\ pc[p] = "backoff" => Spent(retryAttempt) /\ (retryCut => Spent(0))
       /\ pc[p] = "retryCompact" => Spent(0)
       /\ pc[p] = "compact" /\ tail = "input" => Spent(0)

LEMMA AllowanceNat == waiting \in [Aborts -> {"absent", "waiting", "done"}]
                        => Allowance \in Nat /\ IsFiniteSet(Aborted)
<1>1. IsFiniteSet(Aborts)
  BY FS_Interval, SessionAssumption DEF Aborts
<1>2. IsFiniteSet(Aborted)
  BY <1>1, FS_Subset DEF Aborted
<1>3. Cardinality(Aborted) \in Nat
  BY <1>2, FS_CardinalityType
<1> QED BY <1>2, <1>3, SessionAssumption DEF Allowance

(* An abort() adds the retries it may have cut short.                      *)
LEMMA AbortAllows ==
  ASSUME TypeOfRest, NEW a \in Aborts, Abort(a)
  PROVE  Allowance' = Allowance + MaxRetries
<1>1. Aborted' = Aborted \cup {a} /\ a \notin Aborted
  BY DEF Abort, Aborted, TypeOfRest
<1>2. IsFiniteSet(Aborted) /\ Cardinality(Aborted) \in Nat
  BY AllowanceNat, FS_CardinalityType DEF TypeOfRest
<1>3. Cardinality(Aborted \cup {a}) = Cardinality(Aborted) + 1
  BY <1>1, <1>2, FS_AddElement
<1>4. Cardinality(Aborted') = Cardinality(Aborted) + 1
  BY <1>1, <1>3
<1>5. \A n \in Nat : MaxRetries * (n + 1) = MaxRetries * n + MaxRetries
  BY SessionAssumption
<1> QED BY <1>2, <1>4, <1>5 DEF Allowance

(* The step behind a run or a pause, with what it needs of the budget.     *)
Onward(p) ==
  \/ Goto(p, "settling") /\ UNCHANGED <<overflowTried, fruitless>>
  \/ Goto(p, "run") /\ overflowTried' = FALSE /\ fruitless' = 1
  \/ /\ Goto(p, "run") /\ UNCHANGED overflowTried
     /\ fruitless' = fruitless + 1 /\ SpentNext
  \/ /\ Goto(p, "backoff") /\ UNCHANGED <<saved, overflowTried, fruitless>>
     /\ tail' = "input" /\ retryCut' = FALSE /\ SpentNext
  \/ /\ Goto(p, "retryCompact") /\ UNCHANGED <<saved, fruitless>>
     /\ saved \in Overflowing /\ ~overflowTried /\ overflowTried' = TRUE
  \/ /\ Goto(p, "compact") /\ UNCHANGED <<tail, saved, overflowTried, fruitless>>
     /\ tail = "input" => Spent(0)

LEMMA OnwardOf ==
  ASSUME NEW p \in Prompts
  PROVE  /\ NothingLeft(p) => Onward(p)
         /\ RunsQueued(p) => Onward(p)
         /\ \A t : Throws(p, t) => Onward(p)
         /\ \A t : RunsAgain(p, t) /\ SpentNext => Onward(p)
BY DEF NothingLeft, RunsQueued, Throws, RunsAgain, Onward

LEMMA AfterRunOnward ==
  ASSUME TypeInv, Transcript, Budget, NEW p \in Prompts, AfterRun(p)
  PROVE  Onward(p)
<1>0. /\ retryAttempt \in 0..MaxRetries /\ retryAttempt' \in 0..MaxRetries
      /\ fruitless \in Nat /\ Allowance \in Nat /\ Recovered \in Nat
  BY AfterRunRest, AllowanceNat, SessionAssumption DEF TypeInv, TypeOfRun, TypeOfRest, Recovered
<1>a. "input" \notin Endings
  BY DEF Endings, Errors, Answers
<1>b. Spent(0) => SpentNext
  <2>1. PICK n \in 0..MaxRetries : retryAttempt' = n
    BY AfterRunRest DEF TypeInv
  <2>2. n \in Nat
    BY SessionAssumption
  <2> QED BY <1>0, <2>1, <2>2 DEF Spent, SpentNext
<1>1. CASE PostRun(p)
  <2>0. pc[p] = "post" /\ last \in Endings /\ tail = last /\ saved = last
    BY <1>1 DEF PostRun, Transcript
  <2>1. CASE last = "retryable" /\ MayRetry
    <3>1. /\ Goto(p, "backoff") /\ UNCHANGED <<saved, overflowTried, fruitless>>
          /\ tail' = "input" /\ retryCut' = FALSE /\ retryAttempt' = retryAttempt + 1
      BY <1>1, <2>1 DEF PostRun, PrepareRetry, WithoutAnswer
    <3>2. SpentNext
      BY <2>0, <3>1 DEF Budget, Spent, SpentNext
    <3> QED BY <3>1, <3>2 DEF Onward
  <2>2. CASE ~(last = "retryable" /\ MayRetry)
    <3>1. CheckCompaction(p, last)
      BY <1>1, <2>0, <2>2 DEF PostRun, Endings, Errors, Answers
    <3>2. ~RunsAgain(p, tail)
      BY <2>0, <1>a DEF RunsAgain
    <3>3. ASSUME last \in Overflowing, ~overflowTried, overflowTried' = TRUE, Pauses(p, "retryCompact")
          PROVE  Onward(p)
      BY <2>0, <3>3 DEF Onward, Pauses
    <3>4. ASSUME Pauses(p, "compact"), UNCHANGED <<tail, overflowTried>>
          PROVE  Onward(p)
      BY <2>0, <1>a, <3>4 DEF Onward, Pauses
    <3> QED BY <3>1, <3>2, <3>3, <3>4, CheckCompactionKinds, OnwardOf
  <2> QED BY <2>1, <2>2
<1>2. CASE BackoffEnds(p)
  <2>0. pc[p] = "backoff" /\ tail = "input" /\ saved \in Endings
    BY <1>2 DEF BackoffEnds, Transcript
  <2>1. CASE retryCut
    <3>1. retryAttempt' = 0 /\ CheckCompaction(p, "retryable") /\ Spent(0)
      BY <1>2, <2>0, <2>1 DEF BackoffEnds, Budget
    <3>2. "retryable" \notin Overflowing
      BY DEF Overflowing
    <3>4. ASSUME Pauses(p, "compact"), UNCHANGED <<tail, overflowTried>>
          PROVE  Onward(p)
      BY <3>1, <3>4 DEF Onward, Pauses
    <3> QED BY <3>1, <3>2, <3>4, <1>b, CheckCompactionKinds, OnwardOf
  <2>2. CASE ~retryCut
    <3>1. retryAttempt' = retryAttempt /\ Continue(p, tail) /\ Spent(retryAttempt)
      BY <1>2, <2>0, <2>2 DEF BackoffEnds, Budget
    <3> QED BY <3>1, ContinueKinds, OnwardOf DEF Spent, SpentNext
  <2> QED BY <2>1, <2>2
<1>3. CASE RetryCompactionEnds(p)
  <2>1. Spent(0)
    BY <1>3 DEF RetryCompactionEnds, Budget
  <2> QED BY <1>3, <2>1, <1>b, ContinueIfQueuedKinds, ContinueKinds, OnwardOf DEF RetryCompactionEnds
<1>4. CASE CompactionEnds(p)
  <2>0. saved \in Endings /\ (tail = "input" => Spent(0))
    BY <1>4 DEF CompactionEnds, Transcript, Budget
  <2>1. CASE ContinueIfQueued(p)
    <3>1. RunsAgain(p, tail) => Spent(0)
      BY <2>0 DEF RunsAgain
    <3> QED BY <2>1, <3>1, <1>b, ContinueIfQueuedKinds, OnwardOf
  <2>2. CASE queued > 0 /\ Continue(p, saved)
    <3>1. ~RunsAgain(p, saved)
      BY <2>0, <1>a DEF RunsAgain
    <3> QED BY <2>2, <3>1, ContinueKinds, OnwardOf
  <2>3. CASE /\ Goto(p, "settling") /\ tail' = saved
             /\ UNCHANGED <<run, runAborted, saved, queued, overflowTried, fruitless, stuck>>
    BY <2>3 DEF Onward
  <2> QED BY <1>4, <2>1, <2>2, <2>3 DEF CompactionEnds
<1> QED BY <1>1, <1>2, <1>3, <1>4 DEF AfterRun

(* The invariant of the session: a prompt() at work is alone, and what it  *)
(* has spent fits the budget of the place it is at.                        *)
IInv == TypeInv /\ Exclusive /\ Transcript /\ Budget

(* If nothing but the places of one prompt() change, the others being      *)
(* idle, only the place it goes to has to be looked at.                    *)
LEMMA OthersAreIdle ==
  ASSUME pc \in [Prompts -> Places], Exclusive, NEW p \in Prompts, pc[p] \in Busy
  PROVE  \A q \in Prompts : q # p => pc[q] \notin Working
BY DEF Exclusive, OneAtATime, Busy

LEMMA OnwardTranscript ==
  ASSUME IInv, NEW p \in Prompts, AfterRun(p)
  PROVE  Transcript'
<1>0. pc[p] \in {"post", "backoff", "retryCompact", "compact"} /\ pc \in [Prompts -> Places]
  BY DEF AfterRun, PostRun, BackoffEnds, RetryCompactionEnds, CompactionEnds, IInv, TypeInv, TypeOfCalls
<1>1. \A q \in Prompts : q # p => pc[q] \notin Working
  BY <1>0, OthersAreIdle DEF IInv, Busy, Working
<1>2. PICK l \in {"settling", "run", "backoff", "retryCompact", "compact"} :
         /\ pc' = [pc EXCEPT ![p] = l]
         /\ l \in {"backoff", "retryCompact", "compact"} => saved' = saved
         /\ l = "backoff" => tail' = "input"
         /\ l = "retryCompact" => saved \in Overflowing
  BY AfterRunOnward DEF IInv, Onward, Goto
<1>3. pc[p] \in {"post", "backoff", "compact"} => saved \in Endings
  BY DEF IInv, Transcript
<1>4. Overflowing \subseteq Endings
  BY DEF Overflowing, Endings, Errors, Answers
<1>5. saved \in Endings
  BY <1>0, <1>3, <1>4 DEF IInv, Transcript
<1> QED BY <1>0, <1>1, <1>2, <1>5 DEF Transcript, Working

LEMMA OnwardBudget ==
  ASSUME IInv, NEW p \in Prompts, AfterRun(p)
  PROVE  Budget'
<1>0. pc[p] \in {"post", "backoff", "retryCompact", "compact"} /\ pc \in [Prompts -> Places]
  BY DEF AfterRun, PostRun, BackoffEnds, RetryCompactionEnds, CompactionEnds, IInv, TypeInv, TypeOfCalls
<1>1. \A q \in Prompts : q # p => pc[q] \notin Working
  BY <1>0, OthersAreIdle DEF IInv, Busy, Working
<1>n. PICK n \in 0..MaxRetries : retryAttempt' = n
  BY AfterRunRest DEF IInv, TypeInv
<1>2. /\ n \in Nat /\ retryAttempt \in Nat /\ MaxRetries \in Nat
      /\ fruitless \in Nat /\ Allowance \in Nat /\ Allowance' = Allowance
      /\ overflowTried \in BOOLEAN
  <2>1. TypeOfRun /\ TypeOfRest
    BY DEF IInv, TypeInv
  <2>2. Allowance \in Nat
    BY <2>1, AllowanceNat DEF TypeOfRest
  <2>3. waiting' = waiting
    BY <2>1, AfterRunRest
  <2>4. Allowance' = Allowance
    BY <2>3 DEF Allowance, Aborted
  <2> QED BY <1>n, <2>1, <2>2, <2>4, SessionAssumption DEF TypeOfRun, TypeOfRest
<1>3. Spent(MaxRetries + 1)
  BY DEF IInv, Budget
<1>4. Onward(p)
  BY AfterRunOnward DEF IInv
<1>5. CASE Goto(p, "settling") /\ UNCHANGED <<overflowTried, fruitless>>
  BY <1>0, <1>1, <1>2, <1>3, <1>n, <1>5 DEF Goto, Spent, SpentNext, Recovered, Budget, Working
<1>6. CASE Goto(p, "run") /\ overflowTried' = FALSE /\ fruitless' = 1
  BY <1>0, <1>1, <1>2, <1>3, <1>n, <1>6 DEF Goto, Spent, SpentNext, Recovered, Budget, Working
<1>7. CASE /\ Goto(p, "run") /\ UNCHANGED overflowTried
           /\ fruitless' = fruitless + 1 /\ SpentNext
  BY <1>0, <1>1, <1>2, <1>3, <1>n, <1>7 DEF Goto, Spent, SpentNext, Recovered, Budget, Working
<1>8. CASE /\ Goto(p, "backoff") /\ UNCHANGED <<saved, overflowTried, fruitless>>
           /\ tail' = "input" /\ retryCut' = FALSE /\ SpentNext
  BY <1>0, <1>1, <1>2, <1>3, <1>n, <1>8 DEF Goto, Spent, SpentNext, Recovered, Budget, Working
<1>9. CASE /\ Goto(p, "retryCompact") /\ UNCHANGED <<saved, fruitless>>
           /\ saved \in Overflowing /\ ~overflowTried /\ overflowTried' = TRUE
  BY <1>0, <1>1, <1>2, <1>3, <1>n, <1>9 DEF Goto, Spent, SpentNext, Recovered, Budget, Working
<1>10. CASE /\ Goto(p, "compact") /\ UNCHANGED <<tail, saved, overflowTried, fruitless>>
            /\ tail = "input" => Spent(0)
  BY <1>0, <1>1, <1>2, <1>3, <1>n, <1>10 DEF Goto, Spent, SpentNext, Recovered, Budget, Working
<1> QED BY <1>4, <1>5, <1>6, <1>7, <1>8, <1>9, <1>10 DEF Onward

LEMMA InitIInv == Init => IInv
<1> SUFFICES ASSUME Init PROVE IInv
  OBVIOUS
<1>1. TypeInv /\ Exclusive
  BY InitTypes, InitExclusive
<1>2. Allowance \in Nat
  BY <1>1, AllowanceNat DEF TypeInv, TypeOfRest
<1>3. Transcript
  BY DEF Init, Transcript
<1>4. Budget
  BY <1>2, SessionAssumption DEF Init, Budget, Spent, Recovered
<1> QED BY <1>1, <1>3, <1>4 DEF IInv

LEMMA NextTranscript == ASSUME SerialCallers, IInv, [Next]_vars PROVE Transcript'
<1>0. pc \in [Prompts -> Places]
  BY DEF IInv, TypeInv, TypeOfCalls
<1>1. ASSUME NEW p \in Prompts, Prompt(p) PROVE Transcript'
  <2>1. PICK l \in {"done", "rejected", "preflight"} : pc' = [pc EXCEPT ![p] = l]
    BY <1>1 DEF Prompt, Goto
  <2>2. UNCHANGED <<last, tail, saved>>
    BY <1>1 DEF Prompt
  <2> QED BY <1>0, <2>1, <2>2 DEF IInv, Transcript
<1>2. ASSUME NEW p \in Prompts, CheckPreflight(p) \/ PreCompactEnds(p) \/ StartRun(p) PROVE Transcript'
  <2>1. pc[p] \in Preflight
    BY <1>2 DEF CheckPreflight, PreCompactEnds, StartRun, Preflight
  <2>2. \A q \in Prompts : q # p => pc[q] \notin Working
    BY <1>0, <2>1, OthersAreIdle DEF IInv, Busy
  <2>3. PICK l \in {"rejected", "ready", "preCompact", "settling", "run"} : pc' = [pc EXCEPT ![p] = l]
    BY <1>2 DEF CheckPreflight, PreCompactEnds, StartRun, Goto
  <2> QED BY <1>0, <2>2, <2>3 DEF Transcript, Working
<1>3. ASSUME NEW p \in Prompts, RunEnds(p) PROVE Transcript'
  <2>1. pc[p] = "run" /\ pc' = [pc EXCEPT ![p] = "post"]
    BY <1>3 DEF RunEnds, Goto
  <2>2. \A q \in Prompts : q # p => pc[q] \notin Working
    BY <1>0, <2>1, OthersAreIdle DEF IInv, Busy, Working
  <2>3. PICK o \in Endings : last' = o /\ tail' = o /\ saved' = o
    BY <1>3 DEF RunEnds
  <2> QED BY <1>0, <2>1, <2>2, <2>3 DEF Transcript, Working
<1>4. ASSUME NEW p \in Prompts, AfterRun(p) PROVE Transcript'
  BY <1>4, OnwardTranscript
<1>5. ASSUME NEW p \in Prompts, Settle(p) \/ Release(p) PROVE Transcript'
  <2>1. PICK l \in {"settled", "done"} : pc' = [pc EXCEPT ![p] = l]
    BY <1>5 DEF Settle, Release, Goto
  <2>2. UNCHANGED <<last, tail, saved>>
    BY <1>5 DEF Settle, Release, agent
  <2> QED BY <1>0, <2>1, <2>2 DEF IInv, Transcript
<1>6. ASSUME NEW a \in Aborts, Abort(a) PROVE Transcript'
  BY <1>6 DEF Abort, IInv, Transcript
<1>7. CASE UNCHANGED vars
  BY <1>7 DEF vars, IInv, Transcript
<1> QED BY <1>1, <1>2, <1>3, <1>4, <1>5, <1>6, <1>7 DEF Next, Step, AfterRun, Rest

LEMMA NextBudget == ASSUME SerialCallers, IInv, [Next]_vars PROVE Budget'
<1>0. /\ pc \in [Prompts -> Places]
      /\ MaxRetries \in Nat /\ retryAttempt \in Nat /\ fruitless \in Nat
      /\ Allowance \in Nat /\ overflowTried \in BOOLEAN
  BY AllowanceNat, SessionAssumption DEF IInv, TypeInv, TypeOfRun, TypeOfRest, TypeOfCalls
<1>k. waiting' = waiting => Allowance' = Allowance
  BY DEF Allowance, Aborted
<1>b. Budget
  BY DEF IInv
<1>1. ASSUME NEW p \in Prompts, Prompt(p) PROVE Budget'
  <2>1. PICK l \in {"done", "rejected", "preflight"} : pc' = [pc EXCEPT ![p] = l]
    BY <1>1 DEF Prompt, Goto
  <2>2. UNCHANGED <<tail, overflowTried, retryAttempt, retryCut, fruitless, waiting>>
    BY <1>1 DEF Prompt, retry, hist
  <2> QED BY <1>0, <1>k, <1>b, <2>1, <2>2 DEF Budget, Spent, Recovered
<1>2. ASSUME NEW p \in Prompts, CheckPreflight(p) \/ PreCompactEnds(p) \/ StartRun(p) PROVE Budget'
  <2>1. pc[p] \in Preflight
    BY <1>2 DEF CheckPreflight, PreCompactEnds, StartRun, Preflight
  <2>2. \A q \in Prompts : q # p => pc[q] \notin Working
    BY <1>0, <2>1, OthersAreIdle DEF IInv, Busy
  <2>3. PICK l \in {"rejected", "ready", "preCompact", "settling", "run"} :
          /\ pc' = [pc EXCEPT ![p] = l]
          /\ \/ l # "run" /\ fruitless' = fruitless /\ (overflowTried' = overflowTried \/ overflowTried' = TRUE)
             \/ fruitless' = 1 /\ overflowTried' = FALSE
    BY <1>2 DEF CheckPreflight, PreCompactEnds, StartRun, Goto, retry, hist
  <2>4. retryAttempt' = retryAttempt /\ waiting' = waiting
    BY <1>2 DEF CheckPreflight, PreCompactEnds, StartRun, retry
  <2> QED BY <1>0, <1>k, <1>b, <2>2, <2>3, <2>4 DEF Budget, Spent, Recovered, Working
<1>3. ASSUME NEW p \in Prompts, RunEnds(p) PROVE Budget'
  <2>1. pc[p] = "run" /\ pc' = [pc EXCEPT ![p] = "post"] /\ waiting' = waiting
    BY <1>3 DEF RunEnds, Goto
  <2>2. \A q \in Prompts : q # p => pc[q] \notin Working
    BY <1>0, <2>1, OthersAreIdle DEF IInv, Busy, Working
  <2>3. \/ UNCHANGED <<retryAttempt, overflowTried, fruitless>>
        \/ retryAttempt' = 0 /\ overflowTried' = FALSE /\ (fruitless' = 0 \/ fruitless' = 1)
    BY <1>3 DEF RunEnds, ResetCounters
  <2> QED BY <1>0, <1>k, <1>b, <2>1, <2>2, <2>3 DEF Budget, Spent, Recovered, Working
<1>4. ASSUME NEW p \in Prompts, AfterRun(p) PROVE Budget'
  BY <1>4, OnwardBudget
<1>5. ASSUME NEW p \in Prompts, Settle(p) \/ Release(p) PROVE Budget'
  <2>1. PICK l \in {"settled", "done"} : pc' = [pc EXCEPT ![p] = l]
    BY <1>5 DEF Settle, Release, Goto
  <2>2. UNCHANGED <<tail, overflowTried, retryAttempt, retryCut, fruitless>>
    BY <1>5 DEF Settle, Release, agent, retry, hist
  <2>3. Allowance' = Allowance
    <3>1. CASE waiting' = waiting
      BY <3>1, <1>k
    <3>2. CASE waiting' = [a \in Aborts |-> IF waiting[a] = "waiting" THEN "done" ELSE waiting[a]]
      <4>1. Aborted' = Aborted
        BY <3>2 DEF Aborted
      <4> QED BY <4>1 DEF Allowance
    <3> QED BY <1>5, <3>1, <3>2 DEF Settle, Release
  <2> QED BY <1>0, <1>b, <2>1, <2>2, <2>3 DEF Budget, Spent, Recovered
<1>6. ASSUME NEW a \in Aborts, Abort(a) PROVE Budget'
  <2>1. Allowance' = Allowance + MaxRetries
    BY <1>6, AbortAllows DEF IInv, TypeInv
  <2>2. UNCHANGED <<pc, tail, overflowTried, retryAttempt, fruitless>>
    BY <1>6 DEF Abort
  <2>3. retryAttempt <= MaxRetries
    BY SessionAssumption DEF IInv, TypeInv, TypeOfRest
  <2> QED BY <1>0, <1>b, <2>1, <2>2, <2>3 DEF Budget, Spent, Recovered
<1>7. CASE UNCHANGED vars
  BY <1>7, <1>k, <1>b DEF vars, Budget, Spent, Recovered
<1> QED BY <1>1, <1>2, <1>3, <1>4, <1>5, <1>6, <1>7 DEF Next, Step, AfterRun, Rest

(* The inductive invariant of a session with serial callers.               *)
THEOREM Invariance == SerialCallers => (Spec => []IInv)
<1> SUFFICES ASSUME SerialCallers PROVE Spec => []IInv
  OBVIOUS
<1>1. IInv /\ [Next]_vars => IInv'
  BY NextTypes, NextExclusive, NextTranscript, NextBudget DEF IInv
<1> QED BY <1>1, InitIInv, PTL DEF Spec

(* One input causes at most 2 (maxRetries + 1) runs without an answer in   *)
(* between, and maxRetries more for every abort(), for any maxRetries and  *)
(* any number of prompts, aborts and failures (agent-session.ts:1080-1096, *)
(* 1988-2008).                                                             *)
THEOREM BoundedRetries == SerialCallers => (Spec => []RetriesBounded)
<1> SUFFICES ASSUME SerialCallers PROVE Spec => []RetriesBounded
  OBVIOUS
<1>1. ASSUME IInv PROVE RetriesBounded
  <2>1. /\ MaxRetries \in Nat /\ fruitless \in Nat /\ Allowance \in Nat
        /\ Spent(MaxRetries + 1)
    BY <1>1, AllowanceNat, SessionAssumption DEF IInv, TypeInv, TypeOfRun, TypeOfRest, Budget
  <2>2. fruitless <= 2 * (MaxRetries + 1) + Allowance
    BY <2>1 DEF Spent, Recovered
  <2> QED BY <2>2 DEF RetriesBounded, Allowance, Aborted
<1>2. Spec => []IInv
  BY Invariance
<1> QED BY <1>1, <1>2, PTL

(* agent-session.ts:1977-1980: continue() is only called where it throws   *)
(* if the file's last message is an answer that stopped with "length".     *)
THEOREM ContinueAccepted == SerialCallers => (Spec => ContinueNeverThrows)
<1> SUFFICES ASSUME SerialCallers PROVE Spec => ContinueNeverThrows
  OBVIOUS
<1>1. ASSUME IInv, [Next]_vars PROVE [stuck' # stuck => saved = "length"]_vars
  <2>1. ASSUME NEW p \in Prompts, AfterRun(p), stuck' # stuck PROVE saved = "length"
    <3>0. queued > 0 => queued # 0
      BY <1>1, SessionAssumption DEF IInv, TypeInv, TypeOfCalls
    <3>1. ASSUME NEW t, Throws(p, t) PROVE t # "input" /\ queued = 0
      BY <2>1, <3>1 DEF Throws
    <3>2. ASSUME ContinueIfQueued(p) PROVE FALSE
      BY <2>1, <3>0, <3>1, <3>2, ContinueIfQueuedKinds DEF NothingLeft, RunsAgain, RunsQueued
    <3>3. ASSUME NEW o, CheckCompaction(p, o) PROVE FALSE
      BY <2>1, <3>2, <3>3 DEF CheckCompaction, Compact
    <3>4. ASSUME PostRun(p) PROVE FALSE
      BY <2>1, <3>3, <3>4 DEF PostRun, PrepareRetry
    <3>5. ASSUME BackoffEnds(p) PROVE FALSE
      <4>1. tail = "input"
        BY <1>1, <3>5 DEF BackoffEnds, IInv, Transcript
      <4> QED BY <2>1, <3>1, <3>3, <3>5, <4>1, ContinueKinds DEF BackoffEnds, RunsAgain, RunsQueued
    <3>6. ASSUME CompactionEnds(p) PROVE FALSE
      BY <2>1, <3>0, <3>1, <3>2, <3>6, ContinueKinds DEF CompactionEnds, RunsAgain, RunsQueued
    <3>7. ASSUME RetryCompactionEnds(p) PROVE saved = "length"
      <4>1. saved \in Overflowing
        BY <1>1, <3>7 DEF RetryCompactionEnds, IInv, Transcript
      <4>2. Continue(p, Rebuilt)
        BY <3>2, <3>7 DEF RetryCompactionEnds
      <4>3. Rebuilt # "input"
        BY <2>1, <3>1, <4>2, ContinueKinds DEF RunsAgain, RunsQueued
      <4> QED BY <4>1, <4>3 DEF Rebuilt, Overflowing, Errors
    <3> QED BY <2>1, <3>4, <3>5, <3>6, <3>7 DEF AfterRun
  <2>2. ASSUME Next, \A p \in Prompts : ~AfterRun(p) PROVE stuck' = stuck
    BY <2>2 DEF Next, Step, AfterRun, Rest, Prompt, CheckPreflight, PreCompactEnds, StartRun, RunEnds,
                Settle, Release, Abort, hist, vars
  <2> QED BY <1>1, <2>1, <2>2
<1>2. Spec => []IInv
  BY Invariance
<1> QED BY <1>1, <1>2, PTL DEF Spec, ContinueNeverThrows
=============================================================================
