---------------------------- MODULE HarnessProofs ----------------------------
(***************************************************************************)
(* The session of the agent harness grows as one chain, no message or      *)
(* write is lost or doubled, writes keep their order, and the model is     *)
(* shown the session, for any number of messages, writes and failures.     *)
(* Parent and leaf are read and set in different steps, so all of it rests *)
(* on exclusion: while an operation has its phase nobody else appends, and *)
(* two appends are under way together only where clients write to an idle  *)
(* harness at once, or while it reports a late failure.                    *)
(***************************************************************************)
EXTENDS AgentHarness, FiniteSetTheorems, FunctionTheorems, SequenceTheorems, TLAPS

-----------------------------------------------------------------------------
(* Counting the elements of a sequence that are in a set.                  *)

Places(P, s) == {i \in DOMAIN s : s[i] \in P}
Count(P, s)  == Cardinality(Places(P, s))

(* A count is a number, zero exactly when nothing is counted.              *)
LEMMA CountNat ==
  ASSUME NEW S, NEW s \in Seq(S), NEW P
  PROVE  /\ IsFiniteSet(Places(P, s)) /\ Count(P, s) \in Nat
         /\ Count(P, s) = 0 <=> \A i \in 1..Len(s) : s[i] \notin P
<1>1. Len(s) \in Nat /\ DOMAIN s = 1..Len(s)
  BY LenProperties
<1>2. IsFiniteSet(1..Len(s))
  BY <1>1, FS_Interval
<1>3. Places(P, s) \subseteq 1..Len(s)
  BY <1>1 DEF Places
<1>4. IsFiniteSet(Places(P, s))
  BY <1>2, <1>3, FS_Subset
<1>5. Count(P, s) \in Nat /\ (Count(P, s) = 0 <=> Places(P, s) = {})
  BY <1>4, FS_CardinalityType, FS_EmptySet DEF Count
<1>6. Places(P, s) = {} <=> \A i \in 1..Len(s) : s[i] \notin P
  BY <1>1 DEF Places
<1> QED BY <1>4, <1>5, <1>6

(* Nothing is in the empty sequence.                                       *)
LEMMA CountEmpty ==
  ASSUME NEW P
  PROVE  Count(P, <<>>) = 0
<1>1. Places(P, <<>>) = {}
  BY DEF Places
<1> QED BY <1>1, FS_EmptySet DEF Count

(* Shifting the places of a sequence does not change how many there are.   *)
LEMMA CountShifted ==
  ASSUME NEW S, NEW s \in Seq(S), NEW P, NEW n \in Nat
  PROVE  LET D == {i \in (n + 1)..(n + Len(s)) : s[i - n] \in P}
         IN  IsFiniteSet(D) /\ Cardinality(D) = Count(P, s)
<1> DEFINE D == {i \in (n + 1)..(n + Len(s)) : s[i - n] \in P}
           f == [i \in Places(P, s) |-> i + n]
<1>1. Len(s) \in Nat /\ DOMAIN s = 1..Len(s)
  BY LenProperties
<1>2. \A i \in Places(P, s) : i \in Nat /\ i + n \in D
  BY <1>1 DEF Places
<1>3. \A j \in D : j - n \in Places(P, s) /\ (j - n) + n = j
  BY <1>1 DEF Places
<1>4. f \in [Places(P, s) -> D]
  BY <1>2
<1>5. \A a, b \in Places(P, s) : f[a] = f[b] => a = b
  BY <1>2
<1>6. \A j \in D : \E a \in Places(P, s) : f[a] = j
  BY <1>3
<1>7. f \in Bijection(Places(P, s), D)
  BY <1>4, <1>5, <1>6, Fun_IsBij
<1>8. ExistsBijection(Places(P, s), D)
  BY <1>7 DEF ExistsBijection
<1> QED BY <1>8, CountNat, FS_Bijection DEF Count

(* A concatenation counts what its parts count.                            *)
LEMMA CountConcat ==
  ASSUME NEW S, NEW s \in Seq(S), NEW t \in Seq(S), NEW P
  PROVE  Count(P, s \o t) = Count(P, s) + Count(P, t)
<1> DEFINE n == Len(s)
           D == {i \in (n + 1)..(n + Len(t)) : t[i - n] \in P}
<1>1. /\ Len(s) \in Nat /\ DOMAIN s = 1..Len(s)
      /\ Len(t) \in Nat /\ DOMAIN t = 1..Len(t)
  BY LenProperties
<1>2. /\ s \o t \in Seq(S) /\ Len(s \o t) = n + Len(t)
      /\ \A i \in 1..n : (s \o t)[i] = s[i]
      /\ \A i \in (n + 1)..(n + Len(t)) : (s \o t)[i] = t[i - n]
  BY <1>1, ConcatProperties
<1>3. DOMAIN (s \o t) = 1..(n + Len(t))
  BY <1>2, LenProperties
<1>4. Places(P, s \o t) = Places(P, s) \cup D
  BY <1>1, <1>2, <1>3 DEF Places
<1>5. Places(P, s) \cap D = {}
  BY <1>1 DEF Places
<1>6. IsFiniteSet(D) /\ Cardinality(D) = Count(P, t)
  BY <1>1, CountShifted
<1>7. IsFiniteSet(Places(P, s)) /\ Count(P, s) \in Nat /\ Count(P, t) \in Nat
  BY CountNat
<1>8. Cardinality(Places(P, s) \cup D) = Cardinality(Places(P, s)) + Cardinality(D) - Cardinality({})
  BY <1>5, <1>6, <1>7, FS_Union
<1> QED BY <1>4, <1>6, <1>7, <1>8, FS_EmptySet DEF Count

(* A sequence of one, ...                                                  *)
LEMMA CountOne ==
  ASSUME NEW P, NEW e
  PROVE  Count(P, <<e>>) = IF e \in P THEN 1 ELSE 0
<1>1. Places(P, <<e>>) = IF e \in P THEN {1} ELSE {}
  BY DEF Places
<1> QED BY <1>1, FS_Singleton, FS_EmptySet DEF Count

(* ... and one more at the end.                                            *)
LEMMA CountAppend ==
  ASSUME NEW S, NEW s \in Seq(S), NEW e \in S, NEW P
  PROVE  Count(P, Append(s, e)) = Count(P, s) + (IF e \in P THEN 1 ELSE 0)
<1>1. Append(s, e) = s \o <<e>> /\ <<e>> \in Seq(S)
  BY AppendIsConcat
<1>2. Count(P, s \o <<e>>) = Count(P, s) + Count(P, <<e>>)
  BY <1>1, CountConcat
<1>3. Count(P, <<e>>) = IF e \in P THEN 1 ELSE 0
  BY CountOne
<1> QED BY <1>1, <1>2, <1>3

(* A sequence is its head and its tail.                                    *)
LEMMA CountTail ==
  ASSUME NEW S, NEW q \in Seq(S), q # <<>>, NEW P
  PROVE  Count(P, q) = (IF Head(q) \in P THEN 1 ELSE 0) + Count(P, Tail(q))
<1>1. Head(q) \in S /\ Tail(q) \in Seq(S)
  BY HeadTailProperties
<1>2. <<Head(q)>> \in Seq(S)
  BY <1>1
<1>3. q = <<Head(q)>> \o Tail(q)
  <2>1. /\ Len(q) \in Nat \ {0} /\ Len(Tail(q)) = Len(q) - 1
        /\ \A i \in 1..Len(Tail(q)) : Tail(q)[i] = q[i + 1]
    BY EmptySeq, HeadTailProperties
  <2>2. /\ <<Head(q)>> \o Tail(q) \in Seq(S) /\ Len(<<Head(q)>> \o Tail(q)) = 1 + Len(Tail(q))
        /\ \A i \in 1..1 + Len(Tail(q)) :
             (<<Head(q)>> \o Tail(q))[i] = IF i <= 1 THEN <<Head(q)>>[i] ELSE Tail(q)[i - 1]
    BY <1>1, <1>2, ConcatProperties
  <2>3. q[1] = Head(q)
    OBVIOUS
  <2>4. \A i \in 1..Len(q) : q[i] = (<<Head(q)>> \o Tail(q))[i]
    BY <2>1, <2>2, <2>3
  <2> QED BY <2>1, <2>2, <2>4, SeqEqual
<1>4. Count(P, <<Head(q)>> \o Tail(q)) = Count(P, <<Head(q)>>) + Count(P, Tail(q))
  BY <1>1, <1>2, CountConcat
<1> QED BY <1>3, <1>4, CountOne

Entries == [item : Int, parent : Int, to : Int]

StoreType ==
  /\ log \in Seq(Entries) /\ leaf \in Int
  /\ writing \in [Writers -> Entries]
  /\ met \subseteq Writers /\ crossed \subseteq 1..Len(log)

(* The places of an operation where it may be appending; a client appends  *)
(* only while the phase is idle.                                           *)
OperationWrites ==
  {"prompting", "recording", "streaming", "failing", "saving", "ending", "closing",
   "summarizing", "moving"}

OneWriter ==
  /\ Writes(Op) => pc \in OperationWrites
  /\ \A w \in Callers : Writes(w) => phase = "idle" /\ writing[w].item = w
  /\ \A w \in met : Writes(w) /\ phase = "idle"

(* What is done of an operation with the phase idle: its end, with nothing *)
(* pending, and the report of a late failure.                              *)
PhaseInv ==
  phase = "idle" =>
    /\ \/ pc \in {"none", "settling", "closing"}
       \/ pc \in {"failing", "saving", "ending"} /\ mode = "late"
    /\ pc # "none" => pending = <<>>
    /\ pc = "saving" => stopping

(* Two appends under way are known to have met.                            *)
Alone ==
  \A v, w \in Writers : v # w /\ Writes(v) /\ Writes(w) => v \in met

(* An append that met no other continues from the leaf, which the last     *)
(* entry left.                                                             *)
LeafIsLast ==
  /\ leaf = LeafAfter(Len(log))
  /\ \A w \in Writers : Writes(w) /\ w \notin met => writing[w].parent = leaf

Queue == Seq(Nat)

QueueType ==
  /\ inbox \in Queue /\ steering \in Queue /\ followUp \in Queue
  /\ nextTurn \in Queue /\ pending \in Queue
  /\ sent \in Nat

(* A message that is to be recorded is in the inbox, a write that is being *)
(* flushed is still in its list.                                           *)
Holds ==
  /\ pc \in {"starting", "announcing", "hooking", "prompting", "recording"} => inbox # <<>>
  /\ pc \in {"saving", "ending", "closing"} /\ Writes(Op) => pending # <<>>

IInv ==
  /\ QueueType /\ Holds /\ StoreType /\ OneWriter /\ PhaseInv
  /\ Alone /\ LeafIsLast /\ OneChain

-----------------------------------------------------------------------------
(* The store                                                               *)

LEMMA TheWriters == Op \in Writers /\ Op \notin Callers /\ Callers \subseteq Writers
<1>1. 0 \notin 1..MaxItems
  BY HarnessAssumption
<1> QED BY <1>1 DEF Op, Callers, Writers

(* An append that starts takes the leaf as its parent, and meets those     *)
(* that are under way.                                                     *)
LEMMA StartKeeps ==
  ASSUME IInv, NEW w \in Writers, NEW item \in Nat, NEW to \in Int, StartWrite(w, item, to),
         \A v \in Writers : Writes(v) => v \in Meets(w)
  PROVE  /\ StoreType' /\ Alone' /\ LeafIsLast' /\ OneChain'
         /\ writing'[w] = [item |-> item, parent |-> leaf, to |-> to] /\ Writes(w)'
         /\ \A v \in Writers : v # w => writing'[v] = writing[v]
<1> DEFINE new == [item |-> item, parent |-> leaf, to |-> to]
<1>0. writing \in [Writers -> Entries] /\ met \subseteq Writers
  BY DEF IInv, StoreType
<1>1. new \in Entries
  BY DEF IInv, StoreType, Entries
<1>2. writing' = [writing EXCEPT ![w] = new] /\ UNCHANGED <<log, leaf, crossed>> /\ ~Writes(w)
  BY DEF StartWrite
<1> HIDE DEF new
<1>3. writing'[w] = new /\ (\A v \in Writers : v # w => writing'[v] = writing[v])
  BY <1>0, <1>2
<1>4. \A v \in Writers : v # w => Writes(v)' = Writes(v)
  BY <1>3 DEF Writes
<1>5. Meets(w) \subseteq Writers
  BY DEF Meets
<1>6. met' \subseteq Writers /\ met \subseteq met'
  BY <1>0, <1>5 DEF StartWrite
<1>7. \A v \in Writers : Writes(v) => v \in met' /\ w \in met'
  BY DEF StartWrite
<1>8. StoreType'
  <2>1. writing' \in [Writers -> Entries]
    BY <1>0, <1>1, <1>2
  <2> QED BY <1>2, <1>6, <2>1 DEF IInv, StoreType
<1>9. Alone'
  <2> SUFFICES ASSUME NEW v \in Writers, NEW u \in Writers, v # u, Writes(v)', Writes(u)' PROVE v \in met'
    BY DEF Alone
  <2>1. CASE v = w
    BY <1>4, <1>7, <2>1
  <2>2. CASE v # w
    BY <1>4, <1>7, <2>2
  <2> QED BY <2>1, <2>2
<1>10. LeafIsLast'
  <2>1. leaf' = LeafAfter(Len(log))'
    BY <1>2 DEF IInv, LeafIsLast, LeafAfter
  <2>2. ASSUME NEW v \in Writers, Writes(v)', v \notin met' PROVE writing'[v].parent = leaf'
    <3>1. CASE v = w
      BY <1>2, <1>3, <3>1 DEF new
    <3>2. CASE v # w
      <4>1. Writes(v) /\ v \notin met
        BY <1>4, <1>6, <2>2, <3>2
      <4> QED BY <1>2, <1>3, <3>2, <4>1 DEF IInv, LeafIsLast
    <3> QED BY <3>1, <3>2
  <2> QED BY <2>1, <2>2 DEF LeafIsLast
<1>11. OneChain'
  BY <1>2 DEF IInv, OneChain, LeafAfter
<1>12. Writes(w)'
  <2>1. writing'[w].item # -1
    BY <1>3 DEF new
  <2> QED BY <2>1 DEF Writes, Nobody
<1> QED BY <1>3, <1>8, <1>9, <1>10, <1>11, <1>12 DEF new

(* An append that ends moves the leaf; if it met no other it was the only  *)
(* one.                                                                    *)
LEMMA EndKeeps ==
  ASSUME IInv, NEW w \in Writers, EndWrite(w)
  PROVE  /\ StoreType' /\ Alone' /\ LeafIsLast' /\ OneChain'
         /\ ~Writes(w)' /\ \A v \in Writers : v # w => writing'[v] = writing[v]
<1>0. writing \in [Writers -> Entries] /\ met \subseteq Writers /\ crossed \subseteq 1..Len(log)
  BY DEF IInv, StoreType
<1>1. writing[w] \in Entries /\ log' = Append(log, writing[w]) /\ Writes(w)
  BY <1>0 DEF EndWrite
<1>2. /\ log' \in Seq(Entries) /\ Len(log') = Len(log) + 1 /\ Len(log) \in Nat
      /\ log'[Len(log) + 1] = writing[w]
      /\ \A k \in 1..Len(log) : log'[k] = log[k]
  BY <1>1 DEF IInv, StoreType
<1>3. writing[w].to \in Int
  BY <1>1 DEF Entries
<1>4. /\ leaf' = IF writing[w].to = Stay THEN Len(log) + 1 ELSE writing[w].to
      /\ met' = met \ {w}
      /\ crossed' = IF w \in met THEN crossed \cup {Len(log) + 1} ELSE crossed
  BY DEF EndWrite
<1>5. StoreType'
  <2>1. Nobody \in Entries
    BY DEF Nobody, Entries
  <2>2. writing' \in [Writers -> Entries]
    BY <1>0, <2>1 DEF EndWrite
  <2>3. leaf' \in Int
    BY <1>2, <1>3, <1>4
  <2>4. crossed' \subseteq 1..Len(log')
    <3>1. 1..Len(log) \subseteq 1..(Len(log) + 1) /\ Len(log) + 1 \in 1..(Len(log) + 1)
      BY <1>2
    <3>2. crossed' \subseteq crossed \cup {Len(log) + 1}
      BY <1>4
    <3>3. Len(log') = Len(log) + 1
      BY <1>2
    <3> QED BY <1>0, <3>1, <3>2, <3>3
  <2> QED BY <1>0, <1>2, <1>4, <2>2, <2>3, <2>4 DEF StoreType
<1>6. /\ writing'[w] = Nobody /\ ~Writes(w)'
      /\ \A v \in Writers : v # w => writing'[v] = writing[v] /\ Writes(v)' = Writes(v)
  <2>1. writing'[w] = Nobody /\ \A v \in Writers : v # w => writing'[v] = writing[v]
    BY <1>0 DEF EndWrite
  <2> QED BY <2>1 DEF Writes
<1>7. Alone'
  BY <1>4, <1>6 DEF IInv, Alone
<1>8. LeafIsLast'
  <2>1. leaf' = LeafAfter(Len(log))'
    BY <1>2, <1>4 DEF LeafAfter
  <2>2. \A v \in Writers : Writes(v)' => v \in met'
    BY <1>1, <1>4, <1>6 DEF IInv, Alone
  <2> QED BY <2>1, <2>2 DEF LeafIsLast
<1>9. OneChain'
  <2> SUFFICES ASSUME NEW k \in (1..Len(log')) \ crossed' PROVE log'[k].parent = LeafAfter(k - 1)'
    BY DEF OneChain
  <2>1. CASE k = Len(log) + 1
    <3>1. w \notin met
      BY <1>4, <2>1
    <3>2. writing[w].parent = leaf /\ leaf = LeafAfter(Len(log))
      BY <1>1, <3>1 DEF IInv, LeafIsLast
    <3>3. k - 1 = Len(log) /\ log'[k] = writing[w]
      BY <1>2, <2>1
    <3>4. LeafAfter(k - 1)' = LeafAfter(Len(log))
      BY <1>2, <3>3 DEF LeafAfter
    <3> QED BY <3>2, <3>3, <3>4
  <2>2. CASE k # Len(log) + 1
    <3>1. k \in (1..Len(log)) \ crossed /\ k - 1 \in 0..Len(log)
      BY <1>2, <1>4, <2>2
    <3>2. log[k].parent = LeafAfter(k - 1) /\ log'[k] = log[k]
      BY <1>2, <3>1 DEF IInv, OneChain
    <3>3. LeafAfter(k - 1)' = LeafAfter(k - 1)
      BY <1>2, <3>1 DEF LeafAfter
    <3> QED BY <3>2, <3>3
  <2> QED BY <2>1, <2>2
<1> QED BY <1>5, <1>6, <1>7, <1>8, <1>9

(* An append that fails leaves the log as it was.                          *)
LEMMA FailKeeps ==
  ASSUME IInv, NEW w \in Writers, FailWrite(w)
  PROVE  /\ StoreType' /\ Alone' /\ LeafIsLast' /\ OneChain'
         /\ ~Writes(w)' /\ \A v \in Writers : v # w => writing'[v] = writing[v]
<1>1. Nobody \in Entries
  BY DEF Nobody, Entries
<1>2. StoreType'
  BY <1>1 DEF FailWrite, IInv, StoreType
<1>3. /\ ~Writes(w)'
      /\ \A v \in Writers : v # w => writing'[v] = writing[v] /\ Writes(v)' = Writes(v)
  <2>1. writing'[w] = Nobody /\ \A v \in Writers : v # w => writing'[v] = writing[v]
    BY DEF FailWrite, IInv, StoreType
  <2> QED BY <2>1 DEF Writes
<1>4. UNCHANGED <<log, leaf, crossed>> /\ met' = met \ {w}
  BY DEF FailWrite
<1>5. Alone'
  BY <1>3, <1>4 DEF IInv, Alone
<1>6. LeafIsLast'
  <2>1. leaf' = LeafAfter(Len(log))'
    BY <1>4 DEF IInv, LeafIsLast, LeafAfter
  <2> QED BY <1>3, <1>4, <2>1 DEF IInv, LeafIsLast
<1>7. OneChain'
  BY <1>4 DEF IInv, OneChain, LeafAfter
<1> QED BY <1>2, <1>3, <1>5, <1>6, <1>7

(* A step that leaves the store alone.                                     *)
LEMMA SameKeeps ==
  ASSUME IInv, UNCHANGED store
  PROVE  /\ StoreType' /\ Alone' /\ LeafIsLast' /\ OneChain'
         /\ \A v \in Writers : Writes(v)' = Writes(v)
<1>1. UNCHANGED <<log, leaf, writing, met, crossed>>
  BY DEF store
<1>2. StoreType'
  BY <1>1 DEF IInv, StoreType
<1>3. LeafIsLast' /\ Alone'
  BY <1>1 DEF IInv, LeafIsLast, LeafAfter, Writes, Alone
<1>4. OneChain'
  BY <1>1 DEF IInv, OneChain, LeafAfter
<1> QED BY <1>1, <1>2, <1>3, <1>4 DEF Writes

-----------------------------------------------------------------------------
(* The queues                                                              *)

(* What the harness does to a queue leaves one.                            *)
SeqOps(S) ==
  /\ <<>> \in Seq(S)
  /\ \A n \in S : <<n>> \in Seq(S)
  /\ \A s \in Seq(S), n \in S : Append(s, n) \in Seq(S)
  /\ \A s, t \in Seq(S) : s \o t \in Seq(S)
  /\ \A s \in Seq(S) : s # <<>> => Head(s) \in S /\ Tail(s) \in Seq(S) /\ Front(s) \in Seq(S)

LEMMA QueueOps == ASSUME NEW S PROVE SeqOps(S)
<1>1. \A s \in Seq(S) : s # <<>> => Head(s) \in S /\ Tail(s) \in Seq(S)
  OBVIOUS
<1>2. ASSUME NEW s \in Seq(S), s # <<>> PROVE Front(s) \in Seq(S)
  BY <1>2 DEF Front
<1>3. \A s \in Seq(S), n \in S : Append(s, n) \in Seq(S)
  OBVIOUS
<1>4. \A s, t \in Seq(S) : s \o t \in Seq(S)
  OBVIOUS
<1>5. <<>> \in Seq(S) /\ \A n \in S : <<n>> \in Seq(S)
  OBVIOUS
<1> QED BY <1>1, <1>2, <1>3, <1>4, <1>5 DEF SeqOps

(* The messages and the session writes that wait are taken from S and W.   *)
QueuesIn(S, W) ==
  /\ inbox \in Seq(S) /\ steering \in Seq(S) /\ followUp \in Seq(S) /\ nextTurn \in Seq(S)
  /\ pending \in Seq(W)

(* What a step adds to them.                                               *)
LEMMA SentSteps ==
  ASSUME [Next]_vars
  PROVE  \/ /\ Prompt \/ Steer \/ NextTurn
            /\ sent' = sent + 1 /\ writes' = writes
         \/ AppendMessage /\ sent' = sent + 1 /\ writes' = writes \cup {sent + 1}
         \/ sent' = sent /\ writes' = writes
<1>1. CASE Prompt \/ Steer \/ NextTurn \/ AppendMessage
  BY <1>1 DEF Prompt, Steer, NextTurn, AppendMessage, Accept, fates
<1>2. CASE Abort \/ TreeStarts \/ AppendEnds \/ AbortReturns \/ RunRaises \/ UNCHANGED vars
  BY <1>2 DEF Abort, TreeStarts, AppendEnds, AbortReturns, RunRaises, RunUnchanged, TreeUnchanged, fates, vars
<1>3. CASE TurnStateCreated \/ Announced \/ HookReturns
  BY <1>3 DEF TurnStateCreated, Announced, HookReturns, PromptRejects, BeforeRunUnchanged, fates
<1>4. CASE Operation /\ ~(TurnStateCreated \/ Announced \/ HookReturns)
  BY <1>4 DEF Operation, Record, Recorded, Poll, Answer, Answered, Flush, Flushed, FlushFails, Saved, Ended, Settled,
     Closed, MoveTo, Moved, Summarized, TreeEnds, RunUnchanged, TreeUnchanged, fates
<1> QED BY <1>1, <1>2, <1>3, <1>4 DEF Next, Clients

(* Every step keeps what the messages and the writes in the queues are     *)
(* taken from.                                                             *)
LEMMA QueuesKeep ==
  ASSUME NEW S, NEW W, QueuesIn(S, W), Holds, [Next]_vars,
         Prompt \/ Steer \/ NextTurn => sent + 1 \in S,
         AppendMessage => sent + 1 \in W
  PROVE  QueuesIn(S, W)'
<1>s. SeqOps(S) /\ SeqOps(W)
  BY QueueOps
<1> USE <1>s DEF SeqOps
<1>1. CASE Prompt \/ Steer \/ NextTurn \/ AppendMessage
  <2>1. CASE Prompt
    BY <2>1 DEF Prompt, Accept, queues, QueuesIn
  <2>2. CASE Steer
    <3>1. /\ \/ steering' = Append(steering, sent + 1) /\ UNCHANGED followUp
             \/ followUp' = Append(followUp, sent + 1) /\ UNCHANGED steering
          /\ UNCHANGED <<inbox, nextTurn, pending>> /\ sent + 1 \in S
      BY <2>2 DEF Steer, run
    <3>2. steering' \in Seq(S) /\ followUp' \in Seq(S)
      BY <3>1 DEF QueuesIn
    <3> QED BY <3>1, <3>2 DEF QueuesIn
  <2>3. CASE NextTurn \/ AppendMessage
    BY <2>3 DEF NextTurn, AppendMessage, Accept, queues, run, QueuesIn
  <2> QED BY <1>1, <2>1, <2>2, <2>3
<1>2. CASE Abort \/ TreeStarts
  BY <1>2 DEF Abort, TreeStarts, TreeUnchanged, queues, run, QueuesIn
<1>3. CASE AppendEnds \/ AbortReturns
  BY <1>3 DEF AppendEnds, AbortReturns, queues, run, QueuesIn
<1>4. CASE RunRaises
  BY <1>4 DEF RunRaises, Raise, RunUnchanged, QueuesIn
<1>5. CASE TurnStateCreated
  <2>1. CASE inbox' = nextTurn \o inbox /\ nextTurn' = <<>> /\ BeforeRunUnchanged
    BY <2>1 DEF BeforeRunUnchanged, QueuesIn
  <2>2. CASE PromptRejects(<<>>, <<>>)
    BY <2>2 DEF PromptRejects, QueuesIn
  <2> QED BY <1>5, <2>1, <2>2 DEF TurnStateCreated
<1>6. CASE Announced
  <2>1. CASE UNCHANGED <<inbox, context, control, nextTurn>> /\ BeforeRunUnchanged
    BY <2>1 DEF BeforeRunUnchanged, QueuesIn
  <2>2. CASE PromptRejects(Front(inbox), <<>>)
    <3>1. Front(inbox) \in Seq(S)
      BY <1>6 DEF Announced, Holds, QueuesIn
    <3> QED BY <2>2, <3>1 DEF PromptRejects, QueuesIn
  <2> QED BY <1>6, <2>1, <2>2 DEF Announced
<1>7. CASE HookReturns
  <2>1. CASE UNCHANGED <<inbox, context, nextTurn>> /\ BeforeRunUnchanged
    BY <2>1 DEF BeforeRunUnchanged, QueuesIn
  <2>2. CASE PromptRejects(<<>>, Front(inbox))
    BY <2>2 DEF PromptRejects, QueuesIn
  <2> QED BY <1>7, <2>1, <2>2 DEF HookReturns
<1>8. CASE Record \/ Answer \/ Flush \/ Saved
  BY <1>8 DEF Record, Answer, Flush, Saved, run, RunUnchanged, QueuesIn
<1>9. CASE Recorded
  <2>1. Tail(inbox) \in Seq(S)
    BY <1>9 DEF Recorded, Holds, QueuesIn
  <2>2. UNCHANGED <<steering, followUp, pending, nextTurn>>
    BY <1>9 DEF Recorded, RunUnchanged
  <2>3. inbox' \in {Tail(inbox), <<>>}
    BY <1>9 DEF Recorded, Raise
  <2> QED BY <2>1, <2>2, <2>3 DEF QueuesIn
<1>10. CASE Poll
  BY <1>10 DEF Poll, RunUnchanged, QueuesIn
<1>11. CASE Answered
  BY <1>11 DEF Answered, Raise, RunUnchanged, QueuesIn
<1>12. CASE Flushed
  <2>1. Tail(pending) \in Seq(W)
    BY <1>12 DEF Flushed, Flushing, EndWrite, Holds, QueuesIn
  <2> QED BY <1>12, <2>1 DEF Flushed, run, RunUnchanged, QueuesIn
<1>13. CASE FlushFails
  BY <1>13 DEF FlushFails, Raise, RunUnchanged, QueuesIn
<1>14. CASE Ended \/ Settled \/ Closed
  BY <1>14 DEF Ended, Settled, Closed, RunUnchanged, queues, QueuesIn
<1>15. CASE MoveTo \/ Moved \/ Summarized \/ TreeEnds
  BY <1>15 DEF MoveTo, Moved, Summarized, TreeEnds, TreeUnchanged, queues, QueuesIn
<1>16. CASE UNCHANGED vars
  BY <1>16 DEF vars, run, queues, QueuesIn
<1> QED
  BY <1>1, <1>2, <1>3, <1>4, <1>5, <1>6, <1>7, <1>8, <1>9, <1>10, <1>11, <1>12, <1>13, <1>14, <1>15,
     <1>16 DEF Next, Clients, Operation

LEMMA NextQueues == ASSUME QueueType, Holds, [Next]_vars PROVE QueueType'
<1>1. QueuesIn(Nat, Nat) /\ sent + 1 \in Nat
  BY DEF QueueType, QueuesIn, Queue
<1>2. QueuesIn(Nat, Nat)'
  BY <1>1, QueuesKeep
<1>3. sent' \in {sent, sent + 1}
  BY SentSteps
<1> QED BY <1>2, <1>3 DEF QueueType, QueuesIn, Queue

-----------------------------------------------------------------------------
(* The steps                                                               *)

StoreInv == StoreType /\ OneWriter /\ Alone /\ LeafIsLast /\ OneChain

(* The phase is given up by nobody who writes, and taken while nobody does.*)
PhaseStays == phase' = "idle" \/ phase # "idle" \/ \A w \in Writers : ~Writes(w)

LEMMA NextPhaseStays == ASSUME IInv, [Next]_vars PROVE PhaseStays
<1>0. phase # "idle" => PhaseStays
  BY DEF PhaseStays
<1>1. CASE Prompt \/ TreeStarts
  BY <1>1, TheWriters DEF Prompt, TreeStarts, Quiet, PhaseStays
<1>2. CASE Steer \/ NextTurn \/ Abort \/ AbortReturns \/ AppendMessage \/ AppendEnds \/ UNCHANGED vars
  BY <1>0, <1>2 DEF Steer, NextTurn, Abort, AbortReturns, AppendMessage, AppendEnds, vars, PhaseStays
<1>3. CASE TurnStateCreated \/ Announced \/ HookReturns
  BY <1>0, <1>3 DEF TurnStateCreated, Announced, HookReturns, PromptRejects, BeforeRunUnchanged, PhaseStays
<1>4. CASE \/ RunRaises \/ Record \/ Recorded \/ Poll \/ Answer \/ Answered \/ Flush \/ Flushed \/ FlushFails
           \/ Saved \/ Settled
  BY <1>0, <1>4 DEF RunRaises, Record, Recorded, Poll, Answer, Answered, Flush, Flushed, FlushFails, Saved,
     Settled, RunUnchanged, PhaseStays
<1>5. CASE Ended \/ Closed \/ MoveTo \/ Moved \/ Summarized \/ TreeEnds
  BY <1>0, <1>5 DEF Ended, Closed, MoveTo, Moved, Summarized, TreeEnds, PhaseStays
<1> QED BY <1>1, <1>2, <1>3, <1>4, <1>5 DEF Next, Clients, Operation

(* Who may be writing where the operation stands.                          *)
LEMMA Writing ==
  ASSUME IInv
  PROVE  /\ pc \notin OperationWrites => ~Writes(Op)
         /\ phase # "idle" => \A w \in Callers : ~Writes(w)
         /\ Writes(Op) /\ phase = "idle" => mode = "late"
         /\ Writers = {Op} \cup Callers
<1>1. /\ pc \notin OperationWrites => ~Writes(Op)
      /\ phase # "idle" => \A w \in Callers : ~Writes(w)
  BY DEF IInv, OneWriter
<1>2. ASSUME Writes(Op), phase = "idle" PROVE mode = "late"
  <2>1. pc \in OperationWrites
    BY <1>1, <1>2
  <2>2. pc = "closing" => FALSE
    BY <1>2 DEF IInv, PhaseInv, Holds
  <2> QED BY <1>2, <2>1, <2>2 DEF IInv, PhaseInv, OperationWrites
<1> QED BY <1>1, <1>2 DEF Writers

(* A step that leaves the store alone, between two appends or without      *)
(* moving the operation.                                                   *)
LEMMA IdleStep ==
  ASSUME IInv, UNCHANGED store, PhaseStays, pc' = pc \/ ~Writes(Op)
  PROVE  StoreInv'
<1>1. /\ StoreType' /\ Alone' /\ LeafIsLast' /\ OneChain'
      /\ \A v \in Writers : Writes(v)' = Writes(v)
  BY SameKeeps
<1>2. writing' = writing /\ met' = met /\ met \subseteq Writers
  BY DEF store, IInv, StoreType
<1>3. OneWriter'
  BY <1>1, <1>2, TheWriters DEF IInv, OneWriter, OperationWrites, PhaseStays
<1> QED BY <1>1, <1>3 DEF StoreInv

(* The begin of an append of an operation preserves StoreInv: where clients *)
(* are writing too, the phase is idle and a late failure is reported.       *)
LEMMA OperationStarts ==
  ASSUME IInv, NEW item \in Nat, NEW to \in Int, StartWrite(Op, item, to),
         PhaseStays, pc' = pc, pc \in OperationWrites,
         phase = "idle" => mode = "late"
  PROVE  StoreInv'
<1>1. \A v \in Writers : Writes(v) => v \in Meets(Op)
  <2>1. \A v \in Writers : Writes(v) => v # Op /\ phase = "idle"
    BY Writing DEF StartWrite
  <2> QED BY <2>1 DEF Meets
<1>2. /\ StoreType' /\ Alone' /\ LeafIsLast' /\ OneChain' /\ Writes(Op)'
      /\ \A v \in Writers : v # Op => writing'[v] = writing[v]
  BY <1>1, TheWriters, StartKeeps
<1>3. \A w \in Callers : w \in Writers /\ w # Op
  BY TheWriters
<1>4. /\ \A w \in Callers : Writes(w)' = Writes(w) /\ writing'[w] = writing[w]
      /\ \A w \in Writers : Writes(w) => Writes(w)'
  BY <1>2, <1>3 DEF Writes
<1>5. \A w \in Callers : Writes(w) => phase = "idle" /\ phase' = "idle"
  BY <1>3 DEF IInv, OneWriter, PhaseStays
<1>6. \A w \in met' : Writes(w)' /\ phase' = "idle"
  <2>1. met \subseteq Writers /\ \A w \in met : Writes(w) /\ phase = "idle"
    BY DEF IInv, StoreType, OneWriter
  <2>2. \A w \in met : Writes(w)' /\ phase' = "idle"
    BY <1>4, <2>1 DEF PhaseStays
  <2>3. \A w \in Meets(Op) : w \in Callers /\ Writes(w)
    BY DEF Meets, Writers
  <2>4. \A w \in Meets(Op) \cup {Op} : Writes(w)'
    BY <1>2, <1>4, <2>3
  <2>5. Meets(Op) # {} => phase' = "idle"
    BY <1>5, <2>3
  <2>6. met' = met \/ (Meets(Op) # {} /\ met' = met \cup (Meets(Op) \cup {Op}))
    BY DEF StartWrite
  <2> QED BY <2>2, <2>4, <2>5, <2>6
<1>7. OneWriter'
  BY <1>4, <1>5, <1>6 DEF IInv, OneWriter
<1> QED BY <1>2, <1>7 DEF StoreInv

(* So does the begin of an idle write, which meets all that are under way.  *)
LEMMA CallerStarts ==
  ASSUME IInv, NEW w \in Callers, StartWrite(w, w, Stay),
         phase = "idle", phase' = "idle", pc' = pc
  PROVE  StoreInv'
<1>0. w \in Writers /\ w # Op /\ w \in Nat /\ Stay \in Int
  BY TheWriters DEF Callers, Stay
<1>1. \A v \in Writers : Writes(v) => v \in Meets(w)
  <2>1. \A v \in Writers : Writes(v) => v # w /\ (v = Op => mode = "late")
    BY Writing DEF StartWrite
  <2> QED BY <1>0, <2>1 DEF Meets
<1>2. /\ StoreType' /\ Alone' /\ LeafIsLast' /\ OneChain'
      /\ writing'[w] = [item |-> w, parent |-> leaf, to |-> Stay] /\ Writes(w)'
      /\ \A v \in Writers : v # w => writing'[v] = writing[v]
  BY <1>0, <1>1, StartKeeps
<1>3. writing'[w].item = w
  BY <1>2
<1>4. Writes(Op)' => Writes(Op)
  BY <1>0, <1>2, TheWriters DEF Writes
<1>5. \A v \in Callers : v # w => Writes(v)' = Writes(v) /\ writing'[v] = writing[v]
  BY <1>2, TheWriters DEF Writes
<1>6. \A v \in met' : Writes(v)' /\ phase' = "idle"
  <2>1. \A v \in Writers : Writes(v) => Writes(v)'
    BY <1>2 DEF Writes
  <2>2. met \subseteq Writers /\ \A v \in met : Writes(v)
    BY DEF IInv, StoreType, OneWriter
  <2>3. \A v \in Meets(w) : v \in Writers /\ Writes(v)
    BY DEF Meets
  <2>4. \A v \in met \cup Meets(w) \cup {w} : Writes(v)'
    BY <1>2, <2>1, <2>2, <2>3
  <2>5. met' \subseteq met \cup Meets(w) \cup {w}
    BY DEF StartWrite
  <2> QED BY <2>4, <2>5
<1>7. OneWriter'
  BY <1>3, <1>4, <1>5, <1>6 DEF IInv, OneWriter
<1> QED BY <1>2, <1>7 DEF StoreInv

(* The end of an append preserves StoreInv, whether it fails or not.        *)
LEMMA EndStep ==
  ASSUME IInv, NEW w \in Writers, EndWrite(w) \/ FailWrite(w), PhaseStays, w = Op \/ pc' = pc
  PROVE  StoreInv'
<1>1. /\ StoreType' /\ Alone' /\ LeafIsLast' /\ OneChain'
      /\ ~Writes(w)' /\ \A v \in Writers : v # w => writing'[v] = writing[v]
  BY EndKeeps, FailKeeps
<1>2. \A v \in Writers : Writes(v)' => Writes(v) /\ writing'[v] = writing[v] /\ v # w
  BY <1>1 DEF Writes
<1>3. \A v \in met' : Writes(v)' /\ phase' = "idle"
  <2>1. met' = met \ {w} /\ met \subseteq Writers /\ \A v \in met : Writes(v) /\ phase = "idle"
    BY DEF EndWrite, FailWrite, IInv, StoreType, OneWriter
  <2>2. \A v \in Writers : v # w => Writes(v)' = Writes(v)
    BY <1>1 DEF Writes
  <2> QED BY <2>1, <2>2 DEF PhaseStays
<1>4. \A v \in Callers : Writes(v)' => phase' = "idle" /\ writing'[v].item = v
  BY <1>2, TheWriters DEF IInv, OneWriter, PhaseStays
<1>5. OneWriter'
  BY <1>2, <1>3, <1>4, TheWriters DEF IInv, OneWriter
<1> QED BY <1>1, <1>5 DEF StoreInv

(* Every step preserves what is said of the storage.                        *)
LEMMA NextStore == ASSUME IInv, [Next]_vars PROVE StoreInv'
<1>w. Op \in Writers /\ Callers \subseteq Writers
  BY TheWriters
<1>s. PhaseStays
  BY NextPhaseStays
<1>p. /\ pc \notin OperationWrites => ~Writes(Op)
      /\ phase # "idle" => \A w \in Callers : ~Writes(w)
      /\ Writers = {Op} \cup Callers
  BY Writing
<1> USE DEF OperationWrites
<1>1. CASE Prompt \/ TreeStarts
  BY <1>1, <1>s, <1>w, IdleStep DEF Prompt, TreeStarts, Quiet
<1>2. CASE Steer \/ NextTurn \/ Abort \/ AbortReturns \/ UNCHANGED vars
  BY <1>2, <1>s, IdleStep DEF Steer, NextTurn, Abort, AbortReturns, run, vars
<1>3. CASE AppendMessage
  <2>1. CASE phase = "idle"
    <3>1. pc' = pc /\ phase' = "idle" /\ StartWrite(sent + 1, sent + 1, Stay) /\ sent < MaxItems
      BY <1>3, <2>1 DEF AppendMessage, Accept, run
    <3>2. sent + 1 \in Callers
      BY <3>1, HarnessAssumption DEF IInv, QueueType, Callers
    <3> QED BY <2>1, <3>1, <3>2, CallerStarts
  <2>2. CASE phase # "idle"
    BY <1>3, <1>s, <2>2, IdleStep DEF AppendMessage, run
  <2> QED BY <2>1, <2>2
<1>4. CASE AppendEnds
  <2>1. PICK w \in Callers : EndWrite(w) \/ FailWrite(w)
    BY <1>4 DEF AppendEnds
  <2>2. pc' = pc
    BY <1>4 DEF AppendEnds, run
  <2> QED BY <1>s, <1>w, <2>1, <2>2, EndStep
<1>5. CASE RunRaises
  BY <1>5, <1>s, IdleStep DEF RunRaises
<1>6. CASE TurnStateCreated \/ Announced \/ HookReturns
  <2>1. ~Writes(Op)
    BY <1>6, <1>p DEF TurnStateCreated, Announced, HookReturns
  <2>2. UNCHANGED store
    BY <1>6 DEF TurnStateCreated, Announced, HookReturns, PromptRejects, BeforeRunUnchanged
  <2> QED BY <1>s, <2>1, <2>2, IdleStep
<1>7. CASE Record \/ Flush \/ Answer \/ Summarized \/ MoveTo
  <2>1. pc' = pc /\ pc \in OperationWrites
    BY <1>7 DEF Record, Flush, Answer, Summarized, MoveTo, Flushing, run
  <2>2. phase = "idle" => mode = "late"
    BY <1>7 DEF Record, Flush, Answer, Summarized, MoveTo, Flushing, IInv, PhaseInv
  <2>3. \E item \in Nat, to \in Int : StartWrite(Op, item, to)
    <3>0. Stay \in Int
      BY DEF Stay
    <3>1. CASE Answer \/ Summarized
      BY <3>0, <3>1 DEF Answer, Summarized
    <3>2. CASE Flush
      <4>1. Head(pending) \in Nat
        BY <3>2 DEF Flush, IInv, QueueType, Queue
      <4> QED BY <3>0, <3>2, <4>1 DEF Flush
    <3>3. CASE Record
      <4>1. Head(inbox) \in Nat
        BY <3>3 DEF Record, IInv, QueueType, Queue, Holds
      <4> QED BY <3>0, <3>3, <4>1 DEF Record
    <3>4. CASE MoveTo
      BY <3>4 DEF MoveTo
    <3> QED BY <1>7, <3>1, <3>2, <3>3, <3>4
  <2> QED BY <1>s, <2>1, <2>2, <2>3, OperationStarts
<1>8. CASE Recorded \/ Answered \/ Flushed \/ FlushFails \/ Moved
  BY <1>8, <1>s, <1>w, EndStep DEF Recorded, Answered, Flushed, FlushFails, Moved
<1>9. CASE Poll \/ Saved \/ Ended \/ Settled \/ Closed
  <2>1. ~Writes(Op)
    BY <1>9, <1>p DEF Poll, Saved, Ended, Settled, Closed, IInv, Holds
  <2>2. UNCHANGED store
    BY <1>9 DEF Poll, Saved, Ended, Settled, Closed
  <2> QED BY <1>s, <2>1, <2>2, IdleStep
<1>10. CASE TreeEnds
  <2>1. CASE EndWrite(Op) \/ FailWrite(Op)
    BY <1>s, <1>w, <2>1, EndStep
  <2>2. CASE ~Writes(Op) /\ UNCHANGED store
    BY <1>s, <2>2, IdleStep
  <2> QED BY <1>10, <2>1, <2>2 DEF TreeEnds
<1> QED
  BY <1>1, <1>2, <1>3, <1>4, <1>5, <1>6, <1>7, <1>8, <1>9, <1>10 DEF Next, Clients, Operation

(* Every step preserves what is said of the idle phase.                     *)
LEMMA NextPhase == ASSUME IInv, [Next]_vars PROVE PhaseInv'
<1>0. PhaseInv
  BY DEF IInv
<1>1. CASE Prompt \/ TreeStarts
  BY <1>1 DEF Prompt, TreeStarts, PhaseInv
<1>2. CASE Steer \/ NextTurn \/ Abort \/ AbortReturns \/ AppendEnds \/ UNCHANGED vars
  BY <1>0, <1>2 DEF Steer, NextTurn, Abort, AbortReturns, AppendEnds, run, vars, PhaseInv
<1>3. CASE AppendMessage
  BY <1>0, <1>3 DEF AppendMessage, run, PhaseInv
<1>4. CASE TurnStateCreated \/ Announced \/ HookReturns
  BY <1>0, <1>4 DEF TurnStateCreated, Announced, HookReturns, PromptRejects, BeforeRunUnchanged, PhaseInv
<1>5. CASE RunRaises
  BY <1>0, <1>5 DEF RunRaises, Raise, RunUnchanged, PhaseInv
<1>6. CASE Record \/ Recorded \/ Poll
  <2>1. phase' = phase /\ phase # "idle"
    BY <1>0, <1>6 DEF Record, Recorded, Poll, RunUnchanged, PhaseInv
  <2> QED BY <2>1 DEF PhaseInv
<1>7. CASE Answer
  BY <1>0, <1>7 DEF Answer, run, RunUnchanged, PhaseInv
<1>8. CASE Answered
  <2>1. CASE pc' = "saving" /\ mode' = mode /\ stopping' \in {aborted \/ mode # "ok", TRUE}
    <3>1. phase = "idle" => mode = "late"
      BY <1>0, <1>8 DEF Answered, PhaseInv
    <3>2. mode = "late" => stopping'
      BY <2>1
    <3> QED BY <1>0, <1>8, <2>1, <3>1, <3>2 DEF Answered, RunUnchanged, PhaseInv
  <2>2. CASE Raise
    BY <1>0, <1>8, <2>2 DEF Answered, Raise, RunUnchanged, PhaseInv
  <2> QED BY <1>8, <2>1, <2>2 DEF Answered
<1>9. CASE Flush \/ Flushed \/ FlushFails
  <2>1. pending # <<>> /\ pc \in {"saving", "ending", "closing"}
    BY <1>9 DEF Flush, Flushed, FlushFails, Flushing, EndWrite, FailWrite, IInv, Holds
  <2>2. phase' = phase /\ phase # "idle"
    BY <1>0, <1>9, <2>1 DEF Flush, Flushed, FlushFails, RunUnchanged, PhaseInv
  <2> QED BY <2>2 DEF PhaseInv
<1>10. CASE Saved
  BY <1>0, <1>10 DEF Saved, RunUnchanged, PhaseInv
<1>11. CASE Ended \/ Closed
  BY <1>0, <1>11 DEF Ended, Closed, queues, PhaseInv
<1>12. CASE Settled
  BY <1>0, <1>12 DEF Settled, RunUnchanged, PhaseInv
<1>13. CASE MoveTo \/ Moved \/ Summarized
  <2>1. phase' = phase /\ phase # "idle"
    BY <1>0, <1>13 DEF MoveTo, Moved, Summarized, PhaseInv
  <2> QED BY <2>1 DEF PhaseInv
<1>14. CASE TreeEnds
  BY <1>14 DEF TreeEnds, PhaseInv
<1> QED
  BY <1>1, <1>2, <1>3, <1>4, <1>5, <1>6, <1>7, <1>8, <1>9, <1>10, <1>11, <1>12, <1>13, <1>14
  DEF Next, Clients, Operation

(* A queue of two loses one and keeps its order.                            *)
LEMMA TailOfLong ==
  ASSUME NEW s \in Seq(Nat), Len(s) > 1
  PROVE  Tail(s) # <<>>
<1>1. s # <<>>
  OBVIOUS
<1>2. Len(Tail(s)) = Len(s) - 1
  BY <1>1, HeadTailProperties
<1>3. \A n \in Nat : n > 1 => n - 1 # 0
  OBVIOUS
<1>4. Len(s) \in Nat
  OBVIOUS
<1>5. Len(s) - 1 # 0
  BY <1>3, <1>4, Zenon
<1> QED BY <1>2, <1>5, EmptySeq, Zenon

(* Every step keeps the message or write an operation is busy with queued.  *)
LEMMA NextHolds == ASSUME IInv, [Next]_vars PROVE Holds'
<1>w. Op \in Writers
  BY DEF Writers
<1>p. pc \notin OperationWrites => ~Writes(Op)
  BY Writing
<1>e. EndWrite(Op) \/ FailWrite(Op) => ~Writes(Op)'
  BY <1>w, EndKeeps, FailKeeps
<1>s. UNCHANGED store => Writes(Op)' = Writes(Op)
  BY <1>w, SameKeeps
<1>q. \A q \in Queue, n \in Nat : Append(q, n) # <<>>
  <2> TAKE q \in Queue, n \in Nat
  <2>1. Len(Append(q, n)) = Len(q) + 1 /\ Len(q) \in Nat
    BY AppendProperties, LenProperties DEF Queue
  <2>2. Len(Append(q, n)) # 0 /\ Len(<<>>) = 0
    BY <2>1
  <2> QED BY <2>2
<1>r. sent + 1 \in Nat /\ pending \in Queue /\ inbox \in Queue /\ nextTurn \in Queue /\ steering \in Queue
  BY DEF IInv, QueueType
<1> USE DEF OperationWrites
<1>1. CASE Prompt
  <2>1. inbox' # <<>>
    BY <1>1 DEF Prompt
  <2> QED BY <1>1, <2>1 DEF Prompt, Holds
<1>2. CASE Steer \/ NextTurn \/ Abort \/ AbortReturns \/ UNCHANGED vars
  BY <1>2, <1>s DEF Steer, NextTurn, Abort, AbortReturns, run, vars, IInv, Holds
<1>3. CASE AppendMessage
  <2>1. CASE phase = "idle"
    <3>1. StartWrite(sent + 1, sent + 1, Stay) /\ sent + 1 # Op
      BY <1>3, <1>r, <2>1 DEF AppendMessage, Op, IInv, QueueType
    <3>2. writing'[Op] = writing[Op]
      BY <1>w, <3>1 DEF StartWrite, IInv, StoreType
    <3> QED BY <1>3, <2>1, <3>2 DEF AppendMessage, run, Writes, IInv, Holds
  <2>2. CASE phase # "idle"
    <3>1. pending' # <<>>
      BY <1>3, <1>q, <1>r, <2>2 DEF AppendMessage
    <3> QED BY <1>3, <3>1 DEF AppendMessage, run, IInv, Holds
  <2> QED BY <2>1, <2>2
<1>4. CASE AppendEnds
  <2>1. Writes(Op)' => Writes(Op)
    <3>1. PICK w \in Callers : EndWrite(w) \/ FailWrite(w)
      BY <1>4 DEF AppendEnds
    <3>2. writing'[Op] = writing[Op]
      BY <3>1, TheWriters, EndKeeps, FailKeeps
    <3> QED BY <3>2 DEF Writes
  <2> QED BY <1>4, <2>1 DEF AppendEnds, run, IInv, Holds
<1>5. CASE RunRaises
  <2>1. ~Writes(Op)'
    BY <1>5, <1>s, <1>w DEF RunRaises
  <2>2. pc' \in {"failing", "closing"}
    BY <1>5 DEF RunRaises, Raise
  <2> QED BY <2>1, <2>2 DEF Holds
<1>6. CASE TurnStateCreated
  <2>1. pc' \in {"hooking", "announcing"} => inbox' = nextTurn \o inbox
    BY <1>6 DEF TurnStateCreated, PromptRejects
  <2>2. nextTurn \o inbox # <<>>
    BY <1>6, <1>r DEF TurnStateCreated, IInv, Holds, Queue
  <2>3. pc' \in {"hooking", "announcing", "none"}
    BY <1>6 DEF TurnStateCreated, PromptRejects
  <2> QED BY <2>1, <2>2, <2>3 DEF Holds
<1>7. CASE Announced \/ HookReturns
  <2>1. (pc' \in {"hooking", "prompting"} /\ inbox' = inbox) \/ pc' = "none"
    BY <1>7 DEF Announced, HookReturns, PromptRejects
  <2> QED BY <1>7, <2>1 DEF Announced, HookReturns, IInv, Holds
<1>8. CASE Record \/ Flush \/ Answer
  BY <1>8 DEF Record, Flush, Answer, Flushing, run, IInv, Holds
<1>9. CASE Recorded
  <2>1. pc' \in {"failing", "closing", "polling", "streaming"} \/ (pc' = pc /\ Len(inbox) > 1 /\ inbox' = Tail(inbox))
    BY <1>9 DEF Recorded, Raise
  <2>2. ~Writes(Op)'
    BY <1>9, <1>e DEF Recorded
  <2>3. Len(inbox) > 1 => Tail(inbox) # <<>>
    BY <1>r, TailOfLong DEF Queue
  <2> QED BY <1>9, <2>1, <2>2, <2>3 DEF Recorded, Holds
<1>10. CASE Poll
  <2>1. ~Writes(Op)'
    BY <1>10, <1>s, <1>p DEF Poll
  <2>2. (pc' \in {"recording"} /\ \E n : inbox' = <<n>>) \/ pc' \in {"streaming", "ending"}
    BY <1>10 DEF Poll
  <2> QED BY <2>1, <2>2 DEF Holds
<1>11. CASE Answered \/ FlushFails
  <2>1. ~Writes(Op)'
    BY <1>11, <1>e DEF Answered, FlushFails
  <2>2. pc' \in {"saving", "failing", "closing", "closed"}
    BY <1>11 DEF Answered, FlushFails, Raise
  <2> QED BY <2>1, <2>2 DEF Holds
<1>12. CASE Flushed
  <2>1. ~Writes(Op)'
    BY <1>12, <1>e DEF Flushed
  <2> QED BY <1>12, <2>1 DEF Flushed, Flushing, run, Holds
<1>13. CASE Saved \/ Ended \/ Settled \/ Closed
  <2>1. ~Writes(Op)'
    BY <1>13, <1>s, <1>p DEF Saved, Ended, Settled, Closed
  <2>2. pc' \in {"ending", "saved", "settling", "closing", "none"}
    BY <1>13 DEF Saved, Ended, Settled, Closed
  <2> QED BY <2>1, <2>2 DEF Holds
<1>14. CASE TreeStarts \/ MoveTo \/ Moved \/ Summarized \/ TreeEnds
  <2>1. pc' \in {"none", "moving", "summarizing"}
    BY <1>14 DEF TreeStarts, MoveTo, Moved, Summarized, TreeEnds
  <2> QED BY <2>1 DEF Holds
<1> QED
  BY <1>1, <1>2, <1>3, <1>4, <1>5, <1>6, <1>7, <1>8, <1>9, <1>10, <1>11, <1>12, <1>13, <1>14
  DEF Next, Clients, Operation

(* The inductive invariant IInv holds in every reachable state.            *)
THEOREM Invariance == Spec => []IInv
<1>1. Init => IInv
  <2> SUFFICES ASSUME Init PROVE IInv
    OBVIOUS
  <2>1. QueueType
    BY DEF Init, QueueType, Queue
  <2>2. StoreType
    BY DEF Init, StoreType, Nobody, Entries
  <2>3. \A w \in Writers : ~Writes(w)
    BY DEF Init, Writes
  <2>4. OneWriter /\ Alone /\ LeafIsLast /\ OneChain /\ Holds /\ PhaseInv
    BY <2>3, TheWriters DEF Init, OneWriter, Alone, LeafIsLast, LeafAfter, OneChain, Holds, PhaseInv
  <2> QED BY <2>1, <2>2, <2>4 DEF IInv
<1>2. IInv /\ [Next]_vars => IInv'
  <2>1. ASSUME IInv, [Next]_vars PROVE IInv'
    <3>1. QueueType'
      BY <2>1, NextQueues DEF IInv
    <3>2. StoreInv'
      BY <2>1, NextStore
    <3>3. Holds'
      BY <2>1, NextHolds
    <3>4. PhaseInv'
      BY <2>1, NextPhase
    <3> QED BY <3>1, <3>2, <3>3, <3>4 DEF IInv, StoreInv
  <2> QED BY <2>1
<1> QED BY <1>1, <1>2, PTL DEF Spec

(* OneChain: each entry's parent is the leaf its predecessor left, for any *)
(* number of clients, messages, writes, rejections, failed appends and     *)
(* navigations, except where idle writes were under way together, or one   *)
(* with the report of a late failure.                                      *)
THEOREM SessionIsAChain == Spec => []OneChain
<1>1. IInv => OneChain
  BY DEF IInv
<1> QED BY <1>1, Invariance, PTL

-----------------------------------------------------------------------------
(* What is queued, and what is being written                               *)

Messages == (1..sent) \ writes

Placed == sent \in Nat /\ writes \subseteq 1..sent /\ QueuesIn(Messages, writes)

(* The inbox is filled before a run, and by a poll.                        *)
InboxInv ==
  /\ pc \notin {"starting", "announcing", "hooking", "prompting", "recording"} => inbox = <<>>
  /\ pc = "starting" => Len(inbox) = 1

(* What an operation is writing is still the first of its queue.           *)
Carries ==
  Writes(Op) =>
    writing[Op].item = IF pc \in {"prompting", "recording"} THEN Head(inbox)
                                ELSE IF Flushing THEN Head(pending) ELSE 0

QueueInv == Placed /\ InboxInv /\ Carries

(* A sequence over a set is one over a larger set.                         *)
LEMMA Wider ==
  ASSUME NEW S, NEW T, S \subseteq T, NEW s \in Seq(S)
  PROVE  s \in Seq(T)
OBVIOUS

(* The queues keep messages and writes apart.                              *)
LEMMA NextPlaced == ASSUME IInv, Placed, [Next]_vars PROVE Placed'
<1>0. /\ sent \in Nat /\ sent + 1 \in Nat /\ sent + 1 # sent /\ writes \subseteq 1..sent
      /\ QueuesIn(Messages, writes) /\ sent + 1 \notin writes /\ Holds
  BY DEF Placed, IInv
<1>k. ASSUME NEW S, NEW W, Messages \subseteq S, writes \subseteq W,
             Prompt \/ Steer \/ NextTurn => sent + 1 \in S, AppendMessage => sent + 1 \in W
      PROVE  QueuesIn(S, W)'
  <2>1. QueuesIn(S, W)
    BY <1>0, <1>k, Wider DEF QueuesIn
  <2> QED BY <1>0, <1>k, <2>1, QueuesKeep
<1>a. /\ AppendMessage => sent' = sent + 1 /\ writes' = writes \cup {sent + 1}
      /\ Prompt \/ Steer \/ NextTurn => sent' = sent + 1 /\ writes' = writes
  BY DEF AppendMessage, Prompt, Steer, NextTurn, Accept, fates
<1>1. CASE (Prompt \/ Steer \/ NextTurn) /\ sent' = sent + 1 /\ writes' = writes
  <2>1. PICK S, W : S = (1..(sent + 1)) \ writes /\ W = writes
    OBVIOUS
  <2>2. Messages \subseteq S /\ writes \subseteq W /\ sent + 1 \in S /\ writes \subseteq 1..(sent + 1)
    BY <1>0, <2>1 DEF Messages
  <2>3. ~AppendMessage
    BY <1>0, <1>1, <1>a
  <2>4. QueuesIn(S, W)'
    BY <1>k, <2>2, <2>3
  <2>5. Messages' = S /\ writes' = W
    BY <1>1, <2>1 DEF Messages
  <2> QED BY <1>0, <1>1, <2>2, <2>4, <2>5 DEF Placed, QueuesIn
<1>2. CASE AppendMessage /\ sent' = sent + 1 /\ writes' = writes \cup {sent + 1}
  <2>1. PICK S, W : S = Messages /\ W = writes \cup {sent + 1}
    OBVIOUS
  <2>2. Messages \subseteq S /\ writes \subseteq W /\ sent + 1 \in W /\ W \subseteq 1..(sent + 1)
    BY <1>0, <2>1
  <2>3. ~(Prompt \/ Steer \/ NextTurn)
    BY <1>0, <1>2, <1>a
  <2>4. QueuesIn(S, W)'
    BY <1>k, <2>2, <2>3
  <2>5. Messages' = S /\ writes' = W
    BY <1>0, <1>2, <2>1 DEF Messages
  <2> QED BY <1>0, <1>2, <2>2, <2>4, <2>5 DEF Placed, QueuesIn
<1>3. CASE sent' = sent /\ writes' = writes
  <2>1. PICK S, W : S = Messages /\ W = writes
    OBVIOUS
  <2>2. Messages \subseteq S /\ writes \subseteq W
    BY <2>1
  <2>3. ~(Prompt \/ Steer \/ NextTurn) /\ ~AppendMessage
    BY <1>0, <1>3, <1>a
  <2>4. QueuesIn(S, W)'
    BY <1>k, <2>2, <2>3
  <2>5. Messages' = S /\ writes' = W
    BY <1>3, <2>1 DEF Messages
  <2> QED BY <1>0, <1>3, <2>4, <2>5 DEF Placed, QueuesIn
<1> QED BY <1>1, <1>2, <1>3, SentSteps

(* Removing the head of a queue of one empties it.                         *)
LEMMA TailOfOne ==
  ASSUME NEW s \in Seq(Nat), Len(s) = 1
  PROVE  Tail(s) = <<>> /\ s = <<Head(s)>>
<1>1. s # <<>>
  <2>1. Len(s) # Len(<<>>)
    OBVIOUS
  <2> QED BY <2>1, Zenon
<1>2. Tail(s) \in Seq(Nat) /\ Len(Tail(s)) = Len(s) - 1 /\ Head(s) = s[1]
  BY <1>1, HeadTailProperties
<1>3. Len(Tail(s)) = 0
  BY <1>2
<1>4. s[1] \in Nat
  <2>1. 1 \in 1..Len(s)
    OBVIOUS
  <2> QED BY <2>1, ElementOfSeq
<1>5. s = <<Head(s)>>
  BY <1>2, <1>4
<1> QED BY <1>2, <1>3, <1>5, EmptySeq

(* The inbox is empty again before the model is asked, and when a run is   *)
(* over.                                                                   *)
LEMMA NextInbox == ASSUME IInv, InboxInv, [Next]_vars PROVE InboxInv'
<1>0. inbox \in Seq(Nat) /\ Holds
  BY DEF IInv, QueueType, Queue
<1>1. CASE Prompt
  <2>1. pc' = "starting" /\ inbox' = <<sent + 1>>
    BY <1>1 DEF Prompt
  <2>2. Len(<<sent + 1>>) = 1
    OBVIOUS
  <2> QED BY <2>1, <2>2 DEF InboxInv
<1>2. CASE pc' = pc /\ inbox' = inbox
  BY <1>2 DEF InboxInv
<1>3. CASE /\ pc \notin {"starting", "announcing", "hooking", "prompting", "recording"}
           /\ pc' # "starting" /\ inbox' = inbox
  BY <1>3 DEF InboxInv
<1>4. CASE inbox' = <<>> /\ pc' # "starting"
  BY <1>4 DEF InboxInv
<1>5. CASE pc' \in {"announcing", "hooking", "prompting", "recording"}
  BY <1>5 DEF InboxInv
<1>6. CASE \/ Steer \/ NextTurn \/ AppendMessage \/ Abort \/ AppendEnds \/ AbortReturns \/ UNCHANGED vars
           \/ Record \/ Answer \/ Flush \/ Flushed
  BY <1>2, <1>6 DEF Steer, NextTurn, AppendMessage, Abort, AppendEnds, AbortReturns, vars, Record, Answer, Flush,
     Flushed, run
<1>7. CASE TreeStarts \/ MoveTo \/ Moved \/ Summarized \/ TreeEnds
  BY <1>3, <1>7 DEF TreeStarts, MoveTo, Moved, Summarized, TreeEnds, TreeUnchanged, Quiet
<1>8. CASE Saved \/ Ended \/ Settled \/ Closed
  BY <1>3, <1>8 DEF Saved, Ended, Settled, Closed
<1>9. CASE RunRaises
  BY <1>4, <1>9 DEF RunRaises, Raise
<1>10. CASE TurnStateCreated \/ Announced \/ HookReturns
  BY <1>4, <1>5, <1>10 DEF TurnStateCreated, Announced, HookReturns, PromptRejects
<1>11. CASE Answered \/ FlushFails
  BY <1>3, <1>4, <1>11 DEF Answered, FlushFails, Flushing, Raise
<1>12. CASE Poll
  BY <1>3, <1>5, <1>12 DEF Poll
<1>13. CASE Recorded
  <2>1. CASE Raise
    BY <1>4, <2>1 DEF Raise
  <2>2. CASE ~Raise
    <3>1. pc \in {"prompting", "recording"} /\ inbox' = Tail(inbox)
      BY <1>13, <2>2 DEF Recorded
    <3>2. \/ pc' \in {"polling", "streaming"}
          \/ pc' = pc /\ Len(inbox) > 1
      BY <1>13, <2>2 DEF Recorded
    <3>3. Len(inbox) \in Nat /\ Len(inbox) # 0
      BY <1>0, <3>1 DEF Holds
    <3>4. Len(inbox) > 1 \/ Len(inbox) = 1
      BY <3>3
    <3>5. CASE pc' = pc
      BY <1>5, <3>1, <3>5
    <3>6. CASE Len(inbox) = 1
      <4>1. Tail(inbox) = <<>>
        BY <1>0, <3>6, TailOfOne
      <4>2. pc' # "starting"
        BY <3>1, <3>2
      <4> QED BY <1>4, <3>1, <4>1, <4>2
    <3>7. CASE Len(inbox) > 1 /\ pc' # pc
      <4>1. pc' = pc
        BY <1>13, <2>2, <3>7 DEF Recorded
      <4> QED BY <3>7, <4>1
    <3> QED BY <3>4, <3>5, <3>6, <3>7
  <2> QED BY <2>1, <2>2
<1> QED
  BY <1>1, <1>6, <1>7, <1>8, <1>9, <1>10, <1>11, <1>12, <1>13 DEF Next, Clients, Operation

-----------------------------------------------------------------------------
(* The appends: who starts one, and what the end of one does               *)

(* What an operation is writing after a step: nothing, what it was writing *)
(* before, or what the step has started.                                   *)
Starts == Record \/ Answer \/ Flush \/ MoveTo \/ Summarized

LEMMA OperationNext ==
  ASSUME IInv, [Next]_vars
  PROVE  \/ ~Writes(Op)'
         \/ /\ writing'[Op] = writing[Op] /\ pc' = pc /\ inbox' = inbox
            /\ pending' = pending \/ (AppendMessage /\ pending' = Append(pending, sent + 1))
         \/ Starts
<1>w. Op \in Writers /\ writing \in [Writers -> Entries]
  BY DEF Writers, IInv, StoreType
<1>p. pc \notin OperationWrites => ~Writes(Op)
  BY Writing
<1>e. EndWrite(Op) \/ FailWrite(Op) => ~Writes(Op)'
  BY <1>w, EndKeeps, FailKeeps
<1>s. UNCHANGED store => Writes(Op)' = Writes(Op)
  BY <1>w, SameKeeps
<1>1. CASE Steer \/ NextTurn \/ Abort \/ AbortReturns \/ UNCHANGED vars
  BY <1>1 DEF Steer, NextTurn, Abort, AbortReturns, store, run, vars
<1>2. CASE AppendMessage
  <2>1. pc' = pc /\ inbox' = inbox /\ (pending' = pending \/ pending' = Append(pending, sent + 1))
    BY <1>2 DEF AppendMessage, run
  <2>2. writing'[Op] = writing[Op]
    <3>1. sent + 1 # Op
      BY DEF IInv, QueueType, Op
    <3> QED BY <1>2, <1>w, <3>1 DEF AppendMessage, StartWrite, store
  <2> QED BY <1>2, <2>1, <2>2
<1>3. CASE AppendEnds
  <2>1. PICK w \in Callers : EndWrite(w) \/ FailWrite(w)
    BY <1>3 DEF AppendEnds
  <2>2. writing'[Op] = writing[Op]
    BY <1>w, <2>1, TheWriters DEF EndWrite, FailWrite
  <2> QED BY <1>3, <2>2 DEF AppendEnds, run
<1>4. CASE Prompt \/ TreeStarts \/ TurnStateCreated \/ Announced \/ HookReturns
  <2>1. UNCHANGED store /\ pc \in {"none", "starting", "announcing", "hooking"}
    BY <1>4 DEF Prompt, TreeStarts, Quiet, TurnStateCreated, Announced, HookReturns, PromptRejects,
       BeforeRunUnchanged, TreeUnchanged
  <2> QED BY <1>p, <1>s, <2>1 DEF OperationWrites
<1>5. CASE RunRaises \/ Poll
  BY <1>5, <1>p, <1>s, <1>w DEF RunRaises, Poll, OperationWrites
<1>6. CASE Recorded \/ Answered \/ Flushed \/ FlushFails \/ Moved
  BY <1>6, <1>e DEF Recorded, Answered, Flushed, FlushFails, Moved
<1>7. CASE Saved \/ Ended \/ Settled \/ Closed
  BY <1>7, <1>p, <1>s DEF Saved, Ended, Settled, Closed, OperationWrites
<1>8. CASE TreeEnds
  BY <1>8, <1>e, <1>s DEF TreeEnds
<1> QED
  BY <1>1, <1>2, <1>3, <1>4, <1>5, <1>6, <1>7, <1>8 DEF Next, Clients, Operation, Starts

(* An operation writes what it has taken, or answers with.                 *)
LEMMA NextCarries == ASSUME IInv, Carries, [Next]_vars PROVE Carries'
<1>w. Op \in Writers /\ writing \in [Writers -> Entries]
  BY DEF Writers, IInv, StoreType
<1>1. CASE ~Writes(Op)'
  BY <1>1 DEF Carries
<1>2. CASE /\ writing'[Op] = writing[Op] /\ pc' = pc /\ inbox' = inbox
           /\ pending' = pending
  BY <1>2 DEF Carries, Flushing, Writes
<1>3. CASE /\ writing'[Op] = writing[Op] /\ pc' = pc /\ inbox' = inbox
           /\ pending' = Append(pending, sent + 1)
  <2>1. Writes(Op) /\ Flushing => Head(Append(pending, sent + 1)) = Head(pending)
    <3> SUFFICES ASSUME Writes(Op), Flushing PROVE Head(Append(pending, sent + 1)) = Head(pending)
      OBVIOUS
    <3>1. pending # <<>> /\ pending \in Seq(Nat) /\ sent + 1 \in Nat
      BY DEF IInv, Holds, Flushing, QueueType, Queue
    <3> QED BY <3>1
  <2> QED BY <1>3, <2>1 DEF Carries, Flushing, Writes
<1>4. CASE Record \/ Answer \/ Flush \/ Summarized
  <2>1. /\ pc' = pc /\ inbox' = inbox /\ pending' = pending
        /\ StartWrite(Op, IF pc \in {"prompting", "recording"} THEN Head(inbox)
                          ELSE IF Flushing THEN Head(pending) ELSE 0, Stay)
    BY <1>4 DEF Record, Answer, Flush, Summarized, TreeUnchanged, run, Flushing
  <2>2. writing'[Op].item = IF pc \in {"prompting", "recording"} THEN Head(inbox)
                                     ELSE IF Flushing THEN Head(pending) ELSE 0
    BY <1>w, <2>1 DEF StartWrite
  <2> QED BY <2>1, <2>2 DEF Carries, Flushing
<1>5. CASE MoveTo
  <2>1. pc = "moving" /\ pc' = pc
    BY <1>5 DEF MoveTo
  <2>2. writing'[Op].item = 0
    BY <1>5, <1>w DEF MoveTo, StartWrite
  <2> QED BY <2>1, <2>2 DEF Carries, Flushing
<1> QED BY <1>1, <1>2, <1>3, <1>4, <1>5, OperationNext DEF Starts

(* What a client is writing after a step: what it was writing before, or   *)
(* what it has just handed over to the idle harness.                       *)
LEMMA ClientNext ==
  ASSUME IInv, [Next]_vars, NEW w \in Callers, Writes(w)'
  PROVE  /\ phase' = "idle"
         /\ \/ Writes(w) /\ writing'[w] = writing[w]
            \/ /\ AppendMessage /\ phase = "idle" /\ w = sent + 1
               /\ StartWrite(w, w, Stay) /\ UNCHANGED <<log, crossed>>
<1>w. Op \in Writers /\ w \in Writers /\ w # Op /\ writing \in [Writers -> Entries]
  BY TheWriters DEF IInv, StoreType
<1>i. phase' = "idle"
  BY NextStore DEF StoreInv, OneWriter
<1>k. writing'[w] = writing[w] => Writes(w) /\ writing'[w] = writing[w]
  BY DEF Writes
<1>s. UNCHANGED store => writing'[w] = writing[w]
  BY DEF store
<1>o. /\ \A item, to : StartWrite(Op, item, to) => writing'[w] = writing[w]
      /\ EndWrite(Op) \/ FailWrite(Op) => writing'[w] = writing[w]
  BY <1>w DEF StartWrite, EndWrite, FailWrite
<1>1. CASE Prompt \/ TreeStarts \/ Steer \/ NextTurn \/ Abort \/ AbortReturns \/ UNCHANGED vars
  BY <1>1, <1>i, <1>k, <1>s DEF Prompt, TreeStarts, Steer, NextTurn, Abort, AbortReturns, vars
<1>2. CASE AppendMessage
  <2>1. CASE phase = "idle"
    <3>1. StartWrite(sent + 1, sent + 1, Stay)
      BY <1>2, <2>1 DEF AppendMessage
    <3>2. CASE w = sent + 1
      BY <1>2, <1>i, <2>1, <3>1, <3>2 DEF StartWrite
    <3>3. CASE w # sent + 1
      BY <1>i, <1>k, <1>w, <3>1, <3>3 DEF StartWrite
    <3> QED BY <3>2, <3>3
  <2>2. CASE phase # "idle"
    BY <1>2, <1>i, <1>k, <1>s, <2>2 DEF AppendMessage
  <2> QED BY <2>1, <2>2
<1>3. CASE AppendEnds
  <2>1. PICK v \in Callers : EndWrite(v) \/ FailWrite(v)
    BY <1>3 DEF AppendEnds
  <2>2. v # w
    BY <2>1, TheWriters, EndKeeps, FailKeeps
  <2>3. writing'[w] = writing[w]
    BY <1>w, <2>1, <2>2 DEF EndWrite, FailWrite
  <2> QED BY <1>i, <1>k, <2>3
<1>4. CASE \/ TurnStateCreated \/ Announced \/ HookReturns \/ RunRaises \/ Poll \/ Saved \/ Ended
           \/ Settled \/ Closed
  <2>1. UNCHANGED store
    BY <1>4 DEF TurnStateCreated, Announced, HookReturns, RunRaises, Poll, Saved, Ended, Settled, Closed,
       BeforeRunUnchanged, PromptRejects
  <2> QED BY <1>i, <1>k, <1>s, <2>1
<1>5. CASE Record \/ Answer \/ Flush \/ Summarized \/ MoveTo
  BY <1>5, <1>i, <1>k, <1>o DEF Record, Answer, Flush, Summarized, MoveTo
<1>6. CASE Recorded \/ Answered \/ Flushed \/ FlushFails \/ Moved
  BY <1>6, <1>i, <1>k, <1>o DEF Recorded, Answered, Flushed, FlushFails, Moved
<1>7. CASE TreeEnds
  BY <1>7, <1>i, <1>k, <1>o, <1>s DEF TreeEnds
<1> QED
  BY <1>1, <1>2, <1>3, <1>4, <1>5, <1>6, <1>7 DEF Next, Clients, Operation

(* What a step does to the log and to the list of pending writes.           *)
LEMMA LogSteps ==
  ASSUME IInv, [Next]_vars
  PROVE  \/ log' = log /\ pending' = pending
         \/ /\ AppendMessage /\ phase # "idle"
            /\ log' = log /\ pending' = Append(pending, sent + 1)
         \/ EndWrite(Op) /\ ~Flushing /\ pending' = pending
         \/ EndWrite(Op) /\ Flushing /\ pending' = Tail(pending)
         \/ \E w \in Callers : EndWrite(w) /\ pending' = pending
<1>1. CASE Prompt \/ TreeStarts \/ Steer \/ NextTurn \/ Abort \/ AbortReturns \/ UNCHANGED vars
  BY <1>1 DEF Prompt, TreeStarts, TreeUnchanged, Steer, NextTurn, Abort, AbortReturns, vars, store
<1>2. CASE AppendMessage
  BY <1>2 DEF AppendMessage, StartWrite, store
<1>3. CASE AppendEnds
  BY <1>3 DEF AppendEnds, FailWrite
<1>4. CASE RunRaises \/ Poll \/ Saved \/ Ended \/ Settled \/ Closed
  BY <1>4 DEF RunRaises, Poll, Saved, Ended, Settled, Closed, store
<1>5. CASE TurnStateCreated \/ Announced \/ HookReturns
  BY <1>5 DEF TurnStateCreated, Announced, HookReturns, PromptRejects, BeforeRunUnchanged, store
<1>6. CASE Record \/ Answer \/ Flush \/ Summarized \/ MoveTo
  BY <1>6 DEF Record, Answer, Flush, Summarized, MoveTo, StartWrite, TreeUnchanged
<1>7. CASE Recorded \/ Answered \/ Flushed \/ FlushFails
  BY <1>7 DEF Recorded, Answered, Flushed, FlushFails, Flushing, FailWrite
<1>8. CASE Moved \/ TreeEnds
  BY <1>8 DEF Moved, TreeEnds, Flushing, FailWrite, TreeUnchanged, store
<1> QED
  BY <1>1, <1>2, <1>3, <1>4, <1>5, <1>6, <1>7, <1>8 DEF Next, Clients, Operation

(* Lines that were written together stay known, and an append under way    *)
(* that has met another until it ends.                                     *)
StoreMoves ==
  \/ UNCHANGED store
  \/ \E w \in Writers : \E item, to : StartWrite(w, item, to)
  \/ \E w \in Writers : EndWrite(w) \/ FailWrite(w)

LEMMA EveryStoreMove == ASSUME IInv, [Next]_vars PROVE StoreMoves
<1>w. Op \in Writers /\ Callers \subseteq Writers
  BY TheWriters
<1>1. CASE \/ Prompt \/ TreeStarts \/ Steer \/ NextTurn \/ Abort \/ AbortReturns \/ UNCHANGED vars \/ RunRaises
           \/ Poll \/ Saved \/ Ended \/ Settled \/ Closed \/ TurnStateCreated \/ Announced \/ HookReturns
  <2>1. UNCHANGED store
    BY <1>1 DEF Prompt, TreeStarts, Steer, NextTurn, Abort, AbortReturns, vars, RunRaises, Poll, Saved, Ended,
       Settled, Closed, TurnStateCreated, Announced, HookReturns, PromptRejects, BeforeRunUnchanged
  <2> QED BY <2>1 DEF StoreMoves
<1>2. CASE AppendMessage
  <2>1. CASE phase = "idle"
    <3>1. StartWrite(sent + 1, sent + 1, Stay) /\ sent + 1 \in Callers
      BY <1>2, <2>1, HarnessAssumption DEF AppendMessage, Accept, IInv, QueueType, Callers
    <3> QED BY <1>w, <3>1 DEF StoreMoves
  <2>2. CASE phase # "idle"
    BY <1>2, <2>2 DEF AppendMessage, StoreMoves
  <2> QED BY <2>1, <2>2
<1>3. CASE AppendEnds
  BY <1>3, <1>w DEF AppendEnds, StoreMoves
<1>4. CASE Record \/ Answer \/ Flush \/ Summarized \/ MoveTo
  <2>1. \E item, to : StartWrite(Op, item, to)
    BY <1>4 DEF Record, Answer, Flush, Summarized, MoveTo
  <2> QED BY <1>w, <2>1 DEF StoreMoves
<1>5. CASE Recorded \/ Answered \/ Flushed \/ FlushFails \/ Moved \/ TreeEnds
  <2>1. EndWrite(Op) \/ FailWrite(Op) \/ UNCHANGED store
    BY <1>5 DEF Recorded, Answered, Flushed, FlushFails, Moved, TreeEnds
  <2> QED BY <1>w, <2>1 DEF StoreMoves
<1> QED BY <1>1, <1>2, <1>3, <1>4, <1>5 DEF Next, Clients, Operation

LEMMA CrossedSteps == ASSUME IInv, [Next]_vars PROVE crossed \subseteq crossed'
BY EveryStoreMove DEF StoreMoves, store, StartWrite, EndWrite, FailWrite

LEMMA MetSteps ==
  ASSUME IInv, [Next]_vars
  PROVE  \A w \in Writers : w \in met /\ (\A v \in Writers : EndWrite(v) \/ FailWrite(v) => v # w) => w \in met'
<1>1. CASE UNCHANGED store
  BY <1>1 DEF store
<1>2. ASSUME NEW v \in Writers, NEW item, NEW to, StartWrite(v, item, to) PROVE met \subseteq met'
  BY <1>2 DEF StartWrite
<1>3. ASSUME NEW v \in Writers, EndWrite(v) \/ FailWrite(v) PROVE met' = met \ {v}
  BY <1>3 DEF EndWrite, FailWrite
<1> QED BY <1>1, <1>2, <1>3, EveryStoreMove DEF StoreMoves

(* A write that is known to have been left over stays known.                *)
LEMMA HeldSteps ==
  ASSUME [Next]_vars
  PROVE  held \subseteq held'
<1>1. CASE Prompt \/ TreeStarts \/ Steer \/ NextTurn \/ AppendMessage \/ Abort \/ AbortReturns \/ AppendEnds
           \/ UNCHANGED vars
  BY <1>1 DEF Prompt, TreeStarts, Steer, NextTurn, AppendMessage, Abort, AbortReturns, AppendEnds, vars, fates
<1>2. CASE TurnStateCreated \/ Announced \/ HookReturns
  BY <1>2 DEF TurnStateCreated, Announced, HookReturns, PromptRejects, BeforeRunUnchanged, fates
<1>3. CASE \/ RunRaises \/ Record \/ Recorded \/ Poll \/ Answer \/ Answered \/ Flush \/ Flushed \/ FlushFails
           \/ Saved \/ Settled
  BY <1>3 DEF RunRaises, Record, Recorded, Poll, Answer, Answered, Flush, Flushed, FlushFails, Saved, Settled,
     RunUnchanged
<1>4. CASE Ended \/ Closed \/ MoveTo \/ Moved \/ Summarized \/ TreeEnds
  BY <1>4 DEF Ended, Closed, MoveTo, Moved, Summarized, TreeEnds, fates
<1> QED BY <1>1, <1>2, <1>3, <1>4 DEF Next, Clients, Operation

(* The phase is given up with nothing pending, or with what is pending     *)
(* left over.                                                              *)
LEMMA PhaseSteps ==
  ASSUME IInv, [Next]_vars, phase' = "idle"
  PROVE  \/ phase = "idle" /\ pending' = pending
         \/ pending' = <<>>
         \/ pending' = pending /\ ToSet(pending) \subseteq held'
         \/ phase = "idle" /\ Flushed
<1>1. CASE Prompt \/ TreeStarts \/ Steer \/ NextTurn \/ Abort \/ AbortReturns \/ UNCHANGED vars
  BY <1>1 DEF Prompt, TreeStarts, Steer, NextTurn, Abort, AbortReturns, vars
<1>2. CASE AppendMessage \/ AppendEnds
  BY <1>2 DEF AppendMessage, AppendEnds
<1>3. CASE TurnStateCreated \/ Announced \/ HookReturns
  BY <1>3 DEF TurnStateCreated, Announced, HookReturns, PromptRejects, BeforeRunUnchanged
<1>4. CASE RunRaises \/ Record \/ Recorded \/ Poll \/ Answer \/ Answered \/ Flush \/ FlushFails \/ Saved \/ Settled
  BY <1>4 DEF RunRaises, Record, Recorded, Poll, Answer, Answered, Flush, FlushFails, Saved, Settled, RunUnchanged
<1>5. CASE Flushed
  BY <1>5 DEF Flushed, RunUnchanged
<1>6. CASE Ended \/ Closed
  BY <1>6 DEF Ended, Closed, queues
<1>7. CASE MoveTo \/ Moved \/ Summarized \/ TreeEnds
  BY <1>7 DEF MoveTo, Moved, Summarized, TreeEnds, TreeUnchanged
<1> QED
  BY <1>1, <1>2, <1>3, <1>4, <1>5, <1>6, <1>7 DEF Next, Clients, Operation

-----------------------------------------------------------------------------
(* The order of the session writes                                         *)

(* What is pending was asked for in this order, and after every write that *)
(* is in the log, unless it was left over.                                 *)
Lines ==
  /\ \A a \in 1..Len(log) : log[a].item \in 0..sent
  /\ \A a \in 1..Len(log), i \in 1..Len(pending) :
       log[a].item \in writes => log[a].item < pending[i] \/ pending[i] \in held
  /\ \A i, j \in 1..Len(pending) : i < j => pending[i] < pending[j]

(* Between operations what is pending was left over, and what a client     *)
(* writes was asked for after all that is in the log, but for what was     *)
(* under way with it.                                                      *)
HandInv ==
  /\ phase = "idle" => \A i \in 1..Len(pending) : pending[i] \in held
  /\ \A w \in Callers : Writes(w) =>
       /\ w \in writes
       /\ \A a \in 1..Len(log) : log[a].item \in writes /\ w < log[a].item => a \in crossed /\ w \in met

OrderInv == Lines /\ HandInv /\ WritesInOrder

(* The places of a queue without its head, ...                             *)
LEMMA TailPlaces ==
  ASSUME NEW S, NEW s \in Seq(S), s # <<>>
  PROVE  /\ Head(s) = s[1] /\ 1 \in 1..Len(s)
         /\ \A i \in 1..Len(Tail(s)) : Tail(s)[i] = s[i + 1] /\ i + 1 \in 1..Len(s)
<1>1. Len(s) \in Nat /\ Len(s) # 0
  BY EmptySeq, LenProperties
<1>2. Len(Tail(s)) = Len(s) - 1 /\ \A i \in 1..Len(Tail(s)) : Tail(s)[i] = s[i + 1]
  BY HeadTailProperties
<1>3. \A n, i \in Nat : i \in 1..(n - 1) => i + 1 \in 1..n
  OBVIOUS
<1> QED BY <1>1, <1>2, <1>3

(* ... and with one more at the end.                                       *)
LEMMA AppendPlaces ==
  ASSUME NEW S, NEW s \in Seq(S), NEW e \in S
  PROVE  /\ Append(s, e) \in Seq(S) /\ Len(Append(s, e)) = Len(s) + 1 /\ Len(s) \in Nat
         /\ Append(s, e)[Len(s) + 1] = e
         /\ \A i \in 1..Len(s) : Append(s, e)[i] = s[i]
         /\ \A i \in 1..(Len(s) + 1) : i = Len(s) + 1 \/ i \in 1..Len(s)
BY AppendProperties, LenProperties

(* The order of the writes, step by step.                                  *)
LEMMA NextOrder == ASSUME IInv, QueueInv, OrderInv, [Next]_vars PROVE OrderInv'
<1>0. /\ sent \in Nat /\ sent + 1 \in Nat /\ writes \subseteq 1..sent /\ pending \in Seq(writes) /\ log \in Seq(Entries)
      /\ Len(log) \in Nat /\ Len(pending) \in Nat /\ writing \in [Writers -> Entries]
      /\ Op \in Writers /\ Callers \subseteq Writers /\ Callers \subseteq Nat
  BY LenProperties, TheWriters DEF QueueInv, Placed, QueuesIn, IInv, StoreType, Callers
<1>s. sent' = sent \/ sent' = sent + 1
  BY SentSteps
<1>w. /\ \A n \in 0..sent : n \in 0..sent' /\ (n \in writes' <=> n \in writes)
      /\ \A n \in writes : n \in 0..sent
  <2>1. writes' = writes \/ writes' = writes \cup {sent + 1}
    BY SentSteps
  <2>2. \A n \in 0..sent : n # sent + 1
    BY <1>0
  <2>3. \A n \in 0..sent : n \in 0..sent'
    BY <1>0, <1>s
  <2> QED BY <1>0, <2>1, <2>2, <2>3
<1>h. held \subseteq held'
  BY HeldSteps
<1>p. \A i \in 1..Len(pending) : pending[i] \in writes
  BY <1>0
<1>l. /\ \A a \in 1..Len(log) : log[a].item \in 0..sent
      /\ \A a \in 1..Len(log), i \in 1..Len(pending) :
           log[a].item \in writes => log[a].item < pending[i] \/ pending[i] \in held
      /\ \A i, j \in 1..Len(pending) : i < j => pending[i] < pending[j]
      /\ \A a, b \in 1..Len(log) :
           a < b /\ log[a].item \in writes /\ log[b].item \in writes /\ log[b].item < log[a].item
             => log[b].item \in held \/ (a \in crossed /\ b \in crossed)
  BY DEF OrderInv, Lines, WritesInOrder
<1>c. crossed \subseteq crossed'
  BY CrossedSteps
(* An entry that is appended. *)
<1>a. ASSUME NEW e \in Entries, log' = Append(log, e), e.item \in 0..sent,
             e.item \in writes => \A a \in 1..Len(log) : log[a].item \in writes /\ e.item < log[a].item
                                     => e.item \in held \/ (a \in crossed' /\ Len(log) + 1 \in crossed')
      PROVE  /\ WritesInOrder' /\ \A a \in 1..Len(log') : log'[a].item \in 0..sent'
             /\ \A a \in 1..Len(log') : (a \in 1..Len(log) /\ log'[a] = log[a]) \/ log'[a] = e
  <2>1. /\ Len(log') = Len(log) + 1 /\ log'[Len(log) + 1] = e
        /\ \A a \in 1..Len(log) : log'[a] = log[a]
        /\ \A a \in 1..Len(log') : a = Len(log) + 1 \/ a \in 1..Len(log)
    BY <1>0, <1>a, AppendPlaces
  <2>2. \A a \in 1..Len(log') : log'[a].item \in 0..sent
    BY <1>a, <1>l, <2>1
  <2>3. ASSUME NEW a \in 1..Len(log'), NEW b \in 1..Len(log'), a < b,
               log'[a].item \in writes', log'[b].item \in writes', log'[b].item < log'[a].item
        PROVE  log'[b].item \in held' \/ (a \in crossed' /\ b \in crossed')
    <3>1. a \in 1..Len(log)
      BY <1>0, <2>1, <2>3
    <3>2. log'[a].item \in writes /\ log'[b].item \in writes
      BY <1>w, <2>2, <2>3
    <3>3. CASE b \in 1..Len(log)
      BY <1>c, <1>h, <1>l, <2>1, <2>3, <3>1, <3>2, <3>3
    <3>4. CASE b = Len(log) + 1
      <4>1. e.item < log[a].item /\ log'[b] = e
        BY <2>1, <2>3, <3>1, <3>4
      <4>2. e.item \in held \/ (a \in crossed' /\ b \in crossed')
        BY <1>a, <2>1, <3>1, <3>2, <3>4, <4>1
      <4> QED BY <1>h, <4>1, <4>2
    <3> QED BY <2>1, <3>3, <3>4
  <2> QED BY <1>w, <2>1, <2>2, <2>3 DEF WritesInOrder
<1>1. Lines' /\ WritesInOrder'
  <2>1. CASE log' = log
    <3>1. WritesInOrder' /\ \A a \in 1..Len(log') : log'[a].item \in 0..sent'
      BY <1>c, <1>h, <1>l, <1>w, <2>1 DEF WritesInOrder
    <3>2. CASE pending' = pending
      BY <1>h, <1>l, <1>w, <2>1, <3>1, <3>2 DEF Lines
    <3>3. CASE AppendMessage /\ pending' = Append(pending, sent + 1)
      <4>1. /\ Len(pending') = Len(pending) + 1 /\ pending'[Len(pending) + 1] = sent + 1
            /\ \A i \in 1..Len(pending) : pending'[i] = pending[i]
            /\ \A i \in 1..Len(pending') : i = Len(pending) + 1 \/ i \in 1..Len(pending)
        <5>1. pending \in Seq(Nat) /\ sent + 1 \in Nat
          BY <1>0 DEF IInv, QueueType, Queue
        <5> QED BY <3>3, <5>1, AppendPlaces
      <4>2. \A n \in 0..sent : n < sent + 1
        BY <1>0
      <4>3. ASSUME NEW a \in 1..Len(log'), NEW i \in 1..Len(pending'), log'[a].item \in writes'
            PROVE  log'[a].item < pending'[i] \/ pending'[i] \in held'
        BY <1>h, <1>l, <1>w, <2>1, <4>1, <4>2, <4>3
      <4>4. ASSUME NEW i \in 1..Len(pending'), NEW j \in 1..Len(pending'), i < j
            PROVE  pending'[i] < pending'[j]
        <5>1. i \in 1..Len(pending)
          BY <1>0, <4>1, <4>4
        <5>2. CASE j \in 1..Len(pending)
          BY <1>l, <4>1, <4>4, <5>1, <5>2
        <5>3. CASE j = Len(pending) + 1
          BY <1>p, <1>w, <4>1, <4>2, <5>1, <5>3
        <5> QED BY <4>1, <5>2, <5>3
      <4> QED BY <3>1, <4>3, <4>4 DEF Lines
    <3>4. CASE Flushing /\ EndWrite(Op)
      <4>1. Len(Append(log, writing[Op])) = Len(log) + 1
        BY <1>0, AppendPlaces
      <4> QED BY <1>0, <2>1, <3>4, <4>1 DEF EndWrite
    <3>5. CASE EndWrite(Op) \/ \E w \in Callers : EndWrite(w)
      <4>1. \A w \in Writers : Len(Append(log, writing[w])) = Len(log) + 1
        BY <1>0, AppendPlaces
      <4> QED BY <1>0, <2>1, <3>5, <4>1 DEF EndWrite
    <3> QED BY <3>2, <3>3, <3>4, <3>5, LogSteps
  <2>2. CASE EndWrite(Op) /\ ~Flushing /\ pending' = pending
    <3> DEFINE e == writing[Op]
    <3>1. e \in Entries /\ log' = Append(log, e) /\ Writes(Op)
      BY <1>0, <2>2 DEF EndWrite
    <3>2. e.item \in 0..sent /\ e.item \notin writes
      <4>1. e.item = IF pc \in {"prompting", "recording"} THEN Head(inbox) ELSE 0
        BY <2>2, <3>1 DEF QueueInv, Carries
      <4>2. 0 \in 0..sent /\ 0 \notin writes
        BY <1>0
      <4>3. pc \in {"prompting", "recording"} => Head(inbox) \in Messages
        <5>1. pc \in {"prompting", "recording"} => inbox # <<>>
          BY DEF IInv, Holds
        <5> QED BY <5>1, HeadTailProperties DEF QueueInv, Placed, QueuesIn
      <4>4. \A n \in Messages : n \in 0..sent /\ n \notin writes
        BY <1>0 DEF Messages
      <4> QED BY <4>1, <4>2, <4>3, <4>4
    <3> HIDE DEF e
    <3>3. /\ WritesInOrder' /\ \A a \in 1..Len(log') : log'[a].item \in 0..sent'
          /\ \A a \in 1..Len(log') : (a \in 1..Len(log) /\ log'[a] = log[a]) \/ log'[a] = e
      BY <1>a, <3>1, <3>2
    <3>4. ASSUME NEW a \in 1..Len(log'), NEW i \in 1..Len(pending), log'[a].item \in writes'
          PROVE  log'[a].item < pending[i] \/ pending[i] \in held'
      BY <1>h, <1>l, <1>w, <3>2, <3>3, <3>4
    <3> QED BY <1>l, <2>2, <3>3, <3>4 DEF Lines
  <2>3. CASE EndWrite(Op) /\ Flushing /\ pending' = Tail(pending)
    <3> DEFINE e == writing[Op]
    <3>1. e \in Entries /\ log' = Append(log, e) /\ Writes(Op)
      BY <1>0, <2>3 DEF EndWrite
    <3>2. pending # <<>>
      BY <2>3, <3>1 DEF IInv, Holds, Flushing
    <3>3. /\ Head(pending) = pending[1] /\ 1 \in 1..Len(pending)
          /\ \A i \in 1..Len(Tail(pending)) : Tail(pending)[i] = pending[i + 1] /\ i + 1 \in 1..Len(pending)
      BY <1>0, <3>2, TailPlaces
    <3>4. e.item = pending[1]
      BY <2>3, <3>1, <3>3 DEF QueueInv, Carries, Flushing
    <3>5. e.item \in 0..sent /\ e.item \in writes
      BY <1>p, <1>w, <3>3, <3>4
    <3> HIDE DEF e
    <3>6. /\ WritesInOrder' /\ \A a \in 1..Len(log') : log'[a].item \in 0..sent'
          /\ \A a \in 1..Len(log') : (a \in 1..Len(log) /\ log'[a] = log[a]) \/ log'[a] = e
      <4>1. \A a \in 1..Len(log) : log[a].item \in writes /\ e.item < log[a].item => e.item \in held
        <5> SUFFICES ASSUME NEW a \in 1..Len(log), log[a].item \in writes, e.item < log[a].item
                     PROVE  e.item \in held
          OBVIOUS
        <5>1. log[a].item < e.item \/ e.item \in held
          BY <1>l, <3>3, <3>4
        <5>2. log[a].item \in 0..sent
          BY <1>l
        <5> QED BY <1>0, <3>5, <5>1, <5>2
      <4> QED BY <1>a, <3>1, <3>5, <4>1
    <3>7. ASSUME NEW a \in 1..Len(log'), NEW i \in 1..Len(Tail(pending)), log'[a].item \in writes'
          PROVE  log'[a].item < Tail(pending)[i] \/ Tail(pending)[i] \in held'
      <4>1. Tail(pending)[i] = pending[i + 1] /\ i + 1 \in 1..Len(pending) /\ 1 < i + 1
        BY <3>3
      <4>2. CASE a \in 1..Len(log) /\ log'[a] = log[a]
        BY <1>h, <1>l, <1>w, <3>7, <4>1, <4>2
      <4>3. CASE log'[a] = e
        BY <1>l, <3>3, <3>4, <4>1, <4>3
      <4> QED BY <3>6, <4>2, <4>3
    <3>8. ASSUME NEW i \in 1..Len(Tail(pending)), NEW j \in 1..Len(Tail(pending)), i < j
          PROVE  Tail(pending)[i] < Tail(pending)[j]
      <4>1. i + 1 < j + 1
        BY <3>8
      <4> QED BY <1>l, <3>3, <4>1
    <3> QED BY <2>3, <3>6, <3>7, <3>8 DEF Lines
  <2>4. ASSUME NEW w \in Callers, EndWrite(w), pending' = pending PROVE Lines' /\ WritesInOrder'
    <3> DEFINE e == writing[w]
    <3>1. e \in Entries /\ log' = Append(log, e) /\ Writes(w)
      BY <1>0, <2>4 DEF EndWrite
    <3>2. e.item = w /\ phase = "idle"
      BY <3>1 DEF IInv, OneWriter
    <3>3. w \in writes /\ \A i \in 1..Len(pending) : pending[i] \in held
      BY <3>1, <3>2 DEF OrderInv, HandInv
    <3>4. w \in 0..sent
      BY <1>w, <3>3
    <3>5. \A a \in 1..Len(log) : log[a].item \in writes /\ w < log[a].item => a \in crossed' /\ Len(log) + 1 \in crossed'
      <4>1. w \in met => Len(log) + 1 \in crossed'
        BY <2>4 DEF EndWrite
      <4> QED BY <1>c, <3>1, <4>1 DEF OrderInv, HandInv
    <3> HIDE DEF e
    <3>6. WritesInOrder' /\ \A a \in 1..Len(log') : log'[a].item \in 0..sent'
      BY <1>a, <3>1, <3>2, <3>4, <3>5
    <3> QED BY <1>h, <1>l, <2>4, <3>3, <3>6 DEF Lines
  <2> QED BY <2>1, <2>2, <2>3, <2>4, LogSteps
<1>2. HandInv'
  <2>1. ASSUME phase' = "idle" PROVE \A i \in 1..Len(pending') : pending'[i] \in held'
    <3>1. CASE phase = "idle" /\ pending' = pending
      BY <1>h, <3>1 DEF OrderInv, HandInv
    <3>2. CASE pending' = <<>>
      BY <3>2
    <3>3. CASE pending' = pending /\ ToSet(pending) \subseteq held'
      <4>1. \A i \in 1..Len(pending) : pending[i] \in ToSet(pending)
        BY <1>0 DEF ToSet
      <4> QED BY <3>3, <4>1
    <3>4. CASE phase = "idle" /\ Flushed
      <4>1. pending' = Tail(pending) /\ Flushing /\ Writes(Op)
        BY <3>4 DEF Flushed, EndWrite
      <4>2. pending # <<>>
        BY <4>1 DEF IInv, Holds, Flushing
      <4>3. \A i \in 1..Len(Tail(pending)) : Tail(pending)[i] = pending[i + 1] /\ i + 1 \in 1..Len(pending)
        BY <1>0, <4>2, TailPlaces
      <4> QED BY <1>h, <3>4, <4>1, <4>3 DEF OrderInv, HandInv
    <3> QED BY <2>1, <3>1, <3>2, <3>3, <3>4, PhaseSteps
  <2>2. ASSUME NEW w \in Callers, Writes(w)'
        PROVE  /\ w \in writes'
               /\ \A a \in 1..Len(log') : log'[a].item \in writes' /\ w < log'[a].item => a \in crossed' /\ w \in met'
    <3>1. CASE Writes(w) /\ writing'[w] = writing[w]
      <4>1. /\ w \in writes
            /\ \A a \in 1..Len(log) : log[a].item \in writes /\ w < log[a].item => a \in crossed /\ w \in met
        BY <3>1 DEF OrderInv, HandInv
      <4>2. w \in writes'
        BY <1>w, <4>1
      <4>3. \A v \in Writers : EndWrite(v) \/ FailWrite(v) => v # w
        BY <2>2, EndKeeps, FailKeeps
      <4>4. w \in met => w \in met'
        BY <1>0, <4>3, MetSteps
      <4>5. \A a \in 1..Len(log) : log[a].item \in writes' /\ w < log[a].item => a \in crossed' /\ w \in met'
        BY <1>c, <1>l, <1>w, <4>1, <4>4
      <4>6. CASE log' = log
        BY <4>2, <4>5, <4>6
      <4>7. ASSUME NEW v \in Writers, EndWrite(v)
            PROVE  \A a \in 1..Len(log') : log'[a].item \in writes' /\ w < log'[a].item => a \in crossed' /\ w \in met'
        <5>1. v # w /\ Writes(v)
          BY <4>3, <4>7 DEF EndWrite
        <5>2. v \in met /\ w \in met
          BY <1>0, <3>1, <5>1 DEF IInv, Alone
        <5>3. Len(log) + 1 \in crossed' /\ w \in met'
          BY <4>4, <4>7, <5>2 DEF EndWrite
        <5>4. /\ \A a \in 1..Len(log) : log'[a] = log[a]
              /\ \A a \in 1..Len(log') : a = Len(log) + 1 \/ a \in 1..Len(log)
          BY <1>0, <4>7, AppendPlaces DEF EndWrite
        <5> QED BY <4>5, <5>3, <5>4
      <4> QED BY <1>0, <4>2, <4>6, <4>7, LogSteps
    <3>2. CASE AppendMessage /\ phase = "idle" /\ w = sent + 1 /\ UNCHANGED <<log, crossed>>
      <4>1. sent + 1 \in writes'
        BY <3>2 DEF AppendMessage
      <4>2. \A n \in 0..sent : ~(sent + 1 < n)
        BY <1>0
      <4> QED BY <1>l, <3>2, <4>1, <4>2
    <3> QED BY <2>2, <3>1, <3>2, ClientNext
  <2> QED BY <2>1, <2>2 DEF HandInv
<1> QED BY <1>1, <1>2 DEF OrderInv

(* Messages wait in the queues for messages and writes among the writes,   *)
(* the inbox is in use only while a run takes it in, and what is being     *)
(* appended is still the head of its queue.                                *)
THEOREM QueueInvariance == Spec => [](IInv /\ QueueInv)
<1>1. Init => QueueInv
  <2> SUFFICES ASSUME Init PROVE QueueInv
    OBVIOUS
  <2>1. Placed
    BY QueueOps DEF Init, Placed, QueuesIn, SeqOps
  <2>2. InboxInv /\ Carries
    BY DEF Init, InboxInv, Carries, Writes, Writers
  <2> QED BY <2>1, <2>2 DEF QueueInv
<1>2. IInv /\ QueueInv /\ [Next]_vars => QueueInv'
  BY NextPlaced, NextInbox, NextCarries DEF QueueInv
<1> QED BY <1>1, <1>2, Invariance, PTL DEF Spec

(* Nothing has been written yet.                                            *)
LEMMA InitOrder == ASSUME Init PROVE OrderInv
<1>1. \A w \in Callers : ~Writes(w)
  BY TheWriters DEF Init, Writes
<1> QED BY <1>1 DEF Init, OrderInv, Lines, HandInv, WritesInOrder

(* WritesInOrder: session writes reach the session in the order they were  *)
(* asked for, through any number of operations, save points, failed        *)
(* flushes and rejections; only one left over when an operation ended can  *)
(* be overtaken, and an idle write by another under way with it.           *)
THEOREM WritesKeepOrder == Spec => []WritesInOrder
<1>1. Init => OrderInv
  BY InitOrder
<1>2. IInv /\ QueueInv /\ OrderInv /\ [Next]_vars => OrderInv'
  BY NextOrder
<1>3. OrderInv => WritesInOrder
  BY DEF OrderInv
<1> QED BY <1>1, <1>2, <1>3, QueueInvariance, PTL DEF Spec

-----------------------------------------------------------------------------
(* Where an item is                                                        *)

EntriesOf(i) == {e \in Entries : e.item = i}
InHand(i)    == IF i \in Callers /\ Writes(i) THEN 1 ELSE 0
Returned(i)  == IF i \in returned THEN 1 ELSE 0
Lost(i)      == IF i \in lost THEN 1 ELSE 0

(* The places of an item, counted.                                          *)
Total(i) ==
  Count({i}, inbox) + Count({i}, steering) + Count({i}, followUp) + Count({i}, nextTurn)
    + Count({i}, pending) + Count(EntriesOf(i), log) + InHand(i) + Returned(i) + Lost(i)

Once(i) == Total(i) = IF i <= sent THEN 1 ELSE 0

Conserved == \A i \in Nat \ {0} : Once(i)

(* What the operations on a queue do to the count of an item.               *)
CountOps(i) ==
  /\ Count({i}, <<>>) = 0
  /\ \A n : Count({i}, <<n>>) = IF n = i THEN 1 ELSE 0
  /\ \A s \in Queue, n \in Nat : Count({i}, Append(s, n)) = Count({i}, s) + (IF n = i THEN 1 ELSE 0)
  /\ \A s, t \in Queue : Count({i}, s \o t) = Count({i}, s) + Count({i}, t)
  /\ \A s \in Queue : s # <<>> =>
       /\ Count({i}, s) = (IF Head(s) = i THEN 1 ELSE 0) + Count({i}, Tail(s))
       /\ Count({i}, s) = Count({i}, Front(s)) + (IF Last(s) = i THEN 1 ELSE 0)
  /\ \A s \in Queue : Count({i}, s) \in Nat /\ (i \in ToSet(s) <=> Count({i}, s) # 0)

(* A sequence is its front followed by its last element.                   *)
LEMMA FrontAndLast ==
  ASSUME NEW S, NEW s \in Seq(S), s # <<>>
  PROVE  s = Front(s) \o <<Last(s)>> /\ Front(s) \in Seq(S) /\ Last(s) \in S
<1>1. Len(s) \in Nat \ {0}
  BY EmptySeq
<1>2. 1 \in 1..Len(s) /\ Len(s) \in 1..Len(s)
  BY <1>1
<1>3. SubSeq(s, 1, Len(s)) = SubSeq(s, 1, Len(s) - 1) \o <<s[Len(s)]>>
  BY <1>2, SubSeqRecursiveSecond
<1>4. SubSeq(s, 1, Len(s)) = s
  BY SubSeqFull
<1>5. Front(s) \in Seq(S)
  BY QueueOps DEF SeqOps
<1>6. s[Len(s)] \in S
  BY <1>2, ElementOfSeq
<1> QED BY <1>3, <1>4, <1>5, <1>6 DEF Front, Last

(* The counts of one message, in the form the cases below use.              *)
LEMMA Counting == ASSUME NEW i PROVE CountOps(i)
<1>1. Count({i}, <<>>) = 0
  BY CountEmpty
<1>2. \A n : Count({i}, <<n>>) = IF n = i THEN 1 ELSE 0
  <2> TAKE n
  <2>1. Count({i}, <<n>>) = IF n \in {i} THEN 1 ELSE 0
    BY CountOne
  <2> QED BY <2>1
<1>3. \A s \in Queue, n \in Nat : Count({i}, Append(s, n)) = Count({i}, s) + (IF n = i THEN 1 ELSE 0)
  <2> TAKE s \in Queue, n \in Nat
  <2>1. Count({i}, Append(s, n)) = Count({i}, s) + (IF n \in {i} THEN 1 ELSE 0)
    BY CountAppend DEF Queue
  <2> QED BY <2>1
<1>4. \A s, t \in Queue : Count({i}, s \o t) = Count({i}, s) + Count({i}, t)
  BY CountConcat DEF Queue
<1>5. ASSUME NEW s \in Queue, s # <<>>
      PROVE  /\ Count({i}, s) = (IF Head(s) = i THEN 1 ELSE 0) + Count({i}, Tail(s))
             /\ Count({i}, s) = Count({i}, Front(s)) + (IF Last(s) = i THEN 1 ELSE 0)
  <2>1. Count({i}, s) = (IF Head(s) \in {i} THEN 1 ELSE 0) + Count({i}, Tail(s))
    BY <1>5, CountTail DEF Queue
  <2>2. s = Front(s) \o <<Last(s)>> /\ Front(s) \in Queue /\ <<Last(s)>> \in Queue
    <3>1. s = Front(s) \o <<Last(s)>> /\ Front(s) \in Seq(Nat) /\ Last(s) \in Nat
      BY <1>5, FrontAndLast DEF Queue
    <3>2. <<Last(s)>> \in Seq(Nat)
      BY <3>1
    <3> QED BY <3>1, <3>2 DEF Queue
  <2>3. Count({i}, s) = Count({i}, Front(s)) + Count({i}, <<Last(s)>>)
    BY <1>4, <2>2
  <2> QED BY <1>2, <2>1, <2>3
<1>6. ASSUME NEW s \in Queue
      PROVE  Count({i}, s) \in Nat /\ (i \in ToSet(s) <=> Count({i}, s) # 0)
  <2>1. Count({i}, s) \in Nat /\ (Count({i}, s) = 0 <=> \A k \in 1..Len(s) : s[k] \notin {i})
    BY <1>6, CountNat DEF Queue
  <2>2. i \in ToSet(s) <=> \E k \in 1..Len(s) : s[k] = i
    BY <1>6, LenProperties DEF Queue, ToSet
  <2> QED BY <2>1, <2>2
<1> QED BY <1>1, <1>2, <1>3, <1>4, <1>5, <1>6 DEF CountOps

(* The end of an append puts its item in the log.                           *)
LEMMA LogCounts ==
  ASSUME IInv, NEW i
  PROVE  /\ Count(EntriesOf(i), log) \in Nat
         /\ \A w \in Writers : EndWrite(w) =>
              Count(EntriesOf(i), log') = Count(EntriesOf(i), log) + (IF writing[w].item = i THEN 1 ELSE 0)
<1>1. log \in Seq(Entries) /\ \A w \in Writers : writing[w] \in Entries
  BY DEF IInv, StoreType
<1>2. Count(EntriesOf(i), log) \in Nat
  BY <1>1, CountNat
<1>3. ASSUME NEW w \in Writers, EndWrite(w)
      PROVE  Count(EntriesOf(i), log') = Count(EntriesOf(i), log) + (IF writing[w].item = i THEN 1 ELSE 0)
  <2>1. Count(EntriesOf(i), Append(log, writing[w]))
          = Count(EntriesOf(i), log) + (IF writing[w] \in EntriesOf(i) THEN 1 ELSE 0)
    BY <1>1, CountAppend
  <2>2. writing[w] \in EntriesOf(i) <=> writing[w].item = i
    BY <1>1 DEF EntriesOf
  <2>3. log' = Append(log, writing[w])
    BY <1>3 DEF EndWrite
  <2> QED BY <2>1, <2>2, <2>3
<1> QED BY <1>2, <1>3

(* What is with a client changes with a step of that client only.           *)
LEMMA HandSteps ==
  ASSUME IInv, NEW i
  PROVE  /\ \A item, to : StartWrite(Op, item, to) => InHand(i)' = InHand(i)
         /\ EndWrite(Op) \/ FailWrite(Op) \/ UNCHANGED store => InHand(i)' = InHand(i)
<1>1. /\ Op \in Writers /\ writing \in [Writers -> Entries]
      /\ \A w \in Callers : w \in Writers /\ w # Op
  BY TheWriters DEF IInv, StoreType
<1>2. (\A w \in Callers : writing'[w] = writing[w]) => InHand(i)' = InHand(i)
  BY DEF InHand, Writes
<1> QED BY <1>1, <1>2 DEF StartWrite, EndWrite, FailWrite, store

(* The counts that a step of an operation with the session leaves alone.    *)
AsideUnchanged == UNCHANGED <<steering, followUp, nextTurn, returned, sent>>

(* They count the same afterwards.                                         *)
LEMMA AsideOnce ==
  ASSUME NEW i, AsideUnchanged
  PROVE  /\ Count({i}, steering') = Count({i}, steering) /\ Count({i}, followUp') = Count({i}, followUp)
         /\ Count({i}, nextTurn') = Count({i}, nextTurn) /\ Returned(i)' = Returned(i) /\ sent' = sent
BY DEF AsideUnchanged, Returned

(* A step that moves nothing.                                               *)
LEMMA StillOnce ==
  ASSUME NEW i, Once(i), AsideUnchanged, UNCHANGED <<inbox, pending, log, lost>>, InHand(i)' = InHand(i)
  PROVE  Once(i)'
BY AsideOnce DEF Once, Total, Lost

(* An answer, a summary, a leaf entry: the append is none of an item.       *)
LEMMA AnswerOnce ==
  ASSUME IInv, NEW i \in Nat \ {0}, Once(i), AsideUnchanged, UNCHANGED <<inbox, pending, lost>>,
         EndWrite(Op), writing[Op].item = 0
  PROVE  Once(i)'
<1>1. Count(EntriesOf(i), log') = Count(EntriesOf(i), log)
  <2>1. Op \in Writers
    BY DEF Writers
  <2>2. /\ Count(EntriesOf(i), log) \in Nat
        /\ Count(EntriesOf(i), log') = Count(EntriesOf(i), log) + (IF writing[Op].item = i THEN 1 ELSE 0)
    BY <2>1, LogCounts
  <2> QED BY <2>2
<1>2. InHand(i)' = InHand(i)
  BY HandSteps
<1> QED BY <1>1, <1>2, AsideOnce DEF Once, Total, Lost

(* Each place holds a number, and together at most one.                     *)
LEMMA Terms ==
  ASSUME IInv, NEW i, Once(i)
  PROVE  /\ Count({i}, inbox) \in Nat /\ Count({i}, steering) \in Nat /\ Count({i}, followUp) \in Nat
         /\ Count({i}, nextTurn) \in Nat /\ Count({i}, pending) \in Nat /\ Count(EntriesOf(i), log) \in Nat
         /\ InHand(i) \in 0..1 /\ Returned(i) \in 0..1 /\ Lost(i) \in 0..1
         /\ Total(i) <= 1
<1>1. /\ Count({i}, inbox) \in Nat /\ Count({i}, steering) \in Nat /\ Count({i}, followUp) \in Nat
      /\ Count({i}, nextTurn) \in Nat /\ Count({i}, pending) \in Nat
  BY Counting DEF CountOps, IInv, QueueType
<1>2. Count(EntriesOf(i), log) \in Nat
  BY LogCounts
<1>3. InHand(i) \in 0..1 /\ Returned(i) \in 0..1 /\ Lost(i) \in 0..1
  BY DEF InHand, Returned, Lost
<1>4. Total(i) <= 1
  BY DEF Once
<1> QED BY <1>1, <1>2, <1>3, <1>4

(* An error inside the run: what the run has taken is lost.                 *)
LEMMA RaiseOnce ==
  ASSUME IInv, NEW i \in Nat \ {0}, Once(i), Raise, AsideUnchanged, UNCHANGED <<pending, log>>,
         InHand(i)' = InHand(i)
  PROVE  Once(i)'
<1>1. inbox \in Queue /\ inbox' = <<>> /\ lost' = lost \cup ToSet(inbox)
  BY DEF IInv, QueueType, Raise
<1>2. Count({i}, inbox') = 0 /\ (i \in ToSet(inbox) <=> Count({i}, inbox) # 0)
  BY <1>1, Counting DEF CountOps
<1>3. /\ Count({i}, inbox) \in Nat /\ Count({i}, steering) \in Nat /\ Count({i}, followUp) \in Nat
      /\ Count({i}, nextTurn) \in Nat /\ Count({i}, pending) \in Nat /\ Count(EntriesOf(i), log) \in Nat
      /\ InHand(i) \in 0..1 /\ Returned(i) \in 0..1 /\ Lost(i) \in 0..1
      /\ Total(i) <= 1
  BY Terms
<1>4. Lost(i)' = IF Count({i}, inbox) # 0 THEN 1 ELSE Lost(i)
  BY <1>1, <1>2 DEF Lost
<1>5. Lost(i)' = Count({i}, inbox) + Lost(i)
  BY <1>3, <1>4 DEF Total
<1> QED BY <1>2, <1>3, <1>5, AsideOnce DEF Once, Total

(* A prompt that rejects before its run.                                    *)
LEMMA RejectOnce ==
  ASSUME IInv, NEW i \in Nat \ {0}, Once(i), NEW back \in Queue, NEW gone \in Queue,
         PromptRejects(back, gone),
         Count({i}, inbox) = Count({i}, back) + Count({i}, gone) + (IF Last(inbox) = i THEN 1 ELSE 0)
  PROVE  Once(i)'
<1>1. /\ UNCHANGED <<steering, followUp, pending, log, writing, sent>>
      /\ inbox' = <<>> /\ nextTurn' = back \o nextTurn
      /\ returned' = returned \cup {Last(inbox)} /\ lost' = lost \cup ToSet(gone)
  BY DEF PromptRejects, store
<1>2. /\ Count({i}, inbox') = 0 /\ Count({i}, nextTurn') = Count({i}, back) + Count({i}, nextTurn)
      /\ (i \in ToSet(gone) <=> Count({i}, gone) # 0)
      /\ Count({i}, back) \in Nat /\ Count({i}, gone) \in Nat
  <2>1. nextTurn \in Queue
    BY DEF IInv, QueueType
  <2>2. CountOps(i)
    BY Counting
  <2>3. Count({i}, back \o nextTurn) = Count({i}, back) + Count({i}, nextTurn)
    BY <2>1, <2>2 DEF CountOps
  <2>4. Count({i}, inbox') = 0 /\ Count({i}, nextTurn') = Count({i}, back) + Count({i}, nextTurn)
    BY <1>1, <2>2, <2>3 DEF CountOps
  <2> QED BY <2>2, <2>4 DEF CountOps
<1>3. /\ Count({i}, inbox) \in Nat /\ Count({i}, steering) \in Nat /\ Count({i}, followUp) \in Nat
      /\ Count({i}, nextTurn) \in Nat /\ Count({i}, pending) \in Nat /\ Count(EntriesOf(i), log) \in Nat
      /\ InHand(i) \in 0..1 /\ Returned(i) \in 0..1 /\ Lost(i) \in 0..1
      /\ Total(i) <= 1
  BY Terms
<1>4. Lost(i)' = IF Count({i}, gone) # 0 THEN 1 ELSE Lost(i)
  BY <1>1, <1>2 DEF Lost
<1>5. Returned(i)' = IF Last(inbox) = i THEN 1 ELSE Returned(i)
  BY <1>1 DEF Returned
<1>6. Lost(i)' = Count({i}, gone) + Lost(i)
  BY <1>2, <1>3, <1>4 DEF Total
<1>7. Returned(i)' = (IF Last(inbox) = i THEN 1 ELSE 0) + Returned(i)
  BY <1>2, <1>3, <1>5 DEF Total
<1>8. /\ Count({i}, steering') = Count({i}, steering) /\ Count({i}, followUp') = Count({i}, followUp)
      /\ Count({i}, pending') = Count({i}, pending) /\ Count(EntriesOf(i), log') = Count(EntriesOf(i), log)
      /\ InHand(i)' = InHand(i)
  BY <1>1 DEF InHand, Writes
<1>9. Total(i)' = Total(i)
  BY <1>2, <1>3, <1>6, <1>7, <1>8 DEF Total
<1> QED BY <1>1, <1>9 DEF Once

(* What a client hands over gets its first place.                           *)
LEMMA AcceptOnce ==
  ASSUME IInv, QueueInv, NEW i \in Nat \ {0}, Once(i),
         Prompt \/ Steer \/ NextTurn \/ AppendMessage
  PROVE  Once(i)'
<1>0. /\ inbox \in Queue /\ steering \in Queue /\ followUp \in Queue /\ nextTurn \in Queue
      /\ pending \in Queue /\ sent \in Nat /\ sent + 1 \in Nat /\ CountOps(i)
  BY Counting DEF IInv, QueueType, QueueInv, Placed
<1>n. /\ Count({i}, inbox) \in Nat /\ Count({i}, steering) \in Nat /\ Count({i}, followUp) \in Nat
      /\ Count({i}, nextTurn) \in Nat /\ Count({i}, pending) \in Nat /\ Count(EntriesOf(i), log) \in Nat
      /\ InHand(i) \in 0..1 /\ Returned(i) \in 0..1 /\ Lost(i) \in 0..1
      /\ Total(i) <= 1
  BY Terms
<1>d. PICK d \in 0..1 : d = IF sent + 1 = i THEN 1 ELSE 0
  OBVIOUS
<1>s. sent' = sent + 1 /\ UNCHANGED <<log, returned, lost>>
  BY DEF Prompt, Steer, NextTurn, AppendMessage, Accept, fates, store, StartWrite
<1>t. Returned(i)' = Returned(i) /\ Lost(i)' = Lost(i) /\ Count(EntriesOf(i), log') = Count(EntriesOf(i), log)
  BY <1>s DEF Returned, Lost
<1>a. \A q \in Queue : Count({i}, Append(q, sent + 1)) = Count({i}, q) + d
  BY <1>0, <1>d DEF CountOps
<1>e. Total(i)' = Total(i) + d => Once(i)'
  BY <1>0, <1>d, <1>s DEF Once
<1>1. CASE Prompt
  <2>1. inbox = <<>> /\ inbox' = <<sent + 1>> /\ UNCHANGED <<steering, followUp, nextTurn, pending, store>>
    BY <1>1 DEF Prompt, Quiet, QueueInv, InboxInv, queues
  <2>2. Count({i}, inbox) = 0 /\ Count({i}, inbox') = d
    BY <1>0, <1>d, <2>1 DEF CountOps
  <2>3. InHand(i)' = InHand(i)
    BY <2>1, HandSteps
  <2>4. Total(i)' = Total(i) + d
    <3>1. /\ Count({i}, steering') = Count({i}, steering) /\ Count({i}, followUp') = Count({i}, followUp)
          /\ Count({i}, nextTurn') = Count({i}, nextTurn) /\ Count({i}, pending') = Count({i}, pending)
      BY <2>1
    <3> QED BY <1>d, <1>n, <1>t, <2>2, <2>3, <3>1 DEF Total
  <2> QED BY <1>e, <2>4
<1>2. CASE Steer
  <2>1. /\ UNCHANGED <<inbox, nextTurn, pending, store>>
        /\ \/ steering' = Append(steering, sent + 1) /\ UNCHANGED followUp
           \/ followUp' = Append(followUp, sent + 1) /\ UNCHANGED steering
    BY <1>2 DEF Steer, run
  <2>2. InHand(i)' = InHand(i)
    BY <2>1, HandSteps
  <2>3. /\ Count({i}, inbox') = Count({i}, inbox) /\ Count({i}, nextTurn') = Count({i}, nextTurn)
        /\ Count({i}, pending') = Count({i}, pending)
    BY <2>1
  <2>4. CASE steering' = Append(steering, sent + 1) /\ UNCHANGED followUp
    <3>1. Count({i}, steering') = Count({i}, steering) + d /\ Count({i}, followUp') = Count({i}, followUp)
      BY <1>0, <1>a, <2>4
    <3>2. Total(i)' = Total(i) + d
      BY <1>d, <1>n, <1>t, <2>2, <2>3, <3>1 DEF Total
    <3> QED BY <1>e, <3>2
  <2>5. CASE followUp' = Append(followUp, sent + 1) /\ UNCHANGED steering
    <3>1. Count({i}, followUp') = Count({i}, followUp) + d /\ Count({i}, steering') = Count({i}, steering)
      BY <1>0, <1>a, <2>5
    <3>2. Total(i)' = Total(i) + d
      BY <1>d, <1>n, <1>t, <2>2, <2>3, <3>1 DEF Total
    <3> QED BY <1>e, <3>2
  <2> QED BY <2>1, <2>4, <2>5
<1>3. CASE NextTurn
  <2>1. /\ UNCHANGED <<inbox, steering, followUp, pending, store>>
        /\ nextTurn' = Append(nextTurn, sent + 1)
    BY <1>3 DEF NextTurn, run
  <2>2. InHand(i)' = InHand(i)
    BY <2>1, HandSteps
  <2>3. Count({i}, nextTurn') = Count({i}, nextTurn) + d
    BY <1>0, <1>a, <2>1
  <2>4. /\ Count({i}, inbox') = Count({i}, inbox) /\ Count({i}, steering') = Count({i}, steering)
        /\ Count({i}, followUp') = Count({i}, followUp) /\ Count({i}, pending') = Count({i}, pending)
    BY <2>1
  <2>5. Total(i)' = Total(i) + d
    BY <1>d, <1>n, <1>t, <2>2, <2>3, <2>4 DEF Total
  <2> QED BY <1>e, <2>5
<1>4. CASE AppendMessage
  <2>1. UNCHANGED <<inbox, steering, followUp, nextTurn>>
    BY <1>4 DEF AppendMessage, run, queues
  <2>c. /\ Count({i}, inbox') = Count({i}, inbox) /\ Count({i}, steering') = Count({i}, steering)
        /\ Count({i}, followUp') = Count({i}, followUp) /\ Count({i}, nextTurn') = Count({i}, nextTurn)
    BY <2>1
  <2>2. CASE phase = "idle"
    <3>1. ~Writes(sent + 1) /\ StartWrite(sent + 1, sent + 1, Stay) /\ pending' = pending
      BY <1>4, <2>2 DEF AppendMessage, StartWrite
    <3>2. sent + 1 \in Callers /\ writing \in [Writers -> Entries] /\ Callers \subseteq Writers
      <4>1. sent < MaxItems
        BY <1>4 DEF AppendMessage, Accept
      <4>2. sent + 1 \in Callers
        BY <1>0, <4>1, HarnessAssumption DEF Callers
      <4> QED BY <4>2, TheWriters DEF IInv, StoreType
    <3>n. PICK n : n = sent + 1
      OBVIOUS
    <3>3. /\ writing'[n].item = n /\ n # -1 /\ ~Writes(n) /\ n \in Callers
          /\ \A w \in Callers : w # n => writing'[w] = writing[w]
      BY <1>0, <3>1, <3>2, <3>n DEF StartWrite
    <3>4. Writes(n)' /\ \A w \in Callers : w # n => Writes(w)' = Writes(w)
      BY <3>3 DEF Writes, Nobody
    <3>5. InHand(i)' = InHand(i) + d
      BY <1>d, <3>n, <3>3, <3>4 DEF InHand
    <3>6. Total(i)' = Total(i) + d
      BY <1>d, <1>n, <1>t, <2>c, <3>1, <3>5 DEF Total
    <3> QED BY <1>e, <3>6
  <2>3. CASE phase # "idle"
    <3>1. pending' = Append(pending, sent + 1) /\ UNCHANGED store
      BY <1>4, <2>3 DEF AppendMessage
    <3>2. InHand(i)' = InHand(i)
      BY <3>1, HandSteps
    <3>3. Count({i}, pending') = Count({i}, pending) + d
      BY <1>0, <1>a, <3>1
    <3>4. Total(i)' = Total(i) + d
      BY <1>d, <1>n, <1>t, <2>c, <3>2, <3>3 DEF Total
    <3> QED BY <1>e, <3>4
  <2> QED BY <2>2, <2>3
<1> QED BY <1>1, <1>2, <1>3, <1>4

(* The end of an idle write, and abort().                                   *)
LEMMA ClientOnce ==
  ASSUME IInv, NEW i \in Nat \ {0}, Once(i), AppendEnds \/ Abort
  PROVE  Once(i)'
<1>n. /\ Count({i}, inbox) \in Nat /\ Count({i}, steering) \in Nat /\ Count({i}, followUp) \in Nat
      /\ Count({i}, nextTurn) \in Nat /\ Count({i}, pending) \in Nat /\ Count(EntriesOf(i), log) \in Nat
      /\ InHand(i) \in 0..1 /\ Returned(i) \in 0..1 /\ Lost(i) \in 0..1
      /\ Total(i) <= 1
  BY Terms
<1>w. Callers \subseteq Writers /\ writing \in [Writers -> Entries]
  BY TheWriters DEF IInv, StoreType
<1>1. CASE AppendEnds
  <2>1. UNCHANGED <<inbox, steering, followUp, nextTurn, pending, sent, lost>>
    BY <1>1 DEF AppendEnds, run, queues
  <2>2. PICK w \in Callers :
          \/ EndWrite(w) /\ UNCHANGED <<events, returned>>
          \/ FailWrite(w) /\ returned' = returned \cup {w}
    BY <1>1 DEF AppendEnds
  <2>3. /\ w \in Writers /\ Writes(w) /\ ~Writes(w)' /\ writing[w].item = w
        /\ \A v \in Callers : v # w => Writes(v)' = Writes(v)
    <3>1. w \in Writers /\ Writes(w)
      BY <1>w, <2>2 DEF EndWrite, FailWrite
    <3>2. ~Writes(w)' /\ \A v \in Writers : v # w => writing'[v] = writing[v]
      BY <2>2, <3>1, EndKeeps, FailKeeps
    <3>3. writing[w].item = w
      BY <3>1 DEF IInv, OneWriter
    <3> QED BY <1>w, <3>1, <3>2, <3>3 DEF Writes
  <2>d. PICK d \in 0..1 : d = IF i = w THEN 1 ELSE 0
    OBVIOUS
  <2>h. InHand(i) = InHand(i)' + d
    BY <2>3, <2>d DEF InHand
  <2>4. CASE EndWrite(w) /\ UNCHANGED returned
    <3>1. Count(EntriesOf(i), log') = Count(EntriesOf(i), log) + d
      BY <2>3, <2>4, <2>d, LogCounts
    <3>2. InHand(i)' \in 0..1
      BY DEF InHand
    <3>3. Total(i)' = Total(i)
      BY <1>n, <2>1, <2>d, <2>h, <2>4, <3>1, <3>2 DEF Total, Returned, Lost
    <3> QED BY <2>1, <3>3 DEF Once
  <2>5. CASE FailWrite(w) /\ returned' = returned \cup {w}
    <3>0. InHand(i)' \in 0..1
      BY DEF InHand
    <3>1. Returned(i)' = IF d = 1 THEN 1 ELSE Returned(i)
      BY <2>5, <2>d DEF Returned
    <3>2. d = 1 => Returned(i) = 0
      BY <1>n, <2>h, <3>0 DEF Total
    <3>3. Returned(i)' = Returned(i) + d
      BY <1>n, <2>d, <3>1, <3>2
    <3>4. Count(EntriesOf(i), log') = Count(EntriesOf(i), log)
      BY <2>5 DEF FailWrite
    <3>5. Total(i)' = Total(i)
      BY <1>n, <2>1, <2>d, <2>h, <3>0, <3>3, <3>4 DEF Total, Lost
    <3> QED BY <2>1, <3>5 DEF Once
  <2> QED BY <2>2, <2>4, <2>5
<1>2. CASE Abort
  <2>1. /\ UNCHANGED <<inbox, nextTurn, pending, sent, lost, store>> /\ steering' = <<>> /\ followUp' = <<>>
        /\ returned' = returned \cup ToSet(steering) \cup ToSet(followUp)
        /\ steering \in Queue /\ followUp \in Queue /\ CountOps(i)
    BY <1>2, Counting DEF Abort, run, IInv, QueueType
  <2>2. /\ Count({i}, steering') = 0 /\ Count({i}, followUp') = 0
        /\ (i \in ToSet(steering) <=> Count({i}, steering) # 0)
        /\ (i \in ToSet(followUp) <=> Count({i}, followUp) # 0)
    BY <2>1 DEF CountOps
  <2>3. Returned(i)' = IF Count({i}, steering) # 0 \/ Count({i}, followUp) # 0 THEN 1 ELSE Returned(i)
    BY <2>1, <2>2 DEF Returned
  <2>4. Returned(i)' = Count({i}, steering) + Count({i}, followUp) + Returned(i)
    <3>1. Count({i}, steering) + Count({i}, followUp) + Returned(i) <= 1
      BY <1>n DEF Total
    <3>2. CASE Count({i}, steering) # 0
      <4>1. Count({i}, steering) = 1 /\ Count({i}, followUp) = 0 /\ Returned(i) = 0
        BY <1>n, <3>1, <3>2
      <4> QED BY <2>3, <4>1
    <3>3. CASE Count({i}, steering) = 0 /\ Count({i}, followUp) # 0
      <4>1. Count({i}, followUp) = 1 /\ Returned(i) = 0
        BY <1>n, <3>1, <3>3
      <4> QED BY <2>3, <3>3, <4>1
    <3>4. CASE Count({i}, steering) = 0 /\ Count({i}, followUp) = 0
      BY <1>n, <2>3, <3>4
    <3> QED BY <3>2, <3>3, <3>4
  <2>5. InHand(i)' = InHand(i) /\ Count(EntriesOf(i), log') = Count(EntriesOf(i), log)
    BY <2>1, HandSteps DEF store
  <2>6. Total(i)' = Total(i)
    <3>1. /\ Count({i}, inbox') = Count({i}, inbox) /\ Count({i}, nextTurn') = Count({i}, nextTurn)
          /\ Count({i}, pending') = Count({i}, pending) /\ Lost(i)' = Lost(i)
      BY <2>1 DEF Lost
    <3> QED BY <1>n, <2>2, <2>4, <2>5, <3>1 DEF Total
  <2> QED BY <2>1, <2>6 DEF Once
<1> QED BY <1>1, <1>2

(* From the snapshot to the run.                                            *)
LEMMA PromptOnce ==
  ASSUME IInv, QueueInv, NEW i \in Nat \ {0}, Once(i),
         TurnStateCreated \/ Announced \/ HookReturns
  PROVE  Once(i)'
<1>0. /\ inbox \in Queue /\ nextTurn \in Queue /\ inbox # <<>> /\ CountOps(i) /\ <<>> \in Queue
      /\ Front(inbox) \in Queue
  BY Counting, QueueOps DEF IInv, QueueType, Holds, TurnStateCreated, Announced, HookReturns, Queue, SeqOps
<1>n. /\ Count({i}, inbox) \in Nat /\ Count({i}, steering) \in Nat /\ Count({i}, followUp) \in Nat
      /\ Count({i}, nextTurn) \in Nat /\ Count({i}, pending) \in Nat /\ Count(EntriesOf(i), log) \in Nat
      /\ InHand(i) \in 0..1 /\ Returned(i) \in 0..1 /\ Lost(i) \in 0..1
      /\ Total(i) <= 1
  BY Terms
<1>f. /\ Count({i}, inbox) = Count({i}, Front(inbox)) + (IF Last(inbox) = i THEN 1 ELSE 0)
      /\ Count({i}, Front(inbox)) \in Nat /\ Count({i}, <<>>) = 0
  BY <1>0 DEF CountOps
<1>1. CASE inbox' = nextTurn \o inbox /\ nextTurn' = <<>> /\ BeforeRunUnchanged
  <2>1. Count({i}, inbox') = Count({i}, nextTurn) + Count({i}, inbox) /\ Count({i}, nextTurn') = 0
    BY <1>0, <1>1 DEF CountOps
  <2>2. UNCHANGED <<steering, followUp, pending, sent, store, returned, lost>>
    BY <1>1 DEF BeforeRunUnchanged, fates
  <2>3. InHand(i)' = InHand(i) /\ Count(EntriesOf(i), log') = Count(EntriesOf(i), log)
    BY <2>2, HandSteps DEF store
  <2>4. Total(i)' = Total(i)
    BY <1>n, <2>1, <2>2, <2>3 DEF Total, Returned, Lost
  <2> QED BY <2>2, <2>4 DEF Once
<1>2. CASE UNCHANGED <<inbox, nextTurn>> /\ BeforeRunUnchanged
  <2>1. AsideUnchanged /\ UNCHANGED <<inbox, pending, log, lost, store>>
    BY <1>2 DEF BeforeRunUnchanged, AsideUnchanged, fates, store
  <2> QED BY <2>1, HandSteps, StillOnce
<1>3. CASE pc = "starting" /\ PromptRejects(<<>>, <<>>)
  <2>1. Count({i}, inbox) = IF Last(inbox) = i THEN 1 ELSE 0
    <3>1. Len(inbox) = 1
      BY <1>3 DEF QueueInv, InboxInv
    <3>2. inbox = <<Head(inbox)>>
      BY <1>0, <3>1, TailOfOne DEF Queue
    <3>3. Last(inbox) = Head(inbox)
      BY <1>0, <3>1 DEF Last, Queue
    <3> QED BY <1>0, <3>2, <3>3 DEF CountOps
  <2>2. Count({i}, inbox) = Count({i}, <<>>) + Count({i}, <<>>) + (IF Last(inbox) = i THEN 1 ELSE 0)
    BY <1>f, <2>1
  <2> QED BY <1>0, <1>3, <2>2, RejectOnce
<1>4. CASE PromptRejects(Front(inbox), <<>>)
  <2>1. Count({i}, inbox) = Count({i}, Front(inbox)) + Count({i}, <<>>) + (IF Last(inbox) = i THEN 1 ELSE 0)
    BY <1>f
  <2> QED BY <1>0, <1>4, <2>1, RejectOnce
<1>5. CASE PromptRejects(<<>>, Front(inbox))
  <2>1. Count({i}, inbox) = Count({i}, <<>>) + Count({i}, Front(inbox)) + (IF Last(inbox) = i THEN 1 ELSE 0)
    BY <1>f
  <2> QED BY <1>0, <1>5, <2>1, RejectOnce
<1>6. CASE TurnStateCreated
  BY <1>1, <1>3, <1>6 DEF TurnStateCreated
<1>7. CASE Announced
  BY <1>2, <1>4, <1>7 DEF Announced
<1>8. CASE HookReturns
  BY <1>2, <1>5, <1>8 DEF HookReturns
<1> QED BY <1>6, <1>7, <1>8

(* A message is taken from a queue and recorded, a pending write is flushed.*)
LEMMA TakenOnce ==
  ASSUME IInv, QueueInv, NEW i \in Nat \ {0}, Once(i), Recorded \/ Poll \/ Flushed
  PROVE  Once(i)'
<1>0. /\ inbox \in Queue /\ steering \in Queue /\ followUp \in Queue /\ pending \in Queue /\ CountOps(i)
      /\ Op \in Writers
  BY Counting DEF IInv, QueueType, Writers
<1>n. /\ Count({i}, inbox) \in Nat /\ Count({i}, steering) \in Nat /\ Count({i}, followUp) \in Nat
      /\ Count({i}, nextTurn) \in Nat /\ Count({i}, pending) \in Nat /\ Count(EntriesOf(i), log) \in Nat
      /\ InHand(i) \in 0..1 /\ Returned(i) \in 0..1 /\ Lost(i) \in 0..1
      /\ Total(i) <= 1
  BY Terms
<1>e. Total(i)' = Total(i) /\ sent' = sent => Once(i)'
  BY DEF Once
<1>q. ASSUME NEW q \in Queue, q # <<>>
      PROVE  \E d \in 0..1 : /\ d = IF Head(q) = i THEN 1 ELSE 0
                             /\ Count({i}, q) = d + Count({i}, Tail(q)) /\ Count({i}, Tail(q)) \in Nat
  <2>1. Tail(q) \in Queue
    BY <1>q DEF Queue
  <2>2. Count({i}, q) = (IF Head(q) = i THEN 1 ELSE 0) + Count({i}, Tail(q)) /\ Count({i}, Tail(q)) \in Nat
    BY <1>0, <1>q, <2>1 DEF CountOps
  <2> QED BY <2>2
<1>l. EndWrite(Op) =>
        /\ Count(EntriesOf(i), log') = Count(EntriesOf(i), log) + (IF writing[Op].item = i THEN 1 ELSE 0)
        /\ InHand(i)' = InHand(i)
  BY <1>0, LogCounts, HandSteps
<1>1. CASE Recorded
  <2>1. AsideUnchanged /\ pending' = pending /\ pc \in {"prompting", "recording"}
    BY <1>1 DEF Recorded, RunUnchanged, AsideUnchanged
  <2>2. CASE EndWrite(Op) /\ inbox' = Tail(inbox) /\ lost' = lost
    <3>1. inbox # <<>> /\ writing[Op].item = Head(inbox)
      BY <2>1, <2>2 DEF IInv, Holds, QueueInv, Carries, EndWrite
    <3>2. PICK d \in 0..1 : /\ d = IF Head(inbox) = i THEN 1 ELSE 0
                            /\ Count({i}, inbox) = d + Count({i}, Tail(inbox)) /\ Count({i}, Tail(inbox)) \in Nat
      BY <1>0, <1>q, <3>1
    <3>3. /\ Count(EntriesOf(i), log') = Count(EntriesOf(i), log) + d /\ InHand(i)' = InHand(i)
          /\ Count({i}, inbox') = Count({i}, Tail(inbox)) /\ Lost(i)' = Lost(i)
          /\ Count({i}, pending') = Count({i}, pending)
      BY <1>l, <2>1, <2>2, <3>1, <3>2 DEF Lost
    <3>4. Total(i)' = Total(i)
      BY <1>n, <2>1, <3>2, <3>3, AsideOnce DEF Total
    <3> QED BY <1>e, <2>1, <3>4 DEF AsideUnchanged
  <2>3. CASE FailWrite(Op) /\ Raise
    BY <2>1, <2>3, RaiseOnce, HandSteps DEF FailWrite
  <2> QED BY <1>1, <2>2, <2>3 DEF Recorded
<1>2. CASE Poll
  <2>1. UNCHANGED <<nextTurn, returned, sent, pending, store, lost>>
    BY <1>2 DEF Poll, RunUnchanged
  <2>2. /\ Count({i}, nextTurn') = Count({i}, nextTurn) /\ Count({i}, pending') = Count({i}, pending)
        /\ Returned(i)' = Returned(i) /\ Lost(i)' = Lost(i) /\ InHand(i)' = InHand(i)
        /\ Count(EntriesOf(i), log') = Count(EntriesOf(i), log)
    BY <2>1, HandSteps DEF Returned, Lost, store
  <2>3. Count({i}, inbox) = 0
    <3>1. inbox = <<>>
      BY <1>2 DEF Poll, QueueInv, InboxInv
    <3> QED BY <1>0, <3>1 DEF CountOps
  <2>4. CASE steering # <<>> /\ inbox' = <<Head(steering)>> /\ steering' = Tail(steering) /\ followUp' = followUp
    <3>1. PICK d \in 0..1 : /\ d = IF Head(steering) = i THEN 1 ELSE 0
                            /\ Count({i}, steering) = d + Count({i}, Tail(steering))
                            /\ Count({i}, Tail(steering)) \in Nat
      BY <1>0, <1>q, <2>4
    <3>2. /\ Count({i}, inbox') = d /\ Count({i}, steering') = Count({i}, Tail(steering))
          /\ Count({i}, followUp') = Count({i}, followUp)
      BY <1>0, <2>4, <3>1 DEF CountOps
    <3>3. Total(i)' = Total(i)
      BY <1>n, <2>2, <2>3, <3>1, <3>2 DEF Total
    <3> QED BY <1>e, <2>1, <3>3
  <2>5. CASE followUp # <<>> /\ inbox' = <<Head(followUp)>> /\ followUp' = Tail(followUp) /\ steering' = steering
    <3>1. PICK d \in 0..1 : /\ d = IF Head(followUp) = i THEN 1 ELSE 0
                            /\ Count({i}, followUp) = d + Count({i}, Tail(followUp))
                            /\ Count({i}, Tail(followUp)) \in Nat
      BY <1>0, <1>q, <2>5
    <3>2. PICK t \in Nat : t = Count({i}, Tail(followUp))
      BY <3>1
    <3>3. Count({i}, inbox') = d /\ Count({i}, followUp') = t /\ Count({i}, steering') = Count({i}, steering)
      BY <1>0, <2>5, <3>1, <3>2 DEF CountOps
    <3>4. Count({i}, followUp) = d + t
      BY <3>1, <3>2
    <3>5. Total(i)' = d + Count({i}, steering) + t + Count({i}, nextTurn) + Count({i}, pending)
                        + Count(EntriesOf(i), log) + InHand(i) + Returned(i) + Lost(i)
      BY <2>2, <3>3 DEF Total
    <3>6. Total(i) = 0 + Count({i}, steering) + (d + t) + Count({i}, nextTurn) + Count({i}, pending)
                       + Count(EntriesOf(i), log) + InHand(i) + Returned(i) + Lost(i)
      BY <2>3, <3>4 DEF Total
    <3>7. d + Count({i}, steering) + t + Count({i}, nextTurn) + Count({i}, pending)
            + Count(EntriesOf(i), log) + InHand(i) + Returned(i) + Lost(i)
          = 0 + Count({i}, steering) + (d + t) + Count({i}, nextTurn) + Count({i}, pending)
              + Count(EntriesOf(i), log) + InHand(i) + Returned(i) + Lost(i)
      BY <1>n
    <3> QED BY <1>e, <2>1, <3>5, <3>6, <3>7
  <2>6. CASE UNCHANGED <<inbox, steering, followUp>>
    <3>1. AsideUnchanged /\ UNCHANGED <<inbox, pending, log, lost, store>>
      BY <2>1, <2>6 DEF AsideUnchanged, store
    <3> QED BY <3>1, HandSteps, StillOnce
  <2> QED BY <1>2, <2>4, <2>5, <2>6 DEF Poll
<1>3. CASE Flushed
  <2>1. /\ AsideUnchanged /\ Flushing /\ EndWrite(Op) /\ pending' = Tail(pending)
        /\ UNCHANGED <<inbox, lost>>
    BY <1>3 DEF Flushed, RunUnchanged, AsideUnchanged, run
  <2>2. pending # <<>> /\ writing[Op].item = Head(pending)
    BY <2>1 DEF IInv, Holds, QueueInv, Carries, EndWrite, Flushing
  <2>3. PICK d \in 0..1 : /\ d = IF Head(pending) = i THEN 1 ELSE 0
                          /\ Count({i}, pending) = d + Count({i}, Tail(pending)) /\ Count({i}, Tail(pending)) \in Nat
    BY <1>0, <1>q, <2>2
  <2>4. /\ Count(EntriesOf(i), log') = Count(EntriesOf(i), log) + d /\ InHand(i)' = InHand(i)
        /\ Count({i}, pending') = Count({i}, Tail(pending)) /\ Lost(i)' = Lost(i)
        /\ Count({i}, inbox') = Count({i}, inbox)
    BY <1>l, <2>1, <2>2, <2>3 DEF Lost
  <2>5. Total(i)' = Count({i}, inbox) + Count({i}, steering) + Count({i}, followUp) + Count({i}, nextTurn)
                      + Count({i}, Tail(pending)) + (Count(EntriesOf(i), log) + d) + InHand(i) + Returned(i) + Lost(i)
    BY <2>1, <2>4, AsideOnce DEF Total
  <2>6. Total(i) = Count({i}, inbox) + Count({i}, steering) + Count({i}, followUp) + Count({i}, nextTurn)
                     + (d + Count({i}, Tail(pending))) + Count(EntriesOf(i), log) + InHand(i) + Returned(i) + Lost(i)
    BY <2>3 DEF Total
  <2>7. PICK t \in Nat : t = Count({i}, Tail(pending))
    BY <2>3
  <2>8. Total(i)' = Total(i)
    BY <1>n, <2>5, <2>6, <2>7
  <2> QED BY <1>e, <2>1, <2>8 DEF AsideUnchanged
<1> QED BY <1>1, <1>2, <1>3

(* Every step leaves a message in exactly one place.                       *)
LEMMA NextOnce ==
  ASSUME IInv, QueueInv, NEW i \in Nat \ {0}, Once(i), [Next]_vars
  PROVE  Once(i)'
<1>s. ASSUME AsideUnchanged, UNCHANGED <<inbox, pending, log, lost>>,
             \/ UNCHANGED store \/ FailWrite(Op)
             \/ \E item, to : StartWrite(Op, item, to)
      PROVE  Once(i)'
  BY <1>s, HandSteps, StillOnce
<1>r. ASSUME AsideUnchanged, UNCHANGED <<pending, log>>, Raise, UNCHANGED store \/ FailWrite(Op)
      PROVE  Once(i)'
  BY <1>r, HandSteps, RaiseOnce
<1>a. ASSUME AsideUnchanged, UNCHANGED <<inbox, pending, lost>>, EndWrite(Op),
             pc \notin {"prompting", "recording"}, ~Flushing
      PROVE  Once(i)'
  <2>1. writing[Op].item = 0
    BY <1>a DEF EndWrite, QueueInv, Carries
  <2> QED BY <1>a, <2>1, AnswerOnce
<1>1. CASE Prompt \/ Steer \/ NextTurn \/ AppendMessage
  BY <1>1, AcceptOnce
<1>2. CASE AppendEnds \/ Abort
  BY <1>2, ClientOnce
<1>3. CASE TurnStateCreated \/ Announced \/ HookReturns
  BY <1>3, PromptOnce
<1>4. CASE Recorded \/ Poll \/ Flushed
  BY <1>4, TakenOnce
<1>5. CASE TreeStarts \/ AbortReturns \/ UNCHANGED vars
  BY <1>5, <1>s DEF TreeStarts, TreeUnchanged, AbortReturns, vars, run, queues, fates, store, AsideUnchanged
<1>6. CASE RunRaises
  BY <1>6, <1>r DEF RunRaises, RunUnchanged, AsideUnchanged, store
<1>7. CASE Record \/ Answer \/ Flush
  <2>1. AsideUnchanged /\ UNCHANGED <<inbox, pending, log, lost>>
    BY <1>7 DEF Record, Answer, Flush, run, RunUnchanged, AsideUnchanged, StartWrite
  <2> QED BY <1>7, <1>s, <2>1 DEF Record, Answer, Flush
<1>8. CASE Answered
  <2>1. AsideUnchanged /\ pending' = pending /\ pc \notin {"prompting", "recording"} /\ ~Flushing
    BY <1>8 DEF Answered, RunUnchanged, AsideUnchanged, Flushing
  <2>2. CASE EndWrite(Op) /\ UNCHANGED <<inbox, lost>>
    BY <1>a, <2>1, <2>2
  <2>3. CASE FailWrite(Op) /\ Raise
    BY <1>r, <2>1, <2>3 DEF FailWrite
  <2> QED BY <1>8, <2>2, <2>3 DEF Answered
<1>9. CASE FlushFails
  <2>1. AsideUnchanged /\ UNCHANGED <<pending, log>> /\ FailWrite(Op)
    BY <1>9 DEF FlushFails, RunUnchanged, AsideUnchanged, FailWrite
  <2> QED BY <1>9, <1>r, <1>s, <2>1 DEF FlushFails
<1>10. CASE Saved \/ Ended \/ Settled \/ Closed
  BY <1>10, <1>s DEF Saved, Ended, Settled, Closed, RunUnchanged, queues, fates, store, AsideUnchanged
<1>11. CASE MoveTo \/ Summarized
  <2>1. AsideUnchanged /\ UNCHANGED <<inbox, pending, log, lost>>
    BY <1>11 DEF MoveTo, Summarized, TreeUnchanged, queues, AsideUnchanged, StartWrite
  <2> QED BY <1>11, <1>s, <2>1 DEF Summarized, MoveTo
<1>12. CASE Moved \/ TreeEnds
  <2>1. AsideUnchanged /\ UNCHANGED <<inbox, pending, lost>> /\ pc \notin {"prompting", "recording"} /\ ~Flushing
    BY <1>12 DEF Moved, TreeEnds, TreeUnchanged, queues, AsideUnchanged, Flushing
  <2>2. CASE EndWrite(Op)
    BY <1>a, <2>1, <2>2
  <2>3. CASE FailWrite(Op) \/ UNCHANGED store
    BY <1>s, <2>1, <2>3 DEF FailWrite, store
  <2> QED BY <1>12, <2>2, <2>3 DEF Moved, TreeEnds
<1> QED
  BY <1>1, <1>2, <1>3, <1>4, <1>5, <1>6, <1>7, <1>8, <1>9, <1>10, <1>11, <1>12 DEF Next, Clients, Operation

(* What the invariant says of an item is what ItemsOnce does.               *)
LEMMA OnceIsItemsOnce == ASSUME IInv, QueueInv, Conserved PROVE ItemsOnce
<1> SUFFICES ASSUME NEW i \in Items
             PROVE  Occurrences(i, inbox \o steering \o followUp \o nextTurn \o pending)
                    + Cardinality({k \in 1..Len(log) : log[k].item = i})
                    + Cardinality({w \in Callers : writing[w].item = i})
                    + Cardinality({x \in {returned, lost} : i \in x}) = 1
  BY DEF ItemsOnce
<1>1. i \in Nat \ {0} /\ i <= sent
  BY DEF Items, QueueInv, Placed
<1>2. Once(i) /\ Total(i) = 1
  BY <1>1 DEF Conserved, Once
<1>3. /\ Count({i}, inbox) \in Nat /\ Count({i}, steering) \in Nat /\ Count({i}, followUp) \in Nat
      /\ Count({i}, nextTurn) \in Nat /\ Count({i}, pending) \in Nat /\ Count(EntriesOf(i), log) \in Nat
      /\ InHand(i) \in 0..1 /\ Returned(i) \in 0..1 /\ Lost(i) \in 0..1
  BY <1>2, Terms
<1>4. Occurrences(i, inbox \o steering \o followUp \o nextTurn \o pending)
        = Count({i}, inbox) + Count({i}, steering) + Count({i}, followUp) + Count({i}, nextTurn)
          + Count({i}, pending)
  <2>1. /\ inbox \in Queue /\ steering \in Queue /\ followUp \in Queue /\ nextTurn \in Queue /\ pending \in Queue
        /\ CountOps(i)
    BY Counting DEF IInv, QueueType
  <2>2. \A s, t \in Queue : s \o t \in Queue /\ Count({i}, s \o t) = Count({i}, s) + Count({i}, t)
    BY <2>1, QueueOps DEF CountOps, Queue, SeqOps
  <2>3. inbox \o steering \in Queue /\ Count({i}, inbox \o steering) = Count({i}, inbox) + Count({i}, steering)
    BY <2>1, <2>2
  <2>4. /\ inbox \o steering \o followUp \in Queue
        /\ Count({i}, inbox \o steering \o followUp) = Count({i}, inbox \o steering) + Count({i}, followUp)
    BY <2>1, <2>2, <2>3
  <2>5. /\ inbox \o steering \o followUp \o nextTurn \in Queue
        /\ Count({i}, inbox \o steering \o followUp \o nextTurn)
             = Count({i}, inbox \o steering \o followUp) + Count({i}, nextTurn)
    BY <2>1, <2>2, <2>4
  <2>6. Count({i}, inbox \o steering \o followUp \o nextTurn \o pending)
          = Count({i}, inbox \o steering \o followUp \o nextTurn) + Count({i}, pending)
    BY <2>1, <2>2, <2>5
  <2>7. \A s : Occurrences(i, s) = Count({i}, s)
    <3> TAKE s
    <3>1. {k \in DOMAIN s : s[k] = i} = Places({i}, s)
      BY DEF Places
    <3> QED BY <3>1 DEF Occurrences, Count
  <2> QED BY <2>3, <2>4, <2>5, <2>6, <2>7
<1>5. Cardinality({k \in 1..Len(log) : log[k].item = i}) = Count(EntriesOf(i), log)
  <2>1. log \in Seq(Entries) /\ DOMAIN log = 1..Len(log) /\ \A k \in 1..Len(log) : log[k] \in Entries
    BY LenProperties DEF IInv, StoreType
  <2>2. {k \in 1..Len(log) : log[k].item = i} = Places(EntriesOf(i), log)
    BY <2>1 DEF Places, EntriesOf
  <2> QED BY <2>2 DEF Count
<1>6. Cardinality({w \in Callers : writing[w].item = i}) = InHand(i)
  <2>1. \A w \in Callers : writing[w].item = i <=> w = i /\ Writes(w)
    <3> SUFFICES ASSUME NEW w \in Callers PROVE writing[w].item = i <=> w = i /\ Writes(w)
      OBVIOUS
    <3>1. CASE Writes(w)
      BY <3>1 DEF IInv, OneWriter
    <3>2. CASE ~Writes(w)
      BY <1>1, <3>2 DEF Writes, Nobody
    <3> QED BY <3>1, <3>2
  <2>2. {w \in Callers : writing[w].item = i} = IF i \in Callers /\ Writes(i) THEN {i} ELSE {}
    BY <2>1
  <2> QED BY <2>2, FS_Singleton, FS_EmptySet DEF InHand
<1>7. Cardinality({x \in {returned, lost} : i \in x}) = Returned(i) + Lost(i)
  <2> DEFINE M == {x \in {returned, lost} : i \in x}
  <2>1. ~(i \in returned /\ i \in lost)
    BY <1>2, <1>3 DEF Total, Returned, Lost
  <2>2. /\ i \in returned => M = {returned}
        /\ i \in lost => M = {lost}
        /\ i \notin returned /\ i \notin lost => M = {}
    BY <2>1
  <2>3. Cardinality({returned}) = 1 /\ Cardinality({lost}) = 1 /\ Cardinality({}) = 0
    BY FS_Singleton, FS_EmptySet
  <2> HIDE DEF M
  <2>4. Cardinality(M) = IF i \in returned \/ i \in lost THEN 1 ELSE 0
    BY <2>2, <2>3
  <2>5. Returned(i) + Lost(i) = IF i \in returned \/ i \in lost THEN 1 ELSE 0
    BY <2>1 DEF Returned, Lost
  <2>6. Cardinality(M) = Returned(i) + Lost(i)
    BY <2>4, <2>5
  <2> QED BY <2>6 DEF M
<1> QED BY <1>2, <1>3, <1>4, <1>5, <1>6, <1>7 DEF Total

(* ItemsOnce: whatever rejects, fails or is aborted, each message and each *)
(* write that was handed to the harness is in exactly one place: queued,   *)
(* taken, pending, in the session once, handed back, or lost with the run  *)
(* that had taken it.                                                      *)
THEOREM NothingForgotten == Spec => []ItemsOnce
<1>1. Init => Conserved
  <2> SUFFICES ASSUME Init, NEW i \in Nat \ {0} PROVE Once(i)
    BY DEF Conserved
  <2>1. Count({i}, <<>>) = 0 /\ Count(EntriesOf(i), <<>>) = 0
    BY CountEmpty
  <2>2. InHand(i) = 0 /\ Returned(i) = 0 /\ Lost(i) = 0
    BY TheWriters DEF Init, InHand, Returned, Lost, Writes
  <2>3. Total(i) = 0
    BY <2>1, <2>2 DEF Init, Total
  <2> QED BY <2>3 DEF Init, Once
<1>2. IInv /\ QueueInv /\ Conserved /\ [Next]_vars => Conserved'
  <2> SUFFICES ASSUME IInv, QueueInv, Conserved, [Next]_vars, NEW i \in Nat \ {0} PROVE Once(i)'
    BY DEF Conserved
  <2> QED BY NextOnce DEF Conserved
<1>3. IInv /\ QueueInv /\ Conserved => ItemsOnce
  BY OnceIsItemsOnce
<1> QED BY <1>1, <1>2, <1>3, QueueInvariance, PTL DEF Spec

-----------------------------------------------------------------------------
(* What the model is shown                                                 *)

(* f gives the path to each entry of l.                                     *)
IsPath(f, l) == f = [k \in 0..Len(l) |-> IF k = 0 THEN <<>> ELSE Append(f[l[k].parent], k)]

PathIn(l) == CHOOSE f : IsPath(f, l)

(* The recursion over parents has one solution.  The log grows by an entry *)
(* at a time, and so does the solution: this is an invariant of the steps. *)
PathDefined(l) == \E f : IsPath(f, l) /\ \A g : IsPath(g, l) => g = f

Backward(l) == \A k \in 1..Len(l) : l[k].parent \in 0..(k - 1)

(* The module's PathTo is the function chosen here.                        *)
LEMMA PathToIs == PathTo = PathIn(log)
BY DEF PathTo, PathIn, IsPath

(* A recursion with one solution is solved by the function chosen.         *)
LEMMA PathIsPath ==
  ASSUME NEW l, PathDefined(l)
  PROVE  IsPath(PathIn(l), l) /\ \A g : IsPath(g, l) => g = PathIn(l)
<1>1. PICK f : IsPath(f, l) /\ \A g : IsPath(g, l) => g = f
  BY DEF PathDefined
<1>2. IsPath(PathIn(l), l)
  BY <1>1 DEF PathIn
<1>3. PathIn(l) = f
  BY <1>1, <1>2
<1> QED BY <1>1, <1>2, <1>3

(* One more entry: the old paths stay, the new one extends its parent's.   *)
LEMMA PathGrows ==
  ASSUME NEW l \in Seq(Entries), NEW e \in Entries, e.parent \in 0..Len(l), Backward(l), PathDefined(l)
  PROVE  /\ PathDefined(Append(l, e))
         /\ \A k \in 0..Len(l) : PathIn(Append(l, e))[k] = PathIn(l)[k]
         /\ PathIn(Append(l, e))[Len(l) + 1] = Append(PathIn(l)[e.parent], Len(l) + 1)
<1> DEFINE n == Len(l)
           m == Append(l, e)
           p == PathIn(l)
           q == [k \in 0..(n + 1) |-> IF k = n + 1 THEN Append(p[e.parent], n + 1) ELSE p[k]]
<1>1. /\ n \in Nat /\ Len(m) = n + 1 /\ m[n + 1] = e /\ \A k \in 1..n : m[k] = l[k]
      /\ \A k \in 1..(n + 1) : k = n + 1 \/ k \in 1..n
  BY AppendPlaces
<1>2. IsPath(p, l) /\ \A g : IsPath(g, l) => g = p
  BY PathIsPath
<1>3. /\ p = [k \in 0..n |-> IF k = 0 THEN <<>> ELSE Append(p[l[k].parent], k)]
      /\ \A k \in 0..n : p[k] = IF k = 0 THEN <<>> ELSE Append(p[l[k].parent], k)
  <2>1. p = [k \in 0..n |-> IF k = 0 THEN <<>> ELSE Append(p[l[k].parent], k)]
    BY <1>2 DEF IsPath
  <2> HIDE DEF p
  <2> QED BY <2>1
<1> HIDE DEF m, p, n
<1>4. \A k \in 1..n : l[k].parent \in 0..n /\ l[k].parent # n + 1
  BY <1>1 DEF Backward, n
<1>5. 0..(n + 1) = 0..n \cup {n + 1} /\ n + 1 \notin 0..n /\ n + 1 # 0 /\ 0 \in 0..n
  BY <1>1
(* Any solution for the longer log is q. *)
<1>6. ASSUME NEW g, IsPath(g, m) PROVE g = q
  <2>1. /\ g = [k \in 0..(n + 1) |-> IF k = 0 THEN <<>> ELSE Append(g[m[k].parent], k)]
    BY <1>1, <1>6 DEF IsPath
  <2>2. \A k \in 0..(n + 1) : g[k] = IF k = 0 THEN <<>> ELSE Append(g[m[k].parent], k)
    BY <2>1
  <2> DEFINE h == [k \in 0..n |-> g[k]]
  <2>3. \A k \in 0..n : h[k] = IF k = 0 THEN <<>> ELSE Append(h[l[k].parent], k)
    <3> SUFFICES ASSUME NEW k \in 0..n PROVE h[k] = IF k = 0 THEN <<>> ELSE Append(h[l[k].parent], k)
      OBVIOUS
    <3>1. CASE k = 0
      BY <1>5, <2>2, <3>1
    <3>2. CASE k # 0
      <4>1. k \in 1..n /\ k \in 0..(n + 1)
        BY <1>1, <3>2
      <4>2. g[k] = Append(g[l[k].parent], k)
        BY <1>1, <2>2, <3>2, <4>1
      <4>3. h[l[k].parent] = g[l[k].parent]
        BY <1>4, <4>1
      <4> QED BY <3>2, <4>2, <4>3
    <3> QED BY <3>1, <3>2
  <2>4. h = [k \in 0..n |-> IF k = 0 THEN <<>> ELSE Append(h[l[k].parent], k)]
    BY <2>3
  <2>5. h = p
    BY <1>2, <2>4 DEF IsPath, n
  <2>6. \A k \in 0..n : g[k] = p[k]
    BY <2>5
  <2>7. g[n + 1] = Append(p[e.parent], n + 1)
    <3>1. g[n + 1] = Append(g[e.parent], n + 1)
      BY <1>1, <1>5, <2>2
    <3>2. e.parent \in 0..n
      BY DEF n
    <3> QED BY <2>6, <3>1, <3>2
  <2> QED BY <1>5, <2>1, <2>6, <2>7
(* And q is one. *)
<1>7. IsPath(q, m)
  <2>1. \A k \in 0..(n + 1) : q[k] = IF k = 0 THEN <<>> ELSE Append(q[m[k].parent], k)
    <3> SUFFICES ASSUME NEW k \in 0..(n + 1) PROVE q[k] = IF k = 0 THEN <<>> ELSE Append(q[m[k].parent], k)
      OBVIOUS
    <3>0. \A j \in 0..n : q[j] = p[j]
      BY <1>5
    <3>1. CASE k = n + 1
      <4>1. e.parent \in 0..n
        BY DEF n
      <4>2. q[e.parent] = p[e.parent]
        BY <3>0, <4>1
      <4> QED BY <1>1, <1>5, <3>1, <4>2
    <3>2. CASE k = 0
      BY <1>3, <1>5, <3>0, <3>2
    <3>3. CASE k \in 1..n
      <4>1. k # 0 /\ k \in 0..n
        BY <1>1, <3>3
      <4>2. q[k] = p[k] /\ p[k] = Append(p[l[k].parent], k)
        BY <1>3, <3>0, <4>1
      <4>3. q[l[k].parent] = p[l[k].parent] /\ m[k] = l[k]
        BY <1>1, <1>4, <3>0, <3>3
      <4> QED BY <4>1, <4>2, <4>3
    <3>4. k = n + 1 \/ k = 0 \/ k \in 1..n
      BY <1>1
    <3> QED BY <3>1, <3>2, <3>3, <3>4
  <2>2. q = [k \in 0..(n + 1) |-> IF k = 0 THEN <<>> ELSE Append(q[m[k].parent], k)]
    BY <2>1
  <2> HIDE DEF q
  <2> QED BY <1>1, <2>2 DEF IsPath
<1>8. PathDefined(m)
  BY <1>6, <1>7 DEF PathDefined
<1>9. PathIn(m) = q
  BY <1>6, <1>8, PathIsPath
<1>10. (\A k \in 0..n : q[k] = p[k]) /\ q[n + 1] = Append(p[e.parent], n + 1)
  BY <1>5
<1> QED BY <1>8, <1>9, <1>10 DEF m, n, p

(* Where the model has been, or will be, shown the context as it is.        *)
Asks == {"announcing", "hooking", "prompting", "recording", "polling", "saved", "streaming"}

ContextInv ==
  /\ leaf \in 0..Len(log) /\ Backward(log) /\ PathDefined(log)
  /\ \A w \in Writers : Writes(w) =>
       /\ writing[w].parent \in 0..Len(log)
       /\ writing[w].to = Stay \/ (w = Op /\ pc = "moving" /\ writing[w].to \in 0..Len(log))
  /\ pc \in Asks => context = PathTo[leaf]

(* The log and the leaf change together, when an append ends.               *)
LEMMA StoreSteps ==
  ASSUME IInv, [Next]_vars
  PROVE  \/ UNCHANGED <<log, leaf>>
         \/ \E w \in Writers : EndWrite(w)
BY EveryStoreMove DEF StoreMoves, store, StartWrite, FailWrite

(* An append continues from an entry of the log, and only a navigation     *)
(* writes a leaf entry.                                                    *)
LEMMA ToSteps ==
  ASSUME IInv, ContextInv, [Next]_vars
  PROVE  \A w \in Writers : Writes(w)' =>
           /\ writing'[w].parent \in 0..Len(log')
           /\ writing'[w].to = Stay \/ (w = Op /\ pc' = "moving" /\ writing'[w].to \in 0..Len(log'))
<1>w. /\ Writers = {Op} \cup Callers /\ writing \in [Writers -> Entries]
      /\ Op \in Writers /\ log \in Seq(Entries) /\ Len(log) \in Nat
  BY LenProperties DEF Writers, IInv, StoreType
<1>g. \A k \in 0..Len(log) : k \in 0..Len(log')
  <2>1. CASE UNCHANGED <<log, leaf>>
    BY <2>1
  <2>2. ASSUME NEW v \in Writers, EndWrite(v) PROVE Len(log') = Len(log) + 1
    BY <1>w, <2>2, AppendPlaces DEF EndWrite
  <2>3. \A k \in 0..Len(log) : k \in 0..(Len(log) + 1)
    BY <1>w
  <2> QED BY <2>1, <2>2, <2>3, StoreSteps
<1>s. ASSUME NEW w \in Writers, NEW item, NEW to, StartWrite(w, item, to)
      PROVE  writing'[w].parent \in 0..Len(log') /\ writing'[w].to = to /\ log' = log
  <2>1. writing'[w].parent = leaf /\ writing'[w].to = to /\ log' = log
    BY <1>w, <1>s DEF StartWrite
  <2> QED BY <2>1 DEF ContextInv
<1>1. ASSUME NEW w \in Callers, Writes(w)'
      PROVE  writing'[w].parent \in 0..Len(log') /\ writing'[w].to = Stay
  <2>0. w \in Writers /\ w # Op
    BY TheWriters
  <2>1. CASE Writes(w) /\ writing'[w] = writing[w]
    BY <1>g, <2>0, <2>1 DEF ContextInv
  <2>2. CASE StartWrite(w, w, Stay)
    BY <1>s, <2>0, <2>2
  <2> QED BY <1>1, <2>1, <2>2, ClientNext
<1>2. ASSUME Writes(Op)'
      PROVE  /\ writing'[Op].parent \in 0..Len(log')
             /\ writing'[Op].to = Stay \/ (pc' = "moving" /\ writing'[Op].to \in 0..Len(log'))
  <2>1. CASE writing'[Op] = writing[Op] /\ pc' = pc
    BY <1>2, <1>g, <1>w, <2>1 DEF ContextInv, Writes
  <2>2. CASE Record \/ Answer \/ Flush \/ Summarized
    <3>1. \E item : StartWrite(Op, item, Stay)
      BY <2>2 DEF Record, Answer, Flush, Summarized
    <3> QED BY <1>s, <1>w, <3>1
  <2>3. CASE MoveTo
    <3>1. PICK target \in 0..Len(log) : StartWrite(Op, 0, target)
      BY <2>3 DEF MoveTo
    <3>2. pc' = "moving"
      BY <2>3 DEF MoveTo
    <3> QED BY <1>s, <1>w, <3>1, <3>2
  <2> QED BY <1>2, <2>1, <2>2, <2>3, OperationNext DEF Starts
<1> QED BY <1>1, <1>2, <1>w

(* The context is read from the session, or grows with it.                  *)
LEMMA ContextSteps ==
  ASSUME IInv, [Next]_vars, pc' \in Asks
  PROVE  \/ UNCHANGED <<log, leaf>> /\ context' = context /\ pc \in Asks
         \/ UNCHANGED <<log, leaf>> /\ context' = PathTo[leaf]
         \/ /\ pc \in {"prompting", "recording"} /\ EndWrite(Op)
            /\ context' = Append(context, Len(log) + 1)
<1>p. pc \in Asks => \A w \in Callers : ~Writes(w)
  BY Writing DEF IInv, PhaseInv, Asks
<1> USE DEF Asks
<1>1. CASE Steer \/ NextTurn \/ Abort \/ AbortReturns \/ UNCHANGED vars
  BY <1>1 DEF Steer, NextTurn, Abort, AbortReturns, run, store, vars
<1>2. CASE Prompt \/ TreeStarts \/ RunRaises \/ Answered \/ Ended \/ Settled \/ Closed \/ Moved \/ TreeEnds
           \/ MoveTo \/ Summarized \/ Flush \/ Flushed \/ FlushFails
  BY <1>2 DEF Prompt, TreeStarts, RunRaises, Raise, Answered, Ended, Settled, Closed, Moved, TreeEnds,
     MoveTo, Summarized, Flush, Flushed, FlushFails, Flushing, run
<1>3. CASE AppendMessage
  BY <1>3 DEF AppendMessage, StartWrite, run, store
<1>4. CASE AppendEnds
  <2>1. UNCHANGED <<pc, context>>
    BY <1>4 DEF AppendEnds, run
  <2>2. \E w \in Callers : Writes(w)
    BY <1>4 DEF AppendEnds, EndWrite, FailWrite
  <2> QED BY <1>p, <2>1, <2>2
<1>5. CASE TurnStateCreated
  BY <1>5 DEF TurnStateCreated, PromptRejects, BeforeRunUnchanged, store
<1>6. CASE Announced \/ HookReturns
  BY <1>6 DEF Announced, HookReturns, PromptRejects, BeforeRunUnchanged, store
<1>7. CASE Record \/ Answer
  BY <1>7 DEF Record, Answer, StartWrite, run
<1>8. CASE Recorded
  <2>1. Raise => pc' \notin Asks
    BY DEF Raise
  <2> QED BY <1>8, <2>1 DEF Recorded
<1>9. CASE Poll
  BY <1>9 DEF Poll, store
<1>10. CASE Saved
  BY <1>10 DEF Saved, store
<1> QED
  BY <1>1, <1>2, <1>3, <1>4, <1>5, <1>6, <1>7, <1>8, <1>9, <1>10 DEF Next, Clients, Operation

(* What the model is shown, step by step.                                  *)
LEMMA NextContext == ASSUME IInv, ContextInv, [Next]_vars PROVE ContextInv'
<1>w. /\ Op \in Writers /\ writing \in [Writers -> Entries]
      /\ log \in Seq(Entries) /\ Len(log) \in Nat
  BY LenProperties, TheWriters DEF IInv, StoreType
<1>t. \A w \in Writers : Writes(w)' =>
        /\ writing'[w].parent \in 0..Len(log')
        /\ writing'[w].to = Stay \/ (w = Op /\ pc' = "moving" /\ writing'[w].to \in 0..Len(log'))
  BY ToSteps
<1>p. PathTo = PathIn(log)
  BY PathToIs
<1>1. CASE UNCHANGED <<log, leaf>>
  <2>1. PathTo' = PathTo
    BY <1>1 DEF PathTo
  <2>2. leaf' \in 0..Len(log') /\ Backward(log') /\ PathDefined(log')
    BY <1>1 DEF ContextInv
  <2>3. pc' \in Asks => context' = PathTo'[leaf']
    <3> SUFFICES ASSUME pc' \in Asks PROVE context' = PathTo'[leaf']
      OBVIOUS
    <3>1. CASE context' = context /\ pc \in Asks
      BY <1>1, <2>1, <3>1 DEF ContextInv
    <3>2. CASE context' = PathTo[leaf]
      BY <1>1, <2>1, <3>2
    <3>3. ~EndWrite(Op)
      <4>1. Len(Append(log, writing[Op])) = Len(log) + 1
        BY <1>w, AppendPlaces
      <4> QED BY <1>1, <1>w, <4>1 DEF EndWrite
    <3> QED BY <3>1, <3>2, <3>3, ContextSteps
  <2> QED BY <1>t, <2>2, <2>3 DEF ContextInv
<1>2. ASSUME NEW w \in Writers, EndWrite(w) PROVE ContextInv'
  <2>1. PICK e : e = writing[w]
    OBVIOUS
  <2>2. e \in Entries /\ log' = Append(log, e) /\ leaf' = (IF e.to = Stay THEN Len(log) + 1 ELSE e.to)
    BY <1>2, <1>w, <2>1 DEF EndWrite
  <2>3. e.parent \in 0..Len(log) /\ (e.to = Stay \/ e.to \in 0..Len(log))
    BY <1>2, <2>1 DEF EndWrite, ContextInv
  <2>4. /\ Len(log') = Len(log) + 1 /\ log'[Len(log) + 1] = e
        /\ \A k \in 1..Len(log) : log'[k] = log[k]
        /\ \A k \in 1..Len(log') : k = Len(log) + 1 \/ k \in 1..Len(log)
    BY <1>w, <2>2, AppendPlaces
  <2>5. leaf' \in 0..Len(log')
    <3>1. Len(log) + 1 \in 0..(Len(log) + 1) /\ \A k \in 0..Len(log) : k \in 0..(Len(log) + 1)
      BY <1>w
    <3> QED BY <2>2, <2>3, <2>4, <3>1
  <2>6. Backward(log')
    <3>1. \A k \in 1..Len(log) : log[k].parent \in 0..(k - 1)
      BY DEF ContextInv, Backward
    <3>2. (Len(log) + 1) - 1 = Len(log)
      BY <1>w
    <3> QED BY <2>3, <2>4, <3>1, <3>2 DEF Backward
  <2>7. /\ PathDefined(Append(log, e))
        /\ \A k \in 0..Len(log) : PathIn(Append(log, e))[k] = PathIn(log)[k]
        /\ PathIn(Append(log, e))[Len(log) + 1] = Append(PathIn(log)[e.parent], Len(log) + 1)
    BY <1>w, <2>2, <2>3, PathGrows DEF ContextInv
  <2>8. PathTo' = PathIn(Append(log, e))
    <3>1. PathTo' = PathIn(log')
      BY DEF PathTo, PathIn, IsPath
    <3> QED BY <2>2, <3>1
  <2>9. pc' \in Asks => context' = PathTo'[leaf']
    <3> SUFFICES ASSUME pc' \in Asks PROVE context' = PathTo'[leaf']
      OBVIOUS
    <3>1. /\ pc \in {"prompting", "recording"} /\ EndWrite(Op)
          /\ context' = Append(context, Len(log) + 1)
      <4>1. log' # log
        BY <1>w, <2>4
      <4> QED BY <4>1, ContextSteps
    <3>i. phase # "idle"
      BY <3>1 DEF IInv, PhaseInv
    <3>2. w = Op
      BY <1>2, <3>i, Writing DEF EndWrite
    <3>3. e.to = Stay /\ e.parent = leaf
      <4>1. Op \notin met /\ Writes(Op)
        BY <3>1, <3>i DEF IInv, OneWriter, EndWrite
      <4> QED BY <1>w, <2>1, <3>1, <3>2, <4>1 DEF ContextInv, IInv, LeafIsLast
    <3>4. context = PathIn(log)[leaf]
      BY <1>p, <3>1 DEF ContextInv, Asks
    <3> QED BY <2>2, <2>3, <2>7, <2>8, <3>1, <3>3, <3>4
  <2> QED BY <1>t, <2>2, <2>5, <2>6, <2>7, <2>9 DEF ContextInv
<1> QED BY <1>1, <1>2, <1>w, StoreSteps

(* Nothing is recorded at first, and the model has been shown nothing.      *)
LEMMA InitContext == ASSUME Init PROVE ContextInv
<1>1. log = <<>> /\ Len(log) = 0 /\ leaf = 0 /\ pc = "none"
  BY DEF Init
<1>2. PathDefined(log)
  <2> DEFINE f == [k \in 0..Len(log) |-> <<>>]
  <2>1. \A k \in 0..Len(log) : k = 0
    BY <1>1
  <2>2. IsPath(f, log)
    BY <2>1 DEF IsPath
  <2>3. \A g : IsPath(g, log) => g = f
    BY <2>1 DEF IsPath
  <2> QED BY <2>2, <2>3 DEF PathDefined
<1>3. leaf \in 0..Len(log) /\ Backward(log)
  BY <1>1 DEF Backward
<1>4. \A w \in Writers : ~Writes(w)
  BY DEF Init, Writes
<1> QED BY <1>1, <1>2, <1>3, <1>4 DEF ContextInv, Asks

(* RequestShowsSession: for any number of turns, tool calls, writes handed *)
(* in meanwhile, failed appends, aborts and navigations before, each       *)
(* request shows the model the path to the leaf of the session, in order   *)
(* and with nothing left out.                                              *)
THEOREM ModelSeesSession == Spec => []RequestShowsSession
<1>1. Init => ContextInv
  BY InitContext
<1>2. IInv /\ ContextInv /\ [Next]_vars => ContextInv'
  BY NextContext
<1>3. ContextInv => RequestShowsSession
  BY DEF ContextInv, RequestShowsSession, Asks
<1> QED BY <1>1, <1>2, <1>3, Invariance, PTL DEF Spec

-----------------------------------------------------------------------------
(* The shape of the state                                                  *)

Steps ==
  {"none", "starting", "announcing", "hooking", "prompting", "polling", "recording",
   "streaming", "failing", "saving", "saved", "ending", "settling", "closing", "closed",
   "summarizing", "moving"}

Shape ==
  /\ phase \in {"idle", "turn", "tree"}
  /\ pc \in Steps
  /\ mode \in {"ok", "failing", "late", "bad"}
  /\ aborted \in BOOLEAN /\ control \in BOOLEAN /\ stopping \in BOOLEAN
  /\ aborting \in {"no", "waiting"}
  /\ sent \in 0..MaxItems /\ events \in 0..MaxEvents

Fated == returned \cup lost \cup held

(* The paths to all entries are shown, or may be, with the next request.    *)
ContextType ==
  /\ context \in Seq(1..Len(log))
  /\ \A k \in 0..Len(log) : PathTo[k] \in Seq(1..Len(log))

ShapeInv == Shape /\ Fated \subseteq Items /\ ContextType

(* Every step keeps the range of the plain variables.                       *)
LEMMA NextShape == ASSUME Shape, [Next]_vars PROVE Shape'
<1>n. /\ MaxItems \in Nat /\ MaxEvents \in Nat
      /\ Accept => sent' \in 0..MaxItems
      /\ Event => events' \in 0..MaxEvents
  BY HarnessAssumption DEF Shape, Accept, Event
<1>r. Raise => pc' \in Steps /\ mode' \in {"ok", "failing", "late", "bad"} /\ stopping' = stopping
  BY DEF Raise, Steps
<1>c. UNCHANGED <<phase, aborted, control, aborting, sent>> =>
        /\ phase' \in {"idle", "turn", "tree"} /\ aborted' \in BOOLEAN /\ control' \in BOOLEAN
        /\ aborting' \in {"no", "waiting"} /\ sent' \in 0..MaxItems
  BY DEF Shape
<1>u. RunUnchanged => UNCHANGED <<phase, aborted, control, aborting, sent>>
  BY DEF RunUnchanged, signal
<1>1. CASE Prompt
  BY <1>1, <1>n DEF Prompt, Shape, Steps
<1>2. CASE Steer
  BY <1>2, <1>n DEF Steer, run, signal, Shape
<1>3. CASE NextTurn
  BY <1>3, <1>n DEF NextTurn, run, signal, Shape
<1>4. CASE AppendMessage
  BY <1>4, <1>n DEF AppendMessage, run, signal, Shape
<1>5. CASE Abort
  BY <1>5, <1>n DEF Abort, run, Shape
<1>6. CASE TreeStarts
  BY <1>6, <1>n DEF TreeStarts, TreeUnchanged, signal, Shape, Steps
<1>7. CASE AppendEnds
  BY <1>7, <1>n DEF AppendEnds, FailWrite, run, signal, Shape
<1>8. CASE AbortReturns
  BY <1>8 DEF AbortReturns, run, Shape
<1>9. CASE RunRaises
  <2>1. Event /\ Raise /\ RunUnchanged
    BY <1>9 DEF RunRaises
  <2> QED BY <2>1, <1>n, <1>r, <1>c, <1>u DEF Shape
<1>10. CASE TurnStateCreated \/ Announced \/ HookReturns
  <2>1. ASSUME NEW b, NEW g, PromptRejects(b, g) PROVE Shape'
    BY <2>1, <1>n DEF PromptRejects, signal, Shape, Steps
  <2>2. ASSUME BeforeRunUnchanged, pc' \in Steps, control' \in {control, TRUE} PROVE Shape'
    BY <2>2 DEF BeforeRunUnchanged, Shape
  <2>3. {"hooking", "announcing", "prompting"} \subseteq Steps
    BY DEF Steps
  <2> QED BY <1>10, <2>1, <2>2, <2>3 DEF TurnStateCreated, Announced, HookReturns
<1>11. CASE Record \/ Answer \/ Flush \/ Flushed
  <2>1. UNCHANGED <<pc, mode, stopping, events>> /\ RunUnchanged
    BY <1>11 DEF Record, Answer, Flush, Flushed, run
  <2> QED BY <2>1, <1>c, <1>u DEF Shape
<1>12. CASE Recorded
  <2>1. RunUnchanged
    BY <1>12 DEF Recorded
  <2>2. \/ /\ pc' \in {pc, "polling", "streaming"} /\ UNCHANGED <<mode, stopping, events>>
        \/ Event /\ Raise
    BY <1>12 DEF Recorded, FailWrite
  <2>3. {"polling", "streaming"} \subseteq Steps
    BY DEF Steps
  <2> QED BY <2>1, <2>2, <2>3, <1>n, <1>r, <1>c, <1>u DEF Shape
<1>13. CASE Poll
  <2>1. RunUnchanged /\ UNCHANGED <<mode, stopping>>
    BY <1>13 DEF Poll
  <2>2. pc' \in {"recording", "streaming", "ending"} /\ (Event \/ events' = events)
    BY <1>13 DEF Poll
  <2>3. {"recording", "streaming", "ending"} \subseteq Steps
    BY DEF Steps
  <2> QED BY <2>1, <2>2, <2>3, <1>n, <1>c, <1>u DEF Shape
<1>14. CASE Answered
  <2>1. RunUnchanged
    BY <1>14 DEF Answered
  <2>2. \/ /\ pc' = "saving" /\ stopping' \in {aborted \/ mode # "ok", TRUE}
           /\ UNCHANGED <<mode, events>>
        \/ Event /\ Raise
    BY <1>14 DEF Answered, FailWrite
  <2>3. "saving" \in Steps /\ (aborted \/ mode # "ok") \in BOOLEAN
    BY DEF Steps
  <2> QED BY <2>1, <2>2, <2>3, <1>n, <1>r, <1>c, <1>u DEF Shape
<1>15. CASE FlushFails
  <2>1. RunUnchanged /\ Event
    BY <1>15 DEF FlushFails, FailWrite
  <2>2. \/ mode' = "bad" /\ pc' = "closed" /\ stopping' = stopping
        \/ Raise
    BY <1>15 DEF FlushFails
  <2>3. "closed" \in Steps
    BY DEF Steps
  <2> QED BY <2>1, <2>2, <2>3, <1>n, <1>r, <1>c, <1>u DEF Shape
<1>16. CASE Saved \/ Settled
  <2>1. pc' \in {"ending", "saved", "closing"} /\ UNCHANGED <<mode, stopping, events>> /\ RunUnchanged
    BY <1>16 DEF Saved, Settled
  <2>2. {"ending", "saved", "closing"} \subseteq Steps
    BY DEF Steps
  <2> QED BY <2>1, <2>2, <1>c, <1>u DEF Shape
<1>17. CASE Ended \/ Closed
  BY <1>17 DEF Ended, Closed, signal, Shape, Steps
<1>18. CASE MoveTo \/ Moved \/ Summarized
  BY <1>18 DEF MoveTo, Moved, Summarized, TreeUnchanged, signal, Shape, Steps
<1>19. CASE TreeEnds
  BY <1>19, <1>n DEF TreeEnds, FailWrite, store, TreeUnchanged, signal, Shape, Steps
<1>20. CASE UNCHANGED vars
  BY <1>20 DEF vars, run, signal, Shape
<1> QED
  BY <1>1, <1>2, <1>3, <1>4, <1>5, <1>6, <1>7, <1>8, <1>9, <1>10, <1>11, <1>12, <1>13, <1>14, <1>15,
     <1>16, <1>17, <1>18, <1>19, <1>20 DEF Next, Clients, Operation

(* What is handed back, lost or held was in a queue, in the run or being    *)
(* appended before.                                                         *)
LEMMA FateSteps ==
  ASSUME IInv, [Next]_vars
  PROVE  \A i \in Fated' :
           \/ i \in Fated
           \/ i \in UNION {ToSet(q) : q \in {inbox, steering, followUp, pending}}
           \/ i \in Callers /\ Writes(i)
<1> DEFINE Waiting == UNION {ToSet(q) : q \in {inbox, steering, followUp, pending}}
<1>s. ASSUME UNCHANGED <<returned, lost, held>> PROVE Fated' = Fated
  BY <1>s DEF Fated
<1>w. /\ ToSet(inbox) \subseteq Waiting /\ ToSet(steering) \subseteq Waiting
      /\ ToSet(followUp) \subseteq Waiting /\ ToSet(pending) \subseteq Waiting
  OBVIOUS
<1>r. Raise => lost' = lost \cup ToSet(inbox)
  BY DEF Raise
<1>k. inbox # <<>> => Last(inbox) \in ToSet(inbox) /\ ToSet(Front(inbox)) \subseteq ToSet(inbox)
  <2> SUFFICES ASSUME inbox # <<>>
               PROVE  Last(inbox) \in ToSet(inbox) /\ ToSet(Front(inbox)) \subseteq ToSet(inbox)
    OBVIOUS
  <2>1. inbox \in Seq(Nat) /\ Len(inbox) \in Nat \ {0}
    BY EmptySeq, LenProperties DEF IInv, QueueType, Queue
  <2>2. Last(inbox) \in ToSet(inbox)
    BY <2>1 DEF Last, ToSet
  <2>3. ToSet(Front(inbox)) \subseteq ToSet(inbox)
    BY <2>1 DEF Front, ToSet
  <2> QED BY <2>2, <2>3
<1>e. ToSet(<<>>) = {}
  BY DEF ToSet
<1> HIDE DEF Waiting
<1>1. CASE Prompt \/ Steer \/ NextTurn \/ AppendMessage \/ TreeStarts \/ AbortReturns \/ UNCHANGED vars
  BY <1>1, <1>s DEF Prompt, Steer, NextTurn, AppendMessage, TreeStarts, TreeUnchanged, AbortReturns, fates, vars
<1>2. CASE Abort
  BY <1>2, <1>w DEF Abort, Fated
<1>3. CASE AppendEnds
  <2>1. PICK w \in Callers : Writes(w) /\ returned' \in {returned, returned \cup {w}}
    BY <1>3 DEF AppendEnds, EndWrite, FailWrite
  <2>2. UNCHANGED <<lost, held>>
    BY <1>3 DEF AppendEnds
  <2> QED BY <2>1, <2>2 DEF Fated
<1>4. CASE TurnStateCreated \/ Announced \/ HookReturns
  <2>1. ASSUME NEW b, NEW g, PromptRejects(b, g), ToSet(g) \subseteq Waiting, inbox # <<>>
        PROVE  \A i \in Fated' : i \in Fated \/ i \in Waiting
    BY <2>1, <1>w, <1>k DEF PromptRejects, Fated
  <2>2. inbox # <<>>
    BY <1>4 DEF TurnStateCreated, Announced, HookReturns, IInv, Holds
  <2>3. BeforeRunUnchanged => Fated' = Fated
    BY <1>s DEF BeforeRunUnchanged, fates
  <2>4. ToSet(<<>>) \subseteq Waiting /\ ToSet(Front(inbox)) \subseteq Waiting
    BY <2>2, <1>e, <1>k, <1>w
  <2>5. \/ BeforeRunUnchanged \/ PromptRejects(<<>>, <<>>)
        \/ PromptRejects(Front(inbox), <<>>) \/ PromptRejects(<<>>, Front(inbox))
    BY <1>4 DEF TurnStateCreated, Announced, HookReturns
  <2>6. \A i \in Fated' : i \in Fated \/ i \in Waiting
    BY <2>1, <2>2, <2>3, <2>4, <2>5
  <2> QED BY <2>6 DEF Waiting
<1>5. CASE RunRaises \/ Recorded \/ Answered \/ FlushFails
  <2>1. UNCHANGED <<returned, held>>
    BY <1>5 DEF RunRaises, Recorded, Answered, FlushFails, RunUnchanged
  <2>2. lost' = lost \/ lost' = lost \cup ToSet(inbox)
    BY <1>5, <1>r DEF RunRaises, Recorded, Answered, FlushFails
  <2>3. \A i \in Fated' : i \in Fated \/ i \in Waiting
    BY <2>1, <2>2, <1>w DEF Fated
  <2> QED BY <2>3 DEF Waiting
<1>6. CASE Record \/ Poll \/ Answer \/ Flush \/ Flushed \/ Saved \/ Settled \/ Ended
  BY <1>6, <1>s DEF Record, Poll, Answer, Flush, Flushed, Saved, Settled, Ended, RunUnchanged, fates
<1>7. CASE Closed \/ TreeEnds
  <2>1. UNCHANGED <<returned, lost>> /\ held' = held \cup ToSet(pending)
    BY <1>7 DEF Closed, TreeEnds, TreeUnchanged
  <2>2. \A i \in Fated' : i \in Fated \/ i \in Waiting
    BY <2>1, <1>w DEF Fated
  <2> QED BY <2>2 DEF Waiting
<1>8. CASE MoveTo \/ Moved \/ Summarized
  BY <1>8, <1>s DEF MoveTo, Moved, Summarized, TreeUnchanged
<1> QED
  BY <1>1, <1>2, <1>3, <1>4, <1>5, <1>6, <1>7, <1>8 DEF Next, Clients, Operation

(* What waits is an item, and what is handed back, lost or held too.        *)
LEMMA NextFated ==
  ASSUME IInv, QueueInv, OrderInv, Fated \subseteq Items, [Next]_vars
  PROVE  (Fated \subseteq Items)'
<1>1. sent \in Nat /\ writes \subseteq Items /\ QueuesIn(Messages, writes) /\ Messages \subseteq Items
  BY DEF QueueInv, Placed, Messages, Items
<1>2. \A q \in {inbox, steering, followUp, pending} : ToSet(q) \subseteq Items
  <2>1. \A q \in {inbox, steering, followUp, pending} : q \in Seq(Items)
    BY <1>1, Wider DEF QueuesIn
  <2>2. ASSUME NEW q \in Seq(Items) PROVE ToSet(q) \subseteq Items
    BY <2>2 DEF ToSet
  <2> QED BY <2>1, <2>2
<1>3. \A w \in Callers : Writes(w) => w \in Items
  BY <1>1 DEF OrderInv, HandInv
<1>4. Fated' \subseteq Items
  BY <1>2, <1>3, FateSteps
<1>5. Items \subseteq Items'
  <2>1. sent' \in {sent, sent + 1}
    BY SentSteps
  <2> QED BY <1>1, <2>1 DEF Items
<1> QED BY <1>4, <1>5

(* The context stays, is read from the session or grows with it.            *)
LEMMA ContextMoves ==
  ASSUME IInv, [Next]_vars
  PROVE  \/ context' = context
         \/ context' = PathTo[leaf] /\ UNCHANGED <<log, leaf>>
         \/ context' = Append(context, Len(log) + 1) /\ EndWrite(Op)
<1>1. CASE Prompt \/ TreeStarts \/ Steer \/ NextTurn \/ Abort \/ AbortReturns \/ AppendMessage \/ AppendEnds
           \/ UNCHANGED vars
  BY <1>1 DEF Prompt, TreeStarts, TreeUnchanged, Steer, NextTurn, Abort, AbortReturns, AppendMessage, AppendEnds,
     run, vars
<1>2. CASE RunRaises \/ Poll \/ Ended \/ Settled \/ Closed \/ FlushFails
  BY <1>2 DEF RunRaises, Raise, Poll, Ended, Settled, Closed, FlushFails
<1>3. CASE TurnStateCreated \/ Announced \/ HookReturns
  BY <1>3 DEF TurnStateCreated, Announced, HookReturns, PromptRejects, BeforeRunUnchanged, store
<1>4. CASE Record \/ Answer \/ Flush \/ Flushed
  BY <1>4 DEF Record, Answer, Flush, Flushed, run
<1>5. CASE Recorded \/ Answered
  BY <1>5 DEF Recorded, Answered, Raise
<1>6. CASE Saved
  BY <1>6 DEF Saved, store
<1>7. CASE MoveTo \/ Moved \/ Summarized \/ TreeEnds
  BY <1>7 DEF MoveTo, Moved, Summarized, TreeEnds, TreeUnchanged
<1> QED
  BY <1>1, <1>2, <1>3, <1>4, <1>5, <1>6, <1>7 DEF Next, Clients, Operation

(* The context and the paths name entries of the log.                       *)
LEMMA NextContextType == ASSUME IInv, ContextInv, ContextType, [Next]_vars PROVE ContextType'
<1>w. /\ Op \in Writers /\ writing \in [Writers -> Entries]
      /\ log \in Seq(Entries) /\ Len(log) \in Nat /\ leaf \in 0..Len(log)
  BY LenProperties, TheWriters DEF IInv, StoreType, ContextInv
<1>1. CASE UNCHANGED <<log, leaf>>
  <2>1. PathTo' = PathTo
    BY <1>1 DEF PathTo
  <2>2. ~EndWrite(Op)
    <3>1. Len(Append(log, writing[Op])) = Len(log) + 1
      BY <1>w, AppendPlaces
    <3> QED BY <1>1, <1>w, <3>1 DEF EndWrite
  <2>3. context' \in Seq(1..Len(log))
    BY <1>w, <2>2, ContextMoves DEF ContextType
  <2> QED BY <1>1, <2>1, <2>3 DEF ContextType
<1>2. ASSUME NEW w \in Writers, EndWrite(w) PROVE ContextType'
  <2>1. PICK e : e = writing[w]
    OBVIOUS
  <2>2. e \in Entries /\ log' = Append(log, e)
    BY <1>2, <1>w, <2>1 DEF EndWrite
  <2>3. e.parent \in 0..Len(log)
    BY <1>2, <2>1 DEF EndWrite, ContextInv
  <2>4. /\ Len(log') = Len(log) + 1
        /\ \A k \in 1..Len(log') : k = Len(log) + 1 \/ k \in 1..Len(log)
        /\ log' # log
    BY <1>w, <2>2, AppendPlaces
  <2>5. /\ \A k \in 0..Len(log) : PathIn(Append(log, e))[k] = PathIn(log)[k]
        /\ PathIn(Append(log, e))[Len(log) + 1] = Append(PathIn(log)[e.parent], Len(log) + 1)
    BY <1>w, <2>2, <2>3, PathGrows DEF ContextInv
  <2>6. PathTo = PathIn(log) /\ PathTo' = PathIn(Append(log, e))
    BY <2>2 DEF PathTo, PathIn, IsPath
  <2>7. PICK S : S = 1..Len(log')
    OBVIOUS
  <2>8. \A s \in Seq(1..Len(log)) : s \in Seq(S) /\ Append(s, Len(log) + 1) \in Seq(S)
    <3>1. 1..Len(log) \subseteq S /\ Len(log) + 1 \in S
      BY <1>w, <2>4, <2>7
    <3>2. \A s \in Seq(1..Len(log)) : s \in Seq(S)
      BY <3>1, Wider
    <3> QED BY <3>1, <3>2, AppendProperties
  <2>9. context' \in Seq(S)
    <3>1. context' \in {context, Append(context, Len(log) + 1)}
      BY <2>4, ContextMoves
    <3> QED BY <2>8, <3>1 DEF ContextType
  <2>10. ASSUME NEW k \in 0..Len(log') PROVE PathTo'[k] \in Seq(S)
    <3>1. CASE k \in 0..Len(log)
      BY <2>5, <2>6, <2>8, <3>1 DEF ContextType
    <3>2. CASE k = Len(log) + 1
      <4>1. PathTo[e.parent] \in Seq(1..Len(log))
        BY <2>3 DEF ContextType
      <4> QED BY <2>5, <2>6, <2>8, <3>2, <4>1
    <3> QED BY <1>w, <2>4, <3>1, <3>2
  <2> QED BY <2>7, <2>9, <2>10 DEF ContextType
<1> QED BY <1>1, <1>2, <1>w, StoreSteps

(* It begins so.                                                            *)
LEMMA InitShape == ASSUME Init PROVE ShapeInv
<1>1. Shape
  <2>1. 0 \in 0..MaxItems /\ 0 \in 0..MaxEvents /\ "none" \in Steps
    BY HarnessAssumption DEF Steps
  <2>2. sent = 0 /\ events = 0 /\ pc = "none"
    BY DEF Init
  <2>3. /\ phase = "idle" /\ mode = "ok" /\ aborting = "no"
        /\ aborted = FALSE /\ control = FALSE /\ stopping = FALSE
    BY DEF Init
  <2> QED BY <2>1, <2>2, <2>3 DEF Shape
<1>2. Fated \subseteq Items
  BY DEF Init, Fated
<1>3. log = <<>> /\ Len(log) = 0 /\ context = <<>>
  BY DEF Init
<1>4. ASSUME NEW k \in 0..Len(log) PROVE PathTo[k] = <<>>
  <2>1. IsPath(PathTo, log)
    BY InitContext, PathToIs, PathIsPath DEF ContextInv
  <2>2. k = 0
    BY <1>3
  <2>3. PathTo = [j \in 0..Len(log) |-> IF j = 0 THEN <<>> ELSE Append(PathTo[log[j].parent], j)]
    BY <2>1 DEF IsPath
  <2>4. PICK f : f = PathTo
    OBVIOUS
  <2>5. f = [j \in 0..Len(log) |-> IF j = 0 THEN <<>> ELSE Append(f[log[j].parent], j)]
    BY <2>3, <2>4
  <2> QED BY <2>2, <2>4, <2>5
<1>5. ContextType
  BY <1>3, <1>4, QueueOps DEF ContextType, SeqOps
<1> QED BY <1>1, <1>2, <1>5 DEF ShapeInv

(* TypeOK: every variable keeps the shape the code gives it; the parents of *)
(* the log point backwards, the leaf and the context to entries it has, and *)
(* the queues, the log and what was given up to items that were handed in.  *)
THEOREM TypeCorrect == Spec => []TypeOK
<1>1. Init => OrderInv /\ ContextInv /\ ShapeInv
  BY InitOrder, InitContext, InitShape
<1>2. IInv /\ QueueInv /\ OrderInv /\ ContextInv /\ ShapeInv /\ [Next]_vars
        => OrderInv' /\ ContextInv' /\ ShapeInv'
  BY NextOrder, NextContext, NextShape, NextFated, NextContextType DEF ShapeInv
<1>3. IInv /\ QueueInv /\ OrderInv /\ ContextInv /\ ShapeInv => TypeOK
  <2> SUFFICES ASSUME IInv, QueueInv, OrderInv, ContextInv, ShapeInv PROVE TypeOK
    OBVIOUS
  <2>1. \A q \in {inbox, steering, followUp, nextTurn, pending} : q \in Seq(Items)
    <3>1. QueuesIn(Messages, writes) /\ Messages \subseteq Items /\ writes \subseteq Items
      BY DEF QueueInv, Placed, Messages, Items
    <3> QED BY <3>1, Wider DEF QueuesIn
  <2>2. \A k \in 1..Len(log) : log[k].parent < k /\ log[k].item \in 0..sent
    <3> SUFFICES ASSUME NEW k \in 1..Len(log) PROVE log[k].parent < k /\ log[k].item \in 0..sent
      OBVIOUS
    <3>1. log[k].parent \in 0..(k - 1) /\ log[k].item \in 0..sent
      BY DEF ContextInv, Backward, OrderInv, Lines
    <3>2. PICK p : p = log[k].parent
      OBVIOUS
    <3>3. p \in 0..(k - 1) /\ k \in Int
      BY <3>1, <3>2
    <3> QED BY <3>1, <3>2, <3>3
  <2>3. UNION {writes, returned, lost, held} \subseteq Items
    BY DEF QueueInv, Placed, ShapeInv, Fated, Items
  <2>4. {aborted, control, stopping} \subseteq BOOLEAN
    BY DEF ShapeInv, Shape
  <2>5. pc \in {"none", "starting", "announcing", "hooking", "prompting", "polling",
                "recording", "streaming", "failing", "saving", "saved", "ending",
                "settling", "closing", "closed", "summarizing", "moving"}
    BY DEF ShapeInv, Shape, Steps
  <2>6. met \subseteq Writers /\ crossed \subseteq 1..Len(log)
    BY DEF IInv, StoreType
  <2> QED
    BY <2>1, <2>2, <2>3, <2>4, <2>5, <2>6 DEF TypeOK, ShapeInv, Shape, ContextType, ContextInv
<1> QED BY <1>1, <1>2, <1>3, QueueInvariance, PTL DEF Spec
=============================================================================
