--------------------------- MODULE AgentLoopProofs ---------------------------
(***************************************************************************)
(* What the agent records, for any number of messages, calls, turns and    *)
(* rejections: the loop asks the model with the conversation that the      *)
(* agent has recorded, and tool results stand behind the assistant message *)
(* that asked for them, in the order of its calls.  No message handed in   *)
(* is lost or recorded twice, and in one-at-a-time mode the model answers  *)
(* each steering message before it sees the next.  Every request made of   *)
(* the conversation is one that the provider accepts.                      *)
(***************************************************************************)
EXTENDS MCAgentLoop, FiniteSetTheorems, FunctionTheorems, SequenceTheorems, TLAPS

-----------------------------------------------------------------------------
(* Counting the elements of a sequence that are in a set.                  *)

Places(P, s) == {i \in DOMAIN s : s[i] \in P}
Count(P, s)  == Cardinality(Places(P, s))

(* A count is a number, zero exactly when nothing is counted.              *)
LEMMA CountNat ==
  ASSUME NEW S, NEW s \in Seq(S), NEW P
  PROVE  /\ IsFiniteSet(Places(P, s)) /\ Count(P, s) \in Nat
         /\ Count(P, s) = 0 <=> \A i \in 1..Len(s) : s[i] \notin P
<1>1. Len(s) \in Nat /\ DOMAIN s = 1..Len(s)
  BY LenProperties
<1>2. IsFiniteSet(1..Len(s))
  BY <1>1, FS_Interval
<1>3. Places(P, s) \subseteq 1..Len(s)
  BY <1>1 DEF Places
<1>4. IsFiniteSet(Places(P, s))
  BY <1>2, <1>3, FS_Subset
<1>5. Count(P, s) \in Nat /\ (Count(P, s) = 0 <=> Places(P, s) = {})
  BY <1>4, FS_CardinalityType, FS_EmptySet DEF Count
<1>6. Places(P, s) = {} <=> \A i \in 1..Len(s) : s[i] \notin P
  BY <1>1 DEF Places
<1> QED BY <1>4, <1>5, <1>6

(* Nothing is in the empty sequence.                                       *)
LEMMA CountEmpty ==
  ASSUME NEW P
  PROVE  Count(P, <<>>) = 0
<1>1. Places(P, <<>>) = {}
  BY DEF Places
<1> QED BY <1>1, FS_EmptySet DEF Count

(* Shifting the places of a sequence does not change how many there are.   *)
LEMMA CountShifted ==
  ASSUME NEW S, NEW s \in Seq(S), NEW P, NEW n \in Nat
  PROVE  LET D == {i \in (n + 1)..(n + Len(s)) : s[i - n] \in P}
         IN  IsFiniteSet(D) /\ Cardinality(D) = Count(P, s)
<1> DEFINE D == {i \in (n + 1)..(n + Len(s)) : s[i - n] \in P}
           f == [i \in Places(P, s) |-> i + n]
<1>1. Len(s) \in Nat /\ DOMAIN s = 1..Len(s)
  BY LenProperties
<1>2. \A i \in Places(P, s) : i \in Nat /\ i + n \in D
  BY <1>1 DEF Places
<1>3. \A j \in D : j - n \in Places(P, s) /\ (j - n) + n = j
  BY <1>1 DEF Places
<1>4. f \in [Places(P, s) -> D]
  BY <1>2
<1>5. \A a, b \in Places(P, s) : f[a] = f[b] => a = b
  BY <1>2
<1>6. \A j \in D : \E a \in Places(P, s) : f[a] = j
  BY <1>3
<1>7. f \in Bijection(Places(P, s), D)
  BY <1>4, <1>5, <1>6, Fun_IsBij
<1>8. ExistsBijection(Places(P, s), D)
  BY <1>7 DEF ExistsBijection
<1> QED BY <1>8, CountNat, FS_Bijection DEF Count

(* A concatenation counts what its parts count.                            *)
LEMMA CountConcat ==
  ASSUME NEW S, NEW s \in Seq(S), NEW t \in Seq(S), NEW P
  PROVE  Count(P, s \o t) = Count(P, s) + Count(P, t)
<1> DEFINE n == Len(s)
           D == {i \in (n + 1)..(n + Len(t)) : t[i - n] \in P}
<1>1. /\ Len(s) \in Nat /\ DOMAIN s = 1..Len(s)
      /\ Len(t) \in Nat /\ DOMAIN t = 1..Len(t)
  BY LenProperties
<1>2. /\ s \o t \in Seq(S) /\ Len(s \o t) = n + Len(t)
      /\ \A i \in 1..n : (s \o t)[i] = s[i]
      /\ \A i \in (n + 1)..(n + Len(t)) : (s \o t)[i] = t[i - n]
  BY <1>1, ConcatProperties
<1>3. DOMAIN (s \o t) = 1..(n + Len(t))
  BY <1>2, LenProperties
<1>4. Places(P, s \o t) = Places(P, s) \cup D
  BY <1>1, <1>2, <1>3 DEF Places
<1>5. Places(P, s) \cap D = {}
  BY <1>1 DEF Places
<1>6. IsFiniteSet(D) /\ Cardinality(D) = Count(P, t)
  BY <1>1, CountShifted
<1>7. IsFiniteSet(Places(P, s)) /\ Count(P, s) \in Nat /\ Count(P, t) \in Nat
  BY CountNat
<1>8. Cardinality(Places(P, s) \cup D) = Cardinality(Places(P, s)) + Cardinality(D) - Cardinality({})
  BY <1>5, <1>6, <1>7, FS_Union
<1> QED BY <1>4, <1>6, <1>7, <1>8, FS_EmptySet DEF Count

(* A sequence of one, ...                                                  *)
LEMMA CountOne ==
  ASSUME NEW P, NEW e
  PROVE  Count(P, <<e>>) = IF e \in P THEN 1 ELSE 0
<1>1. Places(P, <<e>>) = IF e \in P THEN {1} ELSE {}
  BY DEF Places
<1> QED BY <1>1, FS_Singleton, FS_EmptySet DEF Count

(* ... and one more at the end.                                            *)
LEMMA CountAppend ==
  ASSUME NEW S, NEW s \in Seq(S), NEW e \in S, NEW P
  PROVE  Count(P, Append(s, e)) = Count(P, s) + (IF e \in P THEN 1 ELSE 0)
<1>1. Append(s, e) = s \o <<e>> /\ <<e>> \in Seq(S)
  BY AppendIsConcat
<1>2. Count(P, s \o <<e>>) = Count(P, s) + Count(P, <<e>>)
  BY <1>1, CountConcat
<1>3. Count(P, <<e>>) = IF e \in P THEN 1 ELSE 0
  BY CountOne
<1> QED BY <1>1, <1>2, <1>3

(* A sequence is its head and its tail.                                    *)
LEMMA CountTail ==
  ASSUME NEW S, NEW q \in Seq(S), q # <<>>, NEW P
  PROVE  Count(P, q) = (IF Head(q) \in P THEN 1 ELSE 0) + Count(P, Tail(q))
<1>1. Head(q) \in S /\ Tail(q) \in Seq(S)
  BY HeadTailProperties
<1>2. <<Head(q)>> \in Seq(S)
  BY <1>1
<1>3. q = <<Head(q)>> \o Tail(q)
  <2>1. /\ Len(q) \in Nat \ {0} /\ Len(Tail(q)) = Len(q) - 1
        /\ \A i \in 1..Len(Tail(q)) : Tail(q)[i] = q[i + 1]
    BY EmptySeq, HeadTailProperties
  <2>2. /\ <<Head(q)>> \o Tail(q) \in Seq(S) /\ Len(<<Head(q)>> \o Tail(q)) = 1 + Len(Tail(q))
        /\ \A i \in 1..1 + Len(Tail(q)) :
             (<<Head(q)>> \o Tail(q))[i] = IF i <= 1 THEN <<Head(q)>>[i] ELSE Tail(q)[i - 1]
    BY <1>1, <1>2, ConcatProperties
  <2>3. q[1] = Head(q)
    OBVIOUS
  <2>4. \A i \in 1..Len(q) : q[i] = (<<Head(q)>> \o Tail(q))[i]
    BY <2>1, <2>2, <2>3
  <2> QED BY <2>1, <2>2, <2>4, SeqEqual
<1>4. Count(P, <<Head(q)>> \o Tail(q)) = Count(P, <<Head(q)>>) + Count(P, Tail(q))
  BY <1>1, <1>2, CountConcat
<1> QED BY <1>3, <1>4, CountOne

-----------------------------------------------------------------------------
(* The entries of the logs                                                 *)

(* The first n results of turn t.                                          *)
Run(t, n) == [i \in 1..n |-> [role |-> "result", id |-> t, part |-> i, ok |-> TRUE]]

LEMMA UserEntries ==
  ASSUME NEW s \in Seq(Msgs)
  PROVE  /\ Users(s) \in Seq(Entry) /\ Len(Users(s)) = Len(s)
         /\ \A i \in 1..Len(s) : Users(s)[i].role = "user"
<1>1. Len(s) \in Nat /\ DOMAIN s = 1..Len(s) /\ \A i \in 1..Len(s) : s[i] \in Nat
  <2>1. Msgs \subseteq Nat
    BY DEF Msgs
  <2>2. Len(s) \in Nat /\ DOMAIN s = 1..Len(s) /\ \A i \in 1..Len(s) : s[i] \in Msgs
    BY LenProperties
  <2>3. QED
    BY <2>1, <2>2
<1>2. \A i \in 1..Len(s) : [role |-> "user", id |-> s[i], part |-> 0, ok |-> TRUE] \in Entry
  BY <1>1, AgentAssumption DEF Entry
<1>3. Users(s) = [i \in 1..Len(s) |-> [role |-> "user", id |-> s[i], part |-> 0, ok |-> TRUE]]
  BY <1>1 DEF Users
<1>4. QED
  BY <1>1, <1>2, <1>3

LEMMA AssistantEntry ==
  ASSUME turns \in Nat, NEW n \in 0..MaxCalls, NEW ok \in BOOLEAN
  PROVE  /\ Assistant(n, ok) \in Entry
         /\ Assistant(n, ok).role = "assistant" /\ Assistant(n, ok).id = turns + 1
         /\ [Assistant(n, ok) EXCEPT !.id = 0] \in Entry
         /\ [Assistant(n, ok) EXCEPT !.id = 0].role = "assistant"
  BY AgentAssumption DEF Assistant, Entry

LEMMA ResultEntry ==
  ASSUME NEW t \in Nat, NEW i \in 1..MaxCalls
  PROVE  [role |-> "result", id |-> t, part |-> i, ok |-> TRUE] \in Entry
  BY AgentAssumption DEF Entry

LEMMA RunEntries ==
  ASSUME NEW t \in Nat, NEW n \in 0..MaxCalls
  PROVE  /\ Run(t, n) \in Seq(Entry) /\ Len(Run(t, n)) = n
         /\ \A i \in 1..n : Run(t, n)[i] = [role |-> "result", id |-> t, part |-> i, ok |-> TRUE]
<1>1. \A i \in 1..n : [role |-> "result", id |-> t, part |-> i, ok |-> TRUE] \in Entry
  BY ResultEntry, AgentAssumption
<1>2. QED
  BY <1>1 DEF Run

(* One more result.                                                        *)
LEMMA RunNext ==
  ASSUME NEW s \in Seq(Entry), NEW t \in Nat, NEW n \in 0..MaxCalls, n + 1 <= MaxCalls
  PROVE  Append(s \o Run(t, n), [role |-> "result", id |-> t, part |-> n + 1, ok |-> TRUE])
           = s \o Run(t, n + 1)
<1> DEFINE e == [role |-> "result", id |-> t, part |-> n + 1, ok |-> TRUE]
           a == Append(s \o Run(t, n), e)
           b == s \o Run(t, n + 1)
<1>1. n + 1 \in 0..MaxCalls /\ e \in Entry
  BY ResultEntry, AgentAssumption
<1>2. /\ Run(t, n) \in Seq(Entry) /\ Len(Run(t, n)) = n
      /\ Run(t, n + 1) \in Seq(Entry) /\ Len(Run(t, n + 1)) = n + 1
      /\ \A i \in 1..n : Run(t, n)[i] = Run(t, n + 1)[i]
      /\ Run(t, n + 1)[n + 1] = e
  <2>1. Run(t, n) \in Seq(Entry) /\ Len(Run(t, n)) = n
    BY RunEntries
  <2>2. Run(t, n + 1) \in Seq(Entry) /\ Len(Run(t, n + 1)) = n + 1
    BY <1>1, RunEntries
  <2>3. (\A i \in 1..n : Run(t, n)[i] = Run(t, n + 1)[i]) /\ Run(t, n + 1)[n + 1] = e
    BY AgentAssumption DEF Run
  <2>4. QED
    BY <2>1, <2>2, <2>3
<1> HIDE DEF e
<1>3. /\ s \o Run(t, n) \in Seq(Entry) /\ Len(s \o Run(t, n)) = Len(s) + n
      /\ b \in Seq(Entry) /\ Len(b) = Len(s) + n + 1
      /\ a \in Seq(Entry) /\ Len(a) = Len(s) + n + 1
  BY <1>1, <1>2, LenProperties, SMTT(20)
<1>4. \A i \in 1..Len(a) : a[i] = b[i]
  BY <1>1, <1>2, <1>3
<1>5. a = b
  BY <1>3, <1>4, SeqEqual
<1>6. QED
  BY <1>5 DEF e

(* The results recorded before a rejection.                                *)
LEMMA RunPrefix ==
  ASSUME NEW t \in Nat, NEW n \in 0..MaxCalls, NEW k \in 0..n
  PROVE  k \in 0..MaxCalls /\ SubSeq(Run(t, n), 1, k) = Run(t, k)
<1>1. k \in 0..MaxCalls
  BY AgentAssumption
<1> DEFINE a == SubSeq(Run(t, n), 1, k)
<1>2. Run(t, n) \in Seq(Entry) /\ Len(Run(t, n)) = n
  BY RunEntries
<1>3. Run(t, k) \in Seq(Entry) /\ Len(Run(t, k)) = k
  BY <1>1, RunEntries
<1>4. a \in Seq(Entry) /\ Len(a) = k /\ \A i \in 1..k : a[i] = Run(t, n)[i]
  BY <1>2, AgentAssumption
<1>5. \A i \in 1..k : Run(t, n)[i] = Run(t, k)[i]
  BY AgentAssumption DEF Run
<1>6. a = Run(t, k)
  BY <1>3, <1>4, <1>5, SeqEqual
<1>7. QED
  BY <1>1, <1>6

(* The messages recorded before a rejection.                               *)
LEMMA UserPrefix ==
  ASSUME NEW s \in Seq(Msgs), NEW k \in 0..Len(s)
  PROVE  /\ SubSeq(Users(s), 1, k) \in Seq(Entry)
         /\ \A i \in 1..Len(SubSeq(Users(s), 1, k)) : SubSeq(Users(s), 1, k)[i].role = "user"
  BY UserEntries, SubSeqProperties

-----------------------------------------------------------------------------
(* Types                                                                   *)

CallStates == {"waiting", "announced", "refused", "prepared"} \cup Over

Numbers ==
  /\ sent \in 0..MaxSent /\ turns \in Nat
  /\ toolTurns \in 0..MaxToolTurns /\ rejects \in 0..MaxRejects
  /\ runStart \in 0..Len(transcript)
  /\ pc = "batch" => turns >= 1

Flags ==
  /\ pc \in {"idle", "begin", "turn", "model", "modelAborted", "batch", "turnEnd", "pollFollowUp",
             "end", "failing"}
  /\ aborted \in BOOLEAN /\ skipPoll \in BOOLEAN /\ more \in BOOLEAN
  /\ mode \in {"none", "parallel", "sequential", "truncated"}
  /\ queueMode \in {"all", "one-at-a-time"}

(* Messages are pending only between a poll and the turn that takes them.  *)
Waiting ==
  /\ steering \in Seq(Msgs) /\ followUp \in Seq(Msgs) /\ pending \in Seq(Msgs)
  /\ steers \subseteq Msgs /\ lost \subseteq Msgs
  /\ pc \in {"idle", "model", "modelAborted", "end", "failing"} => pending = <<>>

Logs == transcript \in Seq(Entry) /\ context \in Seq(Entry)

Batch ==
  /\ calls \in Seq(CallStates) /\ Len(calls) <= MaxCalls
  /\ shown \subseteq (1..turns) \X (1..MaxCalls) /\ stray \subseteq (1..turns) \X (1..MaxCalls)
  /\ pc = "idle" => calls = <<>> /\ shown = {}

Types == Numbers /\ Flags /\ Waiting /\ Logs /\ Batch

LEMMA Drain ==
  ASSUME NEW q \in Seq(Msgs)
  PROVE  Taken(q) \in Seq(Msgs) /\ Rest(q) \in Seq(Msgs) /\ (q = <<>> => Taken(q) = <<>>)
  BY HeadTailProperties, EmptySeq DEF Taken, Rest

(* The message that a client hands in.                                     *)
LEMMA NewMessage ==
  ASSUME Types, NEW how, Send(how)
  PROVE  /\ sent + 1 \in Msgs /\ sent' \in 0..MaxSent /\ steers' \subseteq Msgs
         /\ <<sent + 1>> \in Seq(Msgs)
         /\ \A q \in Seq(Msgs) : Append(q, sent + 1) \in Seq(Msgs)
<1>1. sent + 1 \in Msgs /\ sent' \in 0..MaxSent
  BY AgentAssumption DEF Types, Numbers, Send, Msgs
<1>2. QED
  BY <1>1, AppendProperties DEF Types, Waiting, Send

(* The calls that were not skipped, whose results a batch records: no more *)
(* than were made.                                                         *)
LEMMA ResultsRun ==
  ASSUME Types
  PROVE  \E n \in 0..MaxCalls : Results = Run(turns, n) /\ n <= Len(calls)
<1> DEFINE D == {i \in DOMAIN calls : calls[i] # "skipped"}
<1>1. Len(calls) \in Nat /\ DOMAIN calls = 1..Len(calls) /\ Len(calls) <= MaxCalls
  BY LenProperties DEF Types, Batch
<1>2. IsFiniteSet(1..Len(calls)) /\ Cardinality(1..Len(calls)) = Len(calls)
  <2>1. 1 \in Int /\ Len(calls) \in Int
    BY <1>1
  <2>2. /\ IsFiniteSet(1..Len(calls))
        /\ Cardinality(1..Len(calls)) = IF 1 > Len(calls) THEN 0 ELSE Len(calls) - 1 + 1
    BY <2>1, FS_Interval
  <2>3. QED
    BY <1>1, <2>2
<1>3. Cardinality(D) \in Nat /\ Cardinality(D) <= Len(calls)
  <2>1. D \subseteq 1..Len(calls)
    BY <1>1
  <2>2. IsFiniteSet(D) /\ Cardinality(D) <= Cardinality(1..Len(calls))
    BY <1>2, <2>1, FS_Subset
  <2>3. QED
    BY <1>2, <2>2, FS_CardinalityType
<1>4. Cardinality(D) \in 0..MaxCalls
  BY <1>1, <1>3, AgentAssumption
<1>5. Results = Run(turns, Cardinality(D))
  BY DEF Results, Result, Run
<1>6. QED
  BY <1>3, <1>4, <1>5

(* The transcript only grows.                                              *)
LogsGrow == transcript' \in Seq(Entry) /\ context' \in Seq(Entry) /\ Len(transcript') >= Len(transcript)

LEMMA Joined ==
  ASSUME Types, context' \in Seq(Entry),
         \/ transcript' = transcript
         \/ \E u \in Seq(Entry) : transcript' = transcript \o u
         \/ \E e \in Entry : transcript' = Append(transcript, e)
  PROVE  LogsGrow
<1>1. transcript \in Seq(Entry) /\ Len(transcript) \in Nat
  BY LenProperties DEF Types, Logs
<1>2. CASE transcript' = transcript
  BY <1>1, <1>2 DEF LogsGrow
<1>3. ASSUME NEW u \in Seq(Entry), transcript' = transcript \o u
      PROVE  LogsGrow
  <2>1. Len(u) \in Nat /\ transcript' \in Seq(Entry) /\ Len(transcript') = Len(transcript) + Len(u)
    BY <1>1, <1>3, LenProperties, ConcatProperties
  <2>2. QED
    BY <1>1, <2>1 DEF LogsGrow
<1>4. ASSUME NEW e \in Entry, transcript' = Append(transcript, e)
      PROVE  LogsGrow
  <2>1. transcript' \in Seq(Entry) /\ Len(transcript') = Len(transcript) + 1
    BY <1>1, <1>4, AppendProperties
  <2>2. QED
    BY <1>1, <2>1 DEF LogsGrow
<1>5. QED
  BY <1>2, <1>3, <1>4

LEMMA StartLogs ==
  ASSUME Types, NEW p \in Seq(Msgs), NEW skip, StartRun(p, skip)
  PROVE  LogsGrow
<1>1. Users(p) \in Seq(Entry)
  BY UserEntries
<1>2. transcript \o Users(p) \in Seq(Entry)
  BY <1>1, ConcatProperties DEF Types, Logs
<1>3. transcript' = transcript /\ context' = transcript \o Users(p)
  BY DEF StartRun
<1>4. QED
  BY <1>2, <1>3, Joined

LEMMA LogSteps ==
  ASSUME Types, [Next]_vars
  PROVE  LogsGrow
<1>0. /\ transcript \in Seq(Entry) /\ context \in Seq(Entry) /\ Len(transcript) \in Nat
      /\ pending \in Seq(Msgs) /\ steering \in Seq(Msgs) /\ followUp \in Seq(Msgs)
      /\ turns \in Nat
  BY LenProperties DEF Types, Logs, Waiting, Numbers
<1>e. <<>> \in Seq(Entry) /\ <<>> \in Seq(Msgs)
  BY EmptySeq
<1>1. CASE Prompt
  BY <1>1, NewMessage, StartLogs DEF Prompt
<1>2. CASE ContinueSteering
  BY <1>0, <1>2, Drain, StartLogs DEF ContinueSteering
<1>3. CASE ContinueFollowUp
  BY <1>0, <1>3, Drain, StartLogs DEF ContinueFollowUp
<1>4. CASE ContinueTranscript
  BY <1>e, <1>4, StartLogs DEF ContinueTranscript
<1>5. CASE BeginRun \/ TurnStart
  <2>1. Users(pending) \in Seq(Entry)
    BY <1>0, UserEntries
  <2>2. context \o Users(pending) \in Seq(Entry)
    BY <1>0, <2>1, ConcatProperties
  <2>3. CASE RecordingRejected
    <3>1. PICK k \in 0..Len(pending) : transcript' = transcript \o SubSeq(Users(pending), 1, k)
      BY <2>3 DEF RecordingRejected
    <3>2. SubSeq(Users(pending), 1, k) \in Seq(Entry)
      BY <1>0, UserPrefix
    <3>3. context' = context
      BY <2>3 DEF RecordingRejected
    <3>4. QED
      BY <1>0, <3>1, <3>2, <3>3, Joined
  <2>4. QED
    <3>1. CASE /\ transcript' = transcript \o Users(pending)
               /\ context' \in {context, context \o Users(pending)}
      <4>1. context' \in Seq(Entry)
        BY <1>0, <2>2, <3>1
      <4>2. QED
        BY <2>1, <3>1, <4>1, Joined
    <3>2. QED
      BY <1>5, <2>3, <3>1 DEF BeginRun, TurnStart
<1>6. CASE ModelAnswers \/ ModelStops \/ ModelFails
  <2>1. \A n \in 0..MaxCalls, ok \in BOOLEAN : Assistant(n, ok) \in Entry
    BY <1>0, AssistantEntry
  <2>2. \/ UNCHANGED <<transcript, context>>
        \/ \E n \in 0..MaxCalls, ok \in BOOLEAN :
             /\ transcript' = Append(transcript, Assistant(n, ok))
             /\ context' \in {context, Append(context, Assistant(n, ok))}
    BY <1>6 DEF ModelAnswers, ModelStops, ModelFails
  <2>3. CASE UNCHANGED <<transcript, context>>
    BY <1>0, <2>3, Joined
  <2>4. ASSUME NEW e \in Entry,
               transcript' = Append(transcript, e), context' \in {context, Append(context, e)}
        PROVE  LogsGrow
    <3>1. Append(context, e) \in Seq(Entry)
      BY <1>0, AppendProperties
    <3>2. context' \in Seq(Entry)
      BY <1>0, <2>4, <3>1
    <3>3. QED
      BY <2>4, <3>2, Joined
  <2>5. QED
    BY <2>1, <2>2, <2>3, <2>4
<1>7. ASSUME NEW i \in DOMAIN calls, EndCall(i) \/ EndCallRejected(i)
      PROVE  LogsGrow
  <2>1. i \in 1..MaxCalls
    BY LenProperties, AgentAssumption DEF Types, Batch
  <2>2. Result(i) \in Entry
    BY <1>0, <2>1, ResultEntry DEF Result
  <2>3. transcript' \in {transcript, Append(transcript, Result(i))} /\ context' = context
    BY <1>7 DEF EndCall, EndCallRejected
  <2>4. QED
    BY <1>0, <2>2, <2>3, Joined
<1>8. CASE RecordBatch
  <2>1. PICK n \in 0..MaxCalls : Results = Run(turns, n)
    BY ResultsRun
  <2>2. Results \in Seq(Entry) /\ Len(Results) = n
    BY <1>0, <2>1, RunEntries
  <2>3. CASE transcript' \in {transcript, transcript \o Results} /\ context' = context \o Results
    <3>1. context' \in Seq(Entry)
      BY <1>0, <2>2, <2>3, ConcatProperties
    <3>2. QED
      BY <2>2, <2>3, <3>1, Joined
  <2>4. CASE \E k \in 0..Len(Results) : transcript' = transcript \o SubSeq(Results, 1, k) /\ context' = context
    <3>1. PICK k \in 0..n : transcript' = transcript \o SubSeq(Results, 1, k)
      BY <2>2, <2>4
    <3>2. SubSeq(Results, 1, k) \in Seq(Entry)
      BY <1>0, <2>1, RunPrefix, RunEntries
    <3>3. QED
      BY <1>0, <2>4, <3>1, <3>2, Joined
  <2>5. QED
    BY <1>8, <2>3, <2>4 DEF RecordBatch
<1>9. CASE EndRun
  <2>1. transcript' = transcript /\ context' \in {context, <<>>}
    BY <1>9 DEF EndRun, FinishRun
  <2>2. QED
    BY <1>0, <1>e, <2>1, Joined
<1>10. CASE HandleRunFailure
  <2> DEFINE failure == [Assistant(0, FALSE) EXCEPT !.id = 0]
  <2>1. failure \in Entry
    <3>1. 0 \in 0..MaxCalls /\ FALSE \in BOOLEAN
      BY AgentAssumption
    <3>2. QED
      BY <1>0, <3>1, AssistantEntry
  <2>2. transcript' \in {transcript, Append(transcript, failure)} /\ context' = <<>>
    BY <1>10 DEF HandleRunFailure, FinishRun
  <2> HIDE DEF failure
  <2>3. QED
    BY <1>0, <1>e, <2>1, <2>2, Joined
<1>11. CASE UNCHANGED <<transcript, context>>
  BY <1>0, <1>11, Joined
<1>12. \A i \in DOMAIN calls : AnnounceCall(i) \/ SkipCalls(i) \/ PrepareCall(i) => UNCHANGED <<transcript, context>>
  BY DEF AnnounceCall, SkipCalls, PrepareCall
<1>13. Steer \/ FollowUp \/ Abort \/ ClearAllQueues \/ TurnEnd \/ PollFollowUp \/ (\E c \in stray : StrayEnds(c))
         => UNCHANGED <<transcript, context>>
  BY DEF Steer, FollowUp, Abort, ClearAllQueues, TurnEnd, PollFollowUp, StrayEnds
<1>14. UNCHANGED vars => UNCHANGED <<transcript, context>>
  BY DEF vars
<1>15. QED
  BY <1>1, <1>2, <1>3, <1>4, <1>5, <1>6, <1>7, <1>8, <1>9, <1>10, <1>11, <1>12, <1>13, <1>14
     DEF Next, LoopStep, ClientStep

LEMMA NumberSteps ==
  ASSUME Types, [Next]_vars
  PROVE  Numbers'
<1>0. /\ sent \in 0..MaxSent /\ turns \in Nat /\ toolTurns \in 0..MaxToolTurns
      /\ rejects \in 0..MaxRejects /\ runStart \in 0..Len(transcript)
      /\ pc = "batch" => turns >= 1
      /\ MaxSent \in Nat /\ MaxToolTurns \in Nat /\ MaxRejects \in Nat
  BY AgentAssumption DEF Types, Numbers
<1>1. Len(transcript) \in Nat /\ Len(transcript') \in Nat /\ Len(transcript') >= Len(transcript)
  BY LogSteps, LenProperties DEF LogsGrow, Types, Logs
<1>2. rejects' \in 0..MaxRejects
  <2>1. rejects' = rejects \/ Rejected
    BY DEF Next, LoopStep, ClientStep, BeginRun, TurnStart, RecordingRejected, ModelAnswers, ModelStops,
           ModelFails, AnnounceCall, SkipCalls, PrepareCall, EndCall, EndCallRejected, RecordBatch,
           TurnEnd, PollFollowUp, EndRun, HandleRunFailure, Prompt, ContinueSteering, ContinueFollowUp,
           ContinueTranscript, StartRun, Steer, FollowUp, Abort, ClearAllQueues, StrayEnds, vars
  <2>2. QED
    BY <1>0, <2>1 DEF Rejected
<1>3. sent' \in 0..MaxSent
  <2>1. sent' = sent \/ \E how : Send(how)
    BY DEF Next, LoopStep, ClientStep, BeginRun, TurnStart, RecordingRejected, ModelAnswers, ModelStops,
           ModelFails, AnnounceCall, SkipCalls, PrepareCall, EndCall, EndCallRejected, RecordBatch,
           TurnEnd, PollFollowUp, EndRun, FinishRun, HandleRunFailure, Prompt, ContinueSteering,
           ContinueFollowUp, ContinueTranscript, Steer, FollowUp, Abort, ClearAllQueues, StrayEnds, vars
  <2>2. QED
    BY <1>0, <2>1, NewMessage
<1>4. runStart' \in 0..Len(transcript')
  <2>1. runStart' \in {0, runStart, Len(transcript)}
    BY DEF Next, LoopStep, ClientStep, BeginRun, TurnStart, RecordingRejected, ModelAnswers, ModelStops,
           ModelFails, AnnounceCall, SkipCalls, PrepareCall, EndCall, EndCallRejected, RecordBatch,
           TurnEnd, PollFollowUp, EndRun, FinishRun, HandleRunFailure, Prompt, ContinueSteering,
           ContinueFollowUp, ContinueTranscript, StartRun, Steer, FollowUp, Abort, ClearAllQueues,
           StrayEnds, counts, vars
  <2>2. QED
    BY <1>0, <1>1, <2>1
<1>5. turns' \in Nat /\ toolTurns' \in 0..MaxToolTurns /\ (pc' = "batch" => turns' >= 1)
  <2>1. CASE ModelAnswers
    <3>1. turns' = turns + 1 /\ (toolTurns' = toolTurns \/ (toolTurns < MaxToolTurns /\ toolTurns' = toolTurns + 1))
      BY <2>1 DEF ModelAnswers
    <3>2. QED
      BY <1>0, <3>1
  <2>2. CASE ModelStops \/ ModelFails
    <3>1. /\ turns' \in {turns, turns + 1} /\ pc' # "batch"
          /\ toolTurns' = toolTurns \/ (toolTurns < MaxToolTurns /\ toolTurns' = toolTurns + 1)
      BY <2>2 DEF ModelStops, ModelFails, Fail
    <3>2. QED
      BY <1>0, <3>1
  <2>3. ASSUME ~(ModelAnswers \/ ModelStops \/ ModelFails)
        PROVE  UNCHANGED <<turns, toolTurns>> /\ (pc' = "batch" => pc = "batch")
    BY <2>3 DEF Next, LoopStep, ClientStep, BeginRun, TurnStart, RecordingRejected, Fail,
           AnnounceCall, SkipCalls, PrepareCall, EndCall, EndCallRejected, NextCall, MayEnd, RecordBatch,
           TurnEnd, PollFollowUp, EndRun, FinishRun, HandleRunFailure, Prompt, ContinueSteering,
           ContinueFollowUp, ContinueTranscript, StartRun, Steer, FollowUp, Abort, ClearAllQueues,
           StrayEnds, counts, vars
  <2>4. QED
    BY <1>0, <2>1, <2>2, <2>3
<1>6. QED
  BY <1>2, <1>3, <1>4, <1>5 DEF Numbers

LEMMA FlagSteps ==
  ASSUME Types, [Next]_vars
  PROVE  Flags'
<1>0. Flags
  BY DEF Types
<1>1. /\ aborted' \in BOOLEAN /\ skipPoll' \in BOOLEAN /\ queueMode' \in {"all", "one-at-a-time"}
  BY <1>0 DEF Flags, Next, LoopStep, ClientStep, BeginRun, TurnStart, RecordingRejected, ModelAnswers,
       ModelStops, ModelFails, AnnounceCall, SkipCalls, PrepareCall, EndCall, EndCallRejected, RecordBatch,
       TurnEnd, PollFollowUp, EndRun, FinishRun, HandleRunFailure, Prompt, ContinueSteering,
       ContinueFollowUp, ContinueTranscript, StartRun, Steer, FollowUp, Abort, ClearAllQueues,
       StrayEnds, counts, vars
<1>2. more' \in BOOLEAN
  <2>1. CASE RecordBatch
    BY <1>0, <2>1 DEF RecordBatch, Flags
  <2>2. more' = more \/ more' = FALSE \/ RecordBatch
    BY DEF Next, LoopStep, ClientStep, BeginRun, TurnStart, ModelAnswers,
       ModelStops, ModelFails, AnnounceCall, SkipCalls, PrepareCall, EndCall, EndCallRejected,
       TurnEnd, PollFollowUp, EndRun, FinishRun, HandleRunFailure, Prompt, ContinueSteering,
       ContinueFollowUp, ContinueTranscript, StartRun, Steer, FollowUp, Abort, ClearAllQueues,
       StrayEnds, vars
  <2>3. QED
    BY <1>0, <2>1, <2>2 DEF Flags
<1>3. mode' \in {"none", "parallel", "sequential", "truncated"}
  BY <1>0 DEF Flags, Next, LoopStep, ClientStep, BeginRun, TurnStart, ModelAnswers,
       ModelStops, ModelFails, AnnounceCall, SkipCalls, PrepareCall, EndCall, EndCallRejected, RecordBatch,
       TurnEnd, PollFollowUp, EndRun, FinishRun, HandleRunFailure, Prompt, ContinueSteering,
       ContinueFollowUp, ContinueTranscript, StartRun, Steer, FollowUp, Abort, ClearAllQueues,
       StrayEnds, batch, vars
<1>4. pc' \in {"idle", "begin", "turn", "model", "modelAborted", "batch", "turnEnd", "pollFollowUp",
               "end", "failing"}
  BY <1>0 DEF Flags, Next, LoopStep, ClientStep, BeginRun, TurnStart, RecordingRejected, Fail, ModelAnswers,
       ModelStops, ModelFails, AnnounceCall, SkipCalls, PrepareCall, EndCall, EndCallRejected, RecordBatch,
       TurnEnd, PollFollowUp, EndRun, FinishRun, HandleRunFailure, Prompt, ContinueSteering,
       ContinueFollowUp, ContinueTranscript, StartRun, Steer, FollowUp, Abort, ClearAllQueues,
       StrayEnds, vars
<1>5. QED
  BY <1>1, <1>2, <1>3, <1>4 DEF Flags

LEMMA WaitingSteps ==
  ASSUME Types, [Next]_vars
  PROVE  Waiting'
<1>0. /\ steering \in Seq(Msgs) /\ followUp \in Seq(Msgs) /\ pending \in Seq(Msgs) /\ <<>> \in Seq(Msgs)
      /\ steers \subseteq Msgs /\ lost \subseteq Msgs
  BY EmptySeq DEF Types, Waiting
<1>1. /\ Taken(steering) \in Seq(Msgs) /\ Rest(steering) \in Seq(Msgs)
      /\ Taken(followUp) \in Seq(Msgs) /\ Rest(followUp) \in Seq(Msgs)
  BY <1>0, Drain
<1>2. steers' \subseteq Msgs
  <2>1. steers' = steers \/ \E how : Send(how)
    BY DEF Next, LoopStep, ClientStep, BeginRun, TurnStart, RecordingRejected, ModelAnswers, ModelStops,
           ModelFails, AnnounceCall, SkipCalls, PrepareCall, EndCall, EndCallRejected, RecordBatch,
           TurnEnd, PollFollowUp, EndRun, FinishRun, HandleRunFailure, Prompt, ContinueSteering,
           ContinueFollowUp, ContinueTranscript, Steer, FollowUp, Abort, ClearAllQueues, StrayEnds, vars
  <2>2. QED
    BY <1>0, <2>1, NewMessage
<1>3. steering' \in Seq(Msgs)
  <2>1. steering' \in {steering, <<>>, Rest(steering)} \/ Steer
    BY DEF Next, LoopStep, ClientStep, BeginRun, TurnStart, RecordingRejected, ModelAnswers, ModelStops,
           ModelFails, AnnounceCall, SkipCalls, PrepareCall, EndCall, EndCallRejected, RecordBatch,
           TurnEnd, PollFollowUp, EndRun, FinishRun, HandleRunFailure, Prompt, ContinueSteering,
           ContinueFollowUp, ContinueTranscript, FollowUp, Abort, ClearAllQueues, StrayEnds, queues, vars
  <2>2. CASE Steer
    BY <1>0, <2>2, NewMessage DEF Steer
  <2>3. QED
    BY <1>0, <1>1, <2>1, <2>2
<1>4. followUp' \in Seq(Msgs)
  <2>1. followUp' \in {followUp, <<>>, Rest(followUp)} \/ FollowUp
    BY DEF Next, LoopStep, ClientStep, BeginRun, TurnStart, RecordingRejected, ModelAnswers, ModelStops,
           ModelFails, AnnounceCall, SkipCalls, PrepareCall, EndCall, EndCallRejected, RecordBatch,
           TurnEnd, PollFollowUp, EndRun, FinishRun, HandleRunFailure, Prompt, ContinueSteering,
           ContinueFollowUp, ContinueTranscript, Steer, Abort, ClearAllQueues, StrayEnds, queues, vars
  <2>2. CASE FollowUp
    BY <1>0, <2>2, NewMessage DEF FollowUp
  <2>3. QED
    BY <1>0, <1>1, <2>1, <2>2
<1>5. pending' \in Seq(Msgs)
  <2>1. pending' \in {pending, <<>>, Taken(steering), Taken(followUp)} \/ Prompt
    BY DEF Next, LoopStep, ClientStep, BeginRun, TurnStart, RecordingRejected, Fail, ModelAnswers,
           ModelStops, ModelFails, AnnounceCall, SkipCalls, PrepareCall, EndCall, EndCallRejected,
           RecordBatch, TurnEnd, PollFollowUp, EndRun, FinishRun, HandleRunFailure, ContinueSteering,
           ContinueFollowUp, ContinueTranscript, StartRun, Steer, FollowUp, Abort, ClearAllQueues,
           StrayEnds, vars
  <2>2. CASE Prompt
    BY <2>2, NewMessage DEF Prompt, StartRun
  <2>3. QED
    BY <1>0, <1>1, <2>1, <2>2
<1>6. lost' \subseteq Msgs
  <2>1. \A s \in Seq(Msgs) : Ids(s) \subseteq Msgs
    BY LenProperties DEF Ids
  <2>2. CASE ClearAllQueues
    BY <1>0, <2>1, <2>2 DEF ClearAllQueues
  <2>3. CASE RecordingRejected
    <3>1. PICK k \in 0..Len(pending) : Fail({pending[i] : i \in (k + 1)..Len(pending)})
      BY <2>3 DEF RecordingRejected
    <3>2. \A i \in (k + 1)..Len(pending) : pending[i] \in Msgs
      BY <1>0, ElementOfSeq, LenProperties
    <3>3. QED
      BY <1>0, <3>1, <3>2 DEF Fail
  <2>4. lost' = lost \/ ClearAllQueues \/ RecordingRejected
    BY DEF Next, LoopStep, ClientStep, BeginRun, TurnStart, Fail, ModelAnswers,
           ModelStops, ModelFails, AnnounceCall, SkipCalls, PrepareCall, EndCall, EndCallRejected,
           RecordBatch, TurnEnd, PollFollowUp, EndRun, FinishRun, HandleRunFailure, Prompt, ContinueSteering,
           ContinueFollowUp, ContinueTranscript, StartRun, Steer, FollowUp, Abort,
           StrayEnds, vars
  <2>5. QED
    BY <1>0, <2>2, <2>3, <2>4
<1>7. pc' \in {"idle", "model", "modelAborted", "end", "failing"} => pending' = <<>>
  <2>0. pc \in {"idle", "model", "modelAborted", "end", "failing"} => pending = <<>>
    BY DEF Types, Waiting
  <2>1. CASE BeginRun \/ TurnStart \/ ModelAnswers \/ ModelStops \/ ModelFails
    BY <2>0, <2>1 DEF BeginRun, TurnStart, RecordingRejected, Fail, ModelAnswers, ModelStops, ModelFails
  <2>2. CASE TurnEnd \/ PollFollowUp
    BY <1>0, <2>0, <2>2, Drain DEF TurnEnd, PollFollowUp, Fail
  <2>3. CASE EndRun \/ HandleRunFailure \/ RecordBatch
    BY <2>0, <2>3 DEF EndRun, HandleRunFailure, FinishRun, RecordBatch, Fail
  <2>4. ASSUME NEW i \in DOMAIN calls,
               AnnounceCall(i) \/ SkipCalls(i) \/ PrepareCall(i) \/ EndCall(i) \/ EndCallRejected(i)
        PROVE  pc' \in {"idle", "model", "modelAborted", "end", "failing"} => pending' = <<>>
    BY <2>0, <2>4 DEF AnnounceCall, SkipCalls, PrepareCall, EndCall, EndCallRejected, Fail
  <2>5. CASE ClientStep
    BY <2>0, <2>5 DEF ClientStep, Prompt, ContinueSteering, ContinueFollowUp, ContinueTranscript,
                      StartRun, Steer, FollowUp, Abort, ClearAllQueues
  <2>6. (\E c \in stray : StrayEnds(c)) \/ UNCHANGED vars => UNCHANGED <<pc, pending>>
    BY DEF StrayEnds, vars
  <2>7. QED
    BY <2>0, <2>1, <2>2, <2>3, <2>4, <2>5, <2>6 DEF Next, LoopStep
<1>8. QED
  BY <1>2, <1>3, <1>4, <1>5, <1>6, <1>7 DEF Waiting

LEMMA BatchSteps ==
  ASSUME Types, [Next]_vars
  PROVE  Batch'
<1>0. /\ calls \in Seq(CallStates) /\ Len(calls) \in Nat /\ DOMAIN calls = 1..Len(calls)
      /\ Len(calls) <= MaxCalls /\ MaxCalls \in Nat
      /\ shown \subseteq (1..turns) \X (1..MaxCalls) /\ stray \subseteq (1..turns) \X (1..MaxCalls)
      /\ pc = "idle" => calls = <<>> /\ shown = {}
      /\ turns \in Nat /\ (pc = "batch" => turns >= 1)
  BY LenProperties, AgentAssumption DEF Types, Batch, Numbers
<1>1. calls' \in Seq(CallStates) /\ Len(calls') <= MaxCalls
  <2>0. <<>> \in Seq(CallStates) /\ Len(<<>>) = 0
    BY EmptySeq
  <2>1. CASE ModelAnswers
    <3>1. PICK n \in 0..MaxCalls : calls' = [i \in 1..n |-> "waiting"]
      BY <2>1 DEF ModelAnswers
    <3>2. "waiting" \in CallStates /\ n \in Nat /\ n <= MaxCalls
      BY <1>0 DEF CallStates
    <3>3. [i \in 1..n |-> "waiting"] \in Seq(CallStates) /\ Len([i \in 1..n |-> "waiting"]) = n
      BY <3>2
    <3>4. QED
      BY <3>1, <3>2, <3>3
  <2>2. ASSUME NEW i \in DOMAIN calls,
               AnnounceCall(i) \/ SkipCalls(i) \/ PrepareCall(i) \/ EndCall(i) \/ EndCallRejected(i)
        PROVE  calls' \in Seq(CallStates) /\ Len(calls') <= MaxCalls
    <3>1. \A j \in 1..Len(calls) : calls[j] \in CallStates
      BY <1>0, ElementOfSeq
    <3>2. {"announced", "refused", "prepared", "failed", "ended", "skipped"} \subseteq CallStates
      BY DEF CallStates, Over
    <3>3. CASE SkipCalls(i)
      <4>1. calls' = [j \in 1..Len(calls) |-> IF j >= i THEN "skipped" ELSE calls[j]]
        BY <1>0, <3>3 DEF SkipCalls
      <4>2. \A j \in 1..Len(calls) : (IF j >= i THEN "skipped" ELSE calls[j]) \in CallStates
        BY <3>1, <3>2
      <4>3. QED
        BY <1>0, <4>1, <4>2
    <3>4. CASE calls' = calls
      BY <1>0, <3>4
    <3>5. ASSUME NEW x \in CallStates, calls' = [calls EXCEPT ![i] = x]
          PROVE  calls' \in Seq(CallStates) /\ Len(calls') <= MaxCalls
      BY <1>0, <3>5, ExceptSeq
    <3>6. \/ SkipCalls(i) \/ calls' = calls
          \/ \E x \in {"announced", "refused", "prepared", "failed", "ended"} : calls' = [calls EXCEPT ![i] = x]
      BY <2>2 DEF AnnounceCall, PrepareCall, EndCall, EndCallRejected
    <3>7. QED
      BY <3>2, <3>3, <3>4, <3>5, <3>6
  <2>3. ASSUME ~ModelAnswers,
               ~\E i \in DOMAIN calls :
                  AnnounceCall(i) \/ SkipCalls(i) \/ PrepareCall(i) \/ EndCall(i) \/ EndCallRejected(i)
        PROVE  calls' = calls \/ calls' = <<>>
    BY <2>3 DEF Next, LoopStep, ClientStep, BeginRun, TurnStart, ModelStops, ModelFails, RecordBatch,
           TurnEnd, PollFollowUp, EndRun, FinishRun, HandleRunFailure, Prompt, ContinueSteering,
           ContinueFollowUp, ContinueTranscript, StartRun, Steer, FollowUp, Abort, ClearAllQueues,
           StrayEnds, batch, vars
  <2>4. CASE calls' = <<>>
    <3>1. Len(calls') = 0
      BY <2>0, <2>4
    <3>2. QED
      BY <1>0, <2>0, <2>4, <3>1
  <2>5. CASE calls' = calls
    BY <1>0, <2>5
  <2>6. QED
    BY <2>1, <2>2, <2>3, <2>4, <2>5
<1>2. turns' \in Nat /\ turns' >= turns
  <2>1. turns' = turns \/ turns' = turns + 1
    BY DEF Next, LoopStep, ClientStep, BeginRun, TurnStart, RecordingRejected, ModelAnswers, ModelStops,
           ModelFails, AnnounceCall, SkipCalls, PrepareCall, EndCall, EndCallRejected, RecordBatch,
           TurnEnd, PollFollowUp, EndRun, FinishRun, HandleRunFailure, Prompt, ContinueSteering,
           ContinueFollowUp, ContinueTranscript, StartRun, Steer, FollowUp, Abort, ClearAllQueues,
           StrayEnds, counts, vars
  <2>2. QED
    BY <1>0, <2>1
<1>3. shown' \subseteq (1..turns') \X (1..MaxCalls) /\ stray' \subseteq (1..turns') \X (1..MaxCalls)
  <2>1. (1..turns) \X (1..MaxCalls) \subseteq (1..turns') \X (1..MaxCalls)
    BY <1>0, <1>2
  <2>2. ASSUME NEW i \in DOMAIN calls, AnnounceCall(i) \/ EndCall(i) \/ EndCallRejected(i)
        PROVE  /\ shown' \subseteq (1..turns) \X (1..MaxCalls)
               /\ stray' \subseteq (1..turns) \X (1..MaxCalls)
    <3>1. pc = "batch"
      BY <2>2 DEF AnnounceCall, NextCall, EndCall, EndCallRejected, MayEnd
    <3>2. turns \in 1..turns /\ \A j \in DOMAIN calls : j \in 1..MaxCalls
      BY <1>0, <3>1
    <3>3. \A j \in DOMAIN calls : <<turns, j>> \in (1..turns) \X (1..MaxCalls)
      BY <3>2
    <3>4. /\ shown' \subseteq shown \cup {<<turns, i>>}
          /\ stray' \subseteq stray \cup {<<turns, j>> : j \in DOMAIN calls}
      BY <2>2 DEF AnnounceCall, EndCall, EndCallRejected
    <3>5. QED
      BY <1>0, <3>3, <3>4
  <2>3. ASSUME ~\E i \in DOMAIN calls : AnnounceCall(i) \/ EndCall(i) \/ EndCallRejected(i)
        PROVE  shown' \subseteq shown /\ stray' \subseteq stray
    BY <2>3 DEF Next, LoopStep, ClientStep, BeginRun, TurnStart, ModelAnswers, ModelStops, ModelFails,
           SkipCalls, PrepareCall, RecordBatch,
           TurnEnd, PollFollowUp, EndRun, FinishRun, HandleRunFailure, Prompt, ContinueSteering,
           ContinueFollowUp, ContinueTranscript, StartRun, Steer, FollowUp, Abort, ClearAllQueues,
           StrayEnds, batch, vars
  <2>4. QED
    BY <1>0, <2>1, <2>2, <2>3
<1>4. pc' = "idle" => calls' = <<>> /\ shown' = {}
  <2>1. pc' = "idle" => FinishRun \/ (pc = "idle" /\ calls' = calls /\ shown' \subseteq shown)
    BY DEF Next, LoopStep, ClientStep, BeginRun, TurnStart, RecordingRejected, Fail, ModelAnswers, ModelStops,
           ModelFails, AnnounceCall, SkipCalls, PrepareCall, EndCall, EndCallRejected, NextCall, MayEnd,
           RecordBatch, TurnEnd, PollFollowUp, EndRun, HandleRunFailure, Prompt, ContinueSteering,
           ContinueFollowUp, ContinueTranscript, StartRun, Steer, FollowUp, Abort, ClearAllQueues,
           StrayEnds, batch, vars
  <2>2. QED
    BY <1>0, <2>1 DEF FinishRun
<1>5. QED
  BY <1>1, <1>3, <1>4 DEF Batch

(* Every reachable state is well typed.                                    *)
LEMMA TypeSteps ==
  ASSUME Types, [Next]_vars
  PROVE  Types'
  BY LogSteps, NumberSteps, FlagSteps, WaitingSteps, BatchSteps DEF Types, Logs, LogsGrow

-----------------------------------------------------------------------------
(* The order of the results                                                *)

(* ResultsInSourceOrder, of any log.                                       *)
Well(s) ==
  \A p \in DOMAIN s :
    s[p].role = "result" =>
      /\ p > 1
      /\ s[p - 1].role \in {"assistant", "result"}
      /\ s[p - 1].id = s[p].id
      /\ s[p].part = IF s[p - 1].role = "assistant" THEN 1 ELSE s[p - 1].part + 1

(* The log ends with the assistant message of turn t.                      *)
Closes(s, t) == s # <<>> /\ s[Len(s)].role = "assistant" /\ s[Len(s)].id = t

LEMMA WellPlain ==
  ASSUME NEW s \in Seq(Entry), NEW u \in Seq(Entry), Well(s),
         \A i \in 1..Len(u) : u[i].role # "result"
  PROVE  Well(s \o u)
<1> DEFINE w == s \o u
<1>1. /\ w \in Seq(Entry) /\ Len(w) = Len(s) + Len(u) /\ Len(s) \in Nat /\ Len(u) \in Nat
      /\ DOMAIN w = 1..Len(w) /\ DOMAIN s = 1..Len(s)
  BY ConcatProperties, LenProperties
<1>2. /\ \A i \in 1..Len(s) : w[i] = s[i]
      /\ \A i \in (Len(s) + 1)..Len(w) : i - Len(s) \in 1..Len(u) /\ w[i] = u[i - Len(s)]
  BY <1>1, ConcatProperties
<1> HIDE DEF w
<1>3. ASSUME NEW p \in DOMAIN w, w[p].role = "result"
      PROVE  /\ p > 1
             /\ w[p - 1].role \in {"assistant", "result"}
             /\ w[p - 1].id = w[p].id
             /\ w[p].part = IF w[p - 1].role = "assistant" THEN 1 ELSE w[p - 1].part + 1
  <2>1. p \in 1..Len(s)
    BY <1>1, <1>2, <1>3
  <2>2. w[p] = s[p]
    BY <1>2, <2>1
  <2>3. /\ p > 1 /\ s[p - 1].role \in {"assistant", "result"} /\ s[p - 1].id = s[p].id
        /\ s[p].part = IF s[p - 1].role = "assistant" THEN 1 ELSE s[p - 1].part + 1
    BY <1>1, <1>3, <2>1, <2>2 DEF Well
  <2>4. w[p - 1] = s[p - 1]
    BY <1>1, <1>2, <2>1, <2>3
  <2>5. QED
    BY <2>2, <2>3, <2>4
<1>4. Well(w)
  BY <1>3 DEF Well
<1>5. QED
  BY <1>4 DEF w

LEMMA WellAppend ==
  ASSUME NEW s \in Seq(Entry), NEW e \in Entry, Well(s), e.role # "result"
  PROVE  Well(Append(s, e))
<1>1. <<e>> \in Seq(Entry) /\ Len(<<e>>) = 1 /\ <<e>>[1] = e
  OBVIOUS
<1>2. Append(s, e) = s \o <<e>>
  BY AppendIsConcat
<1>3. Well(s \o <<e>>)
  <2>1. \A i \in 1..Len(<<e>>) : <<e>>[i].role # "result"
    BY <1>1
  <2>2. QED
    BY <1>1, <2>1, WellPlain
<1>4. QED
  BY <1>2, <1>3

LEMMA WellRun ==
  ASSUME NEW s \in Seq(Entry), NEW t \in Nat, NEW n \in 0..MaxCalls, Well(s), Closes(s, t)
  PROVE  Well(s \o Run(t, n))
<1> DEFINE u == Run(t, n)
           w == s \o u
<1>1. u \in Seq(Entry) /\ Len(u) = n
  BY RunEntries
<1>2. \A i \in 1..n : u[i].role = "result" /\ u[i].id = t /\ u[i].part = i
  BY DEF Run
<1> HIDE DEF u
<1>3. /\ w \in Seq(Entry) /\ Len(w) = Len(s) + n /\ Len(s) \in Nat /\ n \in Nat
      /\ DOMAIN w = 1..Len(w) /\ DOMAIN s = 1..Len(s)
  BY <1>1, ConcatProperties, LenProperties, AgentAssumption
<1>4. /\ \A i \in 1..Len(s) : w[i] = s[i]
      /\ \A i \in (Len(s) + 1)..Len(w) : i - Len(s) \in 1..n /\ w[i] = u[i - Len(s)]
  BY <1>1, <1>3, ConcatProperties
<1> HIDE DEF w
<1>5. Len(s) >= 1 /\ s[Len(s)].role = "assistant" /\ s[Len(s)].id = t
  BY <1>3, EmptySeq DEF Closes
<1>6. ASSUME NEW p \in DOMAIN w, w[p].role = "result"
      PROVE  /\ p > 1
             /\ w[p - 1].role \in {"assistant", "result"}
             /\ w[p - 1].id = w[p].id
             /\ w[p].part = IF w[p - 1].role = "assistant" THEN 1 ELSE w[p - 1].part + 1
  <2>0. p \in 1..(Len(s) + n)
    BY <1>3
  <2>1. CASE p <= Len(s)
    <3>1. w[p] = s[p] /\ p \in DOMAIN s
      BY <1>3, <1>4, <2>0, <2>1
    <3>2. /\ p > 1 /\ s[p - 1].role \in {"assistant", "result"} /\ s[p - 1].id = s[p].id
          /\ s[p].part = IF s[p - 1].role = "assistant" THEN 1 ELSE s[p - 1].part + 1
      BY <1>6, <3>1 DEF Well
    <3>3. w[p - 1] = s[p - 1]
      BY <1>3, <1>4, <2>0, <2>1, <3>2
    <3>4. QED
      BY <3>1, <3>2, <3>3
  <2>2. CASE p = Len(s) + 1
    <3>1. p \in (Len(s) + 1)..Len(w) /\ p - Len(s) = 1 /\ p - 1 = Len(s) /\ 1 \in 1..n
      BY <1>3, <2>0, <2>2
    <3>2. w[p] = u[1] /\ w[p - 1] = s[Len(s)]
      BY <1>3, <1>4, <1>5, <3>1
    <3>3. u[1].id = t /\ u[1].part = 1
      BY <1>2, <3>1
    <3>4. QED
      BY <1>3, <1>5, <2>2, <3>2, <3>3
  <2>3. CASE p > Len(s) + 1
    <3>1. /\ p \in (Len(s) + 1)..Len(w) /\ p - 1 \in (Len(s) + 1)..Len(w)
          /\ p - Len(s) \in 1..n /\ p - 1 - Len(s) \in 1..n
      BY <1>3, <2>0, <2>3
    <3>2. w[p] = u[p - Len(s)] /\ w[p - 1] = u[p - 1 - Len(s)]
      BY <1>4, <3>1
    <3>3. /\ w[p].id = t /\ w[p].part = p - Len(s)
          /\ w[p - 1].role = "result" /\ w[p - 1].id = t /\ w[p - 1].part = p - 1 - Len(s)
      BY <1>2, <3>1, <3>2
    <3>4. QED
      BY <1>3, <2>0, <2>3, <3>3
  <2>4. QED
    BY <1>3, <2>0, <2>1, <2>2, <2>3
<1>7. Well(w)
  BY <1>6 DEF Well
<1>8. QED
  BY <1>7 DEF w, u

(* No result yet.                                                          *)
LEMMA RunNone ==
  ASSUME NEW s \in Seq(Entry), NEW t \in Nat
  PROVE  s \o Run(t, 0) = s
<1>1. Run(t, 0) \in Seq(Entry) /\ Len(Run(t, 0)) = 0
  BY RunEntries, AgentAssumption
<1>2. Run(t, 0) = <<>>
  BY <1>1, EmptySeq
<1>3. QED
  BY <1>2, ConcatEmptySeq

-----------------------------------------------------------------------------
(* The two logs                                                            *)

Done == {"ended", "failed"}

(* A batch is worked through in the order of its calls: outside parallel   *)
(* mode one call at a time, and an abort skips the rest.                   *)
InOrder ==
  \A i, j \in DOMAIN calls : i < j =>
    /\ calls[j] \notin {"waiting", "skipped"} =>
         calls[i] \in Done \/ (mode = "parallel" /\ calls[i] = "prepared")
    /\ calls[i] = "skipped" => calls[j] = "skipped"

(* The first d calls are done, and their results stand in the transcript.  *)
RecordedTo(d) ==
  /\ \A i \in DOMAIN calls : i <= d <=> calls[i] \in Done
  /\ transcript = context \o Run(turns, d)

Recorded ==
  IF mode = "parallel" THEN context = transcript
  ELSE \E d \in 0..Len(calls) : RecordedTo(d)

InBatch == Well(context) /\ Closes(context, turns) /\ InOrder /\ Recorded

(* The loop's log runs ahead of the agent's while a run begins, and stays  *)
(* behind it while a batch is executed one by one.                         *)
Agree ==
  /\ pc \in {"turn", "model", "modelAborted", "turnEnd", "pollFollowUp"} => context = transcript
  /\ pc = "begin" => context = transcript \o Users(pending)
  /\ pc = "batch" => InBatch

IInv == Types /\ Agree /\ Well(transcript)

(* One call changes its state.                                             *)
LEMMA OrderKept ==
  ASSUME Types, InOrder, NEW i \in DOMAIN calls, NEW x \in CallStates \ {"waiting", "skipped"},
         calls' = [calls EXCEPT ![i] = x], mode' = mode, calls[i] # "skipped",
         \A j \in DOMAIN calls : j < i => calls[j] \in Done \/ (mode = "parallel" /\ calls[j] = "prepared"),
         \/ x \in Done
         \/ \A j \in DOMAIN calls : i < j => calls[j] \in {"waiting", "skipped"}
  PROVE  InOrder'
<1>1. DOMAIN calls' = DOMAIN calls /\ \A j \in DOMAIN calls : calls'[j] = IF j = i THEN x ELSE calls[j]
  BY DEF Types, Batch
<1>2. DOMAIN calls \subseteq Int
  BY LenProperties DEF Types, Batch
<1>3. QED
  BY <1>1, <1>2 DEF InOrder, Done

(* The call that is worked on is neither done nor behind an open one.      *)
LEMMA CallsInTurn ==
  ASSUME Types, InOrder, NEW i \in DOMAIN calls
  PROVE  /\ NextCall(i) =>
              /\ \A j \in DOMAIN calls : j < i =>
                   calls[j] \in Done \/ (mode = "parallel" /\ calls[j] = "prepared")
              /\ \A j \in DOMAIN calls : i < j => calls[j] \in {"waiting", "skipped"}
         /\ calls[i] \in {"announced", "refused", "prepared"} =>
              \A j \in DOMAIN calls : j < i =>
                calls[j] \in Done \/ (mode = "parallel" /\ calls[j] = "prepared")
         /\ calls[i] = "announced" =>
              \A j \in DOMAIN calls : i < j => calls[j] \in {"waiting", "skipped"}
<1>1. DOMAIN calls = 1..Len(calls) /\ Len(calls) \in Nat
  BY LenProperties DEF Types, Batch
<1>2. ASSUME NextCall(i)
      PROVE  \A j \in DOMAIN calls : j < i =>
               calls[j] \in Done \/ (mode = "parallel" /\ calls[j] = "prepared")
  <2>1. \A j \in DOMAIN calls : j < i => j \in 1..(i - 1)
    BY <1>1
  <2>2. \A j \in DOMAIN calls : j < i => calls[j] # "skipped"
    BY <1>2 DEF NextCall, InOrder
  <2>3. QED
    BY <1>2, <2>1, <2>2 DEF NextCall, Over, Done
<1>3. ASSUME NextCall(i)
      PROVE  \A j \in DOMAIN calls : i < j => calls[j] \in {"waiting", "skipped"}
  BY <1>3 DEF NextCall, InOrder, Done
<1>4. ASSUME calls[i] \in {"announced", "refused", "prepared"}
      PROVE  \A j \in DOMAIN calls : j < i =>
               calls[j] \in Done \/ (mode = "parallel" /\ calls[j] = "prepared")
  BY <1>4 DEF InOrder
<1>5. ASSUME calls[i] = "announced"
      PROVE  \A j \in DOMAIN calls : i < j => calls[j] \in {"waiting", "skipped"}
  BY <1>5 DEF InOrder, Done
<1>6. QED
  BY <1>2, <1>3, <1>4, <1>5

(* No call becomes done or undone.                                         *)
LEMMA RecordedKept ==
  ASSUME Types, Recorded, UNCHANGED <<transcript, context, turns, mode>>, DOMAIN calls' = DOMAIN calls,
         Len(calls') = Len(calls), \A i \in DOMAIN calls : calls'[i] \in Done <=> calls[i] \in Done
  PROVE  Recorded'
<1>1. CASE mode = "parallel"
  BY <1>1 DEF Recorded
<1>2. CASE mode # "parallel"
  <2>1. PICK d \in 0..Len(calls) : RecordedTo(d)
    BY <1>2 DEF Recorded
  <2>2. RecordedTo(d)'
    BY <2>1 DEF RecordedTo
  <2>3. QED
    BY <1>2, <2>1, <2>2 DEF Recorded
<1>3. QED
  BY <1>1, <1>2

(* Outside parallel mode a call that ends is the first that is not done.   *)
LEMMA NextResult ==
  ASSUME Types, InBatch, mode # "parallel", NEW i \in DOMAIN calls, calls[i] \in {"refused", "prepared"}
  PROVE  /\ i \in 0..MaxCalls
         /\ \A j \in DOMAIN calls : j < i <=> calls[j] \in Done
         /\ Append(transcript, Result(i)) = context \o Run(turns, i)
<1>1. DOMAIN calls = 1..Len(calls) /\ Len(calls) \in Nat /\ Len(calls) <= MaxCalls /\ MaxCalls \in Nat
      /\ context \in Seq(Entry) /\ turns \in Nat
  BY LenProperties, AgentAssumption DEF Types, Batch, Logs, Numbers
<1>2. PICK d \in 0..Len(calls) : RecordedTo(d)
  BY DEF InBatch, Recorded
<1>3. \A j \in DOMAIN calls : j < i => calls[j] \in Done
  BY CallsInTurn DEF InBatch
<1>4. i > d
  <2>1. calls[i] \notin Done
    BY DEF Done
  <2>2. QED
    BY <1>1, <1>2, <2>1 DEF RecordedTo
<1>5. i = d + 1
  <2>1. ASSUME d + 1 < i
        PROVE  FALSE
    <3>1. d + 1 \in DOMAIN calls /\ ~(d + 1 <= d)
      BY <1>1, <2>1
    <3>2. QED
      BY <1>2, <1>3, <2>1, <3>1 DEF RecordedTo
  <2>2. QED
    BY <1>1, <1>4, <2>1
<1>6. d \in 0..MaxCalls /\ d + 1 <= MaxCalls
  BY <1>1, <1>5
<1>7. Append(context \o Run(turns, d), Result(i)) = context \o Run(turns, i)
  BY <1>1, <1>5, <1>6, RunNext DEF Result
<1>8. \A j \in DOMAIN calls : j < i <=> calls[j] \in Done
  BY <1>1, <1>2, <1>5 DEF RecordedTo
<1>9. QED
  BY <1>1, <1>2, <1>7, <1>8 DEF RecordedTo

(* When every call is over, the batch has the results of those that were   *)
(* not skipped.                                                            *)
LEMMA AllRecorded ==
  ASSUME Types, InBatch, mode # "parallel", \A i \in DOMAIN calls : calls[i] \in Over
  PROVE  transcript = context \o Results
<1>1. DOMAIN calls = 1..Len(calls) /\ Len(calls) \in Nat
  BY LenProperties DEF Types, Batch
<1>2. PICK d \in 0..Len(calls) : RecordedTo(d)
  BY DEF InBatch, Recorded
<1>3. {i \in DOMAIN calls : calls[i] # "skipped"} = 1..d
  <2>1. \A i \in DOMAIN calls : calls[i] # "skipped" <=> calls[i] \in Done
    BY DEF Over, Done
  <2>2. QED
    BY <1>1, <1>2, <2>1 DEF RecordedTo
<1>4. Cardinality(1..d) = d
  <2>1. 1 \in Int /\ d \in Int
    BY <1>1
  <2>2. Cardinality(1..d) = IF 1 > d THEN 0 ELSE d - 1 + 1
    BY <2>1, FS_Interval
  <2>3. QED
    BY <1>1, <2>2
<1>5. Results = Run(turns, d)
  BY <1>3, <1>4 DEF Results, Result, Run
<1>6. QED
  BY <1>2, <1>5 DEF RecordedTo

-----------------------------------------------------------------------------
(* The steps                                                               *)

(* Outside a batch, a run's start and its turns the logs may differ.       *)
LEMMA Free ==
  ASSUME pc' \in {"idle", "end", "failing"}, Well(transcript')
  PROVE  Agree' /\ Well(transcript')
  BY DEF Agree

(* Where the logs are the same, one step later they still are.             *)
LEMMA Together ==
  ASSUME pc' \notin {"begin", "batch"}, context' = transcript', Well(transcript')
  PROVE  Agree' /\ Well(transcript')
  BY DEF Agree

LEMMA StartAgrees ==
  ASSUME IInv, NEW p \in Seq(Msgs), NEW skip, StartRun(p, skip)
  PROVE  Agree' /\ Well(transcript')
<1>1. pc' = "begin" /\ transcript' = transcript /\ pending' = p /\ context' = transcript \o Users(p)
  BY DEF StartRun
<1>2. context' = transcript' \o Users(pending')
  BY <1>1
<1>3. Users(pending)' = Users(pending')
  BY DEF Users
<1>4. QED
  BY <1>1, <1>2, <1>3 DEF IInv, Agree

(* prompt and continue.                                                    *)
LEMMA StartSteps ==
  ASSUME IInv, Prompt \/ ContinueSteering \/ ContinueFollowUp \/ ContinueTranscript
  PROVE  Agree' /\ Well(transcript')
<1>1. Types /\ steering \in Seq(Msgs) /\ followUp \in Seq(Msgs) /\ <<>> \in Seq(Msgs)
  BY EmptySeq DEF IInv, Types, Waiting
<1>2. CASE Prompt
  BY <1>1, <1>2, NewMessage, StartAgrees DEF Prompt
<1>3. CASE ContinueSteering
  BY <1>1, <1>3, Drain, StartAgrees DEF ContinueSteering
<1>4. CASE ContinueFollowUp
  BY <1>1, <1>4, Drain, StartAgrees DEF ContinueFollowUp
<1>5. CASE ContinueTranscript
  BY <1>1, <1>5, StartAgrees DEF ContinueTranscript
<1>6. QED
  BY <1>2, <1>3, <1>4, <1>5

(* Messages join the logs at the start of a run and of a turn.             *)
LEMMA MessageSteps ==
  ASSUME IInv, BeginRun \/ TurnStart
  PROVE  Agree' /\ Well(transcript')
<1>1. transcript \in Seq(Entry) /\ pending \in Seq(Msgs) /\ Well(transcript)
  BY DEF IInv, Types, Logs, Waiting
<1>2. Users(pending) \in Seq(Entry) /\ \A i \in 1..Len(Users(pending)) : Users(pending)[i].role # "result"
  BY <1>1, UserEntries
<1>3. Well(transcript \o Users(pending))
  BY <1>1, <1>2, WellPlain
<1>4. CASE RecordingRejected
  <2>1. PICK k \in 0..Len(pending) : transcript' = transcript \o SubSeq(Users(pending), 1, k)
    BY <1>4 DEF RecordingRejected
  <2>2. DEFINE u == SubSeq(Users(pending), 1, k)
  <2>3. u \in Seq(Entry) /\ \A i \in 1..Len(u) : u[i].role # "result"
    <3>1. \A i \in 1..Len(u) : u[i].role = "user"
      BY <1>1, UserPrefix
    <3>2. QED
      BY <1>1, <3>1, UserPrefix
  <2>4. Well(transcript \o u)
    BY <1>1, <2>3, WellPlain
  <2>5. pc' = "failing"
    BY <1>4 DEF RecordingRejected, Fail
  <2>6. QED
    BY <2>1, <2>4, <2>5, Free
<1>5. CASE BeginRun /\ ~RecordingRejected
  <2>1. pc = "begin" /\ pc' = "turn" /\ transcript' = transcript \o Users(pending) /\ context' = context
    BY <1>5 DEF BeginRun
  <2>2. context' = transcript'
    BY <2>1 DEF IInv, Agree
  <2>3. QED
    BY <1>3, <2>1, <2>2, Together
<1>6. CASE TurnStart /\ ~RecordingRejected
  <2>1. /\ pc = "turn" /\ pc' \in {"model", "modelAborted"}
        /\ transcript' = transcript \o Users(pending) /\ context' = context \o Users(pending)
    BY <1>6 DEF TurnStart
  <2>2. context' = transcript'
    BY <2>1 DEF IInv, Agree
  <2>3. QED
    BY <1>3, <2>1, <2>2, Together
<1>7. QED
  BY <1>4, <1>5, <1>6

(* The answer that opens a batch stands at the end of both logs.           *)
LEMMA AnswerSteps ==
  ASSUME IInv, ModelAnswers
  PROVE  Agree' /\ Well(transcript')
<1>1. transcript \in Seq(Entry) /\ Well(transcript) /\ turns \in Nat /\ context = transcript
  BY DEF IInv, Types, Logs, Numbers, ModelAnswers, Agree
<1>2. PICK n \in 0..MaxCalls :
        /\ transcript' = Append(transcript, Assistant(n, TRUE))
        /\ context' = Append(context, Assistant(n, TRUE))
        /\ calls' = [i \in 1..n |-> "waiting"]
        /\ pc' \in {"turnEnd", "batch"}
        /\ turns' = turns + 1
  BY DEF ModelAnswers
<1> DEFINE e == Assistant(n, TRUE)
<1>3. e \in Entry /\ e.role = "assistant" /\ e.id = turns'
  <2>1. TRUE \in BOOLEAN
    OBVIOUS
  <2>2. QED
    BY <1>1, <1>2, <2>1, AssistantEntry
<1> HIDE DEF e
<1>4. Well(Append(transcript, e))
  BY <1>1, <1>3, WellAppend
<1>5. context' = transcript' /\ transcript' = Append(transcript, e)
  BY <1>1, <1>2 DEF e
<1>6. CASE pc' = "turnEnd"
  BY <1>4, <1>5, <1>6, Together
<1>7. CASE pc' = "batch"
  <2>1. Closes(context', turns')
    <3>1. Append(transcript, e) # <<>> /\ Append(transcript, e)[Len(Append(transcript, e))] = e
      BY <1>1, <1>3, AppendProperties
    <3>2. QED
      BY <1>3, <1>5, <3>1 DEF Closes
  <2>2. InOrder'
    BY <1>2 DEF InOrder
  <2>3. Recorded'
    <3>1. n \in Nat /\ Len(calls') = n /\ DOMAIN calls' = 1..n
      BY <1>2, AgentAssumption
    <3>2. \A i \in 1..n : ~(i <= 0) /\ calls'[i] \notin Done
      BY <1>2, <3>1 DEF Done
    <3>3. context' \o Run(turns', 0) = context'
      <4>1. context' \in Seq(Entry) /\ turns' \in Nat
        <5>1. Append(transcript, e) \in Seq(Entry)
          BY <1>1, <1>3, AppendProperties
        <5>2. turns' \in Nat
          BY <1>1, <1>2
        <5>3. QED
          BY <1>5, <5>1, <5>2
      <4>2. QED
        BY <4>1, RunNone
    <3>4. RecordedTo(0)'
      BY <1>5, <3>1, <3>2, <3>3 DEF RecordedTo, Run
    <3>5. 0 \in 0..Len(calls')
      BY <3>1
    <3>6. QED
      BY <1>5, <3>4, <3>5 DEF Recorded
  <2>4. Well(context)' /\ Closes(context, turns)'
    BY <1>4, <1>5, <2>1 DEF Well, Closes
  <2>5. QED
    BY <1>4, <1>5, <1>7, <2>2, <2>3, <2>4 DEF Agree, InBatch
<1>8. QED
  BY <1>2, <1>6, <1>7

(* The provider's answer ends the run, or there is none.                   *)
LEMMA StopSteps ==
  ASSUME IInv, ModelStops \/ ModelFails
  PROVE  Agree' /\ Well(transcript')
<1>1. transcript \in Seq(Entry) /\ Well(transcript) /\ turns \in Nat
  BY DEF IInv, Types, Logs, Numbers
<1>2. /\ pc' \in {"end", "failing"}
      /\ \/ transcript' = transcript
         \/ \E n \in 0..MaxCalls, ok \in BOOLEAN : transcript' = Append(transcript, Assistant(n, ok))
  BY DEF ModelStops, ModelFails, Fail
<1>3. \A n \in 0..MaxCalls, ok \in BOOLEAN : Assistant(n, ok) \in Entry /\ Assistant(n, ok).role = "assistant"
  BY <1>1, AssistantEntry
<1>4. ASSUME NEW e \in Entry, e.role = "assistant", transcript' = Append(transcript, e)
      PROVE  Well(transcript')
  BY <1>1, <1>4, WellAppend
<1>5. QED
  BY <1>1, <1>2, <1>3, <1>4, Free

(* A call moves on, or its batch is broken off, and no result is recorded. *)
LEMMA CallSteps ==
  ASSUME IInv, NEW i \in DOMAIN calls, AnnounceCall(i) \/ SkipCalls(i) \/ PrepareCall(i)
  PROVE  Agree' /\ Well(transcript')
<1>1. pc = "batch" /\ Types /\ InBatch /\ UNCHANGED <<transcript, context, turns, mode>>
  BY DEF IInv, Agree, AnnounceCall, SkipCalls, PrepareCall, NextCall, counts
<1>2. /\ calls \in Seq(CallStates) /\ DOMAIN calls = 1..Len(calls) /\ Len(calls) \in Nat
  BY <1>1, LenProperties DEF Types, Batch
<1>3. ASSUME InOrder', Recorded', pc' \in {"batch", "failing"}
      PROVE  Agree' /\ Well(transcript')
  <2>1. Well(transcript') /\ Well(context)' /\ Closes(context, turns)'
    BY <1>1 DEF IInv, InBatch, Well, Closes
  <2>2. QED
    BY <1>3, <2>1 DEF Agree, InBatch
<1>4. CASE SkipCalls(i)
  <2>1. calls' = [j \in DOMAIN calls |-> IF j >= i THEN "skipped" ELSE calls[j]] /\ pc' = pc /\ NextCall(i)
    BY <1>4 DEF SkipCalls
  <2>2. DOMAIN calls' = DOMAIN calls /\ \A j \in DOMAIN calls : calls'[j] = IF j >= i THEN "skipped" ELSE calls[j]
    BY <2>1
  <2>3. /\ \A j \in DOMAIN calls : j < i =>
             calls[j] \in Done \/ (mode = "parallel" /\ calls[j] = "prepared")
        /\ \A j \in DOMAIN calls : i < j => calls[j] \in {"waiting", "skipped"}
        /\ calls[i] = "waiting"
    BY <1>1, <2>1, CallsInTurn DEF InBatch, NextCall
  <2>4. InOrder'
    BY <1>1, <1>2, <2>2, <2>3 DEF InBatch, InOrder, Done
  <2>5. Recorded'
    <3>1. \A j \in DOMAIN calls : calls'[j] \in Done <=> calls[j] \in Done
      BY <1>2, <2>2, <2>3 DEF Done
    <3>2. Len(calls') = Len(calls)
      BY <1>2, <2>1
    <3>3. QED
      BY <1>1, <2>2, <3>1, <3>2, RecordedKept DEF InBatch
  <2>6. QED
    BY <1>1, <1>3, <2>1, <2>4, <2>5
<1>5. CASE AnnounceCall(i) \/ PrepareCall(i)
  <2>1. /\ pc' \in {"batch", "failing"}
        /\ NextCall(i) \/ calls[i] = "announced"
        /\ \E x \in {"announced", "refused", "prepared"} : calls' = [calls EXCEPT ![i] = x]
    BY <1>1, <1>5 DEF AnnounceCall, PrepareCall, Fail
  <2>2. PICK x \in {"announced", "refused", "prepared"} : calls' = [calls EXCEPT ![i] = x]
    BY <2>1
  <2>3. x \in CallStates \ {"waiting", "skipped"} /\ x \notin Done /\ calls[i] \in {"waiting", "announced"}
    BY <2>1 DEF CallStates, Done, NextCall
  <2>4. /\ \A j \in DOMAIN calls : j < i =>
             calls[j] \in Done \/ (mode = "parallel" /\ calls[j] = "prepared")
        /\ \A j \in DOMAIN calls : i < j => calls[j] \in {"waiting", "skipped"}
    BY <1>1, <2>1, CallsInTurn DEF InBatch
  <2>5. InOrder'
    BY <1>1, <2>2, <2>3, <2>4, OrderKept DEF InBatch
  <2>6. Recorded'
    <3>1. DOMAIN calls' = DOMAIN calls /\ Len(calls') = Len(calls)
      BY <1>2, <2>2, <2>3, ExceptSeq
    <3>2. \A j \in DOMAIN calls : calls'[j] \in Done <=> calls[j] \in Done
      BY <1>2, <2>2, <2>3 DEF Done
    <3>3. QED
      BY <1>1, <3>1, <3>2, RecordedKept DEF InBatch
  <2>7. QED
    BY <1>3, <2>1, <2>5, <2>6
<1>6. QED
  BY <1>4, <1>5

(* A call ends; outside parallel mode its result is recorded.              *)
LEMMA EndSteps ==
  ASSUME IInv, NEW i \in DOMAIN calls, EndCall(i) \/ EndCallRejected(i)
  PROVE  Agree' /\ Well(transcript')
<1>1. /\ pc = "batch" /\ Types /\ InBatch /\ context' = context /\ turns' = turns /\ mode' = mode
      /\ calls[i] \in {"refused", "prepared"}
      /\ Well(transcript) /\ Well(context) /\ Closes(context, turns)
  BY DEF IInv, Agree, InBatch, EndCall, EndCallRejected, MayEnd, counts
<1>2. /\ calls \in Seq(CallStates) /\ DOMAIN calls = 1..Len(calls) /\ Len(calls) \in Nat
      /\ context \in Seq(Entry) /\ turns \in Nat
  BY <1>1, LenProperties DEF Types, Batch, Logs, Numbers
<1>3. Well(transcript')
  <2>1. CASE transcript' = transcript
    BY <1>1, <2>1
  <2>2. CASE mode # "parallel" /\ transcript' = Append(transcript, Result(i))
    <3>1. i \in 0..MaxCalls /\ transcript' = context \o Run(turns, i)
      BY <1>1, <2>2, NextResult
    <3>2. QED
      BY <1>1, <1>2, <3>1, WellRun
  <2>3. QED
    BY <2>1, <2>2 DEF EndCall, EndCallRejected
<1>4. CASE EndCallRejected(i)
  BY <1>3, <1>4, Free DEF EndCallRejected, Fail
<1>5. CASE EndCall(i)
  <2>1. PICK x \in {"failed", "ended"} : calls' = [calls EXCEPT ![i] = x]
    BY <1>5 DEF EndCall
  <2>2. x \in CallStates \ {"waiting", "skipped"} /\ x \in Done
    BY DEF CallStates, Over, Done
  <2>3. \A j \in DOMAIN calls : j < i => calls[j] \in Done \/ (mode = "parallel" /\ calls[j] = "prepared")
    BY <1>1, CallsInTurn DEF InBatch
  <2>4. InOrder'
    BY <1>1, <2>1, <2>2, <2>3, OrderKept DEF InBatch
  <2>5. Recorded'
    <3>1. CASE mode = "parallel"
      BY <1>1, <1>5, <3>1 DEF EndCall, InBatch, Recorded
    <3>2. CASE mode # "parallel"
      <4>1. /\ i \in 0..MaxCalls /\ \A j \in DOMAIN calls : j < i <=> calls[j] \in Done
            /\ transcript' = context \o Run(turns, i)
        BY <1>1, <1>5, <3>2, NextResult DEF EndCall
      <4>2. /\ Len(calls') = Len(calls) /\ DOMAIN calls' = DOMAIN calls
            /\ \A j \in DOMAIN calls : calls'[j] = IF j = i THEN x ELSE calls[j]
        BY <1>2, <2>1, <2>2, ExceptSeq
      <4>3. \A j \in DOMAIN calls' : j <= i <=> calls'[j] \in Done
        BY <1>2, <2>2, <4>1, <4>2
      <4>4. RecordedTo(i)'
        BY <1>1, <4>1, <4>3 DEF RecordedTo, Run
      <4>5. i \in 0..Len(calls')
        BY <1>2, <4>2
      <4>6. QED
        BY <1>1, <3>2, <4>4, <4>5 DEF Recorded
    <3>3. QED
      BY <3>1, <3>2
  <2>6. Well(context)' /\ Closes(context, turns)'
    BY <1>1 DEF Well, Closes
  <2>7. pc' = "batch"
    BY <1>1, <1>5 DEF EndCall
  <2>8. QED
    BY <1>3, <2>4, <2>5, <2>6, <2>7 DEF Agree, InBatch
<1>6. QED
  BY <1>4, <1>5

(* The results of a batch reach the logs.                                  *)
LEMMA RecordSteps ==
  ASSUME IInv, RecordBatch
  PROVE  Agree' /\ Well(transcript')
<1>1. /\ pc = "batch" /\ Types /\ InBatch /\ \A i \in DOMAIN calls : calls[i] \in Over
      /\ Well(transcript) /\ Well(context) /\ Closes(context, turns)
  BY DEF IInv, Agree, InBatch, RecordBatch
<1>2. context \in Seq(Entry) /\ turns \in Nat
  BY <1>1 DEF Types, Logs, Numbers
<1>3. PICK n \in 0..MaxCalls : Results = Run(turns, n)
  BY <1>1, ResultsRun
<1>4. mode = "parallel" => context = transcript
  BY <1>1 DEF InBatch, Recorded
<1>5. CASE /\ context' = context \o Results /\ pc' = "turnEnd"
           /\ transcript' = IF mode = "parallel" THEN transcript \o Results ELSE transcript
  <2>1. context' = transcript'
    BY <1>1, <1>4, <1>5, AllRecorded
  <2>2. Well(context \o Results)
    BY <1>1, <1>2, <1>3, WellRun
  <2>3. QED
    BY <1>5, <2>1, <2>2, Together
<1>6. CASE /\ mode = "parallel" /\ pc' = "failing"
           /\ \E k \in 0..Len(Results) : transcript' = transcript \o SubSeq(Results, 1, k)
  <2>1. PICK k \in 0..n : transcript' = transcript \o SubSeq(Results, 1, k)
    BY <1>2, <1>3, <1>6, RunEntries
  <2>2. k \in 0..MaxCalls /\ transcript' = context \o Run(turns, k)
    BY <1>2, <1>3, <1>4, <1>6, <2>1, RunPrefix
  <2>3. QED
    BY <1>1, <1>2, <1>6, <2>2, WellRun, Free
<1>7. QED
  BY <1>5, <1>6 DEF RecordBatch, Fail

(* A turn ends, the follow-up queue is polled, the run ends or has failed. *)
LEMMA EndingSteps ==
  ASSUME IInv, TurnEnd \/ PollFollowUp \/ EndRun \/ HandleRunFailure
  PROVE  Agree' /\ Well(transcript')
<1>1. transcript \in Seq(Entry) /\ Well(transcript) /\ turns \in Nat
  BY DEF IInv, Types, Logs, Numbers
<1>2. CASE TurnEnd \/ PollFollowUp
  <2>1. UNCHANGED <<transcript, context>> /\ pc \in {"turnEnd", "pollFollowUp"}
        /\ pc' \in {"turn", "pollFollowUp", "end", "failing"}
    BY <1>2 DEF TurnEnd, PollFollowUp, Fail
  <2>2. context' = transcript'
    BY <2>1 DEF IInv, Agree
  <2>3. QED
    BY <1>1, <2>1, <2>2, Together
<1>3. CASE EndRun
  BY <1>1, <1>3, Free DEF EndRun, FinishRun, Fail
<1>4. CASE HandleRunFailure
  <2> DEFINE failure == [Assistant(0, FALSE) EXCEPT !.id = 0]
  <2>1. failure \in Entry /\ failure.role = "assistant"
    <3>1. 0 \in 0..MaxCalls /\ FALSE \in BOOLEAN
      BY AgentAssumption
    <3>2. QED
      BY <1>1, <3>1, AssistantEntry
  <2>2. pc' = "idle" /\ (transcript' = transcript \/ transcript' = Append(transcript, failure))
    BY <1>4 DEF HandleRunFailure, FinishRun
  <2> HIDE DEF failure
  <2>3. Well(Append(transcript, failure))
    BY <1>1, <2>1, WellAppend
  <2>4. QED
    BY <1>1, <2>2, <2>3, Free
<1>5. QED
  BY <1>2, <1>3, <1>4

(* The rest leaves the logs, the batch and the place of the run alone.     *)
LEMMA OtherSteps ==
  ASSUME IInv,
         \/ Steer \/ FollowUp \/ Abort \/ ClearAllQueues
         \/ \E c \in stray : StrayEnds(c)
         \/ UNCHANGED vars
  PROVE  Agree' /\ Well(transcript')
<1>1. UNCHANGED <<pc, transcript, context, pending, calls, mode, turns>>
  BY DEF Steer, FollowUp, Abort, ClearAllQueues, StrayEnds, batch, counts, vars
<1>2. QED
  BY <1>1 DEF IInv, Agree, InBatch, Well, Closes, InOrder, Recorded, RecordedTo, Users, Run

LEMMA Inductive ==
  ASSUME IInv, [Next]_vars
  PROVE  IInv'
<1>1. Types'
  BY TypeSteps DEF IInv
<1>2. Agree' /\ Well(transcript')
  BY StartSteps, MessageSteps, AnswerSteps, StopSteps, CallSteps, EndSteps, RecordSteps, EndingSteps,
     OtherSteps DEF Next, LoopStep, ClientStep
<1>3. Well(transcript)'
  BY <1>2 DEF Well
<1>4. QED
  BY <1>1, <1>2, <1>3 DEF IInv

LEMMA Initial ==
  ASSUME Init
  PROVE  IInv
<1>1. Numbers /\ Flags
  <2>1. Numbers
    BY AgentAssumption DEF Init, Numbers
  <2>2. Flags
    BY DEF Init, Flags
  <2>3. QED
    BY <2>1, <2>2
<1>2. Waiting /\ Logs
  BY EmptySeq DEF Init, Waiting, Logs
<1>3. Batch
  BY EmptySeq, AgentAssumption DEF Init, Batch
<1>4. Agree /\ Well(transcript)
  BY DEF Init, Agree, Well
<1>5. QED
  BY <1>1, <1>2, <1>3, <1>4 DEF IInv, Types

(* The inductive invariant holds.                                          *)
THEOREM Invariance == Spec => []IInv
  BY Initial, Inductive, PTL DEF Spec

(* Every variable of the agent and of its loop has its type, and an idle   *)
(* agent keeps nothing of a run (agent.ts:166-231, 514-520).               *)
THEOREM TypeCorrect == Spec => []TypeOK
<1>1. IInv => TypeOK
  BY DEF IInv, Types, Numbers, Flags, Waiting, Logs, Batch, CallStates, TypeOK
<1>2. QED
  BY <1>1, Invariance, PTL

(* The model is asked with the conversation that the agent has recorded,   *)
(* although two pieces of code append to the two logs in different orders  *)
(* (agent-loop.ts:186, 218; agent.ts:541).                                 *)
THEOREM LogsAgree == Spec => []ContextIsTranscript
<1>1. IInv => ContextIsTranscript
  BY DEF IInv, Agree, ContextIsTranscript
<1>2. QED
  BY <1>1, Invariance, PTL

(* Results stand behind their assistant message, in the order of its calls *)
(* and without a gap, however many there are and wherever an abort or a    *)
(* failure cuts the batch (packages/agent/README.md:118).                  *)
THEOREM SourceOrder == Spec => []ResultsInSourceOrder
<1>1. IInv => ResultsInSourceOrder
  BY DEF IInv, Well, ResultsInSourceOrder
<1>2. QED
  BY <1>1, Invariance, PTL

-----------------------------------------------------------------------------
(* Counting the messages in the queues and in the transcript.              *)

(* Draining a queue splits it.                                             *)
LEMMA CountDrain ==
  ASSUME NEW q \in Seq(Msgs), NEW P
  PROVE  Count(P, Taken(q)) + Count(P, Rest(q)) = Count(P, q)
<1>1. Count(P, q) \in Nat
  BY CountNat
<1>2. CASE queueMode = "all" \/ q = <<>>
  BY <1>1, <1>2, CountEmpty DEF Taken, Rest
<1>3. CASE ~(queueMode = "all" \/ q = <<>>)
  BY <1>3, CountTail, CountOne DEF Taken, Rest
<1> QED BY <1>2, <1>3

(* The entries of message m, and how many a list of messages adds.         *)
UserOf(m) == {e \in Entry : e.role = "user" /\ e.id = m}

LEMMA CountUsers ==
  ASSUME NEW s \in Seq(Msgs), NEW m
  PROVE  Count(UserOf(m), Users(s)) = Count({m}, s)
<1>1. Len(s) \in Nat /\ DOMAIN s = 1..Len(s) /\ DOMAIN Users(s) = DOMAIN s
  BY LenProperties DEF Users
<1>2. \A i \in DOMAIN s : Users(s)[i] \in Entry
  <2>1. Users(s) \in Seq(Entry) /\ Len(Users(s)) = Len(s)
    BY UserEntries
  <2> QED BY <1>1, <2>1, ElementOfSeq
<1>3. \A i \in DOMAIN s : Users(s)[i].role = "user" /\ Users(s)[i].id = s[i]
  BY DEF Users
<1>4. Places(UserOf(m), Users(s)) = Places({m}, s)
  BY <1>1, <1>2, <1>3 DEF Places, UserOf
<1> QED BY <1>4 DEF Count

(* Entries that are no user messages count for nothing.                    *)
LEMMA CountOthers ==
  ASSUME NEW u \in Seq(Entry), \A i \in 1..Len(u) : u[i].role # "user", NEW m
  PROVE  Count(UserOf(m), u) = 0
BY CountNat DEF UserOf

(* A list of messages of which the first k are recorded and the rest lost. *)
LEMMA CountSplit ==
  ASSUME NEW s \in Seq(Msgs), NEW k \in 0..Len(s), NEW m, Count({m}, s) <= 1
  PROVE  Count(UserOf(m), SubSeq(Users(s), 1, k))
           + (IF m \in {s[i] : i \in (k + 1)..Len(s)} THEN 1 ELSE 0) = Count({m}, s)
<1> DEFINE a == SubSeq(s, 1, k)
           b == SubSeq(s, k + 1, Len(s))
<1>1. Len(s) \in Nat /\ DOMAIN s = 1..Len(s) /\ \A i \in 1..Len(s) : s[i] \in Msgs
  BY LenProperties
<1>k. k \in Nat /\ k <= Len(s)
  BY <1>1
<1>2. a \in Seq(Msgs) /\ Len(a) = k /\ \A i \in 1..k : a[i] = s[i]
  <2>1. \A i \in 1..k : s[i] \in Msgs
    BY <1>1
  <2>2. /\ a \in Seq(Msgs) /\ Len(a) = (IF 1 <= k THEN k - 1 + 1 ELSE 0)
        /\ \A i \in 1..(k - 1 + 1) : a[i] = s[1 + i - 1]
    BY <1>1, <2>1, SubSeqProperties
  <2> QED BY <1>1, <2>2
<1>3. /\ b \in Seq(Msgs) /\ Len(b) = Len(s) - k
      /\ \A i \in 1..(Len(s) - k) : b[i] = s[k + i]
  <2>1. \A i \in (k + 1)..Len(s) : s[i] \in Msgs
    BY <1>1
  <2>2. /\ b \in Seq(Msgs) /\ Len(b) = (IF k + 1 <= Len(s) THEN Len(s) - (k + 1) + 1 ELSE 0)
        /\ \A i \in 1..(Len(s) - (k + 1) + 1) : b[i] = s[(k + 1) + i - 1]
    BY <1>1, <1>k, <2>1, SubSeqProperties
  <2>3. Len(s) - (k + 1) + 1 = Len(s) - k /\ (~(k + 1 <= Len(s)) => Len(s) - k = 0)
    <3>1. \A n, j \in Nat : j <= n => n - (j + 1) + 1 = n - j /\ (~(j + 1 <= n) => n - j = 0)
      OBVIOUS
    <3> QED BY <1>1, <1>k, <3>1
  <2>4. \A i \in 1..(Len(s) - k) : (k + 1) + i - 1 = k + i
    BY <1>1, <1>k
  <2> HIDE DEF b
  <2>5. Len(b) = Len(s) - k
    BY <2>2, <2>3
  <2> QED BY <2>2, <2>3, <2>4, <2>5
<1> HIDE DEF a, b
<1>4. s = a \o b
  <2>1. /\ a \o b \in Seq(Msgs) /\ Len(a \o b) = Len(a) + Len(b)
        /\ \A i \in 1..(Len(a) + Len(b)) : (a \o b)[i] = IF i <= Len(a) THEN a[i] ELSE b[i - Len(a)]
    BY <1>2, <1>3, ConcatProperties
  <2>2. \A i \in 1..Len(s) : s[i] = (a \o b)[i]
    <3>1. Len(a) + Len(b) = Len(s)
      BY <1>1, <1>k, <1>2, <1>3
    <3> SUFFICES ASSUME NEW i \in 1..Len(s) PROVE s[i] = (a \o b)[i]
      OBVIOUS
    <3>2. i \in Nat /\ 1 <= i /\ i <= Len(s)
      BY <1>1
    <3>3. CASE i <= k
      BY <1>1, <1>k, <1>2, <2>1, <3>1, <3>2, <3>3
    <3>4. CASE ~(i <= k)
      <4>1. i - k \in 1..(Len(s) - k) /\ k + (i - k) = i
        BY <1>1, <1>k, <3>2, <3>4
      <4>2. b[i - k] = s[i]
        BY <1>3, <4>1
      <4>3. (a \o b)[i] = b[i - k]
        BY <1>2, <2>1, <3>1, <3>4
      <4> QED BY <4>2, <4>3
    <3> QED BY <3>3, <3>4
  <2>3. Len(s) = Len(a \o b)
    BY <1>1, <1>k, <1>2, <1>3, <2>1
  <2> QED BY <2>1, <2>2, <2>3, SeqEqual
<1>5. SubSeq(Users(s), 1, k) = Users(a)
  <2> USE <1>k
  <2>1. Users(s) \in Seq(Entry) /\ Len(Users(s)) = Len(s) /\ Users(a) \in Seq(Entry) /\ Len(Users(a)) = k
    BY <1>2, UserEntries
  <2>2. \A i \in 1..k : Users(s)[i] \in Entry
    BY <1>1, <2>1, ElementOfSeq
  <2>3. /\ SubSeq(Users(s), 1, k) \in Seq(Entry)
        /\ Len(SubSeq(Users(s), 1, k)) = (IF 1 <= k THEN k - 1 + 1 ELSE 0)
        /\ \A i \in 1..(k - 1 + 1) : SubSeq(Users(s), 1, k)[i] = Users(s)[1 + i - 1]
    BY <1>1, <2>2, SubSeqProperties
  <2>4. \A i \in 1..k : Users(s)[i] = Users(a)[i]
    <3>1. DOMAIN a = 1..k
      BY <1>2, LenProperties
    <3>2. \A i \in 1..k : i \in DOMAIN s /\ i \in DOMAIN a /\ a[i] = s[i]
      BY <1>1, <1>2, <3>1
    <3> QED BY <3>2 DEF Users
  <2>5. Len(SubSeq(Users(s), 1, k)) = k /\ \A i \in 1..k : SubSeq(Users(s), 1, k)[i] = Users(a)[i]
    BY <1>1, <2>3, <2>4
  <2> QED BY <2>1, <2>3, <2>5, SeqEqual
<1>6. Count({m}, s) = Count({m}, a) + Count({m}, b)
  BY <1>2, <1>3, <1>4, CountConcat
<1>7. Count(UserOf(m), SubSeq(Users(s), 1, k)) = Count({m}, a)
  BY <1>2, <1>5, CountUsers
<1>8. m \in {s[i] : i \in (k + 1)..Len(s)} <=> \E i \in 1..Len(b) : b[i] \in {m}
  <2>1. \A i \in 1..Len(b) : b[i] = s[k + i] /\ k + i \in (k + 1)..Len(s)
    BY <1>1, <1>k, <1>3
  <2>2. \A j \in (k + 1)..Len(s) : j - k \in 1..Len(b) /\ b[j - k] = s[j]
    BY <1>1, <1>k, <1>3
  <2> QED BY <2>1, <2>2
<1>9. /\ Count({m}, a) \in Nat /\ Count({m}, b) \in Nat
      /\ Count({m}, b) = 0 <=> \A i \in 1..Len(b) : b[i] \notin {m}
  BY <1>2, <1>3, CountNat
<1> QED BY <1>6, <1>7, <1>8, <1>9

-----------------------------------------------------------------------------
(* Every message is in one place.                                          *)

Gone(m) == IF m \in lost THEN 1 ELSE 0

Total(m) ==
  Count({m}, steering) + Count({m}, followUp) + Count({m}, pending)
    + Count(UserOf(m), transcript) + Gone(m)

(* A message that was not handed in yet is nowhere.                        *)
InOnePlace == \A m \in Msgs : Total(m) = IF m <= sent THEN 1 ELSE 0

(* A run holds messages only while it begins and before a turn.            *)
NothingPending == pc \notin {"begin", "turn"} => pending = <<>>

Conserved == NothingPending /\ InOnePlace

LEMMA PendingSteps ==
  ASSUME NothingPending, pc = "idle" => pending = <<>>, [Next]_vars
  PROVE  NothingPending'
<1>1. CASE Prompt \/ ContinueSteering \/ ContinueFollowUp \/ ContinueTranscript
  BY <1>1 DEF Prompt, ContinueSteering, ContinueFollowUp, ContinueTranscript, StartRun, NothingPending
<1>2. CASE \/ Steer \/ FollowUp \/ Abort \/ ClearAllQueues \/ UNCHANGED vars
           \/ \E c \in stray : StrayEnds(c)
  BY <1>2 DEF Steer, FollowUp, Abort, ClearAllQueues, StrayEnds, vars, NothingPending
<1>3. CASE BeginRun \/ TurnStart
  BY <1>3 DEF BeginRun, TurnStart, RecordingRejected, Fail, NothingPending
<1>4. CASE ModelAnswers \/ ModelStops \/ ModelFails
  BY <1>4 DEF ModelAnswers, ModelStops, ModelFails, Fail, NothingPending
<1>5. CASE \E i \in DOMAIN calls : AnnounceCall(i) \/ SkipCalls(i) \/ PrepareCall(i) \/ EndCall(i)
                                     \/ EndCallRejected(i)
  BY <1>5 DEF AnnounceCall, SkipCalls, PrepareCall, EndCall, EndCallRejected, NextCall, MayEnd, Fail,
              NothingPending
<1>6. CASE RecordBatch \/ EndRun \/ HandleRunFailure
  BY <1>6 DEF RecordBatch, EndRun, HandleRunFailure, FinishRun, Fail, NothingPending
<1>7. CASE TurnEnd \/ PollFollowUp
  <2>1. Taken(<<>>) = <<>>
    BY DEF Taken
  <2> QED BY <1>7, <2>1 DEF TurnEnd, PollFollowUp, Fail, NothingPending
<1> QED BY <1>1, <1>2, <1>3, <1>4, <1>5, <1>6, <1>7 DEF Next, LoopStep, ClientStep

(* What is recorded of a turn is no user message.                          *)
Plain(u) == u \in Seq(Entry) /\ \A i \in 1..Len(u) : u[i].role # "user"

LEMMA PlainNothing == ASSUME transcript \in Seq(Entry)
                      PROVE  Plain(<<>>) /\ transcript = transcript \o <<>>
BY EmptySeq, ConcatEmptySeq DEF Plain

LEMMA PlainEntry ==
  ASSUME transcript \in Seq(Entry), NEW e \in Entry, e.role # "user"
  PROVE  Plain(<<e>>) /\ Append(transcript, e) = transcript \o <<e>>
<1>1. <<e>> \in Seq(Entry) /\ Len(<<e>>) = 1 /\ <<e>>[1] = e
  OBVIOUS
<1>2. \A i \in 1..Len(<<e>>) : i = 1
  BY <1>1
<1> QED BY <1>1, <1>2, AppendIsConcat DEF Plain

LEMMA PlainRun ==
  ASSUME NEW t \in Nat, NEW n \in 0..MaxCalls
  PROVE  Plain(Run(t, n)) /\ \A k \in 0..n : Plain(SubSeq(Run(t, n), 1, k))
<1>1. ASSUME NEW k \in 0..MaxCalls PROVE Plain(Run(t, k))
  <2>1. /\ Run(t, k) \in Seq(Entry) /\ Len(Run(t, k)) = k
        /\ \A i \in 1..k : Run(t, k)[i] = [role |-> "result", id |-> t, part |-> i, ok |-> TRUE]
    BY RunEntries
  <2>2. \A i \in 1..k : Run(t, k)[i].role = "result"
    BY <2>1
  <2> QED BY <2>1, <2>2 DEF Plain
<1> QED BY <1>1, RunPrefix

Quiet ==
  /\ UNCHANGED <<steering, followUp, pending, lost, sent>>
  /\ \E u : Plain(u) /\ transcript' = transcript \o u

LEMMA QuietSteps ==
  ASSUME Types, NothingPending,
         \/ Abort \/ UNCHANGED vars
         \/ \E c \in stray : StrayEnds(c)
         \/ ModelAnswers \/ ModelStops \/ ModelFails
         \/ \E i \in DOMAIN calls : AnnounceCall(i) \/ SkipCalls(i) \/ PrepareCall(i) \/ EndCall(i)
                                      \/ EndCallRejected(i)
         \/ RecordBatch \/ EndRun \/ HandleRunFailure
  PROVE  Quiet
<1>0. transcript \in Seq(Entry) /\ turns \in Nat /\ DOMAIN calls = 1..Len(calls) /\ Len(calls) <= MaxCalls
      /\ Len(calls) \in Nat
  BY LenProperties DEF Types, Logs, Numbers, Batch
<1>g. \A g : g = {} => lost \cup g = lost
  OBVIOUS
<1>1. CASE \/ Abort \/ UNCHANGED vars
           \/ \E c \in stray : StrayEnds(c)
  BY <1>0, <1>1, PlainNothing DEF Abort, StrayEnds, vars, queues, Quiet
<1>2. CASE ModelAnswers \/ ModelStops \/ ModelFails
  <2>1. UNCHANGED <<steering, followUp, pending, lost, sent>>
    BY <1>2, <1>g DEF ModelAnswers, ModelStops, ModelFails, Fail, NothingPending, queues
  <2>2. \/ transcript' = transcript
        \/ \E n \in 0..MaxCalls, ok \in BOOLEAN : transcript' = Append(transcript, Assistant(n, ok))
    BY <1>2 DEF ModelAnswers, ModelStops, ModelFails
  <2>3. \A n \in 0..MaxCalls, ok \in BOOLEAN : Assistant(n, ok) \in Entry /\ Assistant(n, ok).role # "user"
    BY <1>0, AssistantEntry
  <2> QED BY <1>0, <2>1, <2>2, <2>3, PlainNothing, PlainEntry DEF Quiet
<1>3. ASSUME NEW i \in DOMAIN calls,
             AnnounceCall(i) \/ SkipCalls(i) \/ PrepareCall(i) \/ EndCall(i) \/ EndCallRejected(i)
      PROVE  Quiet
  <2>1. UNCHANGED <<steering, followUp, pending, lost, sent>>
    BY <1>3, <1>g DEF AnnounceCall, SkipCalls, PrepareCall, EndCall, EndCallRejected, NextCall, MayEnd,
                      Fail, NothingPending, queues
  <2>2. transcript' = transcript \/ transcript' = Append(transcript, Result(i))
    BY <1>3 DEF AnnounceCall, SkipCalls, PrepareCall, EndCall, EndCallRejected
  <2>3. Result(i) \in Entry /\ Result(i).role # "user"
    BY <1>0, ResultEntry, AgentAssumption DEF Result
  <2> QED BY <1>0, <2>1, <2>2, <2>3, PlainNothing, PlainEntry DEF Quiet
<1>4. CASE RecordBatch
  <2>1. UNCHANGED <<steering, followUp, pending, lost, sent>>
    BY <1>4, <1>g DEF RecordBatch, Fail, NothingPending, queues
  <2>2. PICK n \in 0..MaxCalls : Results = Run(turns, n)
    BY ResultsRun
  <2>3. \/ transcript' = transcript
        \/ transcript' = transcript \o Results
        \/ \E k \in 0..Len(Results) : transcript' = transcript \o SubSeq(Results, 1, k)
    BY <1>4 DEF RecordBatch
  <2>4. Len(Results) = n
    BY <1>0, <2>2, RunEntries
  <2> QED BY <1>0, <2>1, <2>2, <2>3, <2>4, PlainNothing, PlainRun DEF Quiet
<1>5. CASE EndRun \/ HandleRunFailure
  <2>1. UNCHANGED <<steering, followUp, pending, lost, sent>>
    BY <1>5, <1>g DEF EndRun, HandleRunFailure, FinishRun, Fail, NothingPending, queues
  <2>2. transcript' = transcript \/ transcript' = Append(transcript, [Assistant(0, FALSE) EXCEPT !.id = 0])
    BY <1>5 DEF EndRun, HandleRunFailure
  <2>3. FALSE \in BOOLEAN /\ 0 \in 0..MaxCalls
    BY AgentAssumption
  <2>4. [Assistant(0, FALSE) EXCEPT !.id = 0] \in Entry /\ [Assistant(0, FALSE) EXCEPT !.id = 0].role # "user"
    BY <1>0, <2>3, AssistantEntry
  <2> QED BY <1>0, <2>1, <2>2, <2>4, PlainNothing, PlainEntry DEF Quiet
<1> QED BY <1>1, <1>2, <1>3, <1>4, <1>5

LEMMA TotalNat ==
  ASSUME Types, NEW m
  PROVE  /\ Count({m}, steering) \in Nat /\ Count({m}, followUp) \in Nat /\ Count({m}, pending) \in Nat
         /\ Count(UserOf(m), transcript) \in Nat /\ Gone(m) \in {0, 1}
BY CountNat DEF Types, Waiting, Logs, Gone

(* A quiet step moves no message.                                          *)
LEMMA QuietTotal == ASSUME Types, Quiet, NEW m PROVE Total(m)' = Total(m)
<1>1. PICK u \in Seq(Entry) : (\A i \in 1..Len(u) : u[i].role # "user") /\ transcript' = transcript \o u
  BY DEF Quiet, Plain
<1>2. Count(UserOf(m), transcript \o u) = Count(UserOf(m), transcript) + Count(UserOf(m), u)
  BY CountConcat DEF Types, Logs
<1>3. Count(UserOf(m), u) = 0
  BY <1>1, CountOthers
<1>n. Count(UserOf(m), transcript) \in Nat
  BY TotalNat
<1>s. Count(UserOf(m), transcript \o u) = Count(UserOf(m), transcript)
  BY <1>2, <1>3, <1>n
<1>4. Count(UserOf(m), transcript') = Count(UserOf(m), transcript)
  BY <1>1, <1>s
<1>5. Gone(m)' = Gone(m)
  BY DEF Quiet, Gone
<1> QED BY <1>4, <1>5 DEF Quiet, Total, UserOf

(* The client hands a message in, ...                                      *)
LEMMA SendTotal ==
  ASSUME Types, pc = "idle" => pending = <<>>, Prompt \/ Steer \/ FollowUp, NEW m
  PROVE  Total(m)' = Total(m) + IF m = sent + 1 THEN 1 ELSE 0
<1>1. sent + 1 \in Msgs /\ steering \in Seq(Msgs) /\ followUp \in Seq(Msgs)
  BY NewMessage DEF Prompt, Steer, FollowUp, Types, Waiting
<1>2. \A q \in Seq(Msgs) : Count({m}, Append(q, sent + 1)) = Count({m}, q) + (IF m = sent + 1 THEN 1 ELSE 0)
  BY <1>1, CountAppend
<1>3. transcript' = transcript /\ lost' = lost
  BY DEF Prompt, Steer, FollowUp, StartRun
<1>4. Gone(m)' = Gone(m) /\ Count(UserOf(m), transcript') = Count(UserOf(m), transcript)
  BY <1>3 DEF Gone
<1>5. CASE Prompt
  <2>1. pending = <<>> /\ pending' = <<sent + 1>> /\ UNCHANGED queues
    BY <1>5 DEF Prompt, StartRun
  <2>2. Count({m}, pending) = 0 /\ Count({m}, pending') = IF m = sent + 1 THEN 1 ELSE 0
    BY <2>1, CountEmpty, CountOne
  <2> QED BY <1>4, <2>1, <2>2, TotalNat DEF Total, UserOf, queues
<1>6. CASE Steer
  <2>1. steering' = Append(steering, sent + 1) /\ UNCHANGED <<followUp, pending>>
    BY <1>6 DEF Steer
  <2>2. Count({m}, steering') = Count({m}, steering) + (IF m = sent + 1 THEN 1 ELSE 0)
    BY <1>1, <1>2, <2>1
  <2> QED BY <1>4, <2>1, <2>2, TotalNat DEF Total, UserOf
<1>7. CASE FollowUp
  <2>1. followUp' = Append(followUp, sent + 1) /\ UNCHANGED <<steering, pending>>
    BY <1>7 DEF FollowUp
  <2>2. Count({m}, followUp') = Count({m}, followUp) + (IF m = sent + 1 THEN 1 ELSE 0)
    BY <1>1, <1>2, <2>1
  <2> QED BY <1>4, <2>1, <2>2, TotalNat DEF Total, UserOf
<1> QED BY <1>5, <1>6, <1>7

(* ... the agent drains a queue while nothing is pending, ...              *)
LEMMA DrainTotal ==
  ASSUME Types, NothingPending, pc = "idle" => pending = <<>>,
         ContinueSteering \/ ContinueFollowUp \/ ContinueTranscript \/ TurnEnd \/ PollFollowUp, NEW m
  PROVE  Total(m)' = Total(m)
<1>1. pending = <<>> /\ transcript' = transcript /\ lost' = lost
  BY DEF ContinueSteering, ContinueFollowUp, ContinueTranscript, TurnEnd, PollFollowUp, StartRun,
         NothingPending, Fail
<1>2. Gone(m)' = Gone(m) /\ Count(UserOf(m), transcript') = Count(UserOf(m), transcript)
      /\ Count({m}, pending) = 0
  BY <1>1, CountEmpty DEF Gone
<1>3. \A q \in Seq(Msgs) : Count({m}, Taken(q)) + Count({m}, Rest(q)) = Count({m}, q)
  BY CountDrain
<1>4. \A q \in Seq(Msgs) : Count({m}, Taken(q)) \in Nat /\ Count({m}, Rest(q)) \in Nat
  BY CountNat, Drain
<1>q. steering \in Seq(Msgs) /\ followUp \in Seq(Msgs)
  BY DEF Types, Waiting
<1>5. CASE pending' = Taken(steering) /\ steering' = Rest(steering) /\ followUp' = followUp
  <2>1. Count({m}, pending') + Count({m}, steering') = Count({m}, steering)
        /\ Count({m}, pending') \in Nat /\ Count({m}, steering') \in Nat
    BY <1>3, <1>4, <1>5, <1>q
  <2> QED BY <1>2, <1>5, <2>1, TotalNat DEF Total, UserOf
<1>6. CASE pending' = Taken(followUp) /\ followUp' = Rest(followUp) /\ steering' = steering
  <2>1. Count({m}, pending') + Count({m}, followUp') = Count({m}, followUp)
        /\ Count({m}, pending') \in Nat /\ Count({m}, followUp') \in Nat
    BY <1>3, <1>4, <1>6, <1>q
  <2> QED BY <1>2, <1>6, <2>1, TotalNat DEF Total, UserOf
<1>7. CASE pending' = <<>> /\ UNCHANGED queues
  BY <1>1, <1>2, <1>7 DEF Total, UserOf, queues
<1> QED BY <1>5, <1>6, <1>7
        DEF ContinueSteering, ContinueFollowUp, ContinueTranscript, TurnEnd, PollFollowUp, StartRun, Fail, queues

(* ... and the loop records what is pending.                               *)
LEMMA JoinTotal ==
  ASSUME Types, NEW m,
         transcript' = transcript \o Users(pending), lost' = lost, followUp' = followUp,
         \/ pending' = Taken(steering) /\ steering' = Rest(steering)
         \/ pending' = <<>> /\ steering' = steering
  PROVE  Total(m)' = Total(m)
<1>0. steering \in Seq(Msgs) /\ pending \in Seq(Msgs) /\ transcript \in Seq(Entry)
  BY DEF Types, Waiting, Logs
<1>1. Count(UserOf(m), transcript \o Users(pending)) = Count(UserOf(m), transcript) + Count({m}, pending)
  <2>1. Users(pending) \in Seq(Entry)
    BY <1>0, UserEntries
  <2>2. Count(UserOf(m), transcript \o Users(pending))
          = Count(UserOf(m), transcript) + Count(UserOf(m), Users(pending))
    BY <1>0, <2>1, CountConcat
  <2> QED BY <1>0, <2>2, CountUsers
<1>2. Count(UserOf(m), transcript') = Count(UserOf(m), transcript) + Count({m}, pending)
  BY <1>1
<1>3. Gone(m)' = Gone(m)
  BY DEF Gone
<1>4. CASE pending' = Taken(steering) /\ steering' = Rest(steering)
  <2>1. Count({m}, Taken(steering)) + Count({m}, Rest(steering)) = Count({m}, steering)
    BY <1>0, CountDrain
  <2>2. Count({m}, Taken(steering)) \in Nat /\ Count({m}, Rest(steering)) \in Nat
    BY <1>0, CountNat, Drain
  <2>3. Count({m}, pending') + Count({m}, steering') = Count({m}, steering)
        /\ Count({m}, pending') \in Nat /\ Count({m}, steering') \in Nat
    BY <1>4, <2>1, <2>2
  <2> QED BY <1>2, <1>3, <2>3, TotalNat DEF Total, UserOf
<1>5. CASE pending' = <<>> /\ steering' = steering
  <2>1. Count({m}, pending') = 0 /\ Count({m}, steering') = Count({m}, steering)
    BY <1>5, CountEmpty
  <2> QED BY <1>2, <1>3, <2>1, TotalNat DEF Total, UserOf
<1> QED BY <1>4, <1>5

(* A rejection loses what was pending and not recorded.                    *)
LEMMA RejectTotal ==
  ASSUME Types, NEW m, Total(m) <= 1, RecordingRejected, followUp' = followUp
  PROVE  Total(m)' = Total(m)
<1>0. pending \in Seq(Msgs) /\ transcript \in Seq(Entry)
  BY DEF Types, Waiting, Logs
<1>1. PICK k \in 0..Len(pending) :
         /\ transcript' = transcript \o SubSeq(Users(pending), 1, k)
         /\ lost' = lost \cup {pending[i] : i \in (k + 1)..Len(pending)}
         /\ pending' = <<>> /\ steering' = steering
  BY DEF RecordingRejected, Fail
<1> DEFINE u == SubSeq(Users(pending), 1, k)
           g == {pending[i] : i \in (k + 1)..Len(pending)}
<1>2. u \in Seq(Entry)
  BY <1>0, UserPrefix
<1>3. Count(UserOf(m), transcript \o u) = Count(UserOf(m), transcript) + Count(UserOf(m), u)
  BY <1>0, <1>2, CountConcat
<1>4. Count({m}, pending) <= 1 /\ (Count({m}, pending) = 1 => Gone(m) = 0)
  BY TotalNat DEF Total
<1>5. Count(UserOf(m), u) + (IF m \in g THEN 1 ELSE 0) = Count({m}, pending)
  BY <1>0, <1>4, CountSplit
<1>6. Count(UserOf(m), u) \in Nat
  BY <1>2, CountNat
<1> HIDE DEF u, g
<1>7. Gone(m)' = IF m \in g THEN 1 ELSE Gone(m)
  BY <1>1 DEF Gone, g
<1>8. Count(UserOf(m), transcript') = Count(UserOf(m), transcript) + Count(UserOf(m), u)
  BY <1>1, <1>3 DEF u
<1>9. Count({m}, pending') = 0
  BY <1>1, CountEmpty
<1>n. /\ Count({m}, pending) \in Nat /\ Count(UserOf(m), transcript) \in Nat
      /\ Count({m}, steering) \in Nat /\ Count({m}, followUp) \in Nat /\ Gone(m) \in Nat
  BY TotalNat
<1>q. Count({m}, steering') = Count({m}, steering) /\ Count({m}, followUp') = Count({m}, followUp)
  BY <1>1
<1>10. CASE m \in g
  <2>1. Count({m}, pending) = 1 /\ Count(UserOf(m), u) = 0
    <3>1. Count(UserOf(m), u) + 1 = Count({m}, pending)
      BY <1>5, <1>10
    <3> QED BY <1>4, <1>6, <1>n, <3>1
  <2>2. Gone(m) = 0 /\ Gone(m)' = 1
    BY <1>4, <1>7, <1>10, <2>1
  <2>3. Count(UserOf(m), transcript') = Count(UserOf(m), transcript)
    BY <1>8, <1>n, <2>1
  <2> QED BY <1>9, <1>n, <1>q, <2>1, <2>2, <2>3 DEF Total, UserOf
<1>11. CASE m \notin g
  <2>1. Count(UserOf(m), u) = Count({m}, pending)
    BY <1>5, <1>6, <1>11
  <2>2. Gone(m)' = Gone(m)
    BY <1>7, <1>11
  <2>3. Count(UserOf(m), transcript') = Count(UserOf(m), transcript) + Count({m}, pending)
    BY <1>8, <2>1
  <2> QED BY <1>9, <1>n, <1>q, <2>2, <2>3 DEF Total, UserOf
<1> QED BY <1>10, <1>11

(* clearAllQueues drops what is queued.                                    *)
LEMMA ClearTotal ==
  ASSUME Types, NEW m, Total(m) <= 1, ClearAllQueues
  PROVE  Total(m)' = Total(m)
<1>0. steering \in Seq(Msgs) /\ followUp \in Seq(Msgs)
  BY DEF Types, Waiting
<1>1. ASSUME NEW q \in Seq(Msgs) PROVE m \in Ids(q) <=> Count({m}, q) # 0
  BY CountNat, LenProperties DEF Ids
<1>2. /\ steering' = <<>> /\ followUp' = <<>> /\ lost' = lost \cup Ids(steering) \cup Ids(followUp)
      /\ UNCHANGED <<pending, transcript>>
  BY DEF ClearAllQueues
<1>3. Count({m}, steering') = 0 /\ Count({m}, followUp') = 0
  BY <1>2, CountEmpty
<1>4. Gone(m)' = IF Count({m}, steering) # 0 \/ Count({m}, followUp) # 0 THEN 1 ELSE Gone(m)
  BY <1>0, <1>1, <1>2 DEF Gone
<1>5. Gone(m)' = Count({m}, steering) + Count({m}, followUp) + Gone(m)
  <2>1. /\ Count({m}, steering) \in Nat /\ Count({m}, followUp) \in Nat /\ Gone(m) \in Nat
        /\ Count({m}, steering) + Count({m}, followUp) + Gone(m) <= 1
    BY TotalNat DEF Total
  <2>2. CASE Count({m}, steering) = 0 /\ Count({m}, followUp) = 0
    BY <1>4, <2>1, <2>2
  <2>3. CASE Count({m}, steering) # 0 \/ Count({m}, followUp) # 0
    <3>1. Count({m}, steering) + Count({m}, followUp) + Gone(m) = 1
      BY <2>1, <2>3
    <3> QED BY <1>4, <2>3, <3>1
  <2> QED BY <2>2, <2>3
<1> QED BY <1>2, <1>3, <1>5, TotalNat DEF Total, UserOf

LEMMA NextConserved ==
  ASSUME Types, Conserved, [Next]_vars
  PROVE  Conserved'
<1>1. NothingPending /\ InOnePlace /\ (pc = "idle" => pending = <<>>)
  BY DEF Conserved, NothingPending
<1>2. NothingPending'
  BY <1>1, PendingSteps
<1>3. \A m \in Msgs : Total(m) <= 1
  BY <1>1 DEF InOnePlace
<1>4. CASE Prompt \/ Steer \/ FollowUp
  <2>0. sent' = sent + 1
    BY <1>4 DEF Prompt, Steer, FollowUp, Send
  <2>1. sent' = sent + 1 /\ sent \in Nat
    BY <2>0, AgentAssumption DEF Types, Numbers
  <2>2. \A m \in Msgs : Total(m)' = Total(m) + IF m = sent + 1 THEN 1 ELSE 0
    BY <1>1, <1>4, SendTotal
  <2>3. \A m \in Msgs : Total(m)' = IF m <= sent + 1 THEN 1 ELSE 0
    BY <1>1, <2>1, <2>2, AgentAssumption DEF InOnePlace, Msgs
  <2> QED BY <1>2, <2>1, <2>3 DEF Conserved, InOnePlace
<1>5. ASSUME sent' = sent, \A m \in Msgs : Total(m)' = Total(m) PROVE Conserved'
  BY <1>1, <1>2, <1>5 DEF Conserved, InOnePlace
<1>6. CASE ContinueSteering \/ ContinueFollowUp \/ ContinueTranscript \/ TurnEnd \/ PollFollowUp
  <2>1. sent' = sent
    BY <1>6 DEF ContinueSteering, ContinueFollowUp, ContinueTranscript, TurnEnd, PollFollowUp
  <2> QED BY <1>1, <1>5, <1>6, <2>1, DrainTotal
<1>7. CASE BeginRun \/ TurnStart
  <2>1. sent' = sent /\ followUp' = followUp
    BY <1>7 DEF BeginRun, TurnStart
  <2>2. CASE RecordingRejected
    BY <1>3, <1>5, <2>1, <2>2, RejectTotal
  <2>3. CASE ~RecordingRejected
    <3>1. /\ transcript' = transcript \o Users(pending) /\ lost' = lost
          /\ \/ pending' = Taken(steering) /\ steering' = Rest(steering)
             \/ pending' = <<>> /\ steering' = steering
      BY <1>7, <2>3 DEF BeginRun, TurnStart
    <3> QED BY <1>5, <2>1, <3>1, JoinTotal
  <2> QED BY <2>2, <2>3
<1>8. CASE ClearAllQueues
  <2>1. sent' = sent
    BY <1>8 DEF ClearAllQueues
  <2> QED BY <1>3, <1>5, <1>8, <2>1, ClearTotal
<1>9. CASE Quiet
  BY <1>5, <1>9, QuietTotal DEF Quiet
<1> QED BY <1>1, <1>4, <1>6, <1>7, <1>8, <1>9, QuietSteps DEF Next, LoopStep, ClientStep

LEMMA InitConserved == Init => Conserved
<1> SUFFICES ASSUME Init PROVE Conserved
  OBVIOUS
<1>1. \A m \in Msgs : Total(m) = 0
  BY CountEmpty DEF Init, Total, Gone
<1> QED BY <1>1 DEF Init, Conserved, NothingPending, InOnePlace, Msgs

(* The messages' invariant, on top of the one of the logs.                 *)
THEOREM MessageInvariance == Spec => [](IInv /\ Conserved)
<1>1. IInv /\ Conserved /\ [Next]_vars => Conserved'
  BY NextConserved DEF IInv
<1> QED BY <1>1, InitConserved, Invariance, PTL DEF Spec

(* Whatever is queued, drained, recorded, rejected or dropped, a message   *)
(* that was handed in is in exactly one place and there once, for any      *)
(* number of messages and runs (agent.ts:131-157, agent-loop.ts:167,       *)
(* 182-190, 259-268).                                                      *)
THEOREM NothingLostOrDoubled == Spec => []MessagesConserved
<1>1. ASSUME IInv, Conserved PROVE MessagesConserved
  <2>1. sent \in 0..MaxSent /\ steering \in Seq(Msgs) /\ transcript \in Seq(Entry)
    BY <1>1 DEF IInv, Types, Numbers, Waiting, Logs
  <2> SUFFICES ASSUME NEW m \in 1..sent
               PROVE  Occurrences(m, steering) + Occurrences(m, followUp) + Occurrences(m, pending)
                        + Cardinality({p \in DOMAIN transcript :
                                         transcript[p].role = "user" /\ transcript[p].id = m})
                        + (IF m \in lost THEN 1 ELSE 0) = 1
    BY DEF MessagesConserved
  <2>2. m \in Msgs /\ m <= sent
    BY <2>1, AgentAssumption DEF Msgs
  <2>3. \A s : Occurrences(m, s) = Count({m}, s)
    BY DEF Occurrences, Count, Places
  <2>4. \A p \in DOMAIN transcript : transcript[p] \in Entry
    BY <2>1, LenProperties, ElementOfSeq
  <2>5. {p \in DOMAIN transcript : transcript[p].role = "user" /\ transcript[p].id = m}
          = Places(UserOf(m), transcript)
    BY <2>4 DEF Places, UserOf
  <2> QED BY <1>1, <2>2, <2>3, <2>5, SMTT(20) DEF Conserved, InOnePlace, Total, Count, Gone
<1> QED BY <1>1, MessageInvariance, PTL

-----------------------------------------------------------------------------
(* One steering message in a turn.                                         *)

(* The steering messages in t behind the entry r that no answer follows.   *)
Since(t, r, s) ==
  {p \in (r + 1)..Len(t) :
     /\ t[p].role = "user"
     /\ t[p].id \in s
     /\ \A q \in DOMAIN t : q > p => t[q].role # "assistant"}

Fresh == Since(transcript, runStart, steers)

AtMostOne(S) == \A p, q \in S : p = q

(* The identifiers of steering messages are never used for anything else.  *)
SteersKnown ==
  /\ \A m \in steers : m <= sent
  /\ \A i \in DOMAIN followUp : followUp[i] \notin steers

(* A run that begins with a steering message does not poll for another,    *)
(* and a message is polled for only when the last one has been answered.   *)
Quota ==
  queueMode = "one-at-a-time" =>
    /\ pc = "begin" =>
         /\ runStart = Len(transcript)
         /\ skipPoll => Len(pending) <= 1
         /\ ~skipPoll => \A i \in 1..Len(pending) : pending[i] \notin steers
    /\ pc = "turn" => Len(pending) <= 1 /\ AtMostOne(Fresh) /\ (pending = <<>> \/ Fresh = {})
    /\ pc \in {"model", "modelAborted"} => AtMostOne(Fresh)
    /\ pc \in {"batch", "turnEnd", "pollFollowUp"} => Fresh = {}

LEMMA SinceJoin ==
  ASSUME NEW t \in Seq(Entry), NEW u \in Seq(Entry), NEW r \in Nat, NEW s,
         NEW p \in Since(t \o u, r, s)
  PROVE  \/ p \in Since(t, r, s)
         \/ \E i \in 1..Len(u) : p = Len(t) + i /\ u[i].role = "user" /\ u[i].id \in s
<1> DEFINE c == t \o u
<1>1. Len(t) \in Nat /\ Len(u) \in Nat /\ DOMAIN t = 1..Len(t)
  BY LenProperties
<1>2. /\ c \in Seq(Entry) /\ Len(c) = Len(t) + Len(u) /\ DOMAIN c = 1..Len(c)
      /\ \A i \in 1..Len(t) : c[i] = t[i]
      /\ \A i \in 1..Len(u) : c[Len(t) + i] = u[i]
  BY <1>1, ConcatProperties, LenProperties
<1> HIDE DEF c
<1>3. /\ p \in (r + 1)..Len(c) /\ c[p].role = "user" /\ c[p].id \in s
      /\ \A q \in DOMAIN c : q > p => c[q].role # "assistant"
  BY DEF Since, c
<1>4. CASE p <= Len(t)
  <2>1. p \in (r + 1)..Len(t) /\ c[p] = t[p]
    BY <1>1, <1>2, <1>3, <1>4
  <2>2. ASSUME NEW q \in DOMAIN t, q > p PROVE t[q].role # "assistant"
    <3>1. q \in DOMAIN c /\ c[q] = t[q]
      BY <1>1, <1>2
    <3> QED BY <1>3, <2>2, <3>1
  <2> QED BY <1>3, <2>1, <2>2 DEF Since
<1>5. CASE ~(p <= Len(t))
  <2>1. p - Len(t) \in 1..Len(u) /\ p = Len(t) + (p - Len(t))
    BY <1>1, <1>2, <1>3, <1>5
  <2>2. c[p] = u[p - Len(t)]
    BY <1>2, <2>1
  <2> QED BY <1>3, <2>1, <2>2
<1> QED BY <1>4, <1>5

(* An answer settles them all.                                             *)
LEMMA SinceAnswer ==
  ASSUME NEW t \in Seq(Entry), NEW e \in Entry, e.role = "assistant", NEW r \in Nat, NEW s
  PROVE  Since(Append(t, e), r, s) = {}
<1> DEFINE c == Append(t, e)
<1>1. /\ Len(t) \in Nat /\ Len(c) = Len(t) + 1 /\ DOMAIN c = 1..Len(c) /\ c[Len(t) + 1] = e
  BY LenProperties, AppendProperties
<1>2. ASSUME NEW p \in Since(c, r, s) PROVE FALSE
  <2> HIDE DEF c
  <2>1. /\ p \in (r + 1)..Len(c) /\ c[p].role = "user"
        /\ \A q \in DOMAIN c : q > p => c[q].role # "assistant"
    BY <1>2 DEF Since
  <2>2. p # Len(t) + 1
    BY <1>1, <2>1
  <2>3. Len(t) + 1 \in DOMAIN c /\ Len(t) + 1 > p
    BY <1>1, <2>1, <2>2
  <2> QED BY <1>1, <2>1, <2>3
<1> QED BY <1>2

LEMMA SinceStart ==
  ASSUME NEW t \in Seq(Entry), NEW s
  PROVE  Since(t, Len(t), s) = {}
BY LenProperties DEF Since

LEMMA FreshType ==
  ASSUME Types
  PROVE  /\ transcript \in Seq(Entry) /\ runStart \in Nat /\ pending \in Seq(Msgs)
         /\ steering \in Seq(Msgs) /\ followUp \in Seq(Msgs) /\ turns \in Nat
         /\ pc = "idle" => pending = <<>>
<1>1. Len(transcript) \in Nat
  BY LenProperties DEF Types, Logs
<1> QED BY <1>1 DEF Types, Logs, Numbers, Waiting

(* What is no user message adds nothing; the loop's own messages may.      *)
LEMMA FreshPlain ==
  ASSUME Types, UNCHANGED <<runStart, steers>>, \E u : Plain(u) /\ transcript' = transcript \o u
  PROVE  Fresh' \subseteq Fresh
<1>1. PICK u : Plain(u) /\ transcript' = transcript \o u
  OBVIOUS
<1>2. \A p \in Since(transcript \o u, runStart, steers) : p \in Since(transcript, runStart, steers)
  BY <1>1, FreshType, SinceJoin DEF Plain
<1>3. Fresh' = Since(transcript \o u, runStart, steers)
  BY <1>1 DEF Fresh
<1> QED BY <1>2, <1>3 DEF Fresh

LEMMA FreshJoin ==
  ASSUME Types, UNCHANGED <<runStart, steers>>, transcript' = transcript \o Users(pending),
         NEW p \in Fresh'
  PROVE  p \in Fresh \/ \E i \in 1..Len(pending) : p = Len(transcript) + i /\ pending[i] \in steers
<1>1. Users(pending) \in Seq(Entry) /\ Len(Users(pending)) = Len(pending)
  BY FreshType, UserEntries
<1>2. p \in Since(transcript \o Users(pending), runStart, steers)
  <2>1. Fresh' = Since(transcript \o Users(pending), runStart, steers)
    BY DEF Fresh
  <2> QED BY <2>1
<1>3. \A i \in 1..Len(pending) : Users(pending)[i].id = pending[i]
  BY FreshType, LenProperties DEF Users
<1> QED BY <1>1, <1>2, <1>3, FreshType, SinceJoin DEF Fresh

(* In one-at-a-time mode a drain takes one message.                        *)
LEMMA DrainOne ==
  ASSUME NEW q \in Seq(Msgs), queueMode = "one-at-a-time"
  PROVE  /\ Len(Taken(q)) <= 1 /\ (q # <<>> => Taken(q) = <<Head(q)>>)
<1>1. CASE q = <<>>
  BY <1>1 DEF Taken
<1>2. CASE q # <<>>
  <2>1. Taken(q) = <<Head(q)>>
    BY <1>2 DEF Taken
  <2> QED BY <2>1
<1> QED BY <1>1, <1>2

(* What is left of a queue is part of it.                                  *)
LEMMA DrainPart ==
  ASSUME NEW q \in Seq(Msgs), NEW s, \A i \in DOMAIN q : q[i] \notin s
  PROVE  /\ \A i \in DOMAIN Rest(q) : Rest(q)[i] \notin s
         /\ \A i \in DOMAIN Taken(q) : Taken(q)[i] \notin s
<1>1. CASE queueMode = "all" \/ q = <<>>
  BY <1>1 DEF Rest, Taken
<1>2. CASE ~(queueMode = "all" \/ q = <<>>)
  <2>1. Rest(q) = Tail(q) /\ Taken(q) = <<Head(q)>> /\ q # <<>>
    BY <1>2 DEF Rest, Taken
  <2>2. /\ Len(q) \in Nat \ {0} /\ DOMAIN q = 1..Len(q) /\ Head(q) = q[1]
        /\ DOMAIN Tail(q) = 1..(Len(q) - 1)
        /\ \A i \in 1..(Len(q) - 1) : Tail(q)[i] = q[i + 1]
    BY <2>1, LenProperties, HeadTailProperties, EmptySeq
  <2>3. \A i \in DOMAIN <<Head(q)>> : <<Head(q)>>[i] = q[1]
    BY <2>2
  <2> QED BY <2>1, <2>2, <2>3
<1> QED BY <1>1, <1>2

LEMMA NotYet ==
  ASSUME Types, InOnePlace, sent < MaxSent
  PROVE  /\ sent + 1 \in Msgs
         /\ \A i \in DOMAIN followUp : followUp[i] # sent + 1
         /\ \A i \in 1..Len(pending) : pending[i] # sent + 1
         /\ \A p \in DOMAIN transcript : transcript[p].role = "user" => transcript[p].id # sent + 1
<1> DEFINE m == sent + 1
<1>1. m \in Msgs /\ ~(m <= sent)
  BY AgentAssumption DEF Types, Numbers, Msgs
<1>2. Total(m) = 0
  BY <1>1 DEF InOnePlace
<1> HIDE DEF m
<1>3. Count({m}, followUp) = 0 /\ Count({m}, pending) = 0 /\ Count(UserOf(m), transcript) = 0
  BY <1>2, TotalNat DEF Total
<1>4. /\ \A i \in 1..Len(followUp) : followUp[i] \notin {m}
      /\ \A i \in 1..Len(pending) : pending[i] \notin {m}
      /\ \A i \in 1..Len(transcript) : transcript[i] \notin UserOf(m)
  BY <1>3, FreshType, CountNat
<1>5. DOMAIN followUp = 1..Len(followUp) /\ DOMAIN transcript = 1..Len(transcript)
  BY FreshType, LenProperties
<1>6. \A p \in DOMAIN transcript : transcript[p] \in Entry
  BY <1>5, FreshType, ElementOfSeq
<1> QED BY <1>1, <1>4, <1>5, <1>6 DEF UserOf, m

LEMMA KnownSteps ==
  ASSUME Types, InOnePlace, SteersKnown, [Next]_vars
  PROVE  SteersKnown'
<1>0. sent \in Nat /\ steers \subseteq Msgs /\ followUp \in Seq(Msgs)
      /\ (\A m \in steers : m \in Nat /\ m <= sent) /\ (\A i \in DOMAIN followUp : followUp[i] \notin steers)
  BY AgentAssumption DEF Types, Numbers, Waiting, SteersKnown, Msgs
<1>1. CASE Steer
  <2>1. sent' = sent + 1 /\ steers' = steers \cup {sent + 1} /\ followUp' = followUp
    BY <1>1 DEF Steer, Send
  <2>2. \A i \in DOMAIN followUp : followUp[i] # sent + 1
    BY <1>1, NotYet DEF Steer, Send
  <2>3. \A m \in steers \cup {sent + 1} : m <= sent + 1
    BY <1>0
  <2> QED BY <1>0, <2>1, <2>2, <2>3 DEF SteersKnown
<1>2. CASE FollowUp
  <2>1. sent' = sent + 1 /\ steers' = steers /\ followUp' = Append(followUp, sent + 1) /\ sent + 1 \in Msgs
    BY <1>2, NotYet DEF FollowUp, Send
  <2>2. sent + 1 \notin steers /\ \A m \in steers : m <= sent + 1
    BY <1>0
  <2>3. \A i \in DOMAIN Append(followUp, sent + 1) : Append(followUp, sent + 1)[i] \notin steers
    <3> DEFINE c == Append(followUp, sent + 1)
    <3>1. /\ DOMAIN c = 1..(Len(followUp) + 1) /\ DOMAIN followUp = 1..Len(followUp) /\ Len(followUp) \in Nat
          /\ c[Len(followUp) + 1] = sent + 1 /\ \A i \in 1..Len(followUp) : c[i] = followUp[i]
      BY <1>0, <2>1, LenProperties, AppendProperties
    <3> HIDE DEF c
    <3>2. \A i \in DOMAIN c : c[i] \notin steers
      BY <1>0, <2>2, <3>1
    <3> QED BY <3>2 DEF c
  <2> QED BY <2>1, <2>2, <2>3 DEF SteersKnown
<1>3. CASE Prompt
  <2>1. sent' = sent + 1 /\ steers' = steers /\ followUp' = followUp
    BY <1>3 DEF Prompt, Send, queues
  <2>2. \A m \in steers : m <= sent + 1
    BY <1>0
  <2> QED BY <1>0, <2>1, <2>2 DEF SteersKnown
<1>4. CASE ContinueFollowUp \/ PollFollowUp
  <2>1. sent' = sent /\ steers' = steers /\ followUp' = Rest(followUp)
    BY <1>4 DEF ContinueFollowUp, PollFollowUp
  <2> QED BY <1>0, <2>1, DrainPart DEF SteersKnown
<1>5. CASE ClearAllQueues
  <2>1. sent' = sent /\ steers' = steers /\ followUp' = <<>>
    BY <1>5 DEF ClearAllQueues
  <2> QED BY <1>0, <2>1 DEF SteersKnown
<1>6. CASE sent' = sent /\ steers' = steers /\ followUp' = followUp
  BY <1>0, <1>6 DEF SteersKnown
<1>7. CASE \/ ContinueSteering \/ ContinueTranscript \/ Abort \/ BeginRun \/ TurnStart \/ TurnEnd \/ UNCHANGED vars
  BY <1>6, <1>7 DEF ContinueSteering, ContinueTranscript, Abort, BeginRun, TurnStart, RecordingRejected, TurnEnd,
     vars, queues
<1>8. CASE \/ ModelAnswers \/ ModelStops \/ ModelFails \/ RecordBatch \/ EndRun \/ HandleRunFailure
           \/ \E c \in stray : StrayEnds(c)
           \/ \E i \in DOMAIN calls : AnnounceCall(i) \/ SkipCalls(i) \/ PrepareCall(i) \/ EndCall(i)
                                        \/ EndCallRejected(i)
  BY <1>6, <1>8 DEF ModelAnswers, ModelStops, ModelFails, RecordBatch, EndRun, HandleRunFailure, FinishRun,
     StrayEnds, AnnounceCall, SkipCalls, PrepareCall, EndCall, EndCallRejected, queues
<1> QED BY <1>1, <1>2, <1>3, <1>4, <1>5, <1>7, <1>8 DEF Next, LoopStep, ClientStep

(* A run begins.                                                           *)
LEMMA QuotaStart ==
  ASSUME Types, SteersKnown, Prompt \/ ContinueSteering \/ ContinueFollowUp \/ ContinueTranscript
  PROVE  Quota'
<1>0. sent \in Nat /\ steers \subseteq Nat /\ (\A m \in steers : m <= sent)
  BY AgentAssumption DEF Types, Numbers, Waiting, SteersKnown, Msgs
<1>1. pc' = "begin" /\ runStart' = Len(transcript) /\ transcript' = transcript /\ queueMode' = queueMode
  BY DEF Prompt, ContinueSteering, ContinueFollowUp, ContinueTranscript, StartRun
<1>2. steers' = steers
  BY DEF Prompt, Send, ContinueSteering, ContinueFollowUp, ContinueTranscript
<1> SUFFICES ASSUME queueMode = "one-at-a-time"
             PROVE  /\ skipPoll' => Len(pending') <= 1
                    /\ ~skipPoll' => \A i \in 1..Len(pending') : pending'[i] \notin steers
  BY <1>1, <1>2 DEF Quota
<1>3. CASE Prompt
  <2>1. pending' = <<sent + 1>> /\ skipPoll' = FALSE
    BY <1>3 DEF Prompt, StartRun
  <2>2. sent + 1 \notin steers
    BY <1>0
  <2>3. \A i \in 1..Len(<<sent + 1>>) : <<sent + 1>>[i] = sent + 1
    OBVIOUS
  <2> QED BY <2>1, <2>2, <2>3
<1>4. CASE ContinueSteering
  <2>1. pending' = Taken(steering) /\ skipPoll' = TRUE
    BY <1>4 DEF ContinueSteering, StartRun
  <2>2. Len(Taken(steering)) <= 1
    BY FreshType, DrainOne
  <2> QED BY <2>1, <2>2
<1>5. CASE ContinueFollowUp
  <2>1. pending' = Taken(followUp) /\ skipPoll' = FALSE
    BY <1>5 DEF ContinueFollowUp, StartRun
  <2>2. \A i \in DOMAIN Taken(followUp) : Taken(followUp)[i] \notin steers
    BY FreshType, DrainPart DEF SteersKnown
  <2>3. DOMAIN Taken(followUp) = 1..Len(Taken(followUp))
    BY FreshType, Drain, LenProperties
  <2> QED BY <2>1, <2>2, <2>3
<1>6. CASE ContinueTranscript
  <2>1. pending' = <<>> /\ skipPoll' = FALSE
    BY <1>6 DEF ContinueTranscript, StartRun
  <2> QED BY <2>1
<1> QED BY <1>3, <1>4, <1>5, <1>6

(* The prompts are recorded, and the queue is polled.                      *)
LEMMA QuotaBegin ==
  ASSUME Types, Quota, BeginRun
  PROVE  Quota'
<1>1. CASE RecordingRejected
  <2>1. pc' = "failing"
    BY <1>1 DEF RecordingRejected, Fail
  <2> QED BY <2>1 DEF Quota
<1>2. CASE ~RecordingRejected
  <2>1. /\ pc = "begin" /\ pc' = "turn" /\ transcript' = transcript \o Users(pending)
        /\ pending' = (IF skipPoll THEN <<>> ELSE Taken(steering))
        /\ UNCHANGED <<runStart, steers, queueMode>>
    BY <1>2 DEF BeginRun, counts
  <2> SUFFICES ASSUME queueMode = "one-at-a-time"
               PROVE  Len(pending') <= 1 /\ AtMostOne(Fresh') /\ (pending' = <<>> \/ Fresh' = {})
    BY <2>1 DEF Quota, AtMostOne
  <2>2. Fresh = {}
    BY <2>1, FreshType, SinceStart DEF Quota, Fresh
  <2>3. \A p \in Fresh' : \E i \in 1..Len(pending) : p = Len(transcript) + i /\ pending[i] \in steers
    BY <2>1, <2>2, FreshJoin
  <2>4. CASE skipPoll
    <3>1. Len(pending) \in Nat /\ Len(pending) <= 1 /\ pending' = <<>>
      BY <2>1, <2>4, FreshType, LenProperties DEF Quota
    <3>2. \A i, j \in 1..Len(pending) : i = j
      BY <3>1
    <3>3. AtMostOne(Fresh')
      BY <2>3, <3>2 DEF AtMostOne
    <3> QED BY <3>1, <3>3
  <2>5. CASE ~skipPoll
    <3>1. Fresh' = {}
      BY <2>1, <2>3, <2>5 DEF Quota
    <3>2. pending' = Taken(steering) /\ Len(Taken(steering)) <= 1
      BY <2>1, <2>5, FreshType, DrainOne
    <3>3. Len(pending') <= 1
      BY <3>2
    <3> QED BY <3>1, <3>3 DEF AtMostOne
  <2> QED BY <2>4, <2>5, FreshType DEF Types, Flags
<1> QED BY <1>1, <1>2

(* What a poll returned is recorded, and the model is asked.               *)
LEMMA QuotaTurn ==
  ASSUME Types, Quota, TurnStart
  PROVE  Quota'
<1>1. CASE RecordingRejected
  <2>1. pc' = "failing"
    BY <1>1 DEF RecordingRejected, Fail
  <2> QED BY <2>1 DEF Quota
<1>2. CASE ~RecordingRejected
  <2>1. /\ pc = "turn" /\ pc' \in {"model", "modelAborted"} /\ transcript' = transcript \o Users(pending)
        /\ UNCHANGED <<runStart, steers, queueMode>>
    BY <1>2 DEF TurnStart, counts
  <2> SUFFICES ASSUME queueMode = "one-at-a-time"
               PROVE  AtMostOne(Fresh')
    BY <2>1 DEF Quota, AtMostOne
  <2>2. \A p \in Fresh' :
          p \in Fresh \/ \E i \in 1..Len(pending) : p = Len(transcript) + i /\ pending[i] \in steers
    BY <2>1, FreshJoin
  <2>3. /\ Len(pending) \in Nat /\ Len(pending) <= 1 /\ AtMostOne(Fresh) /\ (pending = <<>> \/ Fresh = {})
    BY <2>1, FreshType, LenProperties DEF Quota
  <2>4. CASE pending = <<>>
    BY <2>2, <2>3, <2>4 DEF AtMostOne
  <2>5. CASE Fresh = {}
    <3>1. \A i, j \in 1..Len(pending) : i = j
      BY <2>3
    <3> QED BY <2>2, <2>5, <3>1 DEF AtMostOne
  <2> QED BY <2>3, <2>4, <2>5
<1> QED BY <1>1, <1>2

(* The model answers, or its answer ends the run.                          *)
LEMMA QuotaModel ==
  ASSUME Types, ModelAnswers \/ ModelStops \/ ModelFails
  PROVE  Quota'
<1>1. CASE ModelAnswers
  <2>1. PICK n \in 0..MaxCalls :
          /\ transcript' = Append(transcript, Assistant(n, TRUE))
          /\ pc' \in {"turnEnd", "batch"} /\ UNCHANGED <<runStart, steers>>
    BY <1>1 DEF ModelAnswers
  <2>2. Assistant(n, TRUE) \in Entry /\ Assistant(n, TRUE).role = "assistant"
    BY FreshType, AssistantEntry
  <2>3. Fresh' = {}
    BY <2>1, <2>2, FreshType, SinceAnswer DEF Fresh
  <2> QED BY <2>1, <2>3 DEF Quota
<1>2. CASE ModelStops \/ ModelFails
  <2>1. pc' \in {"end", "failing"}
    BY <1>2 DEF ModelStops, ModelFails, Fail
  <2> QED BY <2>1 DEF Quota
<1> QED BY <1>1, <1>2

(* Tool calls and their results add no message.                            *)
LEMMA QuotaBatch ==
  ASSUME Types, NothingPending, Quota,
         \/ \E i \in DOMAIN calls : AnnounceCall(i) \/ SkipCalls(i) \/ PrepareCall(i) \/ EndCall(i)
                                      \/ EndCallRejected(i)
         \/ RecordBatch
  PROVE  Quota'
<1>1. Fresh' \subseteq Fresh
  <2>1. UNCHANGED <<runStart, steers>>
    BY DEF AnnounceCall, SkipCalls, PrepareCall, EndCall, EndCallRejected, RecordBatch, counts
  <2> QED BY <2>1, QuietSteps, FreshPlain DEF Quiet
<1>2. pc = "batch" /\ queueMode' = queueMode /\ pc' \in {"batch", "turnEnd", "failing"}
  BY DEF AnnounceCall, SkipCalls, PrepareCall, EndCall, EndCallRejected, RecordBatch, NextCall, MayEnd, Fail, counts
<1> QED BY <1>1, <1>2 DEF Quota

(* The queues are polled once the turn is over.                            *)
LEMMA QuotaPoll ==
  ASSUME Types, Quota, TurnEnd \/ PollFollowUp
  PROVE  Quota'
<1>1. /\ pc \in {"turnEnd", "pollFollowUp"} /\ pc' \in {"turn", "pollFollowUp", "end", "failing"}
      /\ UNCHANGED <<transcript, runStart, steers, queueMode>>
  BY DEF TurnEnd, PollFollowUp, Fail, counts
<1>2. Fresh' = Fresh
  BY <1>1 DEF Fresh
<1>3. queueMode = "one-at-a-time" /\ pc' = "turn" => Len(pending') <= 1
  <2>1. pc' = "turn" => pending' = Taken(steering) \/ pending' = Taken(followUp)
    BY DEF TurnEnd, PollFollowUp, Fail
  <2>2. queueMode = "one-at-a-time" => Len(Taken(steering)) <= 1 /\ Len(Taken(followUp)) <= 1
    BY FreshType, DrainOne
  <2> QED BY <2>1, <2>2
<1> QED BY <1>1, <1>2, <1>3 DEF Quota, AtMostOne

(* steer() between two steps of the loop names a message that is nowhere   *)
(* yet.                                                                    *)
LEMMA QuotaSteer ==
  ASSUME Types, InOnePlace, Quota, Steer
  PROVE  Quota'
<1>1. /\ sent < MaxSent /\ steers' = steers \cup {sent + 1}
      /\ UNCHANGED <<pc, transcript, pending, skipPoll, runStart, queueMode>>
  BY DEF Steer, Send, counts
<1>2. /\ \A i \in 1..Len(pending) : pending[i] # sent + 1
      /\ \A p \in DOMAIN transcript : transcript[p].role = "user" => transcript[p].id # sent + 1
  BY <1>1, NotYet
<1>3. Since(transcript, runStart, steers \cup {sent + 1}) = Fresh
  <2>1. \A p \in (runStart + 1)..Len(transcript) : p \in DOMAIN transcript
    BY FreshType, LenProperties
  <2> QED BY <1>2, <2>1 DEF Since, Fresh
<1>4. Fresh' = Fresh
  BY <1>1, <1>3 DEF Fresh
<1> QED BY <1>1, <1>2, <1>4 DEF Quota, AtMostOne

LEMMA QuotaSteps ==
  ASSUME Types, Conserved, SteersKnown, Quota, [Next]_vars
  PROVE  Quota'
<1>1. CASE \/ FollowUp \/ Abort \/ ClearAllQueues \/ UNCHANGED vars
           \/ \E c \in stray : StrayEnds(c)
  <2>1. UNCHANGED <<pc, transcript, pending, skipPoll, runStart, queueMode, steers>>
    BY <1>1 DEF FollowUp, Send, Abort, ClearAllQueues, StrayEnds, vars, counts
  <2>2. Fresh' = Fresh
    BY <2>1 DEF Fresh
  <2> QED BY <2>1, <2>2 DEF Quota, AtMostOne
<1>2. CASE EndRun \/ HandleRunFailure
  <2>1. pc' \in {"idle", "failing"}
    BY <1>2 DEF EndRun, HandleRunFailure, FinishRun, Fail
  <2> QED BY <2>1 DEF Quota
<1> QED BY <1>1, <1>2, QuotaStart, QuotaBegin, QuotaTurn, QuotaModel, QuotaBatch, QuotaPoll, QuotaSteer
        DEF Next, LoopStep, ClientStep, Conserved

LEMMA InitQuota == Init => SteersKnown /\ Quota
BY DEF Init, SteersKnown, Quota

(* In one-at-a-time mode the model never sees two new steering messages of *)
(* a run at once, for any number of messages and turns: the queue is       *)
(* polled once per turn, and not again by a run that began with a message  *)
(* taken from it (agent.ts:463-468, agent-loop.ts:167, 259).               *)
THEOREM OneSteeringAtATime == Spec => []OneSteeringPerTurn
<1>1. IInv /\ Conserved /\ SteersKnown /\ Quota /\ [Next]_vars => (SteersKnown /\ Quota)'
  BY KnownSteps, QuotaSteps DEF IInv, Conserved
<1>2. ASSUME IInv, Quota PROVE OneSteeringPerTurn
  <2> SUFFICES ASSUME queueMode = "one-at-a-time", pc = "model"
               PROVE  Cardinality(Fresh) <= 1
    BY DEF OneSteeringPerTurn, Fresh, Since
  <2>1. AtMostOne(Fresh)
    BY <1>2 DEF Quota
  <2>2. CASE Fresh = {}
    <3>1. Cardinality(Fresh) = 0
      BY <2>2, FS_EmptySet
    <3> QED BY <3>1
  <2>3. ASSUME NEW p \in Fresh PROVE Cardinality(Fresh) <= 1
    <3>1. Fresh = {p}
      BY <2>1, <2>3 DEF AtMostOne
    <3>2. Cardinality(Fresh) = 1
      BY <3>1, FS_Singleton
    <3> QED BY <3>2
  <2> QED BY <2>2, <2>3
<1> QED BY <1>1, <1>2, InitQuota, MessageInvariance, PTL DEF Spec

-----------------------------------------------------------------------------
(* Every result answers a call that was made.                              *)

Called(s) ==
  \A p \in DOMAIN s : s[p].role = "result" =>
    \E a \in 1..(p - 1) :
      /\ a + s[p].part = p
      /\ s[a].role = "assistant" /\ s[a].ok /\ s[p].part <= s[a].part

(* The log ends with a complete answer that makes n calls.                 *)
Asks(s, n) == s[Len(s)].ok /\ s[Len(s)].part = n

AskInv == Called(transcript) /\ (pc = "batch" => Called(context) /\ Asks(context, Len(calls)))

LEMMA CalledPlain ==
  ASSUME NEW s \in Seq(Entry), NEW u \in Seq(Entry), Called(s),
         \A i \in 1..Len(u) : u[i].role # "result"
  PROVE  Called(s \o u)
<1> DEFINE w == s \o u
<1>1. /\ w \in Seq(Entry) /\ Len(w) = Len(s) + Len(u) /\ Len(s) \in Nat /\ Len(u) \in Nat
      /\ DOMAIN w = 1..Len(w) /\ DOMAIN s = 1..Len(s)
  BY ConcatProperties, LenProperties
<1>2. /\ \A i \in 1..Len(s) : w[i] = s[i]
      /\ \A i \in (Len(s) + 1)..Len(w) : i - Len(s) \in 1..Len(u) /\ w[i] = u[i - Len(s)]
  BY <1>1, ConcatProperties
<1> HIDE DEF w
<1>3. ASSUME NEW p \in DOMAIN w, w[p].role = "result"
      PROVE  \E a \in 1..(p - 1) :
               a + w[p].part = p /\ w[a].role = "assistant" /\ w[a].ok /\ w[p].part <= w[a].part
  <2>1. p \in 1..Len(s)
    BY <1>1, <1>2, <1>3
  <2>2. w[p] = s[p]
    BY <1>2, <2>1
  <2>3. PICK a \in 1..(p - 1) :
          a + s[p].part = p /\ s[a].role = "assistant" /\ s[a].ok /\ s[p].part <= s[a].part
    BY <1>1, <1>3, <2>1, <2>2 DEF Called
  <2>4. w[a] = s[a]
    BY <1>1, <1>2, <2>1
  <2> QED BY <2>2, <2>3, <2>4
<1>4. Called(w)
  BY <1>3 DEF Called
<1> QED BY <1>4 DEF w

LEMMA CalledAppend ==
  ASSUME NEW s \in Seq(Entry), NEW e \in Entry, Called(s), e.role # "result"
  PROVE  Called(Append(s, e))
<1>1. <<e>> \in Seq(Entry) /\ Len(<<e>>) = 1 /\ <<e>>[1] = e
  OBVIOUS
<1>2. Append(s, e) = s \o <<e>>
  BY AppendIsConcat
<1>3. \A i \in 1..Len(<<e>>) : <<e>>[i].role # "result"
  BY <1>1
<1>4. Called(s \o <<e>>)
  BY <1>1, <1>3, CalledPlain
<1> QED BY <1>2, <1>4

LEMMA CalledRun ==
  ASSUME NEW s \in Seq(Entry), NEW t \in Nat, NEW c \in Nat, NEW n \in 0..MaxCalls, n <= c,
         Called(s), Closes(s, t), Asks(s, c)
  PROVE  Called(s \o Run(t, n))
<1> DEFINE u == Run(t, n)
           w == s \o u
<1>1. u \in Seq(Entry) /\ Len(u) = n
  BY RunEntries
<1>2. \A i \in 1..n : u[i].role = "result" /\ u[i].id = t /\ u[i].part = i
  BY DEF Run
<1> HIDE DEF u
<1>3. /\ w \in Seq(Entry) /\ Len(w) = Len(s) + n /\ Len(s) \in Nat /\ n \in Nat
      /\ DOMAIN w = 1..Len(w) /\ DOMAIN s = 1..Len(s)
  BY <1>1, ConcatProperties, LenProperties, AgentAssumption
<1>4. /\ \A i \in 1..Len(s) : w[i] = s[i]
      /\ \A i \in (Len(s) + 1)..Len(w) : i - Len(s) \in 1..n /\ w[i] = u[i - Len(s)]
  BY <1>1, <1>3, ConcatProperties
<1> HIDE DEF w
<1>5. Len(s) >= 1 /\ s[Len(s)].role = "assistant" /\ s[Len(s)].ok /\ s[Len(s)].part = c
  BY <1>3, EmptySeq DEF Closes, Asks
<1>6. ASSUME NEW p \in DOMAIN w, w[p].role = "result"
      PROVE  \E a \in 1..(p - 1) :
               a + w[p].part = p /\ w[a].role = "assistant" /\ w[a].ok /\ w[p].part <= w[a].part
  <2>0. p \in 1..(Len(s) + n)
    BY <1>3
  <2>1. CASE p <= Len(s)
    <3>1. w[p] = s[p] /\ p \in DOMAIN s
      BY <1>3, <1>4, <2>0, <2>1
    <3>2. PICK a \in 1..(p - 1) :
            a + s[p].part = p /\ s[a].role = "assistant" /\ s[a].ok /\ s[p].part <= s[a].part
      BY <1>6, <3>1 DEF Called
    <3>3. w[a] = s[a]
      BY <1>3, <1>4, <2>0, <2>1
    <3> QED BY <3>1, <3>2, <3>3
  <2>2. CASE p > Len(s)
    <3>1. /\ p \in (Len(s) + 1)..Len(w) /\ p - Len(s) \in 1..n
          /\ Len(s) \in 1..(p - 1) /\ Len(s) + (p - Len(s)) = p /\ p - Len(s) <= c
      BY <1>3, <1>5, <2>0, <2>2
    <3>2. w[p] = u[p - Len(s)] /\ w[Len(s)] = s[Len(s)]
      BY <1>3, <1>4, <1>5, <3>1
    <3>3. w[p].part = p - Len(s)
      BY <1>2, <3>1, <3>2
    <3> QED BY <1>5, <3>1, <3>2, <3>3
  <2> QED BY <1>3, <2>0, <2>1, <2>2
<1>7. Called(w)
  BY <1>6 DEF Called
<1> QED BY <1>7 DEF w, u

(* The answer that opens a batch makes its calls.                          *)
LEMMA AskAnswer ==
  ASSUME IInv, AskInv, ModelAnswers
  PROVE  AskInv'
<1>1. transcript \in Seq(Entry) /\ turns \in Nat /\ context = transcript
  BY DEF IInv, Types, Logs, Numbers, ModelAnswers, Agree
<1>2. PICK n \in 0..MaxCalls :
        /\ transcript' = Append(transcript, Assistant(n, TRUE))
        /\ context' = Append(context, Assistant(n, TRUE))
        /\ calls' = [i \in 1..n |-> "waiting"]
  BY DEF ModelAnswers
<1>3. n \in Nat /\ Len(calls') = n
  BY <1>2, AgentAssumption
<1> DEFINE e == Assistant(n, TRUE)
<1>4. e \in Entry /\ e.role = "assistant"
  <2>1. TRUE \in BOOLEAN
    OBVIOUS
  <2> QED BY <1>1, <2>1, AssistantEntry
<1>5. e.ok /\ e.part = n
  BY DEF Assistant
<1>6. transcript' = Append(transcript, e) /\ context' = transcript'
  BY <1>1, <1>2
<1> HIDE DEF e
<1>7. Called(Append(transcript, e))
  BY <1>1, <1>4, CalledAppend DEF AskInv
<1>8. Append(transcript, e)[Len(Append(transcript, e))] = e
  BY <1>1, <1>4, AppendProperties
<1>9. Asks(context', Len(calls'))
  BY <1>3, <1>5, <1>6, <1>8 DEF Asks
<1> QED BY <1>6, <1>7, <1>9 DEF AskInv, Called, Asks

(* Outside a batch, messages and answers join the log.                     *)
LEMMA AskOutside ==
  ASSUME IInv, AskInv, pc # "batch", ~ModelAnswers, [Next]_vars
  PROVE  AskInv'
<1>1. transcript \in Seq(Entry) /\ pending \in Seq(Msgs) /\ Called(transcript) /\ turns \in Nat
  BY DEF IInv, Types, Logs, Waiting, Numbers, AskInv
<1>2. pc' # "batch"
  BY DEF Next, LoopStep, ClientStep, BeginRun, TurnStart, RecordingRejected, Fail, ModelStops, ModelFails,
         AnnounceCall, SkipCalls, PrepareCall, EndCall, EndCallRejected, MayEnd, NextCall, RecordBatch,
         TurnEnd, PollFollowUp, EndRun, FinishRun, HandleRunFailure, Prompt, ContinueSteering,
         ContinueFollowUp, ContinueTranscript, StartRun, Steer, FollowUp, Abort, ClearAllQueues,
         StrayEnds, vars
<1>3. CASE transcript' = transcript
  BY <1>1, <1>2, <1>3 DEF AskInv, Called
<1>4. CASE BeginRun \/ TurnStart
  <2>1. PICK k \in 0..Len(pending) : transcript' = transcript \o SubSeq(Users(pending), 1, k)
    <3>1. Users(pending) \in Seq(Entry) /\ Len(Users(pending)) = Len(pending) /\ Len(pending) \in Nat
      BY <1>1, UserEntries, LenProperties
    <3>2. SubSeq(Users(pending), 1, Len(pending)) = Users(pending)
      BY <3>1, SubSeqFull
    <3>3. Len(pending) \in 0..Len(pending)
      BY <3>1
    <3> QED BY <1>4, <3>2, <3>3 DEF BeginRun, TurnStart, RecordingRejected
  <2> DEFINE u == SubSeq(Users(pending), 1, k)
  <2>2. u \in Seq(Entry) /\ \A i \in 1..Len(u) : u[i].role = "user"
    BY <1>1, UserPrefix
  <2> HIDE DEF u
  <2>3. Called(transcript \o u)
    BY <1>1, <2>2, CalledPlain
  <2>4. Called(transcript')
    BY <2>1, <2>3 DEF u
  <2> QED BY <1>2, <2>4 DEF AskInv, Called
<1>5. CASE ModelStops \/ ModelFails \/ HandleRunFailure
  <2>1. \/ transcript' = transcript
        \/ \E n \in 0..MaxCalls, ok \in BOOLEAN : transcript' = Append(transcript, Assistant(n, ok))
        \/ transcript' = Append(transcript, [Assistant(0, FALSE) EXCEPT !.id = 0])
    BY <1>5 DEF ModelStops, ModelFails, HandleRunFailure
  <2>2. \A n \in 0..MaxCalls, ok \in BOOLEAN :
          /\ Assistant(n, ok) \in Entry /\ Assistant(n, ok).role = "assistant"
          /\ [Assistant(n, ok) EXCEPT !.id = 0] \in Entry
          /\ [Assistant(n, ok) EXCEPT !.id = 0].role = "assistant"
    BY <1>1, AssistantEntry
  <2>3. 0 \in 0..MaxCalls /\ FALSE \in BOOLEAN
    BY AgentAssumption
  <2>4. ASSUME NEW e \in Entry, e.role = "assistant", transcript' = Append(transcript, e)
        PROVE  Called(transcript')
    BY <1>1, <2>4, CalledAppend
  <2>5. Called(transcript')
    BY <1>1, <2>1, <2>2, <2>3, <2>4
  <2> QED BY <1>2, <2>5 DEF AskInv, Called
<1> QED
  BY <1>3, <1>4, <1>5
  DEF Next, LoopStep, ClientStep, AnnounceCall, SkipCalls, PrepareCall, EndCall, EndCallRejected,
      MayEnd, NextCall, RecordBatch, TurnEnd, PollFollowUp, EndRun, FinishRun, Prompt, ContinueSteering,
      ContinueFollowUp, ContinueTranscript, StartRun, Steer, FollowUp, Abort, ClearAllQueues, StrayEnds,
      Fail, vars

(* The calls of a batch stay what they are, and its results answer them.   *)
LEMMA AskBatch ==
  ASSUME IInv, AskInv, pc = "batch", [Next]_vars
  PROVE  AskInv'
<1>1. /\ Types /\ InBatch /\ Called(transcript) /\ Called(context) /\ Closes(context, turns)
      /\ Asks(context, Len(calls))
  BY DEF IInv, Agree, InBatch, AskInv
<1>2. /\ calls \in Seq(CallStates) /\ DOMAIN calls = 1..Len(calls) /\ Len(calls) \in Nat
      /\ context \in Seq(Entry) /\ turns \in Nat
  BY <1>1, LenProperties DEF Types, Batch, Logs, Numbers
<1>3. \A n \in 0..MaxCalls : n <= Len(calls) => Called(context \o Run(turns, n))
  BY <1>1, <1>2, CalledRun
<1>4. pc' = "batch" => context' = context /\ Len(calls') = Len(calls)
  <2>1. ASSUME NEW i \in DOMAIN calls, AnnounceCall(i) \/ PrepareCall(i) \/ EndCall(i) \/ EndCallRejected(i)
        PROVE  context' = context /\ Len(calls') = Len(calls)
    <3>1. \/ calls' = calls
          \/ \E x \in {"announced", "refused", "prepared", "failed", "ended"} :
               calls' = [calls EXCEPT ![i] = x]
      BY <2>1 DEF AnnounceCall, PrepareCall, EndCall, EndCallRejected
    <3>2. {"announced", "refused", "prepared", "failed", "ended"} \subseteq CallStates
      BY DEF CallStates, Over
    <3>3. \A x \in CallStates : Len([calls EXCEPT ![i] = x]) = Len(calls)
      BY <1>2, ExceptSeq
    <3> QED BY <2>1, <3>1, <3>2, <3>3 DEF AnnounceCall, PrepareCall, EndCall, EndCallRejected
  <2>2. ASSUME NEW i \in DOMAIN calls, SkipCalls(i)
        PROVE  context' = context /\ Len(calls') = Len(calls)
    BY <1>2, <2>2 DEF SkipCalls
  <2>3. RecordBatch => pc' # "batch"
    BY DEF RecordBatch, Fail
  <2>4. \/ \E i \in DOMAIN calls :
             AnnounceCall(i) \/ SkipCalls(i) \/ PrepareCall(i) \/ EndCall(i) \/ EndCallRejected(i)
        \/ RecordBatch
        \/ UNCHANGED <<context, calls>>
    BY DEF Next, LoopStep, ClientStep, BeginRun, TurnStart, ModelAnswers, ModelStops, ModelFails,
           TurnEnd, PollFollowUp, EndRun, HandleRunFailure, Prompt, ContinueSteering,
           ContinueFollowUp, ContinueTranscript, StartRun, Steer, FollowUp, Abort, ClearAllQueues,
           StrayEnds, batch, vars
  <2> QED BY <2>1, <2>2, <2>3, <2>4
<1>5. Called(transcript')
  <2>1. ASSUME NEW i \in DOMAIN calls, EndCall(i) \/ EndCallRejected(i) PROVE Called(transcript')
    <3>1. calls[i] \in {"refused", "prepared"}
      BY <2>1 DEF EndCall, EndCallRejected, MayEnd
    <3>2. CASE transcript' = transcript
      BY <1>1, <3>2
    <3>3. CASE mode # "parallel" /\ transcript' = Append(transcript, Result(i))
      <4>1. i \in 0..MaxCalls /\ transcript' = context \o Run(turns, i)
        BY <1>1, <3>1, <3>3, NextResult
      <4>2. i <= Len(calls)
        BY <1>2
      <4> QED BY <1>3, <4>1, <4>2
    <3> QED BY <2>1, <3>2, <3>3 DEF EndCall, EndCallRejected
  <2>2. CASE RecordBatch
    <3>1. PICK n \in 0..MaxCalls : Results = Run(turns, n) /\ n <= Len(calls)
      BY <1>1, ResultsRun
    <3>2. mode = "parallel" => context = transcript
      BY <1>1 DEF InBatch, Recorded
    <3>3. CASE transcript' = transcript
      BY <1>1, <3>3
    <3>4. CASE mode = "parallel" /\ transcript' = transcript \o Results
      BY <1>3, <3>1, <3>2, <3>4
    <3>5. CASE mode = "parallel" /\ \E k \in 0..Len(Results) : transcript' = transcript \o SubSeq(Results, 1, k)
      <4>1. PICK k \in 0..n : transcript' = transcript \o SubSeq(Results, 1, k)
        BY <1>2, <3>1, <3>5, RunEntries
      <4>2. k \in 0..MaxCalls /\ SubSeq(Run(turns, n), 1, k) = Run(turns, k)
        BY <1>2, <4>1, RunPrefix
      <4>3. k <= Len(calls)
        BY <1>2, <3>1, AgentAssumption
      <4> QED BY <1>3, <3>1, <3>2, <3>5, <4>1, <4>2, <4>3
    <3> QED BY <2>2, <3>3, <3>4, <3>5 DEF RecordBatch
  <2>3. \/ \E i \in DOMAIN calls : EndCall(i) \/ EndCallRejected(i)
        \/ RecordBatch
        \/ transcript' = transcript
    BY DEF Next, LoopStep, ClientStep, BeginRun, TurnStart, ModelAnswers, ModelStops, ModelFails,
           AnnounceCall, SkipCalls, PrepareCall,
           TurnEnd, PollFollowUp, EndRun, HandleRunFailure, Prompt, ContinueSteering,
           ContinueFollowUp, ContinueTranscript, StartRun, Steer, FollowUp, Abort, ClearAllQueues,
           StrayEnds, vars
  <2> QED BY <1>1, <2>1, <2>2, <2>3
<1>6. pc' = "batch" => Called(context)' /\ Asks(context, Len(calls))'
  BY <1>1, <1>4 DEF Called, Asks
<1> QED BY <1>5, <1>6 DEF AskInv, Called

-----------------------------------------------------------------------------
(* Induction                                                               *)

(* Every set of numbers that is not empty has a least one.                 *)
LEMMA Least ==
  ASSUME NEW T, T \subseteq Nat, T # {}
  PROVE  \E n \in T : \A m \in T : n <= m
<1>1. IsWellFoundedOn(OpToRel(<, Nat), Nat)
  BY NatLessThanWellFounded
<1>2. \E x \in T : \A y \in T : ~ (<<y, x>> \in OpToRel(<, Nat))
  BY <1>1, WFMin
<1>3. \A x, y \in Nat : y < x => <<y, x>> \in OpToRel(<, Nat)
  BY DEF OpToRel
<1>4. PICK x \in T : \A y \in T : ~ (y < x)
  BY <1>2, <1>3, Zenon
<1> QED BY <1>4

LEMMA Induction ==
  ASSUME NEW P, 0 \in P, \A n \in Nat : n \in P => n + 1 \in P
  PROVE  Nat \subseteq P
<1> SUFFICES ASSUME Nat \ P # {} PROVE FALSE
  OBVIOUS
<1>1. PICK n \in Nat \ P : \A m \in Nat \ P : n <= m
  BY Least
<1>2. n # 0 /\ n - 1 \in Nat /\ n - 1 \in P
  BY <1>1
<1> QED BY <1>1, <1>2

-----------------------------------------------------------------------------
(* The loops of the message transformation                                 *)

Missing(c, n) == [role |-> "result", id |-> c.open.id, part |-> n, ok |-> FALSE]

(* The synthetic results for the first n open calls.                       *)
IsUpTo(g, c, m) ==
  g = [n \in 0..m |->
         IF n = 0 THEN <<>>
         ELSE IF <<c.open.id, n>> \in c.have THEN g[n - 1]
         ELSE Append(g[n - 1], Missing(c, n))]

LEMMA SyntheticChosen ==
  ASSUME NEW c
  PROVE  Synthetic(c) = (CHOOSE g : IsUpTo(g, c, c.open.part))[c.open.part]
BY DEF Synthetic, IsUpTo, Missing

LEMMA UpToExists ==
  ASSUME NEW c
  PROVE  \A m \in Nat : \E g : IsUpTo(g, c, m)
<1> DEFINE P == {m \in Nat : \E g : IsUpTo(g, c, m)}
<1>1. 0 \in P
  <2>1. IsUpTo([n \in 0..0 |-> <<>>], c, 0)
    BY DEF IsUpTo
  <2> QED BY <2>1
<1>2. ASSUME NEW m \in Nat, m \in P PROVE m + 1 \in P
  <2>1. PICK g : IsUpTo(g, c, m)
    BY <1>2
  <2>2. \A n \in 0..m : g[n] = IF n = 0 THEN <<>>
                               ELSE IF <<c.open.id, n>> \in c.have THEN g[n - 1]
                               ELSE Append(g[n - 1], Missing(c, n))
    BY <2>1 DEF IsUpTo
  <2> DEFINE last == IF <<c.open.id, m + 1>> \in c.have THEN g[m] ELSE Append(g[m], Missing(c, m + 1))
             h == [n \in 0..(m + 1) |-> IF n <= m THEN g[n] ELSE last]
  <2>3. ASSUME NEW n \in 0..(m + 1)
        PROVE  h[n] = IF n = 0 THEN <<>>
                      ELSE IF <<c.open.id, n>> \in c.have THEN h[n - 1]
                      ELSE Append(h[n - 1], Missing(c, n))
    <3>1. CASE n = 0
      <4>1. h[n] = g[0] /\ g[0] = <<>>
        <5>1. 0 \in 0..m /\ 0 <= m
          OBVIOUS
        <5>2. g[0] = <<>>
          BY <2>2, <5>1
        <5>3. h[n] = g[0]
          BY <3>1, <5>1
        <5> QED BY <5>2, <5>3
      <4> QED BY <3>1, <4>1
    <3>2. CASE n \in 1..m
      <4>1. n - 1 \in 0..(m + 1) /\ n - 1 <= m /\ n <= m /\ n \in 0..m
        BY <3>2
      <4>2. h[n] = g[n] /\ h[n - 1] = g[n - 1]
        BY <4>1
      <4> HIDE DEF h
      <4> QED BY <2>2, <3>2, <4>1, <4>2
    <3>3. CASE n = m + 1
      <4>1. n - 1 \in 0..(m + 1) /\ n - 1 = m
        BY <3>3
      <4>2. h[n - 1] = g[m] /\ h[n] = last
        BY <3>3, <4>1
      <4> HIDE DEF h
      <4> QED BY <3>3, <4>2
    <3> QED BY <3>1, <3>2, <3>3
  <2>4. IsUpTo(h, c, m + 1)
    BY <2>3 DEF IsUpTo
  <2> QED BY <2>4
<1>3. Nat \subseteq P
  <2> HIDE DEF P
  <2> QED BY <1>1, <1>2, Induction
<1> QED BY <1>3

(* Where the first k calls have their results, the others get one.         *)
LEMMA SyntheticFills ==
  ASSUME NEW c, c.open \in Entry, NEW k \in 0..c.open.part, c.have = {<<c.open.id, i>> : i \in 1..k}
  PROVE  /\ Synthetic(c) \in Seq(Entry) /\ Len(Synthetic(c)) = c.open.part - k
         /\ \A i \in 1..(c.open.part - k) : Synthetic(c)[i] = Missing(c, k + i)
<1>1. c.open.part \in Nat /\ c.open.part <= MaxCalls + MaxSent /\ c.open.id \in Nat /\ k \in Nat
      /\ MaxCalls + MaxSent \in Nat
  BY AgentAssumption DEF Entry
<1>2. PICK g : IsUpTo(g, c, c.open.part) /\ Synthetic(c) = g[c.open.part]
  <2>1. \E g : IsUpTo(g, c, c.open.part)
    BY <1>1, UpToExists
  <2> QED BY <2>1, SyntheticChosen
<1>3. \A n \in 0..c.open.part :
        g[n] = IF n = 0 THEN <<>>
               ELSE IF <<c.open.id, n>> \in c.have THEN g[n - 1]
               ELSE Append(g[n - 1], Missing(c, n))
  BY <1>2 DEF IsUpTo
<1>4. \A n \in Nat : <<c.open.id, n>> \in c.have <=> n \in 1..k
  OBVIOUS
<1>5. \A n \in 1..c.open.part : Missing(c, n) \in Entry
  BY <1>1 DEF Missing, Entry
<1> DEFINE To(n) == IF n <= k THEN 0 ELSE n - k
           P == {n \in Nat : n <= c.open.part =>
                   /\ g[n] \in Seq(Entry) /\ Len(g[n]) = To(n)
                   /\ \A i \in 1..To(n) : g[n][i] = Missing(c, k + i)}
<1>6. 0 \in P
  <2>1. g[0] = <<>>
    BY <1>1, <1>3
  <2>2. <<>> \in Seq(Entry) /\ Len(<<>>) = 0
    BY EmptySeq
  <2>3. To(0) = 0 /\ 1..0 = {}
    BY <1>1
  <2>4. g[0] \in Seq(Entry) /\ Len(g[0]) = To(0)
    BY <2>1, <2>2, <2>3
  <2> HIDE DEF To
  <2> QED BY <2>3, <2>4
<1>7. ASSUME NEW n \in Nat, n \in P PROVE n + 1 \in P
  <2> SUFFICES ASSUME n + 1 <= c.open.part
               PROVE  /\ g[n + 1] \in Seq(Entry) /\ Len(g[n + 1]) = To(n + 1)
                      /\ \A i \in 1..To(n + 1) : g[n + 1][i] = Missing(c, k + i)
    OBVIOUS
  <2>1. /\ g[n] \in Seq(Entry) /\ Len(g[n]) = To(n)
        /\ \A i \in 1..To(n) : g[n][i] = Missing(c, k + i)
    BY <1>1, <1>7
  <2>2. g[n + 1] = IF <<c.open.id, n + 1>> \in c.have THEN g[n] ELSE Append(g[n], Missing(c, n + 1))
    <3>1. n + 1 \in 0..c.open.part /\ n + 1 # 0 /\ (n + 1) - 1 = n
      BY <1>1
    <3> QED BY <1>3, <3>1
  <2>3. CASE n + 1 <= k
    <3>1. g[n + 1] = g[n]
      BY <1>4, <2>2, <2>3
    <3> QED BY <1>1, <2>1, <2>3, <3>1
  <2>4. CASE n + 1 > k
    <3>1. To(n) = n - k /\ To(n + 1) = (n - k) + 1 /\ n - k \in Nat
      BY <1>1, <2>4
    <3> HIDE DEF To
    <3>2. g[n + 1] = Append(g[n], Missing(c, n + 1))
      BY <1>1, <1>4, <2>2, <2>4
    <3>3. Missing(c, n + 1) \in Entry
      BY <1>1, <1>5
    <3>4. /\ g[n + 1] \in Seq(Entry) /\ Len(g[n + 1]) = (n - k) + 1
          /\ \A i \in 1..(n - k) : g[n + 1][i] = g[n][i]
          /\ g[n + 1][(n - k) + 1] = Missing(c, n + 1)
      <4>1. PICK w \in Seq(Entry) : w = g[n] /\ Len(w) = n - k
        BY <2>1, <3>1
      <4>2. g[n + 1] = Append(w, Missing(c, n + 1))
        BY <3>2, <4>1
      <4>3. /\ Append(w, Missing(c, n + 1)) \in Seq(Entry)
            /\ Len(Append(w, Missing(c, n + 1))) = Len(w) + 1
            /\ \A i \in 1..Len(w) : Append(w, Missing(c, n + 1))[i] = w[i]
            /\ Append(w, Missing(c, n + 1))[Len(w) + 1] = Missing(c, n + 1)
        BY <3>3, AppendProperties
      <4> QED BY <4>1, <4>2, <4>3
    <3>5. ASSUME NEW i \in 1..((n - k) + 1) PROVE g[n + 1][i] = Missing(c, k + i)
      <4>1. CASE i \in 1..(n - k)
        BY <2>1, <3>1, <3>4, <4>1
      <4>2. CASE i = (n - k) + 1
        <5>1. k + i = n + 1
          BY <1>1, <4>2
        <5> QED BY <3>4, <4>2, <5>1
      <4> QED BY <3>1, <4>1, <4>2
    <3> QED BY <3>1, <3>4, <3>5
  <2> QED BY <1>1, <2>3, <2>4
<1>8. Nat \subseteq P
  <2> HIDE DEF P
  <2> QED BY <1>6, <1>7, Induction
<1>9. /\ g[c.open.part] \in Seq(Entry) /\ Len(g[c.open.part]) = To(c.open.part)
      /\ \A i \in 1..To(c.open.part) : g[c.open.part][i] = Missing(c, k + i)
  <2>1. c.open.part \in P /\ c.open.part <= c.open.part
    BY <1>1, <1>8
  <2> HIDE DEF To
  <2> QED BY <2>1
<1>10. To(c.open.part) = c.open.part - k
  BY <1>1
<1> HIDE DEF To, P
<1> QED BY <1>2, <1>9, <1>10

(* The scan after each message.                                            *)
IsAfter(g, s, m) ==
  g = [n \in 0..m |->
         IF n = 0 THEN [out |-> <<>>, open |-> NoCalls, have |-> {}] ELSE Scan(g[n - 1], s[n])]

LEMMA RequestChosen ==
  ASSUME NEW s
  PROVE  Request(s) = Flush((CHOOSE g : IsAfter(g, s, Len(s)))[Len(s)]).out
BY DEF Request, IsAfter

LEMMA AfterExists ==
  ASSUME NEW s
  PROVE  \A m \in Nat : \E g : IsAfter(g, s, m)
<1> DEFINE start == [out |-> <<>>, open |-> NoCalls, have |-> {}]
           P == {m \in Nat : \E g : IsAfter(g, s, m)}
<1>1. 0 \in P
  <2>1. IsAfter([n \in 0..0 |-> start], s, 0)
    BY DEF IsAfter
  <2> QED BY <2>1
<1>2. ASSUME NEW m \in Nat, m \in P PROVE m + 1 \in P
  <2>1. PICK g : IsAfter(g, s, m)
    BY <1>2
  <2>2. \A n \in 0..m : g[n] = IF n = 0 THEN start ELSE Scan(g[n - 1], s[n])
    BY <2>1 DEF IsAfter
  <2> DEFINE last == Scan(g[m], s[m + 1])
             h == [n \in 0..(m + 1) |-> IF n <= m THEN g[n] ELSE last]
  <2>3. ASSUME NEW n \in 0..(m + 1)
        PROVE  h[n] = IF n = 0 THEN start ELSE Scan(h[n - 1], s[n])
    <3> HIDE DEF start
    <3>1. CASE n = 0
      BY <2>2, <3>1
    <3>2. CASE n \in 1..m
      <4>1. n - 1 \in 0..(m + 1) /\ n - 1 <= m /\ n <= m /\ n \in 0..m
        BY <3>2
      <4>2. h[n] = g[n] /\ h[n - 1] = g[n - 1]
        BY <4>1
      <4> QED BY <2>2, <3>2, <4>1, <4>2
    <3>3. CASE n = m + 1
      <4>1. n - 1 \in 0..(m + 1) /\ n - 1 = m
        BY <3>3
      <4>2. h[n - 1] = g[m] /\ h[n] = last
        BY <3>3, <4>1
      <4> QED BY <3>3, <4>2
    <3> QED BY <3>1, <3>2, <3>3
  <2>4. IsAfter(h, s, m + 1)
    BY <2>3 DEF IsAfter
  <2> QED BY <2>4
<1>3. Nat \subseteq P
  <2> HIDE DEF P
  <2> QED BY <1>1, <1>2, Induction
<1> QED BY <1>3

-----------------------------------------------------------------------------
(* What the provider accepts                                               *)

(* r answers the first calls of m.                                         *)
AnswersTo(r, m) ==
  \A i \in 1..Len(r) : r[i].role = "result" /\ r[i].id = m.id /\ r[i].part = i

(* A message and the results of all its calls may follow.                  *)
LEMMA AcceptedBlock ==
  ASSUME NEW w \in Seq(Entry), Accepted(w), NEW m \in Entry, m.role # "result", NEW r \in Seq(Entry),
         AnswersTo(r, m), IF m.role = "assistant" THEN Len(r) = m.part ELSE Len(r) = 0
  PROVE  Accepted(Append(w, m) \o r)
<1> DEFINE v == Append(w, m)
           x == v \o r
<1>0. PICK N \in Nat : N = Len(w)
  BY LenProperties
<1>1. N \in Nat /\ DOMAIN w = 1..N /\ Len(r) \in Nat
  BY <1>0, LenProperties
<1>2. v \in Seq(Entry) /\ Len(v) = N + 1 /\ v[N + 1] = m /\ \A i \in 1..N : v[i] = w[i]
  BY <1>0, AppendProperties
<1> HIDE DEF v
<1>3. /\ x \in Seq(Entry) /\ Len(x) = N + 1 + Len(r)
      /\ \A i \in 1..(N + 1) : x[i] = v[i]
      /\ \A i \in (N + 2)..(N + 1 + Len(r)) : x[i] = r[i - (N + 1)]
  <2>1. /\ x \in Seq(Entry) /\ Len(x) = Len(v) + Len(r)
        /\ \A i \in 1..(Len(v) + Len(r)) : x[i] = IF i <= Len(v) THEN v[i] ELSE r[i - Len(v)]
    BY <1>2, ConcatProperties
  <2> HIDE DEF x
  <2> QED BY <1>1, <1>2, <2>1
<1>4. DOMAIN x = 1..(N + 1 + Len(r))
  BY <1>3, LenProperties
<1> HIDE DEF x
<1>5. (\A i \in 1..N : x[i] = w[i]) /\ x[N + 1] = m
  BY <1>1, <1>2, <1>3
<1>6. ASSUME NEW i \in 1..Len(r) PROVE x[N + 1 + i] = r[i]
  <2>1. N + 1 + i \in (N + 2)..(N + 1 + Len(r)) /\ (N + 1 + i) - (N + 1) = i
    BY <1>1
  <2> QED BY <1>3, <2>1
<1>7. ASSUME NEW p \in (N + 2)..(N + 1 + Len(r))
      PROVE  x[p].role = "result" /\ x[p].id = m.id /\ N + 1 + x[p].part = p /\ x[p].part \in 1..Len(r)
  <2>1. PICK i \in 1..Len(r) : i = p - (N + 1) /\ N + 1 + i = p
    BY <1>1
  <2>2. x[p] = r[i]
    BY <1>3, <2>1
  <2>3. r[i].role = "result" /\ r[i].id = m.id /\ r[i].part = i
    BY DEF AnswersTo
  <2> QED BY <2>1, <2>2, <2>3
<1>8. ASSUME NEW p \in DOMAIN x, x[p].role = "assistant", NEW i \in 1..x[p].part
      PROVE  p + i \in DOMAIN x /\ x[p + i].role = "result" /\ x[p + i].id = x[p].id /\ x[p + i].part = i
  <2>1. p \in 1..(N + 1 + Len(r))
    BY <1>4
  <2>2. CASE p <= N
    <3>1. p \in DOMAIN w /\ x[p] = w[p]
      BY <1>1, <1>5, <2>1, <2>2
    <3>2. p + i \in DOMAIN w /\ w[p + i].role = "result" /\ w[p + i].id = w[p].id /\ w[p + i].part = i
      BY <1>8, <3>1 DEF Accepted
    <3>3. x[p + i] = w[p + i] /\ p + i \in DOMAIN x
      BY <1>1, <1>4, <1>5, <3>2
    <3> QED BY <3>1, <3>2, <3>3
  <2>3. CASE p = N + 1
    <3>1. x[p] = m /\ Len(r) = m.part
      BY <1>5, <1>8, <2>3
    <3>2. i \in 1..Len(r)
      BY <1>8, <3>1
    <3>3. p + i \in DOMAIN x /\ x[p + i] = r[i]
      <4>1. p + i = N + 1 + i /\ p + i \in DOMAIN x
        BY <1>1, <1>4, <2>3, <3>2
      <4>2. x[N + 1 + i] = r[i]
        BY <1>6, <3>2
      <4> QED BY <4>1, <4>2
    <3> QED BY <3>1, <3>2, <3>3 DEF AnswersTo
  <2>4. CASE p > N + 1
    <3>1. x[p].role = "result"
      BY <1>1, <1>7, <2>1, <2>4
    <3> QED BY <1>8, <3>1
  <2> QED BY <1>1, <2>1, <2>2, <2>3, <2>4
<1>9. ASSUME NEW p \in DOMAIN x, x[p].role = "result"
      PROVE  \E q \in 1..(p - 1) : /\ x[q].role = "assistant" /\ x[q].id = x[p].id
                                   /\ q + x[p].part = p /\ x[p].part <= x[q].part
  <2>1. p \in 1..(N + 1 + Len(r))
    BY <1>4
  <2>2. CASE p <= N
    <3>1. p \in DOMAIN w /\ x[p] = w[p]
      BY <1>1, <1>5, <2>1, <2>2
    <3>2. PICK q \in 1..(p - 1) : /\ w[q].role = "assistant" /\ w[q].id = w[p].id
                                  /\ q + w[p].part = p /\ w[p].part <= w[q].part
      BY <1>9, <3>1 DEF Accepted
    <3>3. x[q] = w[q]
      BY <1>1, <1>5, <2>1, <2>2
    <3> QED BY <3>1, <3>2, <3>3
  <2>3. CASE p > N + 1
    <3>1. /\ x[p].id = m.id /\ N + 1 + x[p].part = p /\ x[p].part \in 1..Len(r)
      BY <1>1, <1>7, <2>1, <2>3
    <3>2. m.role = "assistant" /\ Len(r) = m.part
      BY <1>1, <3>1
    <3>3. N + 1 \in 1..(p - 1) /\ x[p].part <= x[N + 1].part /\ x[N + 1] = m
      BY <1>1, <1>5, <2>1, <2>3, <3>1, <3>2
    <3> QED BY <3>1, <3>2, <3>3
  <2> QED BY <1>1, <1>5, <1>9, <2>1, <2>2, <2>3
<1>10. Accepted(x)
  BY <1>8, <1>9 DEF Accepted
<1> QED BY <1>10 DEF x, v

LEMMA AcceptedAppend ==
  ASSUME NEW w \in Seq(Entry), Accepted(w), NEW m \in Entry, m.role # "result",
         m.role = "assistant" => m.part = 0
  PROVE  Accepted(Append(w, m))
<1>1. PICK r \in Seq(Entry) : r = <<>> /\ Len(r) = 0
  BY EmptySeq
<1>2. AnswersTo(r, m)
  BY <1>1 DEF AnswersTo
<1>3. Append(w, m) \in Seq(Entry)
  BY AppendProperties
<1>4. Append(w, m) \o r = Append(w, m)
  BY <1>1, <1>3, ConcatEmptySeq
<1>5. Accepted(Append(w, m) \o r)
  BY <1>1, <1>2, AcceptedBlock
<1> QED BY <1>4, <1>5

-----------------------------------------------------------------------------
(* The scan                                                                *)

Scans == [out : Seq(Entry), open : Entry \cup {NoCalls}, have : SUBSET (Nat \X Nat)]

(* After n messages of s no call is open, ...                              *)
Settled(c, s, n) ==
  /\ c.open.part = 0 /\ Accepted(c.out)
  /\ n > 0 => s[n].role # "result" /\ ~(s[n].role = "assistant" /\ s[n].ok /\ s[n].part > 0)

(* ... or an answer, so far followed by the results of its first calls, is *)
(* the last thing that s shows and that goes out.                          *)
Halfway(c, s, n, w, r) ==
  /\ Accepted(w) /\ c.out = Append(w, c.open) \o r
  /\ c.open \in Entry /\ c.open.role = "assistant" /\ c.open.part > 0
  /\ AnswersTo(r, c.open) /\ Len(r) <= c.open.part
  /\ Len(r) < n /\ s[n - Len(r)] = c.open /\ \A i \in 1..Len(r) : s[n - Len(r) + i] = r[i]
  /\ c.have = {<<c.open.id, i>> : i \in 1..Len(r)}

Unsettled(c, s, n) == \E w, r \in Seq(Entry) : Halfway(c, s, n, w, r)

Scanned(c, s, n) == c \in Scans /\ (Settled(c, s, n) \/ Unsettled(c, s, n))

(* What is flushed is accepted.                                            *)
LEMMA FlushSettles ==
  ASSUME NEW c, NEW s, NEW n, Scanned(c, s, n)
  PROVE  Flush(c) \in Scans /\ Flush(c).open.part = 0 /\ Accepted(Flush(c).out)
<1>1. CASE Settled(c, s, n)
  BY <1>1 DEF Settled, Scanned, Flush
<1>2. CASE Unsettled(c, s, n)
  <2>1. PICK w \in Seq(Entry), r \in Seq(Entry) :
          /\ Accepted(w) /\ c.out = Append(w, c.open) \o r
          /\ c.open \in Entry /\ c.open.role = "assistant" /\ c.open.part > 0
          /\ AnswersTo(r, c.open) /\ Len(r) <= c.open.part
          /\ c.have = {<<c.open.id, i>> : i \in 1..Len(r)}
    BY <1>2 DEF Unsettled, Halfway
  <2>2. PICK m \in Entry : m = c.open
    BY <2>1
  <2>3. PICK k \in Nat : k = Len(r) /\ k <= m.part
    BY <2>1, <2>2, LenProperties
  <2>4. m.part \in Nat /\ m.id \in Nat
    BY AgentAssumption DEF Entry
  <2>5. k \in 0..c.open.part /\ c.have = {<<c.open.id, i>> : i \in 1..k} /\ c.open \in Entry
    BY <2>1, <2>2, <2>3, <2>4
  <2>6. PICK y \in Seq(Entry) : /\ y = Synthetic(c) /\ Len(y) = m.part - k
                                /\ \A i \in 1..(m.part - k) : y[i] = Missing(c, k + i)
    BY <2>2, <2>5, SyntheticFills
  <2> DEFINE z == r \o y
             v == Append(w, m)
  <2>7. /\ z \in Seq(Entry) /\ Len(z) = m.part
        /\ \A i \in 1..k : z[i] = r[i]
        /\ \A i \in (k + 1)..m.part : z[i] = y[i - k]
    <3>1. /\ z \in Seq(Entry) /\ Len(z) = Len(r) + Len(y)
          /\ \A i \in 1..(Len(r) + Len(y)) : z[i] = IF i <= Len(r) THEN r[i] ELSE y[i - Len(r)]
      BY ConcatProperties
    <3> HIDE DEF z
    <3>2. Len(r) + Len(y) = m.part
      BY <2>3, <2>4, <2>6
    <3> QED BY <2>3, <2>4, <3>1, <3>2
  <2> HIDE DEF z
  <2>8. AnswersTo(z, m)
    <3>1. ASSUME NEW i \in 1..m.part
          PROVE  z[i].role = "result" /\ z[i].id = m.id /\ z[i].part = i
      <4>1. CASE i \in 1..k
        BY <2>1, <2>2, <2>3, <2>7, <4>1 DEF AnswersTo
      <4>2. CASE i \in (k + 1)..m.part
        <5>1. i - k \in 1..(m.part - k) /\ k + (i - k) = i
          BY <2>3, <2>4, <4>2
        <5>2. z[i] = Missing(c, i)
          BY <2>6, <2>7, <4>2, <5>1
        <5> QED BY <2>2, <5>2 DEF Missing
      <4> QED BY <2>3, <2>4, <4>1, <4>2
    <3> QED BY <2>7, <3>1 DEF AnswersTo
  <2>9. Accepted(v \o z) /\ v \in Seq(Entry)
    <3>1. m.role = "assistant"
      BY <2>1, <2>2
    <3> QED BY <2>1, <2>7, <2>8, <3>1, AcceptedBlock, AppendProperties
  <2>10. v \o z \in Seq(Entry)
    BY <2>7, <2>9, ConcatProperties
  <2>11. c.out \o y = v \o z
    <3> HIDE DEF v
    <3>1. (v \o r) \o y = v \o (r \o y)
      BY <2>9, <2>6, ConcatAssociative
    <3>2. c.out = v \o r
      BY <2>1, <2>2 DEF v
    <3> QED BY <3>1, <3>2 DEF z
  <2>12. Flush(c) = [out |-> v \o z, open |-> NoCalls, have |-> {}]
    BY <2>1, <2>6, <2>11 DEF Flush
  <2> HIDE DEF v
  <2>13. {} \in SUBSET (Nat \X Nat) /\ NoCalls \in Entry \cup {NoCalls} /\ NoCalls.part = 0
    BY DEF NoCalls
  <2> QED BY <2>9, <2>10, <2>12, <2>13 DEF Scans
<1> QED BY <1>1, <1>2 DEF Scanned

(* A message that opens no calls, or a whole answer, behind what was       *)
(* flushed.                                                                *)
LEMMA ScanOther ==
  ASSUME NEW c, NEW s \in Seq(Entry), NEW n \in Nat, n < Len(s), Scanned(c, s, n), s[n + 1].role # "result"
  PROVE  Scanned(Scan(c, s[n + 1]), s, n + 1)
<1>1. PICK m \in Entry : m = s[n + 1]
  BY ElementOfSeq, LenProperties
<1>2. PICK f : f = Flush(c)
  OBVIOUS
<1>3. f \in Scans /\ f.open.part = 0 /\ Accepted(f.out) /\ f.out \in Seq(Entry)
  BY <1>2, FlushSettles DEF Scans
<1>4. m.role \in {"user", "assistant"} /\ m.ok \in BOOLEAN /\ m.part \in Nat
  BY <1>1, AgentAssumption DEF Entry
<1>5. Append(f.out, m) \in Seq(Entry)
  BY <1>3, AppendProperties
<1>6. Push(f, m) \in Scans /\ Push(f, m).out = Append(f.out, m) /\ Push(f, m).open = f.open
  BY <1>3, <1>5 DEF Push, Scans
<1>7. CASE m.role = "assistant" /\ ~m.ok
  <2>1. Scan(c, m) = f
    BY <1>2, <1>7 DEF Scan
  <2> QED BY <1>1, <1>3, <1>7, <2>1 DEF Scanned, Settled
<1>8. CASE m.role = "user" \/ (m.ok /\ m.part = 0)
  <2>1. Scan(c, m) = Push(f, m)
    BY <1>2, <1>4, <1>8 DEF Scan
  <2>2. CASE m.role = "user"
    <3>1. Accepted(Append(f.out, m))
      BY <1>3, <2>2, AcceptedAppend
    <3> QED BY <1>1, <1>3, <1>6, <2>1, <2>2, <3>1 DEF Scanned, Settled
  <2>3. CASE m.role = "assistant" /\ m.part = 0
    <3>1. Accepted(Append(f.out, m))
      BY <1>3, <2>3, AcceptedAppend
    <3>2. s[n + 1].role # "result" /\ ~(s[n + 1].part > 0)
      BY <1>1, <2>3
    <3>3. Settled(Push(f, m), s, n + 1)
      BY <1>3, <1>6, <3>1, <3>2 DEF Settled
    <3> QED BY <1>1, <1>6, <2>1, <3>3 DEF Scanned
  <2> QED BY <1>4, <1>8, <2>2, <2>3
<1>9. CASE m.role = "assistant" /\ m.ok /\ m.part > 0
  <2>1. Scan(c, m) = [Push(f, m) EXCEPT !.open = m, !.have = {}]
    BY <1>2, <1>9 DEF Scan
  <2>2. PICK d : d = Scan(c, m)
    OBVIOUS
  <2>3. d \in Scans /\ d.out = Append(f.out, m) /\ d.open = m /\ d.have = {}
    <3>1. Push(f, m) \in Scans /\ {} \in SUBSET (Nat \X Nat)
      BY <1>6
    <3> QED BY <1>6, <2>1, <2>2, <3>1 DEF Scans
  <2>4. PICK r \in Seq(Entry) : r = <<>> /\ Len(r) = 0
    BY EmptySeq
  <2>5. d.out = Append(f.out, m) \o r
    BY <1>5, <2>3, <2>4, ConcatEmptySeq
  <2>6. AnswersTo(r, m) /\ \A i \in 1..Len(r) : s[n + 1 - Len(r) + i] = r[i]
    BY <2>4 DEF AnswersTo
  <2>7. Len(r) < n + 1 /\ s[n + 1 - Len(r)] = m /\ Len(r) <= m.part
    BY <1>1, <1>4, <2>4
  <2>8. d.have = {<<m.id, i>> : i \in 1..Len(r)}
    BY <2>3, <2>4
  <2>9. Unsettled(d, s, n + 1)
    <3>1. PICK w \in Seq(Entry) : w = f.out
      BY <1>3
    <3>2. Accepted(w) /\ d.out = Append(w, d.open) \o r
      BY <1>3, <2>3, <2>5, <3>1
    <3>3. d.open \in Entry /\ d.open.role = "assistant" /\ d.open.part > 0
      BY <1>9, <2>3
    <3>4. AnswersTo(r, d.open) /\ Len(r) <= d.open.part
      BY <2>3, <2>6, <2>7
    <3>5. Len(r) < n + 1 /\ s[n + 1 - Len(r)] = d.open
      BY <2>3, <2>7
    <3>6. \A i \in 1..Len(r) : s[n + 1 - Len(r) + i] = r[i]
      BY <2>6
    <3>7. d.have = {<<d.open.id, i>> : i \in 1..Len(r)}
      BY <2>3, <2>8
    <3>8. Halfway(d, s, n + 1, w, r)
      BY <3>2, <3>3, <3>4, <3>5, <3>6, <3>7 DEF Halfway
    <3> QED BY <3>8 DEF Unsettled
  <2> QED BY <1>1, <2>2, <2>3, <2>9 DEF Scanned
<1> QED BY <1>1, <1>4, <1>7, <1>8, <1>9

(* A result belongs to the open calls, and is the next of them.            *)
LEMMA ScanResult ==
  ASSUME NEW c, NEW s \in Seq(Entry), NEW n \in Nat, n < Len(s), Scanned(c, s, n),
         s[n + 1].role = "result", Well(s), Called(s)
  PROVE  Scanned(Scan(c, s[n + 1]), s, n + 1)
<1>0. Len(s) \in Nat /\ DOMAIN s = 1..Len(s) /\ n + 1 \in DOMAIN s /\ (n + 1) - 1 = n
  BY LenProperties
<1>1. PICK m \in Entry : m = s[n + 1]
  BY <1>0, ElementOfSeq
<1>2. m.role = "result" /\ m.id \in Nat /\ m.part \in Nat
  BY <1>1, AgentAssumption DEF Entry
<1>3. /\ n > 0 /\ s[n].role \in {"assistant", "result"} /\ s[n].id = m.id
      /\ m.part = IF s[n].role = "assistant" THEN 1 ELSE s[n].part + 1
  <2>1. /\ n + 1 > 1 /\ s[(n + 1) - 1].role \in {"assistant", "result"} /\ s[(n + 1) - 1].id = s[n + 1].id
        /\ s[n + 1].part = IF s[(n + 1) - 1].role = "assistant" THEN 1 ELSE s[(n + 1) - 1].part + 1
    BY <1>0 DEF Well
  <2> QED BY <1>0, <1>1, <2>1
<1>4. PICK a \in 1..n : a + m.part = n + 1 /\ s[a].role = "assistant" /\ s[a].ok /\ m.part <= s[a].part
  <2>1. \E a \in 1..((n + 1) - 1) :
          /\ a + s[n + 1].part = n + 1
          /\ s[a].role = "assistant" /\ s[a].ok /\ s[n + 1].part <= s[a].part
    BY <1>0 DEF Called
  <2> QED BY <1>0, <1>1, <2>1
<1>5. ASSUME Settled(c, s, n)
      PROVE  FALSE
  <2>1. s[n].role = "assistant" /\ ~(s[n].ok /\ s[n].part > 0)
    BY <1>3, <1>5 DEF Settled
  <2>2. m.part = 1 /\ a = n
    BY <1>3, <1>4, <2>1
  <2>3. s[n] \in Entry
    BY <1>0, <1>3, ElementOfSeq
  <2>4. s[n].part \in Nat
    BY <2>3, AgentAssumption DEF Entry
  <2> QED BY <1>4, <2>1, <2>2, <2>4
<1>6. PICK w \in Seq(Entry), r \in Seq(Entry) :
        /\ Accepted(w) /\ c.out = Append(w, c.open) \o r
        /\ c.open \in Entry /\ c.open.role = "assistant" /\ c.open.part > 0
        /\ AnswersTo(r, c.open) /\ Len(r) <= c.open.part
        /\ Len(r) < n /\ s[n - Len(r)] = c.open /\ \A i \in 1..Len(r) : s[n - Len(r) + i] = r[i]
        /\ c.have = {<<c.open.id, i>> : i \in 1..Len(r)}
  BY <1>5 DEF Scanned, Unsettled, Halfway
<1>7. PICK k \in Nat : k = Len(r)
  BY LenProperties
<1>8. m.part = k + 1 /\ m.id = c.open.id
  <2>1. CASE k = 0
    <3>1. n - k = n
      BY <2>1
    <3>2. s[n] = c.open
      BY <1>6, <1>7, <3>1
    <3> QED BY <1>3, <1>6, <2>1, <3>2
  <2>2. CASE k > 0
    <3>1. k \in 1..k /\ n - k + k = n
      BY <2>2
    <3>2. s[n - k + k] = r[k]
      BY <1>6, <1>7, <3>1
    <3>3. r[k].role = "result" /\ r[k].id = c.open.id /\ r[k].part = k
      BY <1>6, <1>7, <3>1 DEF AnswersTo
    <3>4. s[n] = r[k]
      BY <3>1, <3>2
    <3> QED BY <1>3, <3>3, <3>4
  <2> QED BY <2>1, <2>2
<1>9. k + 1 <= c.open.part
  <2>1. a = n - k
    BY <1>4, <1>8
  <2>2. s[a] = c.open
    BY <1>6, <1>7, <2>1
  <2> QED BY <1>4, <1>8, <2>2
<1>10. PICK q \in Seq(Entry) : q = Append(r, m) /\ Len(q) = k + 1 /\ q[k + 1] = m /\ \A i \in 1..k : q[i] = r[i]
  <2>1. PICK q \in Seq(Entry) : q = Append(r, m)
    BY AppendProperties
  <2>2. Len(q) = Len(r) + 1 /\ q[Len(r) + 1] = m /\ \A i \in 1..Len(r) : q[i] = r[i]
    BY <2>1, AppendProperties
  <2> QED BY <1>7, <2>1, <2>2
<1>11. PICK d : d = Scan(c, m)
  OBVIOUS
<1>12. /\ d \in Scans /\ d.out = Append(c.out, m) /\ d.open = c.open
       /\ d.have = c.have \cup {<<m.id, m.part>>}
  <2>1. c \in Scans /\ Append(c.out, m) \in Seq(Entry) /\ c.have \cup {<<m.id, m.part>>} \in SUBSET (Nat \X Nat)
    BY <1>2, AppendProperties DEF Scanned, Scans
  <2>2. d = [[c EXCEPT !.out = Append(c.out, m)] EXCEPT !.have = c.have \cup {<<m.id, m.part>>}]
    BY <1>2, <1>11, <2>1 DEF Scan, Push, Scans
  <2> QED BY <2>1, <2>2 DEF Scans
<1>13. d.out = Append(w, c.open) \o q
  <2>1. PICK v \in Seq(Entry) : v = Append(w, c.open)
    BY <1>6, AppendProperties
  <2>2. <<m>> \in Seq(Entry)
    OBVIOUS
  <2>3. v \o r \in Seq(Entry)
    BY ConcatProperties
  <2>4. Append(v \o r, m) = (v \o r) \o <<m>>
    BY <2>3, AppendIsConcat
  <2>5. (v \o r) \o <<m>> = v \o (r \o <<m>>)
    BY <2>2, ConcatAssociative
  <2>6. r \o <<m>> = q
    BY <1>10, AppendIsConcat
  <2> QED BY <1>6, <1>12, <2>1, <2>4, <2>5, <2>6
<1>14. AnswersTo(q, d.open)
  <2>1. ASSUME NEW i \in 1..(k + 1)
        PROVE  q[i].role = "result" /\ q[i].id = c.open.id /\ q[i].part = i
    <3>1. CASE i \in 1..k
      BY <1>6, <1>7, <1>10, <3>1 DEF AnswersTo
    <3>2. CASE i = k + 1
      BY <1>2, <1>8, <1>10, <3>2
    <3> QED BY <3>1, <3>2
  <2> QED BY <1>10, <1>12, <2>1 DEF AnswersTo
<1>15. ASSUME NEW i \in 1..Len(q)
       PROVE  s[n + 1 - Len(q) + i] = q[i]
  <2>1. n + 1 - Len(q) + i = n - k + i /\ i \in 1..(k + 1)
    BY <1>10
  <2>2. CASE i \in 1..k
    BY <1>6, <1>7, <1>10, <2>1, <2>2
  <2>3. CASE i = k + 1
    <3>1. n - k + i = n + 1
      BY <2>3
    <3> QED BY <1>1, <1>10, <2>1, <2>3, <3>1
  <2> QED BY <2>1, <2>2, <2>3
<1>16. d.have = {<<d.open.id, i>> : i \in 1..Len(q)}
  <2>1. c.have = {<<c.open.id, i>> : i \in 1..k}
    BY <1>6, <1>7
  <2>2. 1..(k + 1) = 1..k \cup {k + 1}
    OBVIOUS
  <2>3. {<<c.open.id, i>> : i \in 1..(k + 1)} = {<<c.open.id, i>> : i \in 1..k} \cup {<<c.open.id, k + 1>>}
    BY <2>2
  <2> QED BY <1>8, <1>10, <1>12, <2>1, <2>3
<1>17. Len(q) < n + 1 /\ n + 1 - Len(q) = n - k /\ s[n - k] = c.open /\ Len(q) <= c.open.part
  BY <1>6, <1>7, <1>9, <1>10
<1>18. Unsettled(d, s, n + 1)
  <2>1. s[n + 1 - Len(q)] = d.open /\ Len(q) <= d.open.part /\ d.out = Append(w, d.open) \o q
    BY <1>12, <1>13, <1>17
  <2>2. d.open \in Entry /\ d.open.role = "assistant" /\ d.open.part > 0
    BY <1>6, <1>12
  <2>3. Accepted(w)
    BY <1>6
  <2>4. \A i \in 1..Len(q) : s[n + 1 - Len(q) + i] = q[i]
    BY <1>15
  <2>5. Len(q) < n + 1
    BY <1>17
  <2>6. Halfway(d, s, n + 1, w, q)
    BY <1>14, <1>16, <2>1, <2>2, <2>3, <2>4, <2>5 DEF Halfway
  <2> QED BY <2>6 DEF Unsettled
<1> QED BY <1>1, <1>11, <1>12, <1>18 DEF Scanned

(* The request made of a log is accepted.                                  *)
LEMMA RequestAccepted ==
  ASSUME NEW s \in Seq(Entry), Well(s), Called(s)
  PROVE  Accepted(Request(s))
<1>1. PICK N \in Nat : N = Len(s)
  BY LenProperties
<1>2. PICK g : IsAfter(g, s, N) /\ Request(s) = Flush(g[N]).out
  <2>1. \E g : IsAfter(g, s, N)
    BY AfterExists
  <2> QED BY <1>1, <2>1, RequestChosen
<1>3. \A n \in 0..N : g[n] = IF n = 0 THEN [out |-> <<>>, open |-> NoCalls, have |-> {}]
                             ELSE Scan(g[n - 1], s[n])
  BY <1>2 DEF IsAfter
<1> DEFINE P == {n \in Nat : n <= N => Scanned(g[n], s, n)}
<1>4. 0 \in P
  <2>0. 0 \in 0..N
    OBVIOUS
  <2>1. g[0] = [out |-> <<>>, open |-> NoCalls, have |-> {}]
    BY <1>3, <2>0
  <2>2. PICK e \in Seq(Entry) : e = <<>> /\ Len(e) = 0
    BY EmptySeq
  <2>3. DOMAIN e = {}
    BY <2>2, LenProperties
  <2>4. Accepted(e)
    BY <2>3 DEF Accepted
  <2>5. g[0] = [out |-> e, open |-> NoCalls, have |-> {}] /\ NoCalls.part = 0
    BY <2>1, <2>2 DEF NoCalls
  <2>6. Scanned(g[0], s, 0)
    BY <2>4, <2>5 DEF Scanned, Settled, Scans
  <2> QED BY <2>6
<1>5. ASSUME NEW n \in Nat, n \in P PROVE n + 1 \in P
  <2> SUFFICES ASSUME n + 1 <= N PROVE Scanned(g[n + 1], s, n + 1)
    OBVIOUS
  <2>1. Scanned(g[n], s, n) /\ n < Len(s)
    BY <1>1, <1>5
  <2>2. n + 1 \in 0..N /\ n + 1 # 0 /\ (n + 1) - 1 = n
    OBVIOUS
  <2>3. g[n + 1] = Scan(g[n], s[n + 1])
    BY <1>3, <2>2
  <2>4. Scanned(Scan(g[n], s[n + 1]), s, n + 1)
    BY <2>1, ScanOther, ScanResult
  <2> QED BY <2>3, <2>4
<1>6. Nat \subseteq P
  <2> HIDE DEF P
  <2> QED BY <1>4, <1>5, Induction
<1>7. Scanned(g[N], s, N)
  BY <1>6
<1> QED BY <1>2, <1>7, FlushSettles

LEMMA NextAsk ==
  ASSUME IInv, AskInv, [Next]_vars
  PROVE  AskInv'
<1>1. CASE pc = "batch"
  BY <1>1, AskBatch
<1>2. CASE ModelAnswers
  BY <1>2, AskAnswer
<1>3. CASE pc # "batch" /\ ~ModelAnswers
  BY <1>3, AskOutside
<1> QED BY <1>1, <1>2, <1>3

LEMMA InitAsk ==
  ASSUME Init
  PROVE  AskInv
<1>1. transcript = <<>> /\ pc = "idle"
  BY DEF Init
<1>2. DOMAIN transcript = {}
  BY <1>1
<1> QED BY <1>1, <1>2 DEF AskInv, Called

(* However long the conversation, and whatever was aborted, truncated,     *)
(* rejected or cut short in it, the request that reaches the provider is   *)
(* one it accepts: each call is followed by its one result and no result   *)
(* stands without its call (agent-loop.ts:295,                             *)
(* transform-messages.ts:158-222).                                         *)
THEOREM RequestsAreAccepted == Spec => []RequestsAccepted
<1>1. Init => IInv /\ AskInv
  BY Initial, InitAsk
<1>2. IInv /\ AskInv /\ [Next]_vars => IInv' /\ AskInv'
  BY Inductive, NextAsk
<1>3. IInv /\ AskInv => RequestsAccepted
  <2> SUFFICES ASSUME IInv, AskInv, pc \in {"model", "modelAborted"}
               PROVE  Accepted(Request(context))
    BY DEF RequestsAccepted
  <2>1. context = transcript /\ context \in Seq(Entry) /\ Well(context) /\ Called(context)
    BY DEF IInv, Agree, AskInv, Types, Logs
  <2> QED BY <2>1, RequestAccepted
<1> QED BY <1>1, <1>2, <1>3, PTL DEF Spec
=============================================================================
