----------------------------- MODULE SessionLog -----------------------------
(***************************************************************************)
(* The session of one agent: SessionManager's entries in memory, the leaf, *)
(* the session file that is only created with the first answer, and the    *)
(* operations of AgentSession and AgentSessionRuntime that change them:    *)
(* the messages of a turn, entries recorded beside it, compaction (whose   *)
(* preparation is read before the summary is awaited and used after it),   *)
(* tree navigation, fork, a new session, and the death of the process,     *)
(* possibly in the middle of a line, followed by a reload.  Before a retry *)
(* the failed answer is taken out of the agent's messages; it stays in the *)
(* session.                                                                *)
(***************************************************************************)
EXTENDS SessionTree

CONSTANTS
  MaxEntries,   \* bound: entries ever created
  MaxAside,     \* bound: entries beside the conversation in one session
  MaxEvents,    \* bound: navigations, forks, new sessions and process deaths
  MaxTears,     \* bound: deaths in the middle of a write
  Serial        \* TRUE: nobody prompts during a compaction, and nobody moves
                \* the leaf during a turn or a compaction

ASSUME SessionLogAssumption ==
  /\ MaxEntries \in Nat
  /\ MaxAside \in Nat
  /\ MaxEvents \in Nat
  /\ MaxTears \in Nat
  /\ Serial \in BOOLEAN

VARIABLES
  entries,   \* fileEntries, without the header
  leaf,      \* leafId, 0 for null
  flushed,   \* the session file exists and appends go to it
  file,      \* the lines of the session file, without the header; NoFile
  messages,  \* agent.state.messages, by entry
  dropped,   \* history: answers taken out of messages since they were rebuilt
  turn,      \* where the prompt of this session stands
  pending,   \* a bash result waits for the end of the turn
  comp,      \* the compaction whose summary is awaited
  next,      \* next entry id
  events, tears,
  lost       \* history: entries whose line was joined to another one

vars == <<entries, leaf, flushed, file, messages, dropped, turn, pending, comp,
          next, events, tears, lost>>

NoFile   == <<[id |-> 0, type |-> "none"]>>
NoComp   == [ref |-> 0, covers |-> {}, retry |-> FALSE]
(* A line the reader skips: torn has no line end yet, garbled has one.     *)
TornLine    == [id |-> 0, type |-> "torn"]
GarbledLine == [id |-> 0, type |-> "garbled"]
(* No line: the one before, or the header when there is none, was written  *)
(* up to its line end and can be read.                                     *)
OpenLine    == [id |-> 0, type |-> "open"]
(* An entry was joined to the header: nothing in the file can be read.     *)
VoidFile == <<[id |-> 0, type |-> "void"]>>
Turns    == {"idle", "running", "calling", "ended"}

Readable(f) == Select(f, {i \in DOMAIN f : f[i].id # 0})

Init ==
  /\ entries = <<>>
  /\ leaf = 0
  /\ flushed = FALSE
  /\ file = NoFile
  /\ messages = <<>>
  /\ dropped = {}
  /\ turn = "idle"
  /\ pending = FALSE
  /\ comp = NoComp
  /\ next = 1
  /\ events = 0 /\ tears = 0
  /\ lost = {}

-----------------------------------------------------------------------------
(* _appendEntry and _persist                                               *)

NewEntry(parent, type, ref, covers) ==
  [id |-> next, parent |-> parent, type |-> type, ref |-> ref, covers |-> covers]

EndsWith(f, line) == f # <<>> /\ f[Len(f)] = line

(* appendFileSync: behind a line without an end there is no new line.      *)
WithLine(f, e) ==
  IF EndsWith(f, TornLine) THEN Append(Front(f), GarbledLine)
  ELSE IF f \in {<<OpenLine>>, VoidFile} THEN VoidFile
  ELSE IF EndsWith(f, OpenLine) THEN Append(Front(Front(f)), GarbledLine)
  ELSE Append(f, e)

(* The entries that no reader finds once e is appended, e among them.      *)
Joined(f, e) ==
  IF EndsWith(f, OpenLine) THEN {e.id} \cup {f[i].id : i \in (DOMAIN f) \cap {Len(f) - 1}}
  ELSE IF EndsWith(f, TornLine) \/ f = VoidFile THEN {e.id}
  ELSE {}

(* Mutant: nothing is written as long as there is no answer.               *)
Persist_WaitsForAnswer(es, e) ==
  /\ flushed' = HasAnswer(es)
  /\ file' = CASE flushed /\ HasAnswer(es) -> WithLine(file, e)
               [] ~flushed /\ HasAnswer(es) -> es
               [] OTHER -> file
  /\ lost' = IF flushed THEN lost \cup Joined(file, e) ELSE lost

(* Entry e has been added to es: append it, or create the file with all of *)
(* es when the first answer is among them.                                 *)
Persist(es, e) ==
  /\ flushed' = (flushed \/ HasAnswer(es))
  /\ file' = IF flushed THEN WithLine(file, e) ELSE IF HasAnswer(es) THEN es ELSE file
  /\ lost' = IF flushed THEN lost \cup Joined(file, e) ELSE lost

AddEntry(e) ==
  /\ next <= MaxEntries
  /\ entries' = Append(entries, e)
  /\ leaf' = e.id
  /\ next' = next + 1
  /\ Persist(Append(entries, e), e)

(* A message of the conversation, in the agent's transcript and the log.   *)
AddMessage(type) ==
  /\ AddEntry(NewEntry(leaf, type, 0, {}))
  /\ messages' = Append(messages, next)
  /\ UNCHANGED dropped

-----------------------------------------------------------------------------
(* A prompt and its run: message_end events persisted by the session.      *)

Prompt ==
  /\ turn = "idle"
  /\ Serial => comp = NoComp
  /\ AddMessage("user")
  /\ turn' = "running"
  /\ UNCHANGED <<pending, comp, events, tears>>

CallTool ==
  /\ turn = "running"
  /\ AddMessage("call")
  /\ turn' = "calling"
  /\ UNCHANGED <<pending, comp, events, tears>>

ToolEnds ==
  /\ turn = "calling"
  /\ AddMessage("toolResult")
  /\ turn' = "running"
  /\ UNCHANGED <<pending, comp, events, tears>>

Answer ==
  /\ turn = "running"
  /\ AddMessage("assistant")
  /\ turn' = "ended"
  /\ UNCHANGED <<pending, comp, events, tears>>

(* The agent takes a steering or follow-up message from its queues: after  *)
(* a turn, after the answer, or when it is asked to continue.              *)
Steer ==
  /\ turn = "running" \/ (turn = "ended" /\ comp = NoComp)
  /\ AddMessage("user")
  /\ turn' = "running"
  /\ UNCHANGED <<pending, comp, events, tears>>

EndsInAnswer(es, ms) == ms # <<>> /\ Entry(es, Last(ms)).type \in Answers

(* _prepareRetry, and _checkCompaction when the answer did not fit, also   *)
(* before the next prompt: the answer leaves the transcript, not the log.  *)
RemoveAnswer ==
  /\ turn \in {"idle", "ended"}
  /\ comp = NoComp
  /\ EndsInAnswer(entries, messages)
  /\ messages' = Front(messages)
  /\ dropped' = dropped \cup {Last(messages)}
  /\ UNCHANGED <<entries, leaf, flushed, file, turn, pending, comp, next,
                 events, tears, lost>>

(* agent.continue(): from the transcript as it is.                         *)
Continue ==
  /\ turn = "ended"
  /\ comp = NoComp
  /\ messages # <<>> /\ ~EndsInAnswer(entries, messages)
  /\ turn' = "running"
  /\ UNCHANGED <<entries, leaf, flushed, file, messages, dropped, pending, comp,
                 next, events, tears, lost>>

(* The end of _runAgentPrompt: the bash results kept back are recorded.    *)
Settle ==
  /\ turn = "ended"
  /\ comp = NoComp
  /\ turn' = "idle"
  /\ pending' = FALSE
  /\ IF pending THEN AddMessage("bash")
     ELSE UNCHANGED <<entries, leaf, flushed, file, messages, dropped, next, lost>>
  /\ UNCHANGED <<comp, events, tears>>

MayRecord ==
  Cardinality({i \in DOMAIN entries : entries[i].type \in {"bash", "meta", "label"}}) < MaxAside

(* recordBashResult: kept back while the agent runs, one at a time here.   *)
RecordBash ==
  /\ ~pending /\ MayRecord
  /\ IF turn = "idle"
     THEN AddMessage("bash") /\ UNCHANGED pending
     ELSE /\ pending' = TRUE
          /\ UNCHANGED <<entries, leaf, flushed, file, messages, dropped, next, lost>>
  /\ UNCHANGED <<turn, comp, events, tears>>

(* A model change, a thinking level, a session name, an extension's state. *)
RecordMeta ==
  /\ MayRecord
  /\ AddEntry(NewEntry(leaf, "meta", 0, {}))
  /\ UNCHANGED <<messages, dropped, turn, pending, comp, events, tears>>

(* appendLabelChange, used as a toggle.                                    *)
Label(target) ==
  /\ target \in IdsOf(entries)
  /\ MayRecord
  /\ AddEntry(NewEntry(leaf, "label", target,
                       IF target \in Labelled(entries) THEN {} ELSE {target}))
  /\ UNCHANGED <<messages, dropped, turn, pending, comp, events, tears>>

-----------------------------------------------------------------------------
(* Compaction: /compact between prompts, or automatic after an answer.     *)

(* With retry the answer that did not fit has been removed.                *)
StartCompaction(reached, retry) ==
  LET path == Path(entries, leaf) IN
  /\ turn \in {"idle", "ended"}
  /\ comp = NoComp
  /\ retry => ~EndsInAnswer(entries, messages)
  /\ reached = 0 \/ (reached \in BoundaryStart(path)..Len(path) /\ Visible(path[reached]))
  /\ CanCompact(path, reached)
  /\ LET cut == CutIndex(path, reached)
     IN  comp' = [ref |-> path[cut].id, covers |-> SummaryCover(path, cut), retry |-> retry]
  /\ UNCHANGED <<entries, leaf, flushed, file, messages, dropped, turn, pending,
                 next, events, tears, lost>>

(* The agent's messages become ms, again without the last one when that is *)
(* the answer to retry (an error; an answer cut by its length stays).      *)
Rebuilt(ms, mayRemove) ==
  \/ messages' = ms /\ dropped' = {}
  \/ /\ mayRemove
     /\ messages' = Front(ms) /\ dropped' = {Last(ms)}

(* Mutant: the transcript is rebuilt from the entries before the summary.  *)
CompactionEnds_StaleContext ==
  /\ comp # NoComp
  /\ AddEntry(NewEntry(leaf, "compaction", comp.ref, comp.covers))
  /\ LET ms == IdSeq(Context(entries, leaf))
     IN  Rebuilt(ms, comp.retry /\ EndsInAnswer(entries, ms))
  /\ comp' = NoComp
  /\ UNCHANGED <<turn, pending, events, tears>>

(* The summary arrives and is appended at the leaf of that moment.         *)
CompactionEnds ==
  /\ comp # NoComp
  /\ AddEntry(NewEntry(leaf, "compaction", comp.ref, comp.covers))
  /\ LET ms == IdSeq(Context(entries', leaf'))
     IN  Rebuilt(ms, comp.retry /\ EndsInAnswer(entries', ms))
  /\ comp' = NoComp
  /\ UNCHANGED <<turn, pending, events, tears>>

(* The summary fails or is cancelled.                                      *)
CompactionFails ==
  /\ comp # NoComp
  /\ comp' = NoComp
  /\ UNCHANGED <<entries, leaf, flushed, file, messages, dropped, turn, pending,
                 next, events, tears, lost>>

-----------------------------------------------------------------------------
(* Moving the leaf, and leaving the session                                *)

MayMove ==
  /\ events < MaxEvents
  /\ Serial => turn = "idle" /\ comp = NoComp
  /\ events' = events + 1

(* navigateTree: to the parent of a prompt, or to the entry itself.        *)
NewLeaf(target) ==
  LET e == Entry(entries, target) IN IF e.type = "user" THEN e.parent ELSE target

Navigate(target) ==
  /\ MayMove
  /\ target \in IdsOf(entries) \ {leaf}
  /\ leaf' = NewLeaf(target)
  /\ messages' = IdSeq(Context(entries, leaf')) /\ dropped' = {}
  /\ UNCHANGED <<entries, flushed, file, turn, pending, comp, next, tears, lost>>

(* navigateTree with a summary of the branch that is left.                 *)
NavigateWithSummary(target) ==
  /\ MayMove
  /\ target \in IdsOf(entries) \ {leaf}
  /\ Ancestors(entries, leaf) \ Ancestors(entries, target) # {}
  /\ AddEntry(NewEntry(NewLeaf(target), "branchSummary", 0, {}))
  /\ messages' = IdSeq(Context(entries', leaf')) /\ dropped' = {}
  /\ UNCHANGED <<turn, pending, comp, tears>>

(* A forked session is written at once if it holds an answer.              *)
ForkOf(es) ==
  IF HasAnswer(es) THEN [flushed |-> TRUE, file |-> es]
  ELSE [flushed |-> FALSE, file |-> NoFile]

(* The session that starts with entries es.                                *)
StartSession(es, f) ==
  /\ entries' = es
  /\ leaf' = LastId(es)
  /\ flushed' = f.flushed
  /\ file' = f.file
  /\ messages' = IdSeq(Context(es, LastId(es))) /\ dropped' = {}
  /\ turn' = "idle"
  /\ pending' = FALSE
  /\ comp' = NoComp

(* fork(): the saved file is opened again, the path to the target becomes  *)
(* a session of its own.                                                   *)
Fork(target) ==
  LET saved == Readable(file)
      es    == Branched(saved, target, next) IN
  /\ MayMove
  /\ file # NoFile
  /\ target \in IdsOf(saved)
  /\ LastId(es) <= MaxEntries
  /\ StartSession(es, ForkOf(es))
  /\ next' = IF LastId(es) < next THEN next ELSE LastId(es) + 1
  /\ lost' = {}
  /\ UNCHANGED tears

(* newSession(), and a fork from the first prompt.                         *)
NewSession ==
  /\ MayMove
  /\ StartSession(<<>>, [flushed |-> FALSE, file |-> NoFile])
  /\ lost' = {}
  /\ UNCHANGED <<next, tears>>

-----------------------------------------------------------------------------
(* Death of the process, and the reload of the session file.               *)

(* _setSessionFile: a session without a file starts anew, and so it does   *)
(* instead of one whose file is refused; a file that can be read is        *)
(* appended to.                                                            *)
Reload(f, gone) ==
  IF f \in {NoFile, VoidFile}
  THEN StartSession(<<>>, [flushed |-> FALSE, file |-> NoFile]) /\ lost' = {}
  ELSE StartSession(Readable(f), [flushed |-> TRUE, file |-> f]) /\ lost' = gone

Crash ==
  /\ events < MaxEvents
  /\ events' = events + 1
  /\ Reload(file, lost)
  /\ UNCHANGED <<next, tears>>

(* What a death during an append leaves: a part of the line, or all of it  *)
(* but its end.  An entry whose line end was never written takes the part  *)
(* of the next one with it; so does the header, and the file is refused.   *)
CutAppend(whole) ==
  IF EndsWith(file, OpenLine)
  THEN /\ ~whole
       /\ IF Len(file) = 1 THEN Reload(VoidFile, lost)
          ELSE Reload(Append(Front(Front(file)), TornLine), lost \cup {file[Len(file) - 1].id})
  ELSE /\ ~EndsWith(file, TornLine) /\ file # VoidFile
       /\ whole /\ file # <<>> => Last(file).id # 0
       /\ Reload(Append(file, IF whole THEN OpenLine ELSE TornLine), lost)

(* The process dies while it writes: the last line is cut off, or the      *)
(* creation of the file stops after k lines and perhaps a part of the next *)
(* (a header without an end is refused, as in Crash).                      *)
CrashInWrite(k, tail) ==
  /\ events < MaxEvents /\ tears < MaxTears
  /\ events' = events + 1
  /\ tears' = tears + 1
  /\ IF flushed THEN k = 0 /\ tail # <<>> /\ CutAppend(tail = <<OpenLine>>)
     ELSE /\ turn = "running"
          /\ k \in 0..Len(entries)
          /\ Reload(SubSeq(entries, 1, k) \o tail, lost)
  /\ UNCHANGED next

-----------------------------------------------------------------------------
Next ==
  \/ Prompt \/ CallTool \/ ToolEnds \/ Answer \/ Steer
  \/ RemoveAnswer \/ Continue \/ Settle
  \/ RecordBash \/ RecordMeta
  \/ \E id \in {leaf} \cup Labelled(entries) : Label(id)
  \/ \E reached \in 0..MaxEntries, retry \in BOOLEAN : StartCompaction(reached, retry)
  \/ CompactionEnds \/ CompactionFails
  \/ \E id \in 1..MaxEntries : Navigate(id) \/ NavigateWithSummary(id) \/ Fork(id)
  \/ NewSession
  \/ Crash
  \/ \E k \in 0..MaxEntries, tail \in {<<>>, <<TornLine>>, <<OpenLine>>} : CrashInWrite(k, tail)

Spec == Init /\ [][Next]_vars

-----------------------------------------------------------------------------
TypeOK ==
  /\ \A i \in DOMAIN entries :
       entries[i] \in [id : 1..MaxEntries, parent : 0..MaxEntries, type : EntryTypes,
                       ref : 0..MaxEntries, covers : SUBSET (1..MaxEntries)]
  /\ leaf \in 0..MaxEntries
  /\ flushed \in BOOLEAN
  /\ turn \in Turns
  /\ pending \in BOOLEAN
  /\ dropped \subseteq 1..MaxEntries
  /\ next \in 1..(MaxEntries + 1)

(* The file and the memory agree.  Before the first answer there is no     *)
(* file; from then on, whatever was forked, navigated, reloaded or torn,   *)
(* a reader finds every entry of the session, in order, except those whose *)
(* lines were joined: at most two for each write that a death has cut.     *)
(* Only when that write was the header, up to its line end, is everything  *)
(* after it lost.                                                          *)
FileIsMemory ==
  /\ IF flushed
     THEN Readable(file) = InOrder(entries, IdsOf(entries) \ lost)
     ELSE file = NoFile /\ ~HasAnswer(entries)
  /\ file # VoidFile => Cardinality(lost) <= 2 * tears

(* What the agent sends to the model is the context of the session's leaf, *)
(* without the failed answers taken out for a retry since it was rebuilt:  *)
(* the two are kept apart and are changed by every operation on its own.   *)
AgentSeesSession ==
  LET ctx == Context(entries, leaf)
  IN  /\ messages = IdSeq(Select(ctx, {i \in DOMAIN ctx : ctx[i].id \notin dropped}))
      /\ \A i \in DOMAIN ctx : ctx[i].id \in dropped => ctx[i].type \in Answers

(* No tool result is in the context without the call it answers right      *)
(* before it, wherever a compaction cut or a navigation went.              *)
NoOrphanResults ==
  LET ctx == Context(entries, leaf)
  IN  \A i \in DOMAIN ctx : ctx[i].type = "toolResult" => i > 1 /\ ctx[i - 1].type = "call"

(* Every message of the conversation is in the context, or a summary in    *)
(* the context was made from it.                                           *)
SummaryCoversHistory ==
  LET path == Path(entries, leaf)
      ctx  == Context(entries, leaf)
  IN  MessagesIn(path, 1, Len(path) + 1)
        \subseteq IdsOf(ctx) \cup UNION {ctx[i].covers : i \in DOMAIN ctx}

Talk(ctx) == IdSeq(Select(ctx, {i \in DOMAIN ctx : Message(ctx[i])}))

(* A compaction, even one whose summary arrives after other entries were   *)
(* recorded, keeps a suffix of the messages of the context and summarises  *)
(* all the others.                                                         *)
CompactionKeepsSuffix ==
  [][(comp # NoComp /\ next' # next /\ comp' = NoComp) =>
       LET old == Talk(Context(entries, leaf))
           new == Talk(Context(entries', leaf'))
           cut == Len(old) - Len(new)
       IN  /\ cut >= 0
           /\ new = SubSeq(old, cut + 1, Len(old))
           /\ \A i \in 1..cut : old[i] \in comp.covers]_vars

(* A fork holds the whole path to its target, in one unbroken chain, with  *)
(* the labels of its entries; and it shows the model the same context      *)
(* unless the kept entries of the last compaction begin at a label, which  *)
(* the fork leaves out.                                                    *)
ForkKeepsPath ==
  [][\A id \in IdsOf(Readable(file)) : Fork(id) =>
       LET saved == Readable(file)
           old   == Path(saved, id)
           c     == LastCompaction(old)
       IN  /\ IdSeq(WithoutLabels(old)) = IdSeq(WithoutLabels(Path(entries', leaf')))
           /\ Labelled(entries') = Labelled(saved) \cap IdsOf(entries')
           /\ (c = 0 \/ \A i \in DOMAIN old : old[i].id = old[c].ref => old[i].type # "label")
                => Talk(Context(entries', leaf')) = Talk(Context(saved, id))]_vars
=============================================================================
