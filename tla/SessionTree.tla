---------------------------- MODULE SessionTree -----------------------------
(***************************************************************************)
(* What a session is: the entries of one session file                      *)
(* (packages/coding-agent, core/session-manager.ts), the path from the     *)
(* root to an entry, the context the model sees on that path, and the      *)
(* choice of what a compaction summarises (core/compaction/compaction.ts). *)
(*                                                                         *)
(* An entry is [id, parent, type, ref, covers].  Parent 0 is no parent.    *)
(* ref is firstKeptEntryId of a compaction and targetId of a label.  The   *)
(* text of a summary is abstracted to covers, the messages it was made     *)
(* from; a label entry covers its target when it sets the label and        *)
(* nothing when it clears it.  Thinking level, model change, custom and    *)
(* session_info entries differ in nothing the properties can tell and are  *)
(* "meta"; a "call" is an assistant message with one tool call; "bash"     *)
(* stands for the user-like messages that are not prompts (bashExecution,  *)
(* custom).                                                                *)
(***************************************************************************)
EXTENDS Naturals, Sequences, FiniteSets, SequencesExt

Answers      == {"assistant", "call"}
TurnStarts   == {"user", "bash", "branchSummary"}
CutTypes     == TurnStarts \cup Answers
EntryTypes   == CutTypes \cup {"toolResult", "compaction", "meta", "label"}

(* An entry that sessionEntryToContextMessages turns into a message.       *)
Visible(e)   == e.type \notin {"meta", "label"}
(* getMessageFromEntryForCompaction: an older summary is not a message.    *)
Message(e)   == Visible(e) /\ e.type # "compaction"

(* The elements of s at the positions in I, in their order.                *)
Select(s, I) ==
  LET f[n \in 0..Len(s)] ==
        IF n = 0 THEN <<>>
        ELSE IF n \in I THEN Append(f[n - 1], s[n]) ELSE f[n - 1]
  IN  f[Len(s)]

IdsOf(es)     == {es[i].id : i \in DOMAIN es}
IdSeq(es)     == [i \in DOMAIN es |-> es[i].id]
Entry(es, id) == es[CHOOSE i \in DOMAIN es : es[i].id = id]
HasAnswer(es) == \E i \in DOMAIN es : es[i].type \in Answers
LastId(es)    == IF es = <<>> THEN 0 ELSE Last(es).id
InOrder(es, S) == Select(es, {i \in DOMAIN es : es[i].id \in S})

(* The walk from an entry to the root, which ends at a parent that is not  *)
(* among the entries.                                                      *)
Ancestors(es, leaf) ==
  LET up[n \in 0..leaf] ==
        IF n \notin IdsOf(es) THEN {} ELSE {n} \cup up[Entry(es, n).parent]
  IN  up[leaf]

Path(es, leaf) == InOrder(es, Ancestors(es, leaf))

(* Positions of the compaction entries of a path.                          *)
Compactions(path) == {i \in DOMAIN path : path[i].type = "compaction"}
LastCompaction(path) == IF Compactions(path) = {} THEN 0 ELSE Max(Compactions(path))
From(path, n) == SubSeq(path, n, Len(path))

(* Where a compaction's kept entries begin; 0 if they are not on the path. *)
Boundary(path, ref) ==
  LET at == {i \in DOMAIN path : path[i].id = ref} IN IF at = {} THEN 0 ELSE Min(at)

(* The entries kept by the compaction at position c.                       *)
Kept(path, c) ==
  LET b == Boundary(path, path[c].ref) IN IF b \in 1..(c - 1) THEN SubSeq(path, b, c - 1) ELSE <<>>

(* buildContextEntries: the latest summary, then what it kept, then what   *)
(* came after it.                                                          *)
ContextEntries(path) ==
  LET c == LastCompaction(path) IN
  IF c = 0 THEN path ELSE <<path[c]>> \o Kept(path, c) \o From(path, c + 1)

VisibleOf(es) == Select(es, {i \in DOMAIN es : Visible(es[i])})

(* buildSessionContext: the messages, by entry.                            *)
Context(es, leaf) == VisibleOf(ContextEntries(Path(es, leaf)))

-----------------------------------------------------------------------------
(* Labels: the last label entry written about an entry decides.            *)

Labelled(es) ==
  {t \in IdsOf(es) :
     LET about == {i \in DOMAIN es : es[i].type = "label" /\ es[i].ref = t}
     IN  about # {} /\ es[Max(about)].covers # {}}

-----------------------------------------------------------------------------
(* prepareCompaction.  Sizes in tokens are abstracted: reached is the      *)
(* position at which the backward count reaches keepRecentTokens, or 0.    *)

BoundaryStart(path) ==
  LET c == LastCompaction(path)
      b == Boundary(path, path[c].ref)
  IN  IF c = 0 THEN 1 ELSE IF b = 0 THEN c + 1 ELSE b

PreviousCover(path) ==
  IF LastCompaction(path) = 0 THEN {} ELSE path[LastCompaction(path)].covers

(* Mutant: a tool result may be a cut point too.                           *)
CutPoints_AnyMessage(path) == {i \in BoundaryStart(path)..Len(path) : Message(path[i])}

CutPoints(path) == {i \in BoundaryStart(path)..Len(path) : path[i].type \in CutTypes}

(* findCutPoint: the first cut point at or after the place reached, then   *)
(* back over the entries before it that are no messages.                   *)
CutIndex(path, reached) ==
  LET after == {c \in CutPoints(path) : reached # 0 /\ c >= reached}
      cut   == IF after = {} THEN Min(CutPoints(path)) ELSE Min(after)
  IN  Min({i \in BoundaryStart(path)..cut : \A k \in i..(cut - 1) : ~Visible(path[k])})

(* Where the turn that the cut splits begins; 0 if it splits none.         *)
TurnStart(path, cut) ==
  LET starts == {i \in BoundaryStart(path)..cut : path[i].type \in TurnStarts}
  IN  IF path[cut].type \in TurnStarts \/ starts = {} THEN 0 ELSE Max(starts)

MessagesIn(path, a, b) == {path[i].id : i \in {j \in a..(b - 1) : Message(path[j])}}

(* The messages to summarise and, of a split turn, its prefix.             *)
History(path, cut) ==
  MessagesIn(path, BoundaryStart(path),
             IF TurnStart(path, cut) = 0 THEN cut ELSE TurnStart(path, cut))
TurnPrefix(path, cut) ==
  IF TurnStart(path, cut) = 0 THEN {} ELSE MessagesIn(path, TurnStart(path, cut), cut)

CanCompact(path, reached) ==
  /\ path # <<>>
  /\ Last(path).type # "compaction"
  /\ CutPoints(path) # {}
  /\ LET cut == CutIndex(path, reached) IN History(path, cut) \cup TurnPrefix(path, cut) # {}

(* Mutant: the prefix of a split turn is not summarised.                   *)
SummaryCover_NoPrefix(path, cut) ==
  IF TurnPrefix(path, cut) # {} /\ History(path, cut) = {} THEN {}
  ELSE History(path, cut) \cup PreviousCover(path)

(* compact(): what the new summary is made from.  Of a split turn with no  *)
(* messages before it, the history is "No prior history." and the previous *)
(* summary is not looked at.                                               *)
SummaryCover(path, cut) ==
  IF TurnPrefix(path, cut) # {} /\ History(path, cut) = {} THEN TurnPrefix(path, cut)
  ELSE History(path, cut) \cup PreviousCover(path) \cup TurnPrefix(path, cut)

-----------------------------------------------------------------------------
(* createBranchedSession: the path without its label entries, chained      *)
(* again, then one label entry for every entry that had a label.           *)

WithoutLabels(path) == Select(path, {i \in DOMAIN path : path[i].type # "label"})

(* Mutant: the retained entries keep their parents.                        *)
Rechained_KeepsParents(path) == WithoutLabels(path)

Rechained(path) ==
  LET es == WithoutLabels(path)
  IN  [i \in DOMAIN es |-> [es[i] EXCEPT !.parent = IF i = 1 THEN 0 ELSE es[i - 1].id]]

(* Fresh label entries, numbered from next.  The code writes them in the   *)
(* order in which the labels were set, which nothing tells apart.          *)
Relabelled(es, targets, next) ==
  LET order == IdSeq(InOrder(es, targets))
  IN  [i \in DOMAIN order |->
         [id     |-> next + i - 1,
          parent |-> IF i = 1 THEN LastId(es) ELSE next + i - 2,
          type   |-> "label",
          ref    |-> order[i],
          covers |-> {order[i]}]]

Branched(es, leaf, next) ==
  LET kept == Rechained(Path(es, leaf))
  IN  kept \o Relabelled(kept, Labelled(es) \cap IdsOf(kept), next)
=============================================================================
