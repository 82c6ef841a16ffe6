------------------------- MODULE TransformMessages --------------------------
(***************************************************************************)
(* What every provider does with a conversation before it sends it:        *)
(* transformMessages of packages/ai (api/transform-messages.ts).  Failed   *)
(* and aborted answers are left out, and a tool call without a result gets *)
(* a synthetic one.  The rewriting of images, thinking blocks and call ids *)
(* changes no message's role or place and is abstracted.                   *)
(*                                                                         *)
(* A message is [role, id, part, ok] as in AgentLoop: an assistant message *)
(* carries part tool calls and is ok unless it stopped with an error or an *)
(* abort; a result answers call part of assistant message id.              *)
(***************************************************************************)
EXTENDS Naturals, Sequences

NoCalls == [id |-> 0, part |-> 0]

(* Mutant: the results already there are not looked at.                    *)
Synthetic_All(scan) ==
  [i \in 1..scan.open.part |-> [role |-> "result", id |-> scan.open.id, part |-> i, ok |-> FALSE]]

(* Synthetic results for the open calls that have none.                    *)
Synthetic(scan) ==
  LET upTo[n \in 0..scan.open.part] ==
        IF n = 0 THEN <<>>
        ELSE IF <<scan.open.id, n>> \in scan.have THEN upTo[n - 1]
        ELSE Append(upTo[n - 1], [role |-> "result", id |-> scan.open.id, part |-> n, ok |-> FALSE])
  IN  upTo[scan.open.part]

(* insertSyntheticToolResults                                              *)
Flush(scan) ==
  IF scan.open.part = 0 THEN scan
  ELSE [out |-> scan.out \o Synthetic(scan), open |-> NoCalls, have |-> {}]

Push(scan, m) == [scan EXCEPT !.out = Append(@, m)]

(* The body of the second pass.                                            *)
Scan(scan, m) ==
  IF m.role = "result" THEN [Push(scan, m) EXCEPT !.have = @ \cup {<<m.id, m.part>>}]
  ELSE IF m.role = "user" THEN Push(Flush(scan), m)
  ELSE IF ~m.ok THEN Flush(scan)
  ELSE IF m.part = 0 THEN Push(Flush(scan), m)
  ELSE [Push(Flush(scan), m) EXCEPT !.open = m, !.have = {}]

Request(messages) ==
  LET after[n \in 0..Len(messages)] ==
        IF n = 0 THEN [out |-> <<>>, open |-> NoCalls, have |-> {}]
        ELSE Scan(after[n - 1], messages[n])
  IN  Flush(after[Len(messages)]).out

(* What the providers demand: the results of an answer's calls follow it   *)
(* at once, one for each call, and there are no other results.             *)
Accepted(r) ==
  /\ \A p \in DOMAIN r : r[p].role = "assistant" =>
       \A i \in 1..r[p].part :
         /\ p + i \in DOMAIN r
         /\ r[p + i].role = "result" /\ r[p + i].id = r[p].id /\ r[p + i].part = i
  /\ \A p \in DOMAIN r : r[p].role = "result" =>
       \E q \in 1..(p - 1) : /\ r[q].role = "assistant" /\ r[q].id = r[p].id
                             /\ q + r[p].part = p /\ r[p].part <= r[q].part
=============================================================================
