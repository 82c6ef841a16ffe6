---------------------------- MODULE MCAgentLoop -----------------------------
(* AgentLoop with the requests it sends, as TLC checks it and as           *)
(* AgentLoopProofs proves it.                                              *)
EXTENDS AgentLoop, TransformMessages

(* Whatever was aborted, truncated, rejected or cut short before, the      *)
(* conversation that reaches the provider is one it accepts: every tool    *)
(* call directly followed by its one result and no result without a call   *)
(* (agent-loop.ts:295, transform-messages.ts:158-222).                     *)
RequestsAccepted == pc \in {"model", "modelAborted"} => Accepted(Request(context))
=============================================================================
