--------------------------- MODULE MCConversation ---------------------------
(***************************************************************************)
(* The two ends of a conversation, one at a time: a behaviour is one of    *)
(* `part` (the call to the model with its retries, the RPC session between *)
(* an agent and its client), and the other stays in an initial state.      *)
(***************************************************************************)
EXTENDS StreamRetry, AgentRpc

VARIABLE part

Parts == {"model", "rpc"}

conversationVars == <<part, vars, rpcVars>>

ConversationInit ==
  /\ part \in Parts
  /\ Init /\ (part # "model" => emitStart /\ cache = [turns |-> 0, prefix |-> 0])
  /\ RpcInit /\ (part # "rpc" => scenario = "turns")

ConversationNext ==
  /\ UNCHANGED part
  /\ \/ part = "model" /\ Next
     \/ part # "model" /\ UNCHANGED vars
  /\ \/ part = "rpc" /\ RpcNext
     \/ part # "rpc" /\ UNCHANGED rpcVars

(* The fairness of FairSpec and RpcSpec, each for the behaviours of its part. *)
ConversationFairness ==
  /\ WF_vars(part = "model" /\ Loop)
  /\ \A s \in Sides : WF_rpcVars(part = "rpc" /\ PeerSteps(s) /\ UNCHANGED others)
  /\ \A r \in ClientCalls \cup ServerCalls :
       WF_rpcVars(part = "rpc" /\ CallSteps(r) /\ UNCHANGED others)
  /\ WF_rpcVars(part = "rpc" /\ SessionSteps)
  /\ WF_rpcVars(part = "rpc" /\ AgentSteps)
  /\ WF_rpcVars(part = "rpc" /\ ClientSteps)

ConversationSpec ==
  ConversationInit /\ [][ConversationNext]_conversationVars /\ ConversationFairness

-----------------------------------------------------------------------------
(* The error events the model call chooses from.                           *)
Err(k, t, s) == [kind |-> k, text |-> t, stop |-> s]

(* One of each way the loop treats an error: retried and eligible for      *)
(* fallback, retried and not eligible, overflow, cache miss, an abort of   *)
(* the provider's own, an error that carries a throttling text, plain.     *)
SomeErrors == {Err("Throttled", "plain", "Error"), Err("Network", "plain", "Error"),
               Err("ContextWindowExceeded", "plain", "Error"),
               Err("None", "cache", "Error"), Err("None", "plain", "Aborted"),
               Err("Auth", "throttle", "Error"), Err("None", "plain", "Error")}

-----------------------------------------------------------------------------
(* A call to the model ends when every provider stream does, as retries    *)
(* and fallbacks do not go on for ever, and once it is cancelled, even if  *)
(* the provider never answers (stream_with_retry).                         *)
ModelCallEnds == part = "model" => CallEnds
=============================================================================
