---------------------------- MODULE Orchestrator ----------------------------
(***************************************************************************)
(* One spawned agent of AgentOrchestrator (src/orchestrator.rs): callers   *)
(* send requests through a bounded channel to the task run_agent_loop and  *)
(* wait on a one-shot reply; a supervisor decides what an error does to    *)
(* the task; the handle may be cancelled or consumed.                     *)
(***************************************************************************)
EXTENDS Naturals, Sequences

CONSTANTS Callers,       \* concurrent users of the handle
          ChannelBuffer, \* channel_buffer
          MaxRestarts,   \* max_restarts of the entry
          MaxSends,      \* bound on the requests of one caller
          Supervised     \* whether a SupervisorPolicy is set

ASSUME OrchestratorAssumption ==
  /\ ChannelBuffer \in Nat \ {0} /\ MaxRestarts \in Nat /\ MaxSends \in Nat
  /\ Supervised \in BOOLEAN

VARIABLES caller,     \* per caller: "idle", "sending", "waiting", "answered", "failed"
          sends,      \* per caller: requests sent
          channel,    \* accepted requests, as the callers that sent them
          taskPc,     \* "recv", "prompt", or "ended"
          current,    \* the request being served: << >> or <<caller>>
          restarts,   \* consecutive restarts
          agentToken, \* the cancellation token
          handle,     \* "held", or "consumed" by await_result
          status,     \* AgentStatus
          hangs       \* whether prompts of this agent may hang for ever

orchVars == <<caller, sends, channel, taskPc, current, restarts, agentToken,
              handle, status, hangs>>

InFlight(c) == caller[c] \in {"sending", "waiting"}

OrchInit ==
  /\ caller = [c \in Callers |-> "idle"]
  /\ sends = [c \in Callers |-> 0]
  /\ channel = << >> /\ taskPc = "recv" /\ current = << >>
  /\ restarts = 0 /\ agentToken = FALSE /\ handle = "held"
  /\ status = "Running" /\ hangs \in BOOLEAN

-----------------------------------------------------------------------------
(* The callers. *)
Send(c) ==
  /\ handle = "held" /\ ~InFlight(c) /\ sends[c] < MaxSends
  /\ caller' = [caller EXCEPT ![c] = "sending"]
  /\ sends' = [sends EXCEPT ![c] = @ + 1]
  /\ UNCHANGED <<channel, taskPc, current, restarts, agentToken, handle, status, hangs>>

(* The channel has room, and its receiver lives. *)
Accept(c) ==
  /\ caller[c] = "sending" /\ taskPc # "ended" /\ Len(channel) < ChannelBuffer
  /\ caller' = [caller EXCEPT ![c] = "waiting"]
  /\ channel' = Append(channel, c)
  /\ UNCHANGED <<sends, taskPc, current, restarts, agentToken, handle, status, hangs>>

(* "agent channel closed" *)
Refuse(c) ==
  /\ caller[c] = "sending" /\ taskPc = "ended"
  /\ caller' = [caller EXCEPT ![c] = "failed"]
  /\ UNCHANGED <<sends, channel, taskPc, current, restarts, agentToken, handle, status, hangs>>

(* The caller's future is dropped; a request in the channel stays there    *)
(* and its reply will find no receiver.                                    *)
GiveUp(c) ==
  /\ InFlight(c)
  /\ caller' = [caller EXCEPT ![c] = "failed"]
  /\ sends' = [sends EXCEPT ![c] = MaxSends]
  /\ UNCHANGED <<channel, taskPc, current, restarts, agentToken, handle, status, hangs>>

CancelAgent ==
  /\ handle = "held" /\ ~agentToken
  /\ agentToken' = TRUE
  /\ UNCHANGED <<caller, sends, channel, taskPc, current, restarts, handle, status, hangs>>

(* await_result takes the handle by value, so no send borrows it. *)
AwaitResult ==
  /\ handle = "held" /\ \A c \in Callers : ~InFlight(c)
  /\ handle' = "consumed"
  /\ UNCHANGED <<caller, sends, channel, taskPc, current, restarts, agentToken, status, hangs>>

-----------------------------------------------------------------------------
(* send_agent_reply: a dropped receiver is only logged. *)
Replied(r) == [c \in Callers |-> IF <<c>> = current /\ caller[c] = "waiting" THEN r ELSE caller[c]]

(* The task returns: the receiver and every reply sender still in the      *)
(* channel are dropped, which wakes the callers behind them.               *)
Ends(replied, final) ==
  /\ taskPc' = "ended" /\ current' = << >> /\ channel' = << >>
  /\ caller' = [c \in Callers |-> IF replied[c] = "waiting" THEN "failed" ELSE replied[c]]
  /\ status' = final
  /\ UNCHANGED <<sends, restarts, agentToken, handle, hangs>>

GoesOn(r, n) ==
  /\ taskPc' = "recv" /\ current' = << >> /\ restarts' = n
  /\ caller' = Replied(r)
  /\ UNCHANGED <<sends, channel, agentToken, handle, status, hangs>>

(* biased: the token is looked at first. *)
RecvCancelled == taskPc = "recv" /\ agentToken /\ Ends(caller, "Cancelled")

Recv ==
  /\ taskPc = "recv" /\ ~agentToken /\ channel # << >>
  /\ current' = <<Head(channel)>> /\ channel' = Tail(channel)
  /\ taskPc' = "prompt"
  /\ UNCHANGED <<caller, sends, restarts, agentToken, handle, status, hangs>>

RecvClosed ==
  /\ taskPc = "recv" /\ ~agentToken /\ channel = << >> /\ handle = "consumed"
  /\ Ends(caller, "Completed")

PromptCancelled ==
  taskPc = "prompt" /\ agentToken /\ Ends(Replied("failed"), "Cancelled")

PromptOk == taskPc = "prompt" /\ GoesOn("answered", 0)

Verdicts == IF Supervised THEN {"Restart", "Stop", "Escalate"} ELSE {"Escalate"}

PromptErr ==
  /\ taskPc = "prompt"
  /\ \E v \in Verdicts :
       \/ v = "Restart" /\ restarts < MaxRestarts /\ GoesOn("failed", restarts + 1)
       \/ v = "Escalate" /\ GoesOn("failed", restarts)
       \/ /\ v = "Stop" \/ (v = "Restart" /\ restarts >= MaxRestarts)
          /\ Ends(Replied("failed"), "Failed")

(* The policy, the options factory or the agent panics: the task unwinds   *)
(* without the last assignment to the status.                              *)
AgentTaskPanic == taskPc = "prompt" /\ Ends(caller, status)

TaskSteps == RecvCancelled \/ Recv \/ RecvClosed \/ PromptCancelled
PromptReturns == PromptOk \/ PromptErr

OrchNext ==
  \/ \E c \in Callers : Send(c) \/ Accept(c) \/ Refuse(c) \/ GiveUp(c)
  \/ CancelAgent \/ AwaitResult
  \/ TaskSteps \/ PromptReturns \/ AgentTaskPanic

(* The runtime polls a task and a caller that are ready; a prompt returns  *)
(* unless it hangs.                                                        *)
OrchFairness ==
  /\ WF_orchVars(TaskSteps)
  /\ WF_orchVars(~hangs /\ PromptReturns)
  /\ \A c \in Callers : WF_orchVars(Accept(c)) /\ WF_orchVars(Refuse(c))

OrchSpec == OrchInit /\ [][OrchNext]_orchVars /\ OrchFairness

-----------------------------------------------------------------------------
(* Every caller of send_messages comes back, with an answer or an error:   *)
(* requests left in the channel when the task is cancelled, stopped by the *)
(* supervisor or panics, requests refused by a full or closed channel, and *)
(* requests behind one whose caller has gone.  A prompt that hangs holds   *)
(* the callers only until the handle is cancelled.                         *)
RequestsResolved ==
  \A c \in Callers : InFlight(c) /\ (~hangs \/ agentToken) ~> ~InFlight(c)
=============================================================================
