---------------------------- MODULE ToolDispatch ----------------------------
(***************************************************************************)
(* The tool dispatch engine, src/src/loop_/tool_dispatch/: one batch of    *)
(* tool calls taken through pre-dispatch policies, the approval gate, the  *)
(* execution groups, the spawned tool tasks and the collection of their    *)
(* results (execute_tools_concurrently).                                   *)
(*                                                                         *)
(* Actors: the coordinator (the future that runs execute_tools_concurrently*)
(* inside the loop task), one tokio task per dispatched call, and the      *)
(* environment, which may cancel the run, queue a steering message or drop *)
(* the event receiver at any moment.                                       *)
(*                                                                         *)
(* Tool call ids are taken to be distinct, so that a call stands for its   *)
(* id.  An Inject verdict lets the call pass exactly as Continue does and  *)
(* only adds messages that every outcome carries along: the two are one    *)
(* verdict here.                                                           *)
(***************************************************************************)
EXTENDS Integers, Sequences, FiniteSets

CONSTANTS
  N,                 \* number of tool calls in the batch
  Known,             \* the calls whose tool is registered (build_tool_map)
  RequiresApproval,  \* the calls whose tool says requires_approval()
  ApprovalModes,     \* the approval modes considered
  ExecutionPolicies, \* the tool execution policies considered
  Disturbances,      \* what the environment may do to the batch
  CustomGroups       \* bound: most groups a custom strategy answers with

Calls == 1..N
None == 0            \* no call (an absent transfer signal, no current call)

Modes    == {"Bypassed", "Smart", "Enabled"}
Policies == {"Concurrent", "Sequential", "Priority", "Custom"}

ASSUME BatchAssumption ==
  /\ N \in Nat \ {0}
  /\ Known \subseteq Calls
  /\ RequiresApproval \subseteq Known
  /\ ApprovalModes \subseteq Modes
  /\ ExecutionPolicies \subseteq Policies
  /\ Disturbances \subseteq {"Cancel", "Steer", "DropReceiver"}
  /\ CustomGroups \in Nat

VARIABLES
  mode,         \* ApprovalMode; "Bypassed" also stands for "no approve_tool"
  policy,       \* ToolExecutionPolicy
  pc,           \* where the coordinator is
  i,            \* the call it is at
  skipped,      \* calls the first policy pass answered Skip for
  args,         \* which arguments a call would run with
  cleared,      \* the arguments the pre-dispatch policies let pass
  granted,      \* calls the approval callback approved
  prepared,     \* calls that passed all gates
  groupOf,      \* execution group of each prepared call, 0: none
  groupCount,   \* the number of groups
  group,        \* the group being run
  dispatched,   \* calls dispatch_single_tool was run for
  handles,      \* join handles of the current group not yet joined
  task,         \* state of the spawned task of each call
  ret,          \* what the task is about to report
  executed,     \* calls whose tool.execute() was entered
  aborted,      \* tasks abort() was called on
  results,      \* the shared Vec<(usize, ToolResultMessage)>, by call
  steering,     \* a steering message waits in the message provider
  steerFlag,    \* steering_detected
  transferFlag, \* transfer_detected
  signal,       \* transfer_signal: the call whose signal was captured
  cancelled,    \* batch_token, cancelled by its parent or by the batch
  closed,       \* the event receiver was dropped
  why,          \* what the grace period is to end in
  outcome,      \* the ToolExecOutcome
  ev,           \* the events delivered for each call, in order
  lateStarts    \* ToolExecutionStart events emitted after cancellation

vars == <<mode, policy, pc, i, skipped, args, cleared, granted, prepared,
          groupOf, groupCount, group, dispatched, handles, task, ret, executed,
          aborted, results, steering, steerFlag, transferFlag, signal, cancelled,
          closed, why, outcome, ev, lateStarts>>

confVars  == <<mode, policy>>
gateVars  == <<i, skipped, args, cleared, granted, prepared>>
groupVars == <<groupOf, groupCount, group, dispatched, handles>>
taskVars  == <<task, ret, executed>>
flagVars  == <<steerFlag, transferFlag, signal>>
envVars   == <<steering, cancelled, closed>>
doneVars  == <<why, outcome, aborted>>

PCs      == {"policies", "gate", "approval", "groups", "group", "dispatch",
             "spawn", "collect", "grace", "done"}
Kinds    == {"ok", "transfer", "error", "skipped", "rejected", "stopped"}
Events   == {"Requested", "Approved", "Denied", "Start", "End"}
TaskStates == {"none", "invalid", "spawned", "running", "returned", "ended",
               "done", "panicked", "killed"}
Finished   == {"done", "panicked"}     \* a join handle of it is ready
Abortable  == {"invalid", "spawned", "running", "returned", "ended"}

NoOutcome == [kind |-> "None", results |-> [c \in Calls |-> "none"],
              transfer |-> None]
-----------------------------------------------------------------------------
(* Emitting events and building outcomes.                                  *)

(* emit(): the send fails once the receiver is gone.                       *)
emit(evs, c, e) == IF closed THEN evs ELSE [evs EXCEPT ![c] = Append(@, e)]

(* emit_error_result(): ToolExecutionEnd, then the result is pushed.       *)
emit_error_result(evs, c, kind) ==
  /\ ev' = emit(evs, c, "End")
  /\ results' = [results EXCEPT ![c] = kind]

(* The same for a set of calls, in one go.                                 *)
emit_errors(evs, S) ==
  IF closed THEN evs
  ELSE [c \in Calls |-> IF c \in S THEN Append(evs[c], "End") ELSE evs[c]]
error_results(S, kind) ==
  [c \in Calls |-> IF c \in S THEN kind ELSE results[c]]

(* order_results_by_tool_calls(): only the calls that have a result.       *)
order_results_by_tool_calls(res) == res

(* The outcome builders give every call without a result an error result.  *)
fill_nothing(res) == res
fill_cancelled(res) ==
  [c \in Calls |-> IF res[c] = "none" THEN "cancelled" ELSE res[c]]

(* The results are taken out of the shared vector, the outcome returned.   *)
Return(kind, res, transfer) ==
  /\ pc' = "done"
  /\ outcome' = [kind |-> kind, results |-> res, transfer |-> transfer]
  /\ results' = [c \in Calls |-> "none"]

build_aborted_outcome == Return("Aborted", fill_cancelled(results), None)

(* stopped_preprocess_outcome(): emit_batch_stop_results() resolves every  *)
(* call that has no result yet.                                            *)
stopped_preprocess_outcome(evs) ==
  LET open == {c \in Calls : results[c] = "none"} IN
    /\ ev' = emit_errors(evs, open)
    /\ Return("Stopped",
              order_results_by_tool_calls(error_results(open, "stopped")), None)

ReturnChannelClosed ==
  Return("ChannelClosed", [c \in Calls |-> "none"], None)
-----------------------------------------------------------------------------
(* Phase 1: preprocess_tool_calls().                                       *)

(* First pass, one call: the cancellation check, then the policies.        *)
PoliciesCancelled ==
  /\ pc = "policies" /\ cancelled
  /\ build_aborted_outcome
  /\ UNCHANGED <<confVars, gateVars, groupVars, taskVars, flagVars, envVars,
                 why, aborted, ev, lateStarts>>

PoliciesPass ==
  /\ pc = "policies" /\ ~cancelled
  /\ \/ cleared' = [cleared EXCEPT ![i] = args[i]] /\ UNCHANGED skipped
     \/ skipped' = skipped \union {i} /\ UNCHANGED cleared
  /\ IF i = N THEN i' = 1 /\ pc' = "gate" ELSE i' = i + 1 /\ UNCHANGED pc
  /\ UNCHANGED <<confVars, args, granted, prepared, groupVars, taskVars,
                 flagVars, envVars, doneVars, results, ev, lateStarts>>

PoliciesStop ==
  /\ pc = "policies" /\ ~cancelled
  /\ stopped_preprocess_outcome(ev)
  /\ UNCHANGED <<confVars, gateVars, groupVars, taskVars, flagVars, envVars,
                 why, aborted, lateStarts>>

(* Second pass: the calls are settled one after the other.                 *)
NextCall ==
  IF i = N THEN i' = i /\ pc' = "groups" ELSE i' = i + 1 /\ pc' = "gate"

(* Whether approve_tool is called for c.                                   *)
should_call_approval_enabled_only(c) == mode = "Enabled"
should_call_approval(c) ==
  \/ mode = "Enabled"
  \/ mode = "Smart" /\ c \in RequiresApproval

GateCancelled ==
  /\ pc = "gate" /\ cancelled
  /\ build_aborted_outcome
  /\ UNCHANGED <<confVars, gateVars, groupVars, taskVars, flagVars, envVars,
                 why, aborted, ev, lateStarts>>

GateSkipped ==
  /\ pc = "gate" /\ ~cancelled /\ i \in skipped
  /\ emit_error_result(ev, i, "skipped")
  /\ NextCall
  /\ UNCHANGED <<confVars, skipped, args, cleared, granted, prepared,
                 groupVars, taskVars, flagVars, envVars, doneVars, lateStarts>>

GateOpen ==
  /\ pc = "gate" /\ ~cancelled /\ i \notin skipped
  /\ ~should_call_approval(i)
  /\ prepared' = prepared \union {i}
  /\ NextCall
  /\ UNCHANGED <<confVars, skipped, args, cleared, granted, groupVars,
                 taskVars, flagVars, envVars, doneVars, results, ev, lateStarts>>

(* check_approval(): ToolApprovalRequested, then wait for the decision.    *)
RequestApproval ==
  /\ pc = "gate" /\ ~cancelled /\ i \notin skipped
  /\ should_call_approval(i)
  /\ IF closed THEN ReturnChannelClosed
               ELSE pc' = "approval" /\ UNCHANGED <<outcome, results>>
  /\ ev' = emit(ev, i, "Requested")
  /\ UNCHANGED <<confVars, gateVars, groupVars, taskVars, flagVars, envVars,
                 why, aborted, lateStarts>>

(* The biased select prefers cancellation to a decision. *)
ApprovalCancelled ==
  /\ pc = "approval" /\ cancelled
  /\ ev' = emit(ev, i, "Denied")
  /\ IF closed THEN ReturnChannelClosed ELSE build_aborted_outcome
  /\ UNCHANGED <<confVars, gateVars, groupVars, taskVars, flagVars, envVars,
                 why, aborted, lateStarts>>

(* A decision that finds the receiver gone ends the batch.                 *)
DecisionUndelivered ==
  /\ pc = "approval" /\ ~cancelled /\ closed
  /\ ReturnChannelClosed
  /\ UNCHANGED <<confVars, gateVars, groupVars, taskVars, flagVars, envVars,
                 why, aborted, ev, lateStarts>>

Approve ==
  /\ pc = "approval" /\ ~cancelled /\ ~closed
  /\ ev' = emit(ev, i, "Approved")
  /\ granted' = granted \union {i}
  /\ prepared' = prepared \union {i}
  /\ NextCall
  /\ UNCHANGED <<confVars, skipped, args, cleared, groupVars, taskVars,
                 flagVars, envVars, doneVars, results, lateStarts>>

(* ApprovedWith: the new arguments go through the policies again, which    *)
(* may let them pass, skip the call or stop the batch.                     *)
ApproveWith ==
  /\ pc = "approval" /\ ~cancelled /\ ~closed
  /\ granted' = granted \union {i}
  /\ args' = [args EXCEPT ![i] = "edited"]
  /\ \/ /\ ev' = emit(ev, i, "Approved")
        /\ cleared' = [cleared EXCEPT ![i] = "edited"]
        /\ prepared' = prepared \union {i}
        /\ NextCall
        /\ UNCHANGED <<results, outcome>>
     \/ /\ emit_error_result(emit(ev, i, "Approved"), i, "skipped")
        /\ NextCall
        /\ UNCHANGED <<cleared, prepared, outcome>>
     \/ /\ stopped_preprocess_outcome(emit(ev, i, "Approved"))
        /\ UNCHANGED <<i, cleared, prepared>>
  /\ UNCHANGED <<confVars, skipped, groupVars, taskVars, flagVars, envVars,
                 why, aborted, lateStarts>>

(* Rejected, or the callback panicked (reject_approval_panic).             *)
Reject ==
  /\ pc = "approval" /\ ~cancelled /\ ~closed
  /\ emit_error_result(emit(ev, i, "Denied"), i, "rejected")
  /\ NextCall
  /\ UNCHANGED <<confVars, skipped, args, cleared, granted, prepared,
                 groupVars, taskVars, flagVars, envVars, doneVars, lateStarts>>
-----------------------------------------------------------------------------
(* Phase 2: compute_execution_groups().                                    *)

(* validate_custom_execution_groups(): a custom strategy answers with      *)
(* pairs of a position and the group it is put in.  Every position must be *)
(* in range, none repeated, none left out.                                 *)
validate_custom_execution_groups(pairs) ==
  /\ \A p \in pairs : p[1] \in prepared
  /\ \A p, q \in pairs : p[1] = q[1] => p = q
  /\ \A c \in prepared : \E p \in pairs : p[1] = c

GroupsOf(pairs) ==
  [c \in Calls |-> IF \E g \in 1..CustomGroups : <<c, g>> \in pairs
                   THEN CHOOSE g \in 1..CustomGroups : <<c, g>> \in pairs
                   ELSE 0]

(* How many groups there are: the last one is in use, except that a custom *)
(* strategy may answer with empty groups too.                              *)
GroupCounts(g) ==
  {k \in 1..(N + CustomGroups) :
     /\ \A c \in Calls : g[c] <= k
     /\ IF policy = "Custom" THEN k <= CustomGroups
                             ELSE \E c \in Calls : g[c] = k}

GroupsCancelled ==
  /\ pc = "groups" /\ cancelled
  /\ build_aborted_outcome
  /\ UNCHANGED <<confVars, gateVars, groupVars, taskVars, flagVars, envVars,
                 why, aborted, ev, lateStarts>>

NothingPrepared ==
  /\ pc = "groups" /\ ~cancelled /\ prepared = {}
  /\ Return("Completed", order_results_by_tool_calls(results), signal)
  /\ UNCHANGED <<confVars, gateVars, groupVars, taskVars, flagVars, envVars,
                 why, aborted, ev, lateStarts>>

(* Priorities are arbitrary, so any assignment of the prepared calls to    *)
(* consecutive groups is one that Priority can produce.                    *)
compute_execution_groups ==
  /\ pc = "groups" /\ ~cancelled /\ prepared # {}
  /\ \/ /\ policy = "Concurrent"
        /\ groupOf' = [c \in Calls |-> IF c \in prepared THEN 1 ELSE 0]
     \/ /\ policy = "Sequential"
        /\ groupOf' = [c \in Calls |->
                         IF c \in prepared
                         THEN Cardinality({d \in prepared : d <= c}) ELSE 0]
     \/ /\ policy = "Priority"
        /\ groupOf' \in [Calls -> 0..N]
        /\ \A c \in Calls :
             /\ c \in prepared <=> groupOf'[c] > 0
             /\ groupOf'[c] > 1 =>
                  \E d \in Calls : groupOf'[d] = groupOf'[c] - 1
     \/ /\ policy = "Custom"
        /\ \E q \in SUBSET (Calls \X (1..CustomGroups)) :
             validate_custom_execution_groups(q) /\ groupOf' = GroupsOf(q)
  /\ groupCount' \in GroupCounts(groupOf')
  /\ group' = 1
  /\ pc' = "group"
  /\ UNCHANGED <<confVars, gateVars, dispatched, handles, taskVars, flagVars,
                 envVars, doneVars, results, ev, lateStarts>>

(* An invalid custom partition turns every prepared call into an error.    *)
InvalidPartition ==
  /\ pc = "groups" /\ ~cancelled /\ prepared # {} /\ policy = "Custom"
  /\ \E q \in SUBSET (Calls \X (1..CustomGroups)) :
       ~validate_custom_execution_groups(q)
  /\ ev' = emit_errors(ev, prepared)
  /\ Return("Completed",
            order_results_by_tool_calls(error_results(prepared, "error")), None)
  /\ UNCHANGED <<confVars, gateVars, groupVars, taskVars, flagVars, envVars,
                 why, aborted, lateStarts>>
-----------------------------------------------------------------------------
(* Phase 3: run the groups one after the other.                            *)

Undispatched == {c \in prepared \ dispatched : groupOf[c] = group}

BeginGroup ==
  /\ pc = "group" /\ group <= groupCount
  /\ IF cancelled THEN build_aborted_outcome
                  ELSE pc' = "dispatch" /\ UNCHANGED <<outcome, results>>
  /\ UNCHANGED <<confVars, gateVars, groupVars, taskVars, flagVars, envVars,
                 why, aborted, ev, lateStarts>>

AllGroupsDone ==
  /\ pc = "group" /\ group > groupCount
  /\ Return("Completed", order_results_by_tool_calls(results), signal)
  /\ UNCHANGED <<confVars, gateVars, groupVars, taskVars, flagVars, envVars,
                 why, aborted, ev, lateStarts>>

(* Phase 3, dispatching: the calls of the group, in order; a custom        *)
(* strategy fixes the order itself.                                        *)
NextToDispatch(c) ==
  /\ c \in Undispatched
  /\ policy # "Custom" => \A d \in Undispatched : c <= d

CheckCancelled(c) ==
  /\ pc = "dispatch" /\ NextToDispatch(c)
  /\ IF cancelled THEN pc' = "grace" /\ why' = "DispatchAborted" /\ UNCHANGED i
                  ELSE pc' = "spawn" /\ i' = c /\ UNCHANGED why
  /\ UNCHANGED <<confVars, skipped, args, cleared, granted, prepared, groupVars,
                 taskVars, flagVars, envVars, outcome, aborted, results, ev,
                 lateStarts>>

(* dispatch_single_tool(): an unknown tool is answered inline.             *)
DispatchUnknown ==
  /\ pc = "spawn" /\ i \notin Known
  /\ emit_error_result(ev, i, "error")
  /\ dispatched' = dispatched \union {i}
  /\ pc' = "dispatch"
  /\ UNCHANGED <<confVars, gateVars, groupOf, groupCount, group, handles,
                 taskVars, flagVars, envVars, doneVars, lateStarts>>

(* Arguments that fail validation are spawned without ToolExecutionStart.  *)
DispatchInvalid ==
  /\ pc = "spawn" /\ i \in Known
  /\ task' = [task EXCEPT ![i] = "invalid"]
  /\ handles' = handles \union {i}
  /\ dispatched' = dispatched \union {i}
  /\ pc' = "dispatch"
  /\ UNCHANGED <<confVars, gateVars, groupOf, groupCount, group, ret, executed,
                 flagVars, envVars, doneVars, results, ev, lateStarts>>

DispatchValid ==
  /\ pc = "spawn" /\ i \in Known /\ ~closed
  /\ ev' = emit(ev, i, "Start")
  /\ lateStarts' = lateStarts + (IF cancelled THEN 1 ELSE 0)
  /\ task' = [task EXCEPT ![i] = "spawned"]
  /\ handles' = handles \union {i}
  /\ dispatched' = dispatched \union {i}
  /\ pc' = "dispatch"
  /\ UNCHANGED <<confVars, gateVars, groupOf, groupCount, group, ret, executed,
                 flagVars, envVars, doneVars, results>>

DispatchUndelivered ==
  /\ pc = "spawn" /\ i \in Known /\ closed
  /\ cancelled' = TRUE
  /\ pc' = "grace" /\ why' = "ChannelClosed"
  /\ UNCHANGED <<confVars, gateVars, groupVars, taskVars, flagVars, steering,
                 closed, outcome, aborted, results, ev, lateStarts>>

GroupDispatched ==
  /\ pc = "dispatch" /\ Undispatched = {}
  /\ pc' = "collect"
  /\ UNCHANGED <<confVars, gateVars, groupVars, taskVars, flagVars, envVars,
                 doneVars, results, ev, lateStarts>>
-----------------------------------------------------------------------------
(* The spawned task of call c.                                             *)

(* Validation or credential resolution failed.                             *)
TaskFail(c) ==
  /\ task[c] \in {"invalid", "spawned"}
  /\ task' = [task EXCEPT ![c] = "returned"]
  /\ ret' = [ret EXCEPT ![c] = "error"]
  /\ UNCHANGED <<confVars, pc, gateVars, groupVars, executed, flagVars, envVars,
                 doneVars, results, ev, lateStarts>>

TaskExecute(c) ==
  /\ task[c] = "spawned"
  /\ task' = [task EXCEPT ![c] = "running"]
  /\ executed' = executed \union {c}
  /\ UNCHANGED <<confVars, pc, gateVars, groupVars, ret, flagVars, envVars,
                 doneVars, results, ev, lateStarts>>

(* execute() returned; the first transfer signal to arrive is captured.    *)
TaskReturn(c) ==
  /\ task[c] = "running"
  /\ task' = [task EXCEPT ![c] = "returned"]
  /\ \/ ret' = [ret EXCEPT ![c] = "ok"] /\ UNCHANGED <<transferFlag, signal>>
     \/ /\ ret' = [ret EXCEPT ![c] = "transfer"]
        /\ signal' = IF signal = None THEN c ELSE signal
        /\ transferFlag' = TRUE
  /\ UNCHANGED <<confVars, pc, gateVars, groupVars, executed, steerFlag, envVars,
                 doneVars, results, ev, lateStarts>>

TaskPanic(c) ==
  /\ task[c] = "running"
  /\ task' = [task EXCEPT ![c] = "panicked"]
  /\ UNCHANGED <<confVars, pc, gateVars, groupVars, ret, executed, flagVars,
                 envVars, doneVars, results, ev, lateStarts>>

TaskEnd(c) ==
  /\ task[c] = "returned"
  /\ task' = [task EXCEPT ![c] = "ended"]
  /\ ev' = emit(ev, c, "End")
  /\ UNCHANGED <<confVars, pc, gateVars, groupVars, ret, executed, flagVars,
                 envVars, doneVars, results, lateStarts>>

(* The result is pushed; then has_steering() is asked.                     *)
TaskPush(c) ==
  /\ task[c] = "ended"
  /\ task' = [task EXCEPT ![c] = "done"]
  /\ results' = [results EXCEPT ![c] = ret[c]]
  /\ steerFlag' = (steerFlag \/ steering)
  /\ UNCHANGED <<confVars, pc, gateVars, groupVars, ret, executed, transferFlag,
                 signal, envVars, doneVars, ev, lateStarts>>

(* abort() takes effect at an await point; the task may get further first. *)
TaskKilled(c) ==
  /\ c \in aborted /\ task[c] \in Abortable
  /\ task' = [task EXCEPT ![c] = "killed"]
  /\ UNCHANGED <<confVars, pc, gateVars, groupVars, ret, executed, flagVars,
                 envVars, doneVars, results, ev, lateStarts>>

TaskStep(c) ==
  \/ TaskFail(c) \/ TaskExecute(c) \/ TaskReturn(c) \/ TaskPanic(c)
  \/ TaskEnd(c) \/ TaskPush(c) \/ TaskKilled(c)
-----------------------------------------------------------------------------
(* collect_group_results().                                                *)

(* futs.is_empty()                                                         *)
AllJoinedOneReady ==
  \/ handles = {}
  \/ /\ group < groupCount /\ ~steerFlag /\ ~transferFlag
     /\ \E c \in handles : task[c] \in Finished
AllJoined == handles = {}

GroupCollected ==
  /\ pc = "collect" /\ AllJoined
  /\ group' = group + 1
  /\ pc' = "group"
  /\ UNCHANGED <<confVars, gateVars, groupOf, groupCount, dispatched, handles,
                 taskVars, flagVars, envVars, doneVars, results, ev, lateStarts>>

(* The biased select prefers cancellation to a finished task.              *)
CollectCancelled ==
  /\ pc = "collect" /\ handles # {} /\ cancelled
  /\ pc' = "grace" /\ why' = "Aborted"
  /\ UNCHANGED <<confVars, gateVars, groupVars, taskVars, flagVars, envVars,
                 outcome, aborted, results, ev, lateStarts>>

JoinPanicked(c) ==
  /\ pc = "collect" /\ ~cancelled /\ c \in handles /\ task[c] = "panicked"
  /\ handles' = handles \ {c}
  /\ emit_error_result(ev, c, "error")
  /\ UNCHANGED <<confVars, pc, gateVars, groupOf, groupCount, group, dispatched,
                 taskVars, flagVars, envVars, doneVars, lateStarts>>

(* What a join that went well makes of the flags: steering comes first.    *)
InterruptUnlessLast ==
  IF Cardinality(handles) = 1 THEN "None"
  ELSE IF steerFlag THEN "SteeringInterrupt"
  ELSE IF transferFlag THEN "TransferInterrupt" ELSE "None"
Interrupt ==
  IF steerFlag THEN "SteeringInterrupt"
  ELSE IF transferFlag THEN "TransferInterrupt" ELSE "None"

JoinDone(c) ==
  /\ pc = "collect" /\ ~cancelled /\ c \in handles /\ task[c] = "done"
  /\ handles' = handles \ {c}
  /\ IF Interrupt = "None"
     THEN UNCHANGED <<pc, cancelled, why>>
     ELSE pc' = "grace" /\ cancelled' = TRUE /\ why' = Interrupt
  /\ UNCHANGED <<confVars, gateVars, groupOf, groupCount, group, dispatched,
                 taskVars, flagVars, steering, closed, outcome, aborted, results,
                 ev, lateStarts>>

(* The drained joins that get an error result (emit_join_failure). *)
join_failures(J) == {c \in J : task[c] = "panicked"}

(* cancel_remaining_with_bounded_wait() and the outcome builders.  The     *)
(* drain joins some of the finished tasks (set J) before the grace period  *)
(* is over and aborts the others; panics it met become error results,      *)
(* except where the join results are thrown away.                          *)
GraceOver ==
  /\ pc = "grace"
  /\ \E J \in SUBSET {c \in handles : task[c] \in Finished} :
       LET bad == IF why \in {"DispatchAborted", "ChannelClosed"} THEN {}
                  ELSE join_failures(J)
           res == error_results(bad, "error")
       IN  /\ aborted' = aborted \union (handles \ J)
           /\ ev' = emit_errors(ev, bad)
           /\ \/ /\ why = "SteeringInterrupt"
                 /\ Return("SteeringInterrupt", fill_cancelled(res), None)
              \/ /\ why = "TransferInterrupt"
                 /\ Return("Completed", fill_cancelled(res), signal)
              \/ /\ why \in {"Aborted", "DispatchAborted"}
                 /\ Return("Aborted", fill_cancelled(res), None)
              \/ why = "ChannelClosed" /\ ReturnChannelClosed
  /\ handles' = {}
  /\ steering' = (steering /\ why # "SteeringInterrupt")   \* poll_steering()
  /\ UNCHANGED <<confVars, gateVars, groupOf, groupCount, group, dispatched,
                 taskVars, flagVars, cancelled, closed, why, lateStarts>>
-----------------------------------------------------------------------------
(* The environment.                                                        *)

Cancel ==
  /\ "Cancel" \in Disturbances /\ pc # "done"
  /\ ~cancelled /\ cancelled' = TRUE
  /\ UNCHANGED <<confVars, pc, gateVars, groupVars, taskVars, flagVars,
                 steering, closed, doneVars, results, ev, lateStarts>>

Steer ==
  /\ "Steer" \in Disturbances /\ pc # "done"
  /\ ~steering /\ steering' = TRUE
  /\ UNCHANGED <<confVars, pc, gateVars, groupVars, taskVars, flagVars,
                 cancelled, closed, doneVars, results, ev, lateStarts>>

DropReceiver ==
  /\ "DropReceiver" \in Disturbances /\ pc # "done"
  /\ ~closed /\ closed' = TRUE
  /\ UNCHANGED <<confVars, pc, gateVars, groupVars, taskVars, flagVars,
                 steering, cancelled, doneVars, results, ev, lateStarts>>
-----------------------------------------------------------------------------
Init ==
  /\ mode \in ApprovalModes /\ policy \in ExecutionPolicies
  /\ pc = "policies" /\ i = 1
  /\ skipped = {} /\ granted = {} /\ prepared = {}
  /\ args = [c \in Calls |-> "given"]
  /\ cleared = [c \in Calls |-> "none"]
  /\ groupOf = [c \in Calls |-> 0] /\ groupCount = 0 /\ group = 0
  /\ dispatched = {} /\ handles = {}
  /\ task = [c \in Calls |-> "none"] /\ ret = [c \in Calls |-> "none"]
  /\ executed = {} /\ aborted = {}
  /\ results = [c \in Calls |-> "none"]
  /\ steering = FALSE /\ steerFlag = FALSE
  /\ transferFlag = FALSE /\ signal = None
  /\ cancelled = FALSE /\ closed = FALSE
  /\ why = "None" /\ outcome = NoOutcome
  /\ ev = [c \in Calls |-> <<>>] /\ lateStarts = 0

(* What the coordinator does of itself; the approval callback's answer is  *)
(* not its own step.                                                       *)
Coordinator ==
  \/ PoliciesCancelled \/ PoliciesPass \/ PoliciesStop
  \/ GateCancelled \/ GateSkipped \/ GateOpen \/ RequestApproval
  \/ ApprovalCancelled
  \/ GroupsCancelled \/ NothingPrepared \/ compute_execution_groups
  \/ InvalidPartition \/ BeginGroup \/ AllGroupsDone
  \/ (\E c \in Calls : CheckCancelled(c))
  \/ DispatchUnknown \/ DispatchInvalid \/ DispatchValid
  \/ DispatchUndelivered \/ GroupDispatched \/ GroupCollected
  \/ CollectCancelled \/ (\E c \in Calls : JoinPanicked(c) \/ JoinDone(c))
  \/ GraceOver

Decision == Approve \/ ApproveWith \/ Reject \/ DecisionUndelivered

Next ==
  \/ Coordinator
  \/ Decision
  \/ \E c \in Calls : TaskStep(c)
  \/ Cancel \/ Steer \/ DropReceiver

Spec == Init /\ [][Next]_vars

(* The runtime polls the loop task, and the grace timer fires; nothing is  *)
(* assumed of tools and of the approval callback, which may hang.          *)
FairCoordinator == WF_vars(Coordinator)
(* The spawned tasks run, their tools return, the approver answers.        *)
FairTools == /\ WF_vars(Decision)
             /\ \A c \in Calls : WF_vars(TaskStep(c))

FairSpec == Spec /\ FairCoordinator
-----------------------------------------------------------------------------
(* Properties.                                                             *)

TypeGate ==
  /\ mode \in Modes /\ policy \in Policies /\ pc \in PCs /\ i \in Calls
  /\ skipped \subseteq Calls /\ granted \subseteq Calls
  /\ prepared \subseteq Calls
  /\ args \in [Calls -> {"given", "edited"}]
  /\ cleared \in [Calls -> {"none", "given", "edited"}]
TypeGroup ==
  /\ dispatched \subseteq Calls /\ handles \subseteq Calls
  /\ groupOf \in [Calls -> 0..(N + CustomGroups)]
  /\ groupCount \in 0..(N + CustomGroups) /\ group \in Nat
TypeTask ==
  /\ executed \subseteq Calls /\ aborted \subseteq Calls
  /\ task \in [Calls -> TaskStates]
  /\ ret \in [Calls -> {"none", "ok", "transfer", "error"}]
TypeFlags ==
  /\ steering \in BOOLEAN /\ steerFlag \in BOOLEAN
  /\ transferFlag \in BOOLEAN /\ signal \in Calls \union {None}
  /\ cancelled \in BOOLEAN /\ closed \in BOOLEAN
Table    == [Calls -> Kinds \union {"none"}]
OutTable == [Calls -> Kinds \union {"none", "cancelled"}]
Outcomes ==
  [kind : {"None", "Completed", "Stopped", "Aborted", "SteeringInterrupt",
           "ChannelClosed"},
   results : OutTable, transfer : Calls \union {None}]
TypeOutcome ==
  /\ results \in Table /\ outcome \in Outcomes
  /\ why \in {"None", "DispatchAborted", "ChannelClosed", "Aborted",
              "SteeringInterrupt", "TransferInterrupt"}
TypeEvents == ev \in [Calls -> Seq(Events)] /\ lateStarts \in Nat

(* Every variable of the batch stays in the set of values the code's types *)
(* and loops allow.                                                        *)
TypeInvariant ==
  TypeGate /\ TypeGroup /\ TypeTask /\ TypeFlags /\ TypeOutcome /\ TypeEvents

(* Whatever policies, approvals, panics, cancellation, steering or a       *)
(* transfer did to the batch, the outcome holds a result for every tool    *)
(* call the model made; only a closed channel ends a batch without.  A     *)
(* provider refuses a history in which a tool call has no result.          *)
ResultParity ==
  pc = "done" /\ outcome.kind # "ChannelClosed" =>
    \A c \in Calls : outcome.results[c] # "none"

(* The inductive strengthening of ResultParity: who answers a call that    *)
(* has no result yet, at every point of the batch.                         *)
Settled(c) == results[c] # "none"
(* gates: a call the walk has passed is settled or prepared                *)
GatesAccounted ==
  /\ pc \in {"gate", "approval"} =>
       \A c \in Calls : c < i => Settled(c) \/ c \in prepared
  /\ pc = "groups" => \A c \in Calls : Settled(c) \/ c \in prepared
  /\ pc \in {"policies", "gate", "approval", "groups"} =>
       handles = {} /\ dispatched = {}
(* groups: it is being run, or waits in this group or in one still to come *)
GroupsAccounted ==
  /\ pc \in {"group", "dispatch", "spawn", "collect"} =>
       \A c \in Calls : \/ Settled(c) \/ c \in handles
                        \/ /\ c \in prepared \ dispatched
                           /\ group <= groupOf[c] /\ groupOf[c] <= groupCount
                           /\ pc = "collect" => group < groupOf[c]
  /\ pc = "group" => handles = {}
(* tasks: a task that is done has pushed what it returned                  *)
TasksAccounted ==
  \A c \in Calls : /\ task[c] \in {"returned", "ended"} => ret[c] # "none"
                   /\ pc # "done" /\ task[c] = "done" => Settled(c)
Accounted == GatesAccounted /\ GroupsAccounted /\ TasksAccounted

(* A tool body runs only with arguments the pre-dispatch policies let pass *)
(* and, where the approval mode gates the call, only after the callback    *)
(* approved it - also when the approver edited the arguments.              *)
ExecutionCleared ==
  \A c \in executed :
    /\ c \notin skipped /\ cleared[c] = args[c]
    /\ mode = "Enabled" \/ (mode = "Smart" /\ c \in RequiresApproval)
         => c \in granted

(* The canonical order of the events of one call (check_approval's         *)
(* contract): requested, resolved, start, end, each at most once; a start  *)
(* only for a call that was not denied, and after a cancellation only one, *)
(* for the call whose check had already passed.                            *)
Rank(e) == CASE e = "Requested" -> 1 [] e \in {"Approved", "Denied"} -> 2
             [] e = "Start" -> 3 [] e = "End" -> 4
CanonicalOrder ==
  \A c \in Calls :
    /\ \A m \in 1..(Len(ev[c]) - 1) : Rank(ev[c][m]) < Rank(ev[c][m + 1])
    /\ "Start" \in {ev[c][m] : m \in 1..Len(ev[c])} =>
         "Denied" \notin {ev[c][m] : m \in 1..Len(ev[c])}
    /\ lateStarts <= 1

(* Groups are sequential: a task exists only once every call of the        *)
(* earlier groups has its result and has been joined.                      *)
GroupBarrier ==
  pc # "done" =>
    \A c, d \in prepared :
      groupOf[c] < groupOf[d] /\ task[d] # "none" =>
        results[c] # "none" /\ c \notin handles

(* What a subscriber sees of a batch: the events of each call in their     *)
(* canonical order, and the groups one after the other.                    *)
BatchOrdered == CanonicalOrder /\ GroupBarrier

(* Once a tool of a group saw steering or asked for a transfer, the batch  *)
(* does not go on to another group: the task that raised the flag is       *)
(* joined, and the flag read, before the group is left.                    *)
InterruptEndsBatch == [][steerFlag \/ transferFlag => group' = group]_vars

(* A batch that is cancelled ends, even if its tools and its approval      *)
(* callback never answer.                                                  *)
CancelEndsBatch == cancelled ~> (pc = "done")

(* If tools return and the approver answers, every batch ends.             *)
BatchEnds == FairTools => <>(pc = "done")
=============================================================================
